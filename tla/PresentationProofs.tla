------------------------- MODULE PresentationProofs -------------------------
(***************************************************************************)
(* Proofs about Presentation, for any numbers of processes, requests,      *)
(* states and calls, any delivery of requests, with consistent reads and   *)
(* with stale ones: a response is accepted for the request it answers, a   *)
(* transaction is answered once, an open transaction stays bound, and a    *)
(* request object is retrieved once.                                       *)
(***************************************************************************)
EXTENDS Presentation, TLAPS

\* Nothing is stored for a request before it is created, and a request that was
\* sent is complete; an answered transaction is gone for good.
StoreInv ==
    /\ \A q \in txs \cup nonces \cup objects : request[q].pc \in {"register", "done"}
    /\ \A q \in sent : request[q].pc = "done"
    /\ answered \subseteq sent
    /\ answered \cap txs = {}

\* A state is bound only to a transaction that was sent, in the process that made
\* its request and under the state of that request.
BindingInv ==
    \A p \in Processes, s \in States :
        LET q == byState[p][s]
        IN  q \in Txs => q \in sent /\ request[q].at = p /\ request[q].state = s

\* Nobody can have another request with the state of q.
Alone(q) == \A q2 \in Txs \ {q} :
    request[q2].pc = "idle" \/ request[q2].state # request[q].state

\* The checks of the response k have been passed.
Checked(k) ==
    /\ callback[k].nonce \in {callback[k].tx, NoTx}
    /\ callback[k].state = request[callback[k].tx].state
    /\ callback[k].tx \notin callback[k].late

\* What a response relies on, by how far it has come.
CallbackInv(k) ==
    /\ reply[k] = "ok" => callback[k].pc = "done"
    /\ callback[k].late \subseteq answered
    /\ callback[k].pc \notin {"idle", "done"} \/ reply[k] = "ok" =>
          callback[k].tx \in sent
    /\ callback[k].pc \in {"validate", "revoke", "delete"} \/ reply[k] = "ok" =>
          Checked(k)

\* What a retrieval relies on: an object that was sent is gone, and on consistent
\* reads one that was found had not been sent before.
FetchInv(f) ==
    /\ reply[f] = "ok" => fetch[f].pc = "done" /\ fetch[f].id \notin objects
    /\ fetch[f].pc \in {"sign", "delete"} \/ reply[f] = "ok" =>
          /\ fetch[f].id \in sent
          /\ ~workload.staleReads => ~fetch[f].late

IInv ==
    /\ TypeOK
    /\ StoreInv
    /\ BindingInv
    /\ OpenTransactionIsBound
    /\ \A k \in Callbacks : CallbackInv(k)
    /\ \A f \in Fetches : FetchInv(f)

-----------------------------------------------------------------------------
(* Frames *)

\* What no step takes back, and what nothing is added to.
Grows ==
    /\ workload' = workload
    /\ sent \subseteq sent' /\ answered \subseteq answered'
    /\ \A q \in sent : request'[q] = request[q]
    /\ objects' \cap sent \subseteq objects

\* A response that a step leaves alone relies on what it relied on.
LEMMA KeptCallback ==
    ASSUME IInv, Grows, NEW k \in Callbacks,
           callback'[k] = callback[k], reply'[k] = reply[k]
    PROVE  CallbackInv(k)'
  <1>1. CallbackInv(k)
    BY DEF IInv
  <1>2. callback[k].tx \in sent => request'[callback[k].tx] = request[callback[k].tx]
    BY DEF Grows
  <1>3. QED
    BY <1>1, <1>2 DEF CallbackInv, Checked, Grows

\* So does a retrieval.
LEMMA KeptFetch ==
    ASSUME IInv, Grows, NEW f \in Fetches,
           fetch'[f] = fetch[f], reply'[f] = reply[f]
    PROVE  FetchInv(f)'
  <1>1. FetchInv(f)
    BY DEF IInv
  <1>2. QED
    BY <1>1 DEF FetchInv, Grows

\* The calls of one kind are not calls of another.
LEMMA CallsApart ==
    /\ \A q \in Txs : q \in Calls /\ q \notin Callbacks /\ q \notin Fetches
    /\ \A f \in Fetches : f \in Calls /\ f \notin Callbacks /\ f \notin Txs
    /\ \A k \in Callbacks : k \in Calls /\ k \notin Fetches /\ k \notin Txs
    /\ \A d \in Cancels : d \in Calls /\ d \notin Fetches /\ d \notin Callbacks
  BY PresentationAssumption DEF Calls

\* An answer is an answer to its call only.
LEMMA Answered ==
    ASSUME TypeOK, NEW c \in Calls, NEW a \in Outcomes, Answer(c, a)
    PROVE  /\ reply' \in [Calls -> Outcomes]
           /\ reply'[c] = a
           /\ \A d \in Calls \ {c} : reply'[d] = reply[d]
  BY DEF TypeOK, Answer

\* What a call keeps about itself.
RequestRecord == [pc : {"idle", "create", "register", "done"},
                  at : Processes, state : States, uri : BOOLEAN]
FetchRecord == [pc : {"idle", "sign", "delete", "done"},
                id : Txs \cup {NoTx}, late : BOOLEAN]
CallbackRecord == [pc : {"idle", "fetch", "validate", "revoke", "delete", "done"},
                   at : Processes, state : States, nonce : Txs \cup {NoTx},
                   tx : Txs \cup {NoTx}, late : SUBSET Txs]
CancelRecord == [pc : {"idle", "delete", "done"}, at : Processes,
                 tx : Txs \cup {NoTx}]

\* The types of the calls and their replies.
CallTypes ==
    /\ request \in [Txs -> RequestRecord]
    /\ fetch \in [Fetches -> FetchRecord]
    /\ callback \in [Callbacks -> CallbackRecord]
    /\ cancel \in [Cancels -> CancelRecord]
    /\ reply \in [Calls -> Outcomes]

\* The types of the stores and of the histories.
StoreTypes ==
    /\ workload \in Workloads
    /\ byState \in [Processes -> [States -> Txs \cup {Free, Reserved}]]
    /\ txs \subseteq Txs /\ nonces \subseteq Txs
    /\ objects \subseteq {q \in Txs : request[q].uri}
    /\ sent \subseteq Txs /\ answered \subseteq Txs /\ dropped \subseteq Txs

\* Together they are the type invariant.
LEMMA Types == TypeOK <=> StoreTypes /\ CallTypes
  BY DEF TypeOK, StoreTypes, CallTypes, RequestRecord, FetchRecord, CallbackRecord,
     CancelRecord

\* After a step, too.
LEMMA NextTypes == StoreTypes' /\ CallTypes' => TypeOK'
  BY DEF TypeOK, StoreTypes, CallTypes, RequestRecord, FetchRecord, CallbackRecord,
     CancelRecord

\* A workload has its type.
LEMMA WorkloadType ==
    ASSUME TypeOK
    PROVE  workload.byReference \subseteq BOOLEAN /\ workload.staleReads \in BOOLEAN
  BY PresentationAssumption DEF TypeOK, Workload

\* The records the calls begin and end with.
LEMMA RecordTypes ==
    /\ AnyProcess \in Processes /\ AnyState \in States
    /\ Failed.pc = "done" /\ Failed.late = {}
    /\ NoCallback \in CallbackRecord /\ Failed \in CallbackRecord
    /\ NoCancel \in CancelRecord /\ [NoCancel EXCEPT !.pc = "done"] \in CancelRecord
  <1>1. AnyProcess \in Processes /\ AnyState \in States
    BY PresentationAssumption DEF AnyProcess, AnyState
  <1>2. QED
    BY <1>1 DEF NoCallback, Failed, NoCancel, CallbackRecord, CancelRecord

\* Calls that a step does not touch keep what they rely on.
LEMMA CallsKept ==
    ASSUME IInv, Grows, UNCHANGED <<callback, fetch>>,
           \A c \in Callbacks \cup Fetches : reply'[c] = reply[c]
    PROVE  /\ \A k \in Callbacks : CallbackInv(k)'
           /\ \A f \in Fetches : FetchInv(f)'
  BY KeptCallback, KeptFetch

\* An open transaction stays bound when no request gives its state up, and the
\* step takes no binding from a transaction nobody shares the state with.
LEMMA OpenKept ==
    ASSUME IInv,
           sent' = sent, answered \subseteq answered', dropped \subseteq dropped',
           \A q \in sent : request'[q] = request[q],
           \A q \in Txs : request[q].pc # "idle" =>
               request'[q].pc # "idle" /\ request'[q].state = request[q].state,
           \A q \in sent \ (answered' \cup dropped') :
               Alone(q) /\ byState[request[q].at][request[q].state] = q =>
                   byState'[request[q].at][request[q].state] = q
    PROVE  OpenTransactionIsBound'
  <1> SUFFICES ASSUME NEW q \in sent \ (answered' \cup dropped'), Alone(q)'
               PROVE  byState'[request'[q].at][request'[q].state] = q
    BY DEF OpenTransactionIsBound, Alone
  <1>1. request'[q] = request[q] /\ q \in Txs
    BY DEF IInv, TypeOK
  <1>2. Alone(q)
    BY <1>1 DEF Alone
  <1>3. byState[request[q].at][request[q].state] = q
    BY <1>2 DEF IInv, OpenTransactionIsBound, Alone
  <1>4. QED
    BY <1>1, <1>2, <1>3

-----------------------------------------------------------------------------
(* GET /request.jwt *)

\* The invariant after a step of one retrieval.
LEMMA FetchStepOf ==
    ASSUME IInv, NEW f \in Fetches, NEW F \in FetchRecord,
           fetch' = [fetch EXCEPT ![f] = F],
           reply' \in [Calls -> Outcomes], \A c \in Calls \ {f} : reply'[c] = reply[c],
           objects' \subseteq objects, FetchInv(f)',
           UNCHANGED <<workload, byState, txs, nonces, request, callback, cancel,
                       histVars>>
    PROVE  IInv'
  <1>1. Grows
    BY DEF Grows, histVars
  <1>2. TypeOK'
    <2>1. StoreTypes /\ CallTypes
      BY Types DEF IInv
    <2>2. StoreTypes' /\ CallTypes'
      BY <2>1 DEF StoreTypes, CallTypes, histVars
    <2>3. QED
      BY <2>2, NextTypes
  <1>3. StoreInv' /\ BindingInv'
    BY DEF IInv, StoreInv, BindingInv, histVars
  <1>4. OpenTransactionIsBound'
    BY OpenKept DEF histVars
  <1>5. \A k \in Callbacks : CallbackInv(k)'
    BY <1>1, KeptCallback, CallsApart
  <1>6. ASSUME NEW g \in Fetches \ {f}
        PROVE  FetchInv(g)'
    <2>1. fetch'[g] = fetch[g] /\ reply'[g] = reply[g]
      BY CallsApart, Types DEF IInv, CallTypes
    <2>2. QED
      BY <1>1, <2>1, KeptFetch
  <1>7. QED
    BY <1>2, <1>3, <1>4, <1>5, <1>6 DEF IInv

\* On consistent reads an object that is found has not been sent before.
LEMMA FetchSteps ==
    ASSUME IInv, UNCHANGED workload, NEW f \in Fetches,
           \/ \E q \in sent : FetchRequestObject(f, q) \/ RequestObjectNotFound(f, q)
           \/ SignRequestObject(f) \/ DeleteRequestObject(f) \/ FetchFails(f)
    PROVE  IInv'
  <1>1. f \in Calls /\ fetch[f] \in FetchRecord /\ FetchInv(f) /\ reply[f] \in Outcomes
        /\ reply \in [Calls -> Outcomes] /\ fetch \in [Fetches -> FetchRecord]
        /\ sent \subseteq Txs
    BY CallsApart, Types DEF IInv, CallTypes, StoreTypes
  <1>2. ASSUME NEW q \in sent, FetchRequestObject(f, q)
        PROVE  IInv'
    <2> DEFINE F == [pc |-> "sign", id |-> q, late |-> Retrieved(q)]
    <2>1. F \in FetchRecord
      BY <1>1 DEF FetchRecord, Retrieved
    <2>2. /\ fetch' = [fetch EXCEPT ![f] = F] /\ fetch'[f] = F /\ reply' = reply
          /\ reply[f] # "ok"
          /\ UNCHANGED <<workload, byState, txs, nonces, objects, request, callback,
                         cancel, histVars>>
      BY <1>1, <1>2 DEF FetchRequestObject, FetchInv, storeVars
    <2>3. ~workload.staleReads => ~Retrieved(q)
      BY <1>2 DEF FetchRequestObject, Retrieved, IInv, FetchInv
    <2>4. FetchInv(f)'
      BY <2>2, <2>3 DEF FetchInv, histVars
    <2>5. QED
      BY <1>1, <2>1, <2>2, <2>4, FetchStepOf
  <1>3. ASSUME NEW q \in sent, RequestObjectNotFound(f, q)
        PROVE  IInv'
    <2> DEFINE F == [pc |-> "done", id |-> q, late |-> Retrieved(q)]
    <2>1. F \in FetchRecord
      BY <1>1 DEF FetchRecord, Retrieved
    <2>2. /\ fetch' = [fetch EXCEPT ![f] = F] /\ fetch'[f] = F
          /\ UNCHANGED <<workload, byState, txs, nonces, objects, request, callback,
                         cancel, histVars>>
      BY <1>1, <1>3 DEF RequestObjectNotFound, storeVars
    <2>3. /\ reply' \in [Calls -> Outcomes] /\ reply'[f] = "request_object_not_found"
          /\ \A c \in Calls \ {f} : reply'[c] = reply[c]
      BY <1>1, <1>3, Answered DEF RequestObjectNotFound, Outcomes, IInv
    <2>4. FetchInv(f)'
      BY <2>2, <2>3 DEF FetchInv
    <2>5. QED
      BY <2>1, <2>2, <2>3, <2>4, FetchStepOf
  <1>4. CASE SignRequestObject(f)
    <2> DEFINE F == [fetch[f] EXCEPT !.pc = "delete"]
    <2>1. F \in FetchRecord /\ F.pc = "delete" /\ F.id = fetch[f].id
          /\ F.late = fetch[f].late
      BY <1>1 DEF FetchRecord
    <2>2. /\ fetch' = [fetch EXCEPT ![f] = F] /\ fetch'[f] = F /\ reply' = reply
          /\ fetch[f].pc = "sign"
          /\ UNCHANGED <<workload, byState, txs, nonces, objects, request, callback,
                         cancel, histVars>>
      BY <1>1, <1>4 DEF SignRequestObject, storeVars
    <2>3. FetchInv(f)'
      BY <1>1, <2>1, <2>2 DEF FetchInv, histVars
    <2>4. QED
      BY <1>1, <2>1, <2>2, <2>3, FetchStepOf
  <1>5. CASE DeleteRequestObject(f)
    <2> DEFINE F == [fetch[f] EXCEPT !.pc = "done"]
    <2>1. F \in FetchRecord /\ F.pc = "done" /\ F.id = fetch[f].id
          /\ F.late = fetch[f].late
      BY <1>1 DEF FetchRecord
    <2>2. /\ fetch' = [fetch EXCEPT ![f] = F] /\ fetch'[f] = F
          /\ fetch[f].pc = "delete" /\ objects' = objects \ {fetch[f].id}
          /\ UNCHANGED <<workload, byState, txs, nonces, request, callback, cancel,
                         histVars>>
      BY <1>1, <1>5 DEF DeleteRequestObject, histVars
    <2>3. /\ reply' \in [Calls -> Outcomes] /\ \A c \in Calls \ {f} : reply'[c] = reply[c]
      BY <1>1, <1>5, Answered DEF DeleteRequestObject, Outcomes, IInv
    <2>4. FetchInv(f)'
      BY <1>1, <2>1, <2>2 DEF FetchInv, histVars
    <2>5. QED
      BY <2>1, <2>2, <2>3, <2>4, FetchStepOf
  <1>6. CASE FetchFails(f)
    <2> DEFINE F == [fetch[f] EXCEPT !.pc = "done"]
    <2>1. F \in FetchRecord /\ F.pc = "done"
      BY <1>1 DEF FetchRecord
    <2>2. /\ fetch' = [fetch EXCEPT ![f] = F] /\ fetch'[f] = F
          /\ UNCHANGED <<workload, byState, txs, nonces, objects, request, callback,
                         cancel, histVars>>
      BY <1>1, <1>6 DEF FetchFails, storeVars
    <2>3. /\ reply' \in [Calls -> Outcomes] /\ reply'[f] = "failure"
          /\ \A c \in Calls \ {f} : reply'[c] = reply[c]
      BY <1>1, <1>6, Answered DEF FetchFails, Outcomes, IInv
    <2>4. FetchInv(f)'
      BY <2>1, <2>2, <2>3 DEF FetchInv
    <2>5. QED
      BY <2>1, <2>2, <2>3, <2>4, FetchStepOf
  <1>7. QED
    BY <1>2, <1>3, <1>4, <1>5, <1>6

-----------------------------------------------------------------------------
(* POST /callback *)

\* The invariant after a step of one response that gives nothing up but, perhaps,
\* a nonce.
LEMMA CallbackStepOf ==
    ASSUME IInv, NEW k \in Callbacks, NEW C \in CallbackRecord,
           callback' = [callback EXCEPT ![k] = C],
           reply' \in [Calls -> Outcomes], \A c \in Calls \ {k} : reply'[c] = reply[c],
           nonces' \subseteq nonces, CallbackInv(k)',
           UNCHANGED <<workload, byState, txs, objects, request, fetch, cancel,
                       histVars>>
    PROVE  IInv'
  <1>1. Grows
    BY DEF Grows, histVars
  <1>2. TypeOK'
    <2>1. StoreTypes /\ CallTypes
      BY Types DEF IInv
    <2>2. StoreTypes' /\ CallTypes'
      BY <2>1 DEF StoreTypes, CallTypes, histVars
    <2>3. QED
      BY <2>2, NextTypes
  <1>3. StoreInv' /\ BindingInv'
    BY DEF IInv, StoreInv, BindingInv, histVars
  <1>4. OpenTransactionIsBound'
    BY OpenKept DEF histVars
  <1>5. \A f \in Fetches : FetchInv(f)'
    BY <1>1, KeptFetch, CallsApart
  <1>6. ASSUME NEW g \in Callbacks \ {k}
        PROVE  CallbackInv(g)'
    <2>1. callback'[g] = callback[g] /\ reply'[g] = reply[g]
      BY CallsApart, Types DEF IInv, CallTypes
    <2>2. QED
      BY <1>1, <2>1, KeptCallback
  <1>7. QED
    BY <1>2, <1>3, <1>4, <1>5, <1>6 DEF IInv

\* A response that is over without being accepted relies on nothing.
LEMMA CallbackOver ==
    ASSUME IInv, NEW k \in Callbacks, NEW C \in CallbackRecord,
           C.pc = "done", C.late = {}, callback' = [callback EXCEPT ![k] = C],
           NEW a \in Outcomes \ {"ok"}, Answer(k, a),
           UNCHANGED <<workload, storeVars, request, fetch, cancel, histVars>>
    PROVE  IInv'
  <1>1. /\ reply' \in [Calls -> Outcomes] /\ reply'[k] = a
        /\ \A c \in Calls \ {k} : reply'[c] = reply[c]
    BY Answered, CallsApart DEF IInv
  <1>2. callback'[k] = C
    BY Types DEF IInv, CallTypes
  <1>3. CallbackInv(k)'
    BY <1>1, <1>2 DEF CallbackInv
  <1>4. QED
    BY <1>1, <1>3, CallbackStepOf DEF storeVars

\* A response that goes on keeps what it arrived with.
LEMMA CallbackGoesOn ==
    ASSUME IInv, NEW k \in Callbacks, NEW l \in {"validate", "revoke", "delete"},
           callback[k].pc \notin {"idle", "done"},
           callback' = [callback EXCEPT ![k].pc = l], reply' = reply,
           nonces' \subseteq nonces, Checked(k),
           UNCHANGED <<workload, byState, txs, objects, request, fetch, cancel,
                       histVars>>
    PROVE  IInv'
  <1> DEFINE C == [callback[k] EXCEPT !.pc = l]
  <1>1. /\ CallbackInv(k) /\ callback[k] \in CallbackRecord
        /\ reply \in [Calls -> Outcomes] /\ callback \in [Callbacks -> CallbackRecord]
    BY Types DEF IInv, CallTypes
  <1>2. /\ C \in CallbackRecord /\ C.pc = l /\ C.nonce = callback[k].nonce
        /\ C.tx = callback[k].tx /\ C.state = callback[k].state
        /\ C.late = callback[k].late
    BY <1>1 DEF CallbackRecord
  <1>3. callback' = [callback EXCEPT ![k] = C] /\ callback'[k] = C
    BY <1>1
  <1>4. CallbackInv(k)'
    BY <1>1, <1>2, <1>3 DEF CallbackInv, Checked, histVars
  <1>5. QED
    BY <1>1, <1>2, <1>3, <1>4, CallbackStepOf

\* The response is accepted: its transaction is closed, and the state it gives up
\* is the transaction's own, so that no other open transaction loses it.
LEMMA AcceptStep ==
    ASSUME IInv, UNCHANGED workload, NEW k \in Callbacks, Accept(k)
    PROVE  IInv'
  <1> DEFINE tx == callback[k].tx
             at == callback[k].at
             s == callback[k].state
             C == [callback[k] EXCEPT !.pc = "done"]
  <1>1. /\ k \in Calls /\ CallbackInv(k) /\ StoreTypes /\ CallTypes
        /\ StoreInv /\ BindingInv /\ callback[k] \in CallbackRecord
    BY CallsApart, Types DEF IInv, CallTypes
  <1>2. /\ callback[k].pc = "delete" /\ txs' = txs \ {tx} /\ Consume(at, s)
        /\ callback' = [callback EXCEPT ![k].pc = "done"] /\ Answer(k, "ok")
        /\ answered' = answered \cup {tx}
        /\ UNCHANGED <<nonces, objects, request, fetch, cancel, sent, dropped>>
    BY DEF Accept
  <1>3. /\ reply' \in [Calls -> Outcomes] /\ reply'[k] = "ok"
        /\ \A c \in Calls \ {k} : reply'[c] = reply[c]
    BY <1>1, <1>2, Answered DEF IInv, Outcomes
  <1>4. /\ C \in CallbackRecord /\ C.pc = "done" /\ C.nonce = callback[k].nonce
        /\ C.tx = tx /\ C.state = s /\ C.late = callback[k].late
        /\ at \in Processes /\ s \in States
    BY <1>1 DEF CallbackRecord
  <1>5. callback' = [callback EXCEPT ![k] = C] /\ callback'[k] = C
    BY <1>1, <1>2 DEF CallTypes
  <1>6. tx \in sent /\ tx \in Txs /\ Checked(k)
    BY <1>1, <1>2 DEF CallbackInv, StoreTypes
  <1>7. /\ \A p \in Processes, u \in States :
              byState'[p][u] = IF p = at /\ u = s THEN Free ELSE byState[p][u]
        /\ byState' \in [Processes -> [States -> Txs \cup {Free, Reserved}]]
    BY <1>1, <1>2, <1>4 DEF StoreTypes, Consume
  <1>8. Grows
    BY <1>2 DEF Grows
  <1>9. TypeOK'
    <2>1. StoreTypes'
      BY <1>1, <1>2, <1>6, <1>7 DEF StoreTypes
    <2>2. CallTypes'
      BY <1>1, <1>2, <1>3, <1>4, <1>5 DEF CallTypes
    <2>3. QED
      BY <2>1, <2>2, NextTypes
  <1>10. StoreInv'
    BY <1>1, <1>2, <1>6 DEF StoreInv
  <1>11. BindingInv'
    <2>1. Free \notin Txs
      BY PresentationAssumption
    <2>2. QED
      BY <1>1, <1>2, <1>7, <2>1 DEF BindingInv
  <1>12. OpenTransactionIsBound'
    <2>1. ASSUME NEW q \in sent \ (answered' \cup dropped'), Alone(q),
                 byState[request[q].at][request[q].state] = q
          PROVE  byState'[request[q].at][request[q].state] = q
      <3>1. q \in Txs /\ request[q].at \in Processes /\ request[q].state \in States
        BY <1>1 DEF StoreTypes, CallTypes, RequestRecord
      <3>2. q # tx /\ request[tx].pc = "done" /\ s = request[tx].state
        BY <1>1, <1>2, <1>6 DEF StoreInv, Checked
      <3>3. request[q].state # s
        BY <1>6, <2>1, <3>2 DEF Alone
      <3>4. QED
        BY <1>7, <2>1, <3>1, <3>3
    <2>2. QED
      BY <1>2, <2>1, OpenKept
  <1>13. CallbackInv(k)'
    BY <1>1, <1>2, <1>3, <1>4, <1>5, <1>6 DEF CallbackInv, Checked
  <1>14. ASSUME NEW g \in Callbacks \ {k}
         PROVE  CallbackInv(g)'
    <2>1. callback'[g] = callback[g] /\ reply'[g] = reply[g]
      BY <1>1, <1>3, <1>5, CallsApart DEF CallTypes
    <2>2. QED
      BY <1>8, <2>1, KeptCallback
  <1>15. \A f \in Fetches : FetchInv(f)'
    BY <1>2, <1>3, <1>8, KeptFetch, CallsApart
  <1>16. QED
    BY <1>9, <1>10, <1>11, <1>12, <1>13, <1>14, <1>15 DEF IInv

\* A response is checked against the transaction it was resolved to, and only
\* while that one is unanswered.
LEMMA CallbackSteps ==
    ASSUME IInv, UNCHANGED workload, NEW k \in Callbacks,
           \/ \E p \in Processes, s \in States, n \in sent \cup {NoTx} :
                 Callback(k, p, s, n) \/ UnknownState(k, p, s, n)
           \/ FetchAndVerify(k) \/ RefusePresentation(k)
           \/ ValidateNonce(k) \/ InvalidNonce(k)
           \/ RevokeNonce(k) \/ Accept(k) \/ CallbackFails(k)
    PROVE  IInv'
  <1>1. /\ k \in Calls /\ CallbackInv(k) /\ StoreTypes /\ CallTypes
        /\ callback[k] \in CallbackRecord
    BY CallsApart, Types DEF IInv, CallTypes
  <1>2. ASSUME NEW p \in Processes, NEW s \in States, NEW n \in sent \cup {NoTx},
               Callback(k, p, s, n)
        PROVE  IInv'
    <2> DEFINE C == [pc |-> "fetch", at |-> p, state |-> s, nonce |-> n,
                     tx |-> byState[p][s], late |-> answered]
    <2>1. /\ byState[p][s] \in sent /\ byState[p][s] \in Txs
      BY <1>2 DEF Callback, Resolves, IInv, BindingInv
    <2>2. C \in CallbackRecord
      BY <1>1, <2>1 DEF CallbackRecord, StoreTypes
    <2>3. /\ callback' = [callback EXCEPT ![k] = C] /\ callback'[k] = C /\ reply' = reply
          /\ reply[k] # "ok"
          /\ UNCHANGED <<workload, storeVars, request, fetch, cancel, histVars>>
      BY <1>1, <1>2 DEF Callback, CallTypes, CallbackInv
    <2>4. CallbackInv(k)'
      BY <2>1, <2>3 DEF CallbackInv, histVars
    <2>5. QED
      BY <1>1, <2>2, <2>3, <2>4, CallbackStepOf DEF storeVars, CallTypes
  <1>3. ASSUME NEW p \in Processes, NEW s \in States, NEW n \in sent \cup {NoTx},
               UnknownState(k, p, s, n)
        PROVE  IInv'
    <2>1. [pc |-> "done", at |-> p, state |-> s, nonce |-> n, tx |-> NoTx, late |-> {}]
             \in CallbackRecord
      BY <1>1 DEF CallbackRecord, StoreTypes
    <2>2. QED
      BY <1>3, <2>1, CallbackOver DEF UnknownState, Outcomes
  <1>4. CASE FetchAndVerify(k)
    <2>1. callback[k].pc = "fetch" /\ Verifies(k)
      BY <1>4 DEF FetchAndVerify
    <2>2. callback[k].tx \notin callback[k].late
      BY <1>1, <2>1 DEF Verifies, CallbackInv, IInv, StoreInv
    <2>3. Checked(k)
      BY <2>1, <2>2 DEF Verifies, Checked
    <2>4. QED
      BY <1>4, <2>1, <2>3, CallbackGoesOn DEF FetchAndVerify, storeVars
  <1>5. CASE RefusePresentation(k)
    BY <1>5, CallbackOver, RecordTypes DEF RefusePresentation, Outcomes
  <1>6. CASE ValidateNonce(k)
    <2>1. callback[k].pc = "validate" /\ Checked(k)
      BY <1>1, <1>6 DEF ValidateNonce, CallbackInv
    <2>2. QED
      BY <1>6, <2>1, CallbackGoesOn DEF ValidateNonce, storeVars
  <1>7. CASE InvalidNonce(k)
    BY <1>7, CallbackOver, RecordTypes DEF InvalidNonce, Outcomes
  <1>8. CASE RevokeNonce(k)
    <2>1. callback[k].pc = "revoke" /\ Checked(k)
      BY <1>1, <1>8 DEF RevokeNonce, CallbackInv
    <2>2. QED
      BY <1>8, <2>1, CallbackGoesOn DEF RevokeNonce
  <1>9. CASE Accept(k)
    BY <1>9, AcceptStep
  <1>10. CASE CallbackFails(k)
    BY <1>10, CallbackOver, RecordTypes DEF CallbackFails, Outcomes
  <1>11. QED
    BY <1>2, <1>3, <1>4, <1>5, <1>6, <1>7, <1>8, <1>9, <1>10

-----------------------------------------------------------------------------
(* POST /request and POST /request-object *)

\* The invariant after a step of one creation, from what it did to the stores.
LEMMA RequestStepOf ==
    ASSUME IInv, NEW q \in Txs, q \notin sent,
           \A x \in Txs \ {q} : request'[x] = request[x],
           \A c \in Calls \ {q} : reply'[c] = reply[c],
           sent \subseteq sent', objects' \cap sent \subseteq objects,
           TypeOK', StoreInv', BindingInv', OpenTransactionIsBound',
           UNCHANGED <<workload, fetch, callback, cancel, answered, dropped>>
    PROVE  IInv'
  <1>1. Grows
    BY DEF Grows, IInv, TypeOK
  <1>2. /\ \A k \in Callbacks : CallbackInv(k)'
        /\ \A f \in Fetches : FetchInv(f)'
    BY <1>1, CallsKept, CallsApart
  <1>3. QED
    BY <1>2 DEF IInv

\* A state is reserved only when it is free.
LEMMA RequestPresentationStep ==
    ASSUME IInv, UNCHANGED workload, NEW q \in Txs, NEW at \in Processes,
           NEW s \in States, NEW uri \in workload.byReference,
           RequestPresentation(q, at, s, uri)
    PROVE  IInv'
  <1> DEFINE R == [pc |-> "create", at |-> at, state |-> s, uri |-> uri]
  <1>1. /\ StoreTypes /\ CallTypes /\ StoreInv /\ BindingInv
        /\ Free \notin Txs /\ Reserved \notin Txs
    BY Types, PresentationAssumption DEF IInv
  <1>2. /\ request[q].pc = "idle" /\ byState[at][s] = Free
        /\ byState' = [byState EXCEPT ![at][s] = Reserved]
        /\ request' = [request EXCEPT ![q] = R]
        /\ UNCHANGED <<txs, nonces, objects, fetch, callback, cancel, reply, histVars>>
    BY DEF RequestPresentation, Reserve
  <1>3. /\ R \in RequestRecord /\ request'[q] = R
        /\ \A x \in Txs \ {q} : request'[x] = request[x]
    BY <1>1, <1>2, WorkloadType DEF RequestRecord, CallTypes, IInv
  <1>4. /\ \A p \in Processes, u \in States :
              byState'[p][u] = IF p = at /\ u = s THEN Reserved ELSE byState[p][u]
        /\ byState' \in [Processes -> [States -> Txs \cup {Free, Reserved}]]
    BY <1>1, <1>2 DEF StoreTypes
  <1>5. q \notin sent /\ q \notin txs /\ q \notin nonces /\ q \notin objects
    BY <1>1, <1>2 DEF StoreInv
  <1>6. TypeOK'
    <2>1. StoreTypes'
      BY <1>1, <1>2, <1>3, <1>4, <1>5 DEF StoreTypes, histVars
    <2>2. CallTypes'
      BY <1>1, <1>2, <1>3 DEF CallTypes
    <2>3. QED
      BY <2>1, <2>2, NextTypes
  <1>7. StoreInv'
    BY <1>1, <1>2, <1>3, <1>5 DEF StoreInv, StoreTypes, histVars
  <1>8. BindingInv'
    BY <1>1, <1>2, <1>3, <1>4, <1>5 DEF BindingInv, histVars
  <1>9. OpenTransactionIsBound'
    <2>1. \A x \in sent : /\ request'[x] = request[x] /\ x # Free
                          /\ request[x].at \in Processes /\ request[x].state \in States
      BY <1>1, <1>3, <1>5 DEF StoreTypes, CallTypes, RequestRecord
    <2>2. \A x \in sent :
             byState[request[x].at][request[x].state] = x =>
                 byState'[request[x].at][request[x].state] = x
      BY <1>2, <1>4, <2>1
    <2>3. \A x \in Txs : request[x].pc # "idle" => request'[x] = request[x]
      BY <1>2, <1>3
    <2>4. QED
      BY <1>2, <2>1, <2>2, <2>3, OpenKept DEF histVars
  <1>10. QED
    BY <1>2, <1>3, <1>5, <1>6, <1>7, <1>8, <1>9, RequestStepOf DEF histVars

\* A refused request keeps no state and reserves none.
LEMMA RefuseStateStep ==
    ASSUME IInv, UNCHANGED workload, NEW q \in Txs, NEW at \in Processes,
           NEW s \in States, RefuseState(q, at, s)
    PROVE  IInv'
  <1> DEFINE R == [request[q] EXCEPT !.pc = "done"]
  <1>1. StoreTypes /\ CallTypes /\ StoreInv /\ BindingInv /\ q \in Calls
    BY Types, CallsApart DEF IInv
  <1>2. /\ request[q].pc = "idle"
        /\ request' = [request EXCEPT ![q].pc = "done"]
        /\ Answer(q, "invalid_request")
        /\ UNCHANGED <<storeVars, fetch, callback, cancel, histVars>>
    BY DEF RefuseState
  <1>3. /\ R \in RequestRecord /\ R.pc = "done" /\ R.uri = request[q].uri
        /\ R.at = request[q].at /\ R.state = request[q].state
    BY <1>1 DEF RequestRecord, CallTypes
  <1>4. /\ request' = [request EXCEPT ![q] = R] /\ request'[q] = R
        /\ \A x \in Txs \ {q} : request'[x] = request[x]
    BY <1>1, <1>2 DEF CallTypes
  <1>5. /\ reply' \in [Calls -> Outcomes]
        /\ \A c \in Calls \ {q} : reply'[c] = reply[c]
    BY <1>1, <1>2, Answered DEF IInv, Outcomes
  <1>6. q \notin sent
    BY <1>1, <1>2 DEF StoreInv
  <1>7. TypeOK'
    <2>1. StoreTypes'
      BY <1>1, <1>2, <1>3, <1>4 DEF StoreTypes, storeVars, histVars
    <2>2. CallTypes'
      BY <1>1, <1>2, <1>3, <1>4, <1>5 DEF CallTypes
    <2>3. QED
      BY <2>1, <2>2, NextTypes
  <1>8. StoreInv' /\ BindingInv'
    <2>1. StoreInv'
      BY <1>1, <1>2, <1>3, <1>4 DEF StoreInv, StoreTypes, storeVars, histVars
    <2>2. BindingInv'
      BY <1>1, <1>2, <1>3, <1>4 DEF BindingInv, storeVars, histVars
    <2>3. QED
      BY <2>1, <2>2
  <1>9. OpenTransactionIsBound'
    <2>1. \A x \in sent : request'[x] = request[x]
      BY <1>1, <1>4, <1>6 DEF StoreTypes
    <2>2. \A x \in Txs : request[x].pc # "idle" => request'[x] = request[x]
      BY <1>2, <1>4
    <2>3. QED
      BY <1>2, <2>1, <2>2, OpenKept DEF storeVars, histVars
  <1>10. QED
    BY <1>2, <1>4, <1>5, <1>6, <1>7, <1>8, <1>9, RequestStepOf DEF storeVars, histVars

\* What is stored is stored for this request, before it is sent.
LEMMA CreateAuthzRequestStep ==
    ASSUME IInv, UNCHANGED workload, NEW q \in Txs, CreateAuthzRequest(q)
    PROVE  IInv'
  <1> DEFINE R == [request[q] EXCEPT !.pc = "register"]
  <1>1. StoreTypes /\ CallTypes /\ StoreInv /\ BindingInv
    BY Types DEF IInv
  <1>2. /\ request[q].pc = "create"
        /\ nonces' = nonces \cup {q} /\ txs' = txs \cup {q}
        /\ objects' = IF request[q].uri THEN objects \cup {q} ELSE objects
        /\ request' = [request EXCEPT ![q].pc = "register"]
        /\ UNCHANGED <<byState, fetch, callback, cancel, reply, histVars>>
    BY DEF CreateAuthzRequest
  <1>3. /\ R \in RequestRecord /\ R.pc = "register" /\ R.uri = request[q].uri
        /\ R.at = request[q].at /\ R.state = request[q].state
    BY <1>1 DEF RequestRecord, CallTypes
  <1>4. /\ request' = [request EXCEPT ![q] = R] /\ request'[q] = R
        /\ \A x \in Txs \ {q} : request'[x] = request[x]
    BY <1>1, <1>2 DEF CallTypes
  <1>5. q \notin sent
    BY <1>1, <1>2 DEF StoreInv
  <1>6. TypeOK'
    <2>1. StoreTypes'
      BY <1>1, <1>2, <1>3, <1>4 DEF StoreTypes, histVars
    <2>2. CallTypes'
      BY <1>1, <1>2, <1>3, <1>4 DEF CallTypes
    <2>3. QED
      BY <2>1, <2>2, NextTypes
  <1>7. StoreInv' /\ BindingInv'
    <2>1. StoreInv'
      BY <1>1, <1>2, <1>3, <1>4, <1>5 DEF StoreInv, StoreTypes, histVars
    <2>2. BindingInv'
      BY <1>1, <1>2, <1>3, <1>4 DEF BindingInv, histVars
    <2>3. QED
      BY <2>1, <2>2
  <1>8. OpenTransactionIsBound'
    <2>1. \A x \in sent : request'[x] = request[x]
      BY <1>1, <1>4, <1>5 DEF StoreTypes
    <2>2. \A x \in Txs : request[x].pc # "idle" =>
             request'[x].pc # "idle" /\ request'[x].state = request[x].state
      BY <1>3, <1>4
    <2>3. QED
      BY <1>2, <2>1, <2>2, OpenKept DEF histVars
  <1>9. objects' \cap sent \subseteq objects
    BY <1>2, <1>5
  <1>10. QED
    BY <1>2, <1>4, <1>5, <1>6, <1>7, <1>8, <1>9, RequestStepOf DEF histVars

\* The state is bound to the request that is sent; had another transaction the
\* binding, the two would share the state.
LEMMA RegisterAndRespondStep ==
    ASSUME IInv, UNCHANGED workload, NEW q \in Txs, RegisterAndRespond(q)
    PROVE  IInv'
  <1> DEFINE at == request[q].at
             s == request[q].state
             R == [request[q] EXCEPT !.pc = "done"]
  <1>1. /\ StoreTypes /\ CallTypes /\ StoreInv /\ BindingInv /\ q \in Calls
        /\ Free \notin Txs /\ Reserved \notin Txs
    BY Types, CallsApart, PresentationAssumption DEF IInv
  <1>2. /\ request[q].pc = "register" /\ Register(at, s, q)
        /\ request' = [request EXCEPT ![q].pc = "done"]
        /\ Answer(q, "ok") /\ sent' = sent \cup {q}
        /\ UNCHANGED <<txs, nonces, objects, fetch, callback, cancel, answered,
                       dropped>>
    BY DEF RegisterAndRespond
  <1>3. /\ R \in RequestRecord /\ R.pc = "done" /\ R.uri = request[q].uri
        /\ R.at = at /\ R.state = s /\ at \in Processes /\ s \in States
    BY <1>1 DEF RequestRecord, CallTypes
  <1>4. /\ request' = [request EXCEPT ![q] = R] /\ request'[q] = R
        /\ \A x \in Txs \ {q} : request'[x] = request[x]
    BY <1>1, <1>2 DEF CallTypes
  <1>5. /\ reply' \in [Calls -> Outcomes]
        /\ \A c \in Calls \ {q} : reply'[c] = reply[c]
    BY <1>1, <1>2, Answered DEF IInv, Outcomes
  <1>6. q \notin sent
    BY <1>1, <1>2 DEF StoreInv
  <1>7. /\ \A p \in Processes, u \in States :
              byState'[p][u] = IF p = at /\ u = s /\ byState[p][u] \in {Free, Reserved}
                               THEN q ELSE byState[p][u]
        /\ byState' \in [Processes -> [States -> Txs \cup {Free, Reserved}]]
    BY <1>1, <1>2, <1>3 DEF StoreTypes, Register
  <1>8. TypeOK'
    <2>1. StoreTypes'
      BY <1>1, <1>2, <1>3, <1>4, <1>7 DEF StoreTypes
    <2>2. CallTypes'
      BY <1>1, <1>2, <1>3, <1>4, <1>5 DEF CallTypes
    <2>3. QED
      BY <2>1, <2>2, NextTypes
  <1>9. StoreInv' /\ BindingInv'
    <2>1. StoreInv'
      BY <1>1, <1>2, <1>3, <1>4 DEF StoreInv, StoreTypes
    <2>2. BindingInv'
      BY <1>1, <1>2, <1>3, <1>4, <1>7 DEF BindingInv
    <2>3. QED
      BY <2>1, <2>2
  <1>10. OpenTransactionIsBound'
    <2> SUFFICES ASSUME NEW x \in sent' \ (answered' \cup dropped'), Alone(x)'
                 PROVE  byState'[request'[x].at][request'[x].state] = x
      BY DEF OpenTransactionIsBound, Alone
    <2>1. /\ x \in Txs /\ request[x].at \in Processes /\ request[x].state \in States
          /\ request'[x].at = request[x].at /\ request'[x].state = request[x].state
      BY <1>1, <1>2, <1>3, <1>4 DEF StoreTypes, CallTypes, RequestRecord
    <2>2. Alone(x)
      BY <1>2, <1>3, <1>4 DEF Alone
    <2>3. CASE x = q
      <3>1. byState[at][s] \in Txs => byState[at][s] = q
        BY <1>1, <1>3, <2>2, <2>3 DEF BindingInv, StoreInv, Alone
      <3>2. byState[at][s] \in Txs \cup {Free, Reserved}
        BY <1>1, <1>3 DEF StoreTypes
      <3>3. QED
        BY <1>3, <1>7, <2>1, <2>3, <3>1, <3>2
    <2>4. CASE x # q
      <3>1. byState[request[x].at][request[x].state] = x
        BY <1>2, <2>2, <2>4 DEF IInv, OpenTransactionIsBound, Alone
      <3>2. QED
        BY <1>1, <1>7, <2>1, <3>1
    <2>5. QED
      BY <2>3, <2>4
  <1>11. QED
    BY <1>2, <1>4, <1>5, <1>6, <1>8, <1>9, <1>10, RequestStepOf

\* The error path gives up whatever the state is bound to; a transaction that
\* loses its binding this way shared the state with this request.
LEMMA CreateFailsStep ==
    ASSUME IInv, UNCHANGED workload, NEW q \in Txs, CreateFails(q)
    PROVE  IInv'
  <1> DEFINE at == request[q].at
             s == request[q].state
             R == [request[q] EXCEPT !.pc = "done"]
  <1>1. /\ StoreTypes /\ CallTypes /\ StoreInv /\ BindingInv /\ q \in Calls
        /\ Free \notin Txs
    BY Types, CallsApart, PresentationAssumption DEF IInv
  <1>2. /\ request[q].pc \in {"create", "register"} /\ Consume(at, s)
        /\ request' = [request EXCEPT ![q].pc = "done"]
        /\ Answer(q, "failure")
        /\ UNCHANGED <<txs, nonces, objects, fetch, callback, cancel, histVars>>
    BY DEF CreateFails
  <1>3. /\ R \in RequestRecord /\ R.pc = "done" /\ R.uri = request[q].uri
        /\ R.at = at /\ R.state = s /\ at \in Processes /\ s \in States
    BY <1>1 DEF RequestRecord, CallTypes
  <1>4. /\ request' = [request EXCEPT ![q] = R] /\ request'[q] = R
        /\ \A x \in Txs \ {q} : request'[x] = request[x]
    BY <1>1, <1>2 DEF CallTypes
  <1>5. /\ reply' \in [Calls -> Outcomes]
        /\ \A c \in Calls \ {q} : reply'[c] = reply[c]
    BY <1>1, <1>2, Answered DEF IInv, Outcomes
  <1>6. q \notin sent
    BY <1>1, <1>2 DEF StoreInv
  <1>7. /\ \A p \in Processes, u \in States :
              byState'[p][u] = IF p = at /\ u = s THEN Free ELSE byState[p][u]
        /\ byState' \in [Processes -> [States -> Txs \cup {Free, Reserved}]]
    BY <1>1, <1>2, <1>3 DEF StoreTypes, Consume
  <1>8. TypeOK'
    <2>1. StoreTypes'
      BY <1>1, <1>2, <1>3, <1>4, <1>7 DEF StoreTypes, histVars
    <2>2. CallTypes'
      BY <1>1, <1>2, <1>3, <1>4, <1>5 DEF CallTypes
    <2>3. QED
      BY <2>1, <2>2, NextTypes
  <1>9. StoreInv' /\ BindingInv'
    <2>1. StoreInv'
      BY <1>1, <1>2, <1>3, <1>4 DEF StoreInv, StoreTypes, histVars
    <2>2. BindingInv'
      BY <1>1, <1>2, <1>3, <1>4, <1>7 DEF BindingInv, histVars
    <2>3. QED
      BY <2>1, <2>2
  <1>10. OpenTransactionIsBound'
    <2>1. \A x \in sent : request'[x] = request[x]
      BY <1>1, <1>4, <1>6 DEF StoreTypes
    <2>2. \A x \in Txs : request[x].pc # "idle" =>
             request'[x].pc # "idle" /\ request'[x].state = request[x].state
      BY <1>3, <1>4
    <2>3. ASSUME NEW x \in sent, Alone(x),
                 byState[request[x].at][request[x].state] = x
          PROVE  byState'[request[x].at][request[x].state] = x
      <3>1. x \in Txs /\ request[x].at \in Processes /\ request[x].state \in States
        BY <1>1 DEF StoreTypes, CallTypes, RequestRecord
      <3>2. request[x].state # s
        BY <1>2, <1>6, <2>3, <3>1 DEF Alone
      <3>3. QED
        BY <1>7, <2>3, <3>1, <3>2
    <2>4. QED
      BY <1>2, <2>1, <2>2, <2>3, OpenKept DEF histVars
  <1>11. QED
    BY <1>2, <1>4, <1>5, <1>6, <1>8, <1>9, <1>10, RequestStepOf DEF histVars

-----------------------------------------------------------------------------
(* Cancellations, time and restarts *)

\* Some bindings are given up; what was bound is dropped.
GivesUp ==
    \A p \in Processes, s \in States :
        \/ byState'[p][s] = byState[p][s]
        \/ byState'[p][s] = Free /\ (byState[p][s] \in Txs => byState[p][s] \in dropped')

\* The types of the bindings after one was given up.
LEMMA Consumed ==
    ASSUME TypeOK, NEW at \in Processes, NEW s \in States, Consume(at, s),
           byState[at][s] \in Txs => byState[at][s] \in dropped'
    PROVE  /\ byState' \in [Processes -> [States -> Txs \cup {Free, Reserved}]]
           /\ GivesUp
  <1>1. byState \in [Processes -> [States -> Txs \cup {Free, Reserved}]]
    BY DEF TypeOK
  <1>2. QED
    BY <1>1 DEF Consume, GivesUp

\* The invariant where things only disappear and what loses its binding counts as
\* dropped.
LEMMA DroppingStep ==
    ASSUME IInv, GivesUp, TypeOK',
           txs' \subseteq txs, nonces' \subseteq nonces, objects' \subseteq objects,
           dropped \subseteq dropped',
           \A c \in Callbacks \cup Fetches : reply'[c] = reply[c],
           UNCHANGED <<workload, request, fetch, callback, sent, answered>>
    PROVE  IInv'
  <1>1. Grows
    BY DEF Grows
  <1>2. /\ \A k \in Callbacks : CallbackInv(k)'
        /\ \A f \in Fetches : FetchInv(f)'
    BY <1>1, CallsKept
  <1>3. StoreInv'
    BY DEF IInv, StoreInv
  <1>4. BindingInv'
    BY PresentationAssumption DEF IInv, BindingInv, GivesUp
  <1>5. OpenTransactionIsBound'
    <2>1. ASSUME NEW q \in sent \ (answered' \cup dropped'),
                 byState[request[q].at][request[q].state] = q
          PROVE  byState'[request[q].at][request[q].state] = q
      <3>1. q \in Txs /\ request[q].at \in Processes /\ request[q].state \in States
        BY Types DEF IInv, StoreTypes, CallTypes, RequestRecord
      <3>2. QED
        BY <2>1, <3>1 DEF GivesUp
    <2>2. QED
      BY <2>1, OpenKept
  <1>6. QED
    BY <1>2, <1>3, <1>4, <1>5 DEF IInv

\* A cancellation drops the transaction and whatever its state is bound to.
LEMMA CancelSteps ==
    ASSUME IInv, UNCHANGED workload, NEW d \in Cancels,
           \/ \E q \in Txs : \/ TransactionNotFound(d, q)
                             \/ \E p \in Processes : CancelTransaction(d, p, q)
           \/ DeleteTransaction(d) \/ CancelFails(d)
    PROVE  IInv'
  <1>1. TypeOK /\ StoreTypes /\ CallTypes /\ d \in Calls
    BY Types, CallsApart DEF IInv
  <1>2. ASSUME NEW q \in Txs, TransactionNotFound(d, q)
        PROVE  IInv'
    <2>1. /\ cancel' = [cancel EXCEPT ![d].pc = "done"]
          /\ Answer(d, "transaction_id_not_found")
          /\ UNCHANGED <<storeVars, request, fetch, callback, histVars>>
      BY <1>2 DEF TransactionNotFound
    <2>2. /\ reply' \in [Calls -> Outcomes]
          /\ \A c \in Calls \ {d} : reply'[c] = reply[c]
      BY <1>1, <2>1, Answered DEF Outcomes
    <2>3. StoreTypes' /\ CallTypes'
      BY <1>1, <2>1, <2>2 DEF StoreTypes, CallTypes, CancelRecord, storeVars, histVars
    <2>4. GivesUp /\ TypeOK'
      BY <2>1, <2>3, NextTypes DEF GivesUp, storeVars
    <2>5. QED
      BY <2>1, <2>2, <2>4, DroppingStep, CallsApart DEF storeVars, histVars
  <1>3. ASSUME NEW q \in Txs, NEW p \in Processes, CancelTransaction(d, p, q)
        PROVE  IInv'
    <2> DEFINE s == request[q].state
    <2>1. /\ Consume(p, s) /\ s \in States
          /\ cancel' = [cancel EXCEPT ![d] = [pc |-> "delete", at |-> p, tx |-> q]]
          /\ dropped' = dropped \cup {q} \cup ({byState[p][s]} \cap Txs)
          /\ UNCHANGED <<txs, nonces, objects, request, fetch, callback, reply, sent,
                         answered>>
      BY <1>1, <1>3 DEF CancelTransaction, CallTypes, RequestRecord
    <2>2. /\ byState' \in [Processes -> [States -> Txs \cup {Free, Reserved}]]
          /\ GivesUp
      BY <1>1, <2>1, Consumed
    <2>3. StoreTypes' /\ CallTypes'
      BY <1>1, <2>1, <2>2 DEF StoreTypes, CallTypes, CancelRecord
    <2>4. TypeOK'
      BY <2>3, NextTypes
    <2>5. QED
      BY <2>1, <2>2, <2>4, DroppingStep
  <1>4. CASE DeleteTransaction(d) \/ CancelFails(d)
    <2>1. /\ txs' \subseteq txs
          /\ cancel' = [cancel EXCEPT ![d] = [NoCancel EXCEPT !.pc = "done"]]
          /\ \E a \in Outcomes : Answer(d, a)
          /\ UNCHANGED <<byState, nonces, objects, request, fetch, callback, histVars>>
      BY <1>4 DEF DeleteTransaction, CancelFails, Outcomes, storeVars
    <2>2. /\ reply' \in [Calls -> Outcomes]
          /\ \A c \in Calls \ {d} : reply'[c] = reply[c]
      BY <1>1, <2>1, Answered
    <2>3. StoreTypes' /\ CallTypes'
      BY <1>1, <2>1, <2>2, RecordTypes DEF StoreTypes, CallTypes, histVars
    <2>4. GivesUp /\ TypeOK'
      BY <2>1, <2>3, NextTypes DEF GivesUp
    <2>5. QED
      BY <2>1, <2>2, <2>4, DroppingStep, CallsApart DEF histVars
  <1>5. QED
    BY <1>2, <1>3, <1>4

\* A restart ends the calls that the process serves and drops what it had bound.
LEMMA RestartStep ==
    ASSUME IInv, UNCHANGED workload, NEW p \in Processes, Restart(p)
    PROVE  IInv'
  <1>1. /\ StoreTypes /\ CallTypes /\ StoreInv /\ BindingInv /\ Free \notin Txs
        /\ TypeOK
    BY Types, PresentationAssumption DEF IInv
  <1>2. /\ byState' = [byState EXCEPT ![p] = [s \in States |-> Free]]
        /\ dropped' = dropped \cup {q \in Txs : \E s \in States : byState[p][s] = q}
        /\ request' = [q \in Txs |->
              IF request[q].pc \in {"create", "register"} /\ request[q].at = p
              THEN [request[q] EXCEPT !.pc = "done"] ELSE request[q]]
        /\ callback' = [k \in Callbacks |->
              IF callback[k].pc \notin {"idle", "done"} /\ callback[k].at = p
              THEN Failed ELSE callback[k]]
        /\ cancel' = [d \in Cancels |->
              IF cancel[d].pc = "delete" /\ cancel[d].at = p
              THEN [NoCancel EXCEPT !.pc = "done"] ELSE cancel[d]]
        /\ UNCHANGED <<txs, nonces, objects, fetch, reply, sent, answered>>
    BY DEF Restart
  <1>3. /\ \A q \in Txs : request[q] \in RequestRecord /\ request'[q] \in RequestRecord
        /\ \A q \in Txs : /\ request'[q].at = request[q].at
                          /\ request'[q].state = request[q].state
                          /\ request'[q].uri = request[q].uri
                          /\ request[q].pc \in {"idle", "done"} => request'[q] = request[q]
                          /\ request[q].pc \in {"register", "done"} =>
                                request'[q].pc \in {"register", "done"}
                          /\ request[q].pc # "idle" => request'[q].pc # "idle"
    BY <1>1, <1>2 DEF CallTypes, RequestRecord
  <1>4. /\ \A x \in Processes, s \in States :
              byState'[x][s] = IF x = p THEN Free ELSE byState[x][s]
        /\ byState' \in [Processes -> [States -> Txs \cup {Free, Reserved}]]
    BY <1>1, <1>2 DEF StoreTypes
  <1>5. \A q \in sent : q \in Txs /\ request'[q] = request[q]
    BY <1>1, <1>3 DEF StoreInv, StoreTypes
  <1>6. Grows
    BY <1>2, <1>5 DEF Grows
  <1>7. TypeOK'
    <2>1. StoreTypes'
      BY <1>1, <1>2, <1>3, <1>4 DEF StoreTypes
    <2>2. request' \in [Txs -> RequestRecord]
      BY <1>2, <1>3
    <2>3. callback' \in [Callbacks -> CallbackRecord]
          /\ cancel' \in [Cancels -> CancelRecord]
      BY <1>1, <1>2, RecordTypes DEF CallTypes
    <2>4. CallTypes'
      BY <1>1, <1>2, <2>2, <2>3 DEF CallTypes
    <2>5. QED
      BY <2>1, <2>4, NextTypes
  <1>8. StoreInv'
    BY <1>1, <1>2, <1>3, <1>5 DEF StoreInv, StoreTypes
  <1>9. BindingInv'
    BY <1>1, <1>2, <1>4, <1>5 DEF BindingInv
  <1>10. OpenTransactionIsBound'
    <2>1. ASSUME NEW q \in sent \ (answered' \cup dropped'),
                 byState[request[q].at][request[q].state] = q
          PROVE  byState'[request[q].at][request[q].state] = q
      <3>1. q \in Txs /\ request[q].at \in Processes /\ request[q].state \in States
        BY <1>3, <1>5 DEF RequestRecord
      <3>2. request[q].at # p
        BY <1>2, <2>1, <3>1
      <3>3. QED
        BY <1>4, <2>1, <3>1, <3>2
    <2>2. QED
      BY <1>2, <1>3, <1>5, <2>1, OpenKept
  <1>11. ASSUME NEW k \in Callbacks
         PROVE  CallbackInv(k)'
    <2>1. CASE callback'[k] = callback[k]
      BY <1>2, <1>6, <2>1, KeptCallback
    <2>2. CASE callback[k].pc # "done" /\ callback'[k] = Failed
      BY <1>2, <2>2, RecordTypes DEF IInv, CallbackInv
    <2>3. QED
      BY <1>2, <2>1, <2>2
  <1>12. \A f \in Fetches : FetchInv(f)'
    BY <1>2, <1>6, KeptFetch
  <1>13. QED
    BY <1>7, <1>8, <1>9, <1>10, <1>11, <1>12 DEF IInv

\* Everything expires on its own.
LEMMA ExpireSteps ==
    ASSUME IInv, UNCHANGED workload, Expire
    PROVE  IInv'
  <1>1. TypeOK /\ StoreTypes /\ CallTypes
    BY Types DEF IInv
  <1>2. ASSUME NEW p \in Processes, NEW s \in States, ExpireBinding(p, s)
        PROVE  IInv'
    <2>1. /\ Consume(p, s)
          /\ dropped' = dropped \cup ({byState[p][s]} \cap Txs)
          /\ UNCHANGED <<txs, nonces, objects, callVars, reply, sent, answered>>
      BY <1>2 DEF ExpireBinding
    <2>2. /\ byState' \in [Processes -> [States -> Txs \cup {Free, Reserved}]]
          /\ GivesUp
      BY <1>1, <2>1, Consumed
    <2>3. StoreTypes' /\ CallTypes'
      BY <1>1, <2>1, <2>2 DEF StoreTypes, CallTypes, callVars
    <2>4. TypeOK'
      BY <2>3, NextTypes
    <2>5. QED
      BY <2>1, <2>2, <2>4, DroppingStep DEF callVars
  <1>3. ASSUME NEW q \in Txs,
               ExpireTransaction(q) \/ ExpireNonce(q) \/ ExpireRequestObject(q)
        PROVE  IInv'
    <2>1. /\ txs' \subseteq txs /\ nonces' \subseteq nonces /\ objects' \subseteq objects
          /\ dropped \subseteq dropped' /\ dropped' \subseteq dropped \cup {q}
          /\ UNCHANGED <<byState, callVars, reply, sent, answered>>
      BY <1>3 DEF ExpireTransaction, ExpireNonce, ExpireRequestObject, histVars
    <2>2. StoreTypes' /\ CallTypes'
      BY <1>1, <2>1 DEF StoreTypes, CallTypes, callVars
    <2>3. GivesUp /\ TypeOK'
      BY <2>1, <2>2, NextTypes DEF GivesUp
    <2>4. QED
      BY <2>1, <2>3, DroppingStep DEF callVars
  <1>4. QED
    BY <1>2, <1>3, RestartStep DEF Expire

-----------------------------------------------------------------------------
(* The theorems *)

\* Nothing is bound, stored or sent.
LEMMA InitInv == Init => IInv
  <1> SUFFICES ASSUME Init
               PROVE  IInv
    OBVIOUS
  <1>1. TypeOK
    <2>1. StoreTypes
      BY DEF Init, StoreTypes
    <2>2. CallTypes
      BY RecordTypes DEF Init, CallTypes, RequestRecord, FetchRecord, CancelRecord,
         Outcomes
    <2>3. QED
      BY <2>1, <2>2, Types
  <1>2. StoreInv /\ BindingInv /\ OpenTransactionIsBound
    BY PresentationAssumption DEF Init, StoreInv, BindingInv, OpenTransactionIsBound
  <1>3. \A k \in Callbacks : CallbackInv(k)
    BY CallsApart DEF Init, CallbackInv, NoCallback
  <1>4. \A f \in Fetches : FetchInv(f)
    BY CallsApart DEF Init, FetchInv
  <1>5. QED
    BY <1>1, <1>2, <1>3, <1>4 DEF IInv

\* Every step keeps the invariant.
LEMMA NextInv == IInv /\ [Next]_vars => IInv'
  <1> SUFFICES ASSUME IInv, [Next]_vars
               PROVE  IInv'
    OBVIOUS
  <1>1. ASSUME UNCHANGED workload, RequestStep
        PROVE  IInv'
    <2>1. PICK q \in Txs :
             \/ \E p \in Processes, s \in States :
                   \/ RefuseState(q, p, s)
                   \/ \E uri \in workload.byReference : RequestPresentation(q, p, s, uri)
             \/ CreateAuthzRequest(q) \/ RegisterAndRespond(q) \/ CreateFails(q)
      BY <1>1 DEF RequestStep
    <2>2. QED
      BY <1>1, <2>1, RefuseStateStep, RequestPresentationStep, CreateAuthzRequestStep,
         RegisterAndRespondStep, CreateFailsStep
  <1>2. ASSUME UNCHANGED workload, FetchStep
        PROVE  IInv'
    BY <1>2, FetchSteps DEF FetchStep
  <1>3. ASSUME UNCHANGED workload, CallbackStep
        PROVE  IInv'
    <2>1. PICK k \in Callbacks :
             \/ \E p \in Processes, s \in States, n \in sent \cup {NoTx} :
                   Callback(k, p, s, n) \/ UnknownState(k, p, s, n)
             \/ FetchAndVerify(k) \/ RefusePresentation(k)
             \/ ValidateNonce(k) \/ InvalidNonce(k)
             \/ RevokeNonce(k) \/ Accept(k) \/ CallbackFails(k)
      BY <1>3 DEF CallbackStep
    <2>2. QED
      BY <1>3, <2>1, CallbackSteps
  <1>4. ASSUME UNCHANGED workload, CancelStep
        PROVE  IInv'
    BY <1>4, CancelSteps DEF CancelStep
  <1>5. ASSUME UNCHANGED workload, Expire
        PROVE  IInv'
    BY <1>5, ExpireSteps
  <1>6. CASE UNCHANGED vars
    <2>1. UNCHANGED <<workload, storeVars, request, fetch, callback, cancel, reply,
                      histVars>>
      BY <1>6 DEF vars, callVars
    <2>2. TypeOK'
      BY <2>1 DEF IInv, TypeOK, storeVars, histVars
    <2>3. GivesUp
      BY <2>1 DEF GivesUp, storeVars
    <2>4. QED
      BY <2>1, <2>2, <2>3, DroppingStep DEF storeVars, histVars
  <1>7. QED
    BY <1>1, <1>2, <1>3, <1>4, <1>5, <1>6 DEF Next

\* Stores, bindings and calls always fit together as IInv says.
THEOREM InvariantHolds == Spec => []IInv
  BY InitInv, NextInv, PTL DEF Spec

\* Every state of the presentation is well typed; in particular a request object
\* is stored only for a request delivered by reference.
THEOREM TypeCorrect == Spec => []TypeOK
  <1>1. IInv => TypeOK
    BY DEF IInv
  <1>2. QED
    BY <1>1, InvariantHolds, PTL

\* A response is accepted for a request that was sent, under the state of that
\* request and over its nonce, however states were given up, reused or bound to
\* other transactions meanwhile.
THEOREM AcceptedForItsRequestHolds == Spec => []AcceptedForItsRequest
  <1>1. IInv => AcceptedForItsRequest
    BY DEF IInv, CallbackInv, Checked, AcceptedForItsRequest
  <1>2. QED
    BY <1>1, InvariantHolds, PTL

\* A transaction that was answered takes no response that begins later, even from
\* a nonce store that still shows its nonce.
THEOREM AnsweredIsClosedHolds == Spec => []AnsweredIsClosed
  <1>1. IInv => AnsweredIsClosed
    BY DEF IInv, CallbackInv, Checked, AnsweredIsClosed
  <1>2. QED
    BY <1>1, InvariantHolds, PTL

\* Nobody else's call gives up the binding of an open transaction, unless another
\* request used the same state.
THEOREM OpenTransactionIsBoundHolds == Spec => []OpenTransactionIsBound
  <1>1. IInv => OpenTransactionIsBound
    BY DEF IInv
  <1>2. QED
    BY <1>1, InvariantHolds, PTL

\* One call after the other, a request object is retrieved once, where reads are
\* consistent.
THEOREM RetrievedObjectIsClosedHolds == Spec => []RetrievedObjectIsClosed
  <1>1. IInv => RetrievedObjectIsClosed
    BY DEF IInv, FetchInv, RetrievedObjectIsClosed
  <1>2. QED
    BY <1>1, InvariantHolds, PTL

-----------------------------------------------------------------------------
(* The verifier refines PresentationExchange *)

\* Requests that were sent keep their state, and responses other than those in K
\* show what they showed.
Others(K) ==
    /\ \A q \in sent : request'[q].state = request[q].state
    /\ \A k \in Callbacks \ K : callback'[k] = callback[k] /\ reply'[k] = reply[k]

\* What is shown of a response depends on its own record and answer.
LEMMA OthersShow ==
    ASSUME NEW K, Others(K)
    PROVE  \A k \in Callbacks \ K : Taken(k)' = Taken(k) /\ Accepted(k)' = Accepted(k)
  BY DEF Others, Taken, Accepted, Response

\* Where no request is sent, the states of those sent are what they were.
LEMMA StatesShow ==
    ASSUME NEW K, Others(K), sent' = sent
    PROVE  \A q \in Txs : SentState(q)' = SentState(q)
  BY DEF Others, SentState

\* A step of no response that opens and closes nothing is a stutter.
LEMMA QuietStep ==
    ASSUME Others({}), sent' = sent, txs' \cap sent = txs \cap sent
    PROVE  UNCHANGED Exchange!vars
  <1>1. /\ \A q \in Txs : SentState(q)' = SentState(q)
        /\ \A k \in Callbacks : Taken(k)' = Taken(k) /\ Accepted(k)' = Accepted(k)
    BY OthersShow, StatesShow
  <1>2. (txs \cap sent)' = txs \cap sent
    OBVIOUS
  <1>3. QED
    BY <1>1, <1>2 DEF Exchange!vars

\* A step of response k that shows the same afterwards is a stutter, too.
LEMMA QuietCallback ==
    ASSUME NEW k \in Callbacks, Others({k}), UNCHANGED <<sent, txs>>,
           Taken(k)' = Taken(k), Accepted(k)' = Accepted(k)
    PROVE  UNCHANGED Exchange!vars
  <1>1. /\ \A q \in Txs : SentState(q)' = SentState(q)
        /\ \A j \in Callbacks : Taken(j)' = Taken(j) /\ Accepted(j)' = Accepted(j)
    BY OthersShow, StatesShow
  <1>2. (txs \cap sent)' = txs \cap sent
    OBVIOUS
  <1>3. QED
    BY <1>1, <1>2 DEF Exchange!vars

\* A transaction that is deleted without an answer closes its request.
LEMMA Closes ==
    ASSUME Others({}), sent' = sent, NEW q \in Txs, txs' = txs \ {q}
    PROVE  Exchange!Next
  <1>1. /\ \A p \in Txs : SentState(p)' = SentState(p)
        /\ \A k \in Callbacks : Taken(k)' = Taken(k) /\ Accepted(k)' = Accepted(k)
    BY OthersShow, StatesShow
  <1>2. (txs \cap sent)' = (txs \cap sent) \ {q}
    OBVIOUS
  <1>3. Exchange!Close(q)
    BY <1>1, <1>2 DEF Exchange!Close
  <1>4. QED
    BY <1>3 DEF Exchange!Next

\* Responses that fail without being accepted are given up.
LEMMA GivesUpResponses ==
    ASSUME NEW K \in SUBSET Callbacks, Others(K), UNCHANGED <<sent, txs>>,
           \A k \in K : /\ callback'[k].pc \notin {"validate", "revoke", "delete"}
                        /\ reply[k] # "ok" /\ reply'[k] # "ok"
    PROVE  Exchange!Next
  <1>1. /\ \A q \in Txs : SentState(q)' = SentState(q)
        /\ \A k \in Callbacks \ K : Taken(k)' = Taken(k) /\ Accepted(k)' = Accepted(k)
    BY OthersShow, StatesShow
  <1>2. \A k \in K : Taken(k)' = {} /\ Accepted(k)' = {} /\ Accepted(k) = {}
    BY DEF Taken, Accepted
  <1>3. /\ \A k \in Callbacks : Taken(k)' = IF k \in K THEN {} ELSE Taken(k)
        /\ \A k \in Callbacks : Accepted(k)' = Accepted(k)
    BY <1>1, <1>2
  <1>4. (txs \cap sent)' = txs \cap sent
    OBVIOUS
  <1>5. Exchange!GiveUp(K)
    BY <1>1, <1>3, <1>4 DEF Exchange!GiveUp
  <1>6. QED
    BY <1>5 DEF Exchange!Next

-----------------------------------------------------------------------------
(* Its steps *)

\* Responses and their answers are not touched by an answer to another call.
LEMMA AnswersOthers ==
    ASSUME TypeOK, NEW c \in Calls \ Callbacks, NEW a, Answer(c, a)
    PROVE  \A k \in Callbacks : reply'[k] = reply[k]
  BY CallsApart DEF TypeOK, Answer

\* A request is sent with its state; nothing shows of it before.
LEMMA RequestRefines ==
    ASSUME IInv, RequestStep
    PROVE  Exchange!Next \/ UNCHANGED Exchange!vars
  <1>1. PICK q \in Txs :
           \/ \E p \in Processes, s \in States :
                 \/ RefuseState(q, p, s)
                 \/ \E uri \in workload.byReference : RequestPresentation(q, p, s, uri)
           \/ CreateAuthzRequest(q) \/ RegisterAndRespond(q) \/ CreateFails(q)
    BY DEF RequestStep
  <1>2. /\ q \in Calls \ Callbacks /\ TypeOK /\ CallTypes /\ StoreInv
    BY CallsApart, Types DEF IInv
  <1>3. callback' = callback /\ \A k \in Callbacks : reply'[k] = reply[k]
    <2>1. /\ callback' = callback
          /\ reply' = reply \/ \E a \in Outcomes : Answer(q, a)
      BY <1>1 DEF RefuseState, RequestPresentation, CreateAuthzRequest,
         RegisterAndRespond, CreateFails, Outcomes
    <2>2. QED
      BY <1>2, <2>1, AnswersOthers
  <1>4. request[q].pc # "done" /\ q \notin sent
    BY <1>1, <1>2 DEF RefuseState, RequestPresentation, CreateAuthzRequest,
       RegisterAndRespond, CreateFails, StoreInv
  <1>5. \A p \in Txs \ {q} : request'[p] = request[p]
    BY <1>1, <1>2 DEF RefuseState, RequestPresentation, CreateAuthzRequest,
       RegisterAndRespond, CreateFails, CallTypes
  <1>6. Others({})
    BY <1>2, <1>3, <1>4, <1>5 DEF Others, TypeOK
  <1>7. CASE ~RegisterAndRespond(q)
    <2>1. sent' = sent /\ txs' \cap sent = txs \cap sent
      BY <1>1, <1>4, <1>7 DEF RefuseState, RequestPresentation, CreateAuthzRequest,
         CreateFails, storeVars, histVars
    <2>2. QED
      BY <1>6, <2>1, QuietStep
  <1>8. CASE RegisterAndRespond(q)
    <2> DEFINE s == request[q].state
    <2>1. s \in States /\ request'[q].state = s
      BY <1>2, <1>8 DEF RegisterAndRespond, CallTypes, RequestRecord
    <2>2. sent' = sent \cup {q} /\ txs' = txs
      BY <1>8 DEF RegisterAndRespond
    <2>3. \A p \in Txs : SentState(p)' = IF p = q THEN {s} ELSE SentState(p)
      BY <1>5, <2>1, <2>2 DEF SentState
    <2>4. SentState(q) = {}
      BY <1>4 DEF SentState
    <2>5. (txs \cap sent)' \in {txs \cap sent, (txs \cap sent) \cup {q}}
      <3>1. CASE q \in txs
        <4>1. (txs \cap sent)' = (txs \cap sent) \cup {q}
          BY <2>2, <3>1
        <4>2. QED
          BY <4>1
      <3>2. CASE q \notin txs
        <4>1. (txs \cap sent)' = txs \cap sent
          BY <2>2, <3>2
        <4>2. QED
          BY <4>1
      <3>3. QED
        BY <3>1, <3>2
    <2>6. \A k \in Callbacks : Taken(k)' = Taken(k) /\ Accepted(k)' = Accepted(k)
      BY <1>6, OthersShow
    <2>7. [p \in Txs |-> SentState(p)]' = [[p \in Txs |-> SentState(p)] EXCEPT ![q] = {s}]
      BY <2>3
    <2>8. Exchange!Send(q, s)
      BY <2>4, <2>5, <2>6, <2>7 DEF Exchange!Send
    <2>9. QED
      BY <2>1, <2>8 DEF Exchange!Next
  <1>9. QED
    BY <1>7, <1>8

\* Retrievals show nothing.
LEMMA FetchRefines ==
    ASSUME IInv, FetchStep
    PROVE  UNCHANGED Exchange!vars
  <1>1. PICK f \in Fetches :
           \/ \E q \in sent : FetchRequestObject(f, q) \/ RequestObjectNotFound(f, q)
           \/ SignRequestObject(f) \/ DeleteRequestObject(f) \/ FetchFails(f)
    BY DEF FetchStep
  <1>2. f \in Calls \ Callbacks /\ TypeOK
    BY CallsApart DEF IInv
  <1>3. /\ UNCHANGED <<callback, request, sent, txs>>
        /\ reply' = reply \/ \E a \in Outcomes : Answer(f, a)
    BY <1>1 DEF FetchRequestObject, RequestObjectNotFound, SignRequestObject,
       DeleteRequestObject, FetchFails, Outcomes, storeVars, histVars
  <1>4. Others({})
    BY <1>2, <1>3, AnswersOthers DEF Others
  <1>5. QED
    BY <1>3, <1>4, QuietStep

\* A cancellation closes the request when it deletes the transaction.
LEMMA CancelRefines ==
    ASSUME IInv, CancelStep
    PROVE  Exchange!Next \/ UNCHANGED Exchange!vars
  <1>1. PICK d \in Cancels :
           \/ \E q \in Txs : \/ TransactionNotFound(d, q)
                             \/ \E p \in Processes : CancelTransaction(d, p, q)
           \/ DeleteTransaction(d) \/ CancelFails(d)
    BY DEF CancelStep
  <1>2. d \in Calls \ Callbacks /\ TypeOK
    BY CallsApart DEF IInv
  <1>3. /\ UNCHANGED <<callback, request, sent>>
        /\ reply' = reply \/ \E a \in Outcomes : Answer(d, a)
        /\ txs' = txs \/ txs' = txs \ {cancel[d].tx}
    BY <1>1 DEF TransactionNotFound, CancelTransaction, DeleteTransaction, CancelFails,
       Outcomes, storeVars, histVars
  <1>4. Others({})
    BY <1>2, <1>3, AnswersOthers DEF Others
  <1>5. CASE txs' = txs
    BY <1>3, <1>4, <1>5, QuietStep
  <1>6. CASE txs' = txs \ {cancel[d].tx} /\ cancel[d].tx \in Txs
    BY <1>3, <1>4, <1>6, Closes
  <1>7. txs' = txs \/ cancel[d].tx \in Txs
    <2>1. cancel[d].tx \in Txs \cup {NoTx} /\ txs \subseteq Txs
      BY <1>2 DEF TypeOK
    <2>2. NoTx \notin txs
      BY <2>1, PresentationAssumption
    <2>3. txs \ {NoTx} = txs
      BY <2>2
    <2>4. QED
      BY <1>3, <2>1, <2>3
  <1>8. QED
    BY <1>3, <1>5, <1>6, <1>7

\* What expires may close a request; a restart gives up the responses that the
\* process was serving.
LEMMA ExpireRefines ==
    ASSUME IInv, Expire
    PROVE  Exchange!Next \/ UNCHANGED Exchange!vars
  <1>1. TypeOK /\ StoreInv /\ CallTypes
    BY Types DEF IInv
  <1>2. ASSUME NEW q \in Txs, ExpireTransaction(q)
        PROVE  Exchange!Next
    <2>1. Others({}) /\ sent' = sent /\ txs' = txs \ {q}
      BY <1>2 DEF ExpireTransaction, callVars, Others
    <2>2. QED
      BY <2>1, Closes
  <1>3. CASE \/ \E p \in Processes, s \in States : ExpireBinding(p, s)
             \/ \E q \in Txs : ExpireNonce(q) \/ ExpireRequestObject(q)
    <2>1. Others({}) /\ UNCHANGED <<sent, txs>>
      BY <1>3 DEF ExpireBinding, ExpireNonce, ExpireRequestObject, callVars, histVars,
         Others
    <2>2. QED
      BY <2>1, QuietStep
  <1>4. ASSUME NEW p \in Processes, Restart(p)
        PROVE  Exchange!Next
    <2> DEFINE K == {k \in Callbacks :
                       callback[k].pc \notin {"idle", "done"} /\ callback[k].at = p}
    <2>1. /\ \A k \in Callbacks : callback'[k] = IF k \in K THEN Failed ELSE callback[k]
          /\ UNCHANGED <<sent, txs, reply>>
      BY <1>4 DEF Restart
    <2>2. \A q \in sent : request'[q] = request[q]
      <3>1. \A q \in sent : q \in Txs /\ request[q].pc = "done"
        BY <1>1 DEF StoreInv, TypeOK
      <3>2. \A q \in Txs : request[q].pc = "done" => request'[q] = request[q]
        BY <1>4 DEF Restart
      <3>3. QED
        BY <3>1, <3>2
    <2>3. Others(K)
      BY <2>1, <2>2 DEF Others
    <2>4. \A k \in K : reply[k] # "ok"
      BY DEF IInv, CallbackInv
    <2>5. K \in SUBSET Callbacks
      OBVIOUS
    <2> HIDE DEF K
    <2>6. \A k \in K : callback'[k].pc = "done"
      BY <2>1, <2>5, RecordTypes
    <2>7. QED
      BY <2>1, <2>3, <2>4, <2>5, <2>6, GivesUpResponses
  <1>5. QED
    BY <1>2, <1>3, <1>4 DEF Expire

\* What a step of response k does to the others.
LEMMA CallbackOthers ==
    ASSUME IInv, NEW k \in Callbacks, NEW C, callback' = [callback EXCEPT ![k] = C],
           request' = request,
           reply' = reply \/ \E a \in Outcomes : Answer(k, a)
    PROVE  Others({k}) /\ callback'[k] = C
  BY CallsApart DEF Others, Answer, IInv, TypeOK

\* A response that arrives, or goes on after its checks, shows nothing new.
LEMMA CallbackQuiet ==
    ASSUME IInv, NEW k \in Callbacks,
           \/ \E p \in Processes, s \in States, n \in sent \cup {NoTx} :
                 Callback(k, p, s, n) \/ UnknownState(k, p, s, n)
           \/ ValidateNonce(k) \/ RevokeNonce(k)
    PROVE  UNCHANGED Exchange!vars
  <1>1. k \in Calls /\ CallbackInv(k) /\ CallTypes /\ callback[k] \in CallbackRecord
    BY CallsApart, Types DEF IInv, CallTypes
  <1>2. CASE \E p \in Processes, s \in States, n \in sent \cup {NoTx} :
                Callback(k, p, s, n) \/ UnknownState(k, p, s, n)
    <2>1. PICK p \in Processes, s \in States, n \in sent \cup {NoTx} :
             Callback(k, p, s, n) \/ UnknownState(k, p, s, n)
      BY <1>2
    <2>2. /\ callback[k].pc = "idle" /\ UNCHANGED <<request, sent, txs>>
          /\ reply' = reply \/ Answer(k, "unknown_state")
      BY <2>1 DEF Callback, UnknownState, storeVars, histVars
    <2>3. PICK C : /\ callback' = [callback EXCEPT ![k] = C]
                   /\ C.pc \in {"fetch", "done"}
      <3>1. CASE Callback(k, p, s, n)
        <4> DEFINE C == [pc |-> "fetch", at |-> p, state |-> s, nonce |-> n,
                         tx |-> byState[p][s], late |-> answered]
        <4>1. callback' = [callback EXCEPT ![k] = C] /\ C.pc = "fetch"
          BY <3>1 DEF Callback
        <4> HIDE DEF C
        <4>2. QED
          BY <4>1
      <3>2. CASE UnknownState(k, p, s, n)
        <4> DEFINE C == [pc |-> "done", at |-> p, state |-> s, nonce |-> n,
                         tx |-> NoTx, late |-> {}]
        <4>1. callback' = [callback EXCEPT ![k] = C] /\ C.pc = "done"
          BY <3>2 DEF UnknownState
        <4> HIDE DEF C
        <4>2. QED
          BY <4>1
      <3>3. QED
        BY <2>1, <3>1, <3>2
    <2>4. Others({k}) /\ callback'[k] = C
      <3>1. reply' = reply \/ \E a \in Outcomes : Answer(k, a)
        BY <2>2 DEF Outcomes
      <3>2. QED
        BY <2>2, <2>3, <3>1, CallbackOthers
    <2>5. reply[k] # "ok" /\ reply'[k] # "ok"
      BY <1>1, <2>2 DEF CallbackInv, Answer, CallTypes
    <2>6. Taken(k)' = {} /\ Taken(k) = {} /\ Accepted(k)' = {} /\ Accepted(k) = {}
      BY <2>2, <2>3, <2>4, <2>5 DEF Taken, Accepted
    <2>7. QED
      BY <2>2, <2>4, <2>6, QuietCallback
  <1>3. CASE ValidateNonce(k) \/ RevokeNonce(k)
    <2>1. /\ callback[k].pc \in {"validate", "revoke"}
          /\ UNCHANGED <<request, sent, txs, reply>>
          /\ \E l \in {"revoke", "delete"} : callback' = [callback EXCEPT ![k].pc = l]
      BY <1>3 DEF ValidateNonce, RevokeNonce, storeVars, histVars
    <2>2. PICK l \in {"revoke", "delete"} : callback' = [callback EXCEPT ![k].pc = l]
      BY <2>1
    <2>3. /\ Others({k}) /\ callback'[k].pc = l /\ callback'[k].tx = callback[k].tx
          /\ callback'[k].state = callback[k].state
          /\ callback'[k].nonce = callback[k].nonce
      BY <1>1, <2>1, <2>2 DEF Others, CallTypes, CallbackRecord
    <2>4. Taken(k)' = Taken(k) /\ Accepted(k)' = Accepted(k)
      BY <2>1, <2>3 DEF Taken, Accepted, Response
    <2>5. QED
      BY <2>1, <2>3, <2>4, QuietCallback
  <1>4. QED
    BY <1>2, <1>3

\* A response whose checks pass is taken for an open request, over its nonce.
LEMMA FetchAndVerifyRefines ==
    ASSUME IInv, NEW k \in Callbacks, FetchAndVerify(k)
    PROVE  Exchange!Next
  <1> DEFINE tx == callback[k].tx
             n == callback[k].nonce
             R == [tx |-> tx, state |-> callback[k].state, nonce |-> n]
  <1>1. /\ CallbackInv(k) /\ CallTypes /\ callback[k] \in CallbackRecord
        /\ StoreTypes
    BY Types DEF IInv, CallTypes
  <1>2. /\ callback[k].pc = "fetch" /\ Verifies(k)
        /\ callback' = [callback EXCEPT ![k].pc = "validate"]
        /\ UNCHANGED <<request, sent, txs, reply>>
    BY DEF FetchAndVerify, storeVars, histVars
  <1>3. /\ tx \in txs \cap sent /\ tx \in Txs /\ n \in {tx, NoTx}
        /\ n \in Txs \cup {NoTx}
        /\ callback[k].state = request[tx].state
    BY <1>1, <1>2 DEF CallbackInv, Verifies, StoreTypes
  <1>4. /\ Others({k}) /\ callback'[k].pc = "validate" /\ callback'[k].tx = tx
        /\ callback'[k].state = callback[k].state /\ callback'[k].nonce = n
    BY <1>1, <1>2 DEF Others, CallTypes, CallbackRecord
  <1>5. Taken(k) = {} /\ Accepted(k) = {} /\ Taken(k)' = {R} /\ Accepted(k)' = {}
    BY <1>1, <1>2, <1>4 DEF Taken, Accepted, Response, CallbackInv
  <1>6. /\ \A q \in Txs : SentState(q)' = SentState(q)
        /\ \A j \in Callbacks \ {k} : Taken(j)' = Taken(j) /\ Accepted(j)' = Accepted(j)
    BY <1>2, <1>4, OthersShow, StatesShow
  <1>7. SentState(tx) = {callback[k].state}
    BY <1>3 DEF SentState
  <1>8. [j \in Callbacks |-> Taken(j)]' = [[j \in Callbacks |-> Taken(j)] EXCEPT ![k] = {R}]
    BY <1>5, <1>6
  <1>9. [j \in Callbacks |-> Accepted(j)]' = [j \in Callbacks |-> Accepted(j)]
    BY <1>5, <1>6
  <1>10. (txs \cap sent)' = txs \cap sent
    BY <1>2
  <1>11. Exchange!Take(k, tx, n)
    <2>1. \E s \in [q \in Txs |-> SentState(q)][tx] :
             [j \in Callbacks |-> Taken(j)]' =
                [[j \in Callbacks |-> Taken(j)] EXCEPT
                    ![k] = {[tx |-> tx, state |-> s, nonce |-> n]}]
      BY <1>3, <1>7, <1>8
    <2>2. [q \in Txs |-> SentState(q)]' = [q \in Txs |-> SentState(q)]
      BY <1>6
    <2>3. QED
      BY <1>3, <1>5, <1>9, <1>10, <2>1, <2>2 DEF Exchange!Take
  <1>12. QED
    BY <1>3, <1>11 DEF Exchange!Next

\* A response that was taken is accepted for that request and closes it.
LEMMA AcceptRefines ==
    ASSUME IInv, NEW k \in Callbacks, Accept(k)
    PROVE  Exchange!Next
  <1> DEFINE tx == callback[k].tx
             R == Response(k)
  <1>1. /\ CallbackInv(k) /\ CallTypes /\ callback[k] \in CallbackRecord /\ k \in Calls
    BY CallsApart, Types DEF IInv, CallTypes
  <1>2. /\ callback[k].pc = "delete" /\ txs' = txs \ {tx}
        /\ callback' = [callback EXCEPT ![k].pc = "done"] /\ Answer(k, "ok")
        /\ UNCHANGED <<request, sent>>
    BY DEF Accept
  <1>3. /\ Others({k}) /\ callback'[k].pc = "done" /\ reply'[k] = "ok"
        /\ Response(k)' = R
    BY <1>1, <1>2, CallsApart DEF Others, CallTypes, CallbackRecord, Answer, Response
  <1>4. Taken(k) = {R} /\ Accepted(k) = {} /\ Taken(k)' = {} /\ Accepted(k)' = {R}
    BY <1>1, <1>2, <1>3 DEF Taken, Accepted, CallbackInv
  <1>5. /\ \A q \in Txs : SentState(q)' = SentState(q)
        /\ \A j \in Callbacks \ {k} : Taken(j)' = Taken(j) /\ Accepted(j)' = Accepted(j)
    BY <1>2, <1>3, OthersShow, StatesShow
  <1>6. R.tx = tx
    BY DEF Response
  <1>7. (txs \cap sent)' = (txs \cap sent) \ {R.tx}
    BY <1>2, <1>6
  <1>8. [j \in Callbacks |-> Taken(j)]' = [[j \in Callbacks |-> Taken(j)] EXCEPT ![k] = {}]
    BY <1>4, <1>5
  <1>9. [j \in Callbacks |-> Accepted(j)]' =
           [[j \in Callbacks |-> Accepted(j)] EXCEPT ![k] = {R}]
    BY <1>4, <1>5
  <1>10. [q \in Txs |-> SentState(q)]' = [q \in Txs |-> SentState(q)]
    BY <1>5
  <1> HIDE DEF R
  <1>11. Exchange!Accept(k)
    BY <1>4, <1>7, <1>8, <1>9, <1>10 DEF Exchange!Accept
  <1>12. QED
    BY <1>11 DEF Exchange!Next

\* A callback's steps.
LEMMA CallbackRefines ==
    ASSUME IInv, CallbackStep
    PROVE  Exchange!Next \/ UNCHANGED Exchange!vars
  <1>1. PICK k \in Callbacks :
           \/ \E p \in Processes, s \in States, n \in sent \cup {NoTx} :
                 Callback(k, p, s, n) \/ UnknownState(k, p, s, n)
           \/ FetchAndVerify(k) \/ RefusePresentation(k)
           \/ ValidateNonce(k) \/ InvalidNonce(k)
           \/ RevokeNonce(k) \/ Accept(k) \/ CallbackFails(k)
    BY DEF CallbackStep
  <1>2. CASE \/ \E p \in Processes, s \in States, n \in sent \cup {NoTx} :
                   Callback(k, p, s, n) \/ UnknownState(k, p, s, n)
             \/ ValidateNonce(k) \/ RevokeNonce(k)
    BY <1>2, CallbackQuiet
  <1>3. CASE FetchAndVerify(k) \/ Accept(k)
    BY <1>3, FetchAndVerifyRefines, AcceptRefines
  <1>4. CASE RefusePresentation(k) \/ InvalidNonce(k) \/ CallbackFails(k)
    <2>1. /\ callback[k].pc # "done" /\ callback' = [callback EXCEPT ![k] = Failed]
          /\ UNCHANGED <<request, sent, txs>>
          /\ \E a \in Outcomes \ {"ok"} : Answer(k, a)
      BY <1>4 DEF RefusePresentation, InvalidNonce, CallbackFails, Outcomes, storeVars,
         histVars
    <2>2. Others({k}) /\ callback'[k] = Failed
      BY <2>1, CallbackOthers
    <2>3. reply[k] # "ok" /\ reply'[k] # "ok"
      BY <2>1, CallsApart DEF IInv, CallbackInv, TypeOK, Answer
    <2>4. Failed.pc = "done"
      BY RecordTypes
    <2>5. {k} \in SUBSET Callbacks
      OBVIOUS
    <2>6. QED
      BY <2>1, <2>2, <2>3, <2>4, <2>5, GivesUpResponses
  <1>5. QED
    BY <1>1, <1>2, <1>3, <1>4

\* Nothing has been sent, taken or accepted.
LEMMA ExchangeInit == Init => Exchange!Init
  <1> SUFFICES ASSUME Init
               PROVE  Exchange!Init
    OBVIOUS
  <1>1. /\ \A q \in Txs : SentState(q) = {}
        /\ \A k \in Callbacks : Taken(k) = {} /\ Accepted(k) = {}
    BY CallsApart DEF Init, SentState, Taken, Accepted, NoCallback
  <1>2. txs \cap sent = {}
    BY DEF Init
  <1>3. QED
    BY <1>1, <1>2 DEF Exchange!Init

\* Every step of the verifier is one of the exchange or a stutter.
LEMMA ExchangeStep == IInv /\ [Next]_vars => [Exchange!Next]_Exchange!vars
  <1> SUFFICES ASSUME IInv, [Next]_vars
               PROVE  Exchange!Next \/ UNCHANGED Exchange!vars
    OBVIOUS
  <1>1. CASE Next
    BY <1>1, RequestRefines, FetchRefines, CallbackRefines, CancelRefines, ExpireRefines
       DEF Next
  <1>2. CASE UNCHANGED vars
    <2>1. Others({}) /\ UNCHANGED <<sent, txs>>
      BY <1>2 DEF vars, storeVars, callVars, histVars, Others
    <2>2. QED
      BY <2>1, QuietStep
  <1>3. QED
    BY <1>1, <1>2

\* The verifier implements the exchange: for any numbers of processes, requests
\* and responses, whatever expires, is cancelled or is lost in a restart, a
\* response is let in only for an open request, under its state and over its nonce,
\* and the first one accepted closes the request for all that come later.
THEOREM PresentationExchangeRefined == Spec => RefinesPresentationExchange
  <1>1. IInv /\ [Next]_vars => [Exchange!Next]_Exchange!vars
    BY ExchangeStep
  <1>2. QED
    BY <1>1, ExchangeInit, InvariantHolds, PTL
       DEF Spec, RefinesPresentationExchange, Exchange!Spec

=============================================================================
