--------------------------- MODULE MCPresentation ---------------------------
(***************************************************************************)
(* Presentation for TLC.                                                   *)
(***************************************************************************)
EXTENDS Presentation, TLC

\* Responses and cancellations of requests by value over stale reads; retrievals
\* of request objects on consistent ones.
MCWorkloads ==
    {[calls |-> Callbacks \cup Cancels, byReference |-> {FALSE}, staleReads |-> TRUE],
     [calls |-> Fetches, byReference |-> {TRUE, FALSE}, staleReads |-> FALSE]}

\* A response, whatever the request was.
MCInstanceWorkloads ==
    {[calls |-> Callbacks, byReference |-> {TRUE, FALSE}, staleReads |-> FALSE]}

\* Processes and states are left out: Init chooses one of each.
PresentationSymmetry ==
    UNION {Permutations(S) : S \in {Txs, Fetches, Callbacks, Cancels}}

=============================================================================
