---------------------------- MODULE Transactions ----------------------------
(***************************************************************************)
(* What the transaction half of oregano promises to whoever sends a        *)
(* request: "only one consumer will receive the given request", "only the  *)
(* request issuer gets the response", and only the promise of that very    *)
(* request is answered (README.md of the library).  TransactionSystem      *)
(* implements this specification.                                          *)
(***************************************************************************)
EXTENDS Naturals

CONSTANTS Requests, NoRequest

VARIABLES
    fate,       \* what the sender knows of each request
    processed,  \* the requests that a handler was called with
    answer      \* the request whose answer the promise of each request gave

vars == <<fate, processed, answer>>

\* A request whose push threw has failed for its sender and may be in the queue
\* all the same; one whose promise was given up is dropped.
Settled == {"answered", "timed_out", "failed", "dropped"}

TypeOK ==
    /\ fate \in [Requests -> {"new", "pending"} \cup Settled]
    /\ processed \subseteq Requests
    /\ answer \in [Requests -> Requests \cup {NoRequest}]

Init ==
    /\ fate = [r \in Requests |-> "new"]
    /\ processed = {}
    /\ answer = [r \in Requests |-> NoRequest]

Send(r) ==
    /\ fate[r] = "new"
    /\ \E f \in {"pending", "failed"} : fate' = [fate EXCEPT ![r] = f]
    /\ UNCHANGED <<processed, answer>>

\* At most once, also when the sender has given up in the meantime.
Process(r) ==
    /\ fate[r] # "new"
    /\ r \notin processed
    /\ processed' = processed \cup {r}
    /\ UNCHANGED <<fate, answer>>

\* The promise gives the answer to its own request.
Answer(r) ==
    /\ fate[r] = "pending"
    /\ r \in processed
    /\ fate' = [fate EXCEPT ![r] = "answered"]
    /\ answer' = [answer EXCEPT ![r] = r]
    /\ UNCHANGED processed

GiveUp(r) ==
    /\ fate[r] = "pending"
    /\ \E f \in {"timed_out", "dropped"} : fate' = [fate EXCEPT ![r] = f]
    /\ UNCHANGED <<processed, answer>>

Next == \E r \in Requests : Send(r) \/ Process(r) \/ Answer(r) \/ GiveUp(r)

Spec == Init /\ [][Next]_vars
=============================================================================
