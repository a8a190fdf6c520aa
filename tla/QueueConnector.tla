---------------------------- MODULE QueueConnector ----------------------------
(***************************************************************************)
(* The request queue half of RedisBrokerConnector: listen, stop_listening  *)
(* and send_request called from any thread, the queue worker thread, and   *)
(* the parts of the constructor and the destructor that concern it.        *)
(*                                                                         *)
(* A queue is a Redis list: LPUSH appends a request, BRPOP takes the       *)
(* oldest of the first list, in the order of the command, that has one,    *)
(* and blocks when all are empty.  The worker cannot change the lists of a *)
(* BRPOP that is blocked, so the technical channel is a list as well, the  *)
(* first of the command, and a token pushed on it makes the BRPOP return.  *)
(*                                                                         *)
(* The server is external and modelled from how the connector uses it.     *)
(* m_redis_action_lock is the atomicity of a push, as in EventConnector,   *)
(* and so is the meaning of Faulty_.                                       *)
(***************************************************************************)
EXTENDS Naturals, Sequences, SequencesExt, Lists

CONSTANTS
    Callers,      \* application threads that call listen and stop_listening
    Queues,       \* request queues of the application
    Technical,    \* m_technical_channel
    NoCaller,     \* nobody holds m_queue_subscription_lock
    MaxCalls,     \* bound: calls of listen and stop_listening
    MaxRequests,  \* bound: requests sent, by this process or another
    MaxWakeups,   \* bound: rounds of the constructor's handshake loop
    MaxFailures   \* bound: exceptions thrown by the RPUSH of a token

ASSUME NamesAssumption == Technical \notin Queues /\ NoCaller \notin Callers
ASSUME BoundsAssumption ==
    /\ MaxCalls \in Nat /\ MaxRequests \in Nat
    /\ MaxWakeups \in Nat /\ MaxFailures \in Nat

VARIABLES
    pending,     \* Redis: the requests of each queue, oldest first
    tokens,      \* Redis: length of the list of the technical channel
    m_queue_subscriptions,
    m_queue_subscriptions_changed,
    m_queue_subscription_lock,
    m_queue_thread_alive,
    m_is_running,
    queues,      \* the worker's copy of m_queue_subscriptions
    worker,      \* where the queue worker thread is
    current,     \* what its BRPOP returned
    pc,          \* where each caller is
    op,          \* the call each caller is making
    owner,       \* where the thread that owns the connector is
    calls, requested, wakeups, failures     \* counters for the bounds

redis == <<pending, tokens>>
subscriptions == <<m_queue_subscriptions, m_queue_subscriptions_changed,
                   m_queue_subscription_lock>>
worker_vars == <<queues, worker, current>>
counters == <<calls, requested, wakeups, failures>>
vars == <<redis, subscriptions, m_queue_thread_alive, m_is_running, worker_vars,
          pc, op, owner, counters>>

Kinds == {"listen", "stop_listening"}
Requests == [queue : Queues, id : 1 .. MaxRequests]
Token == [queue |-> Technical, id |-> 0]
NoCall == [kind |-> "listen", queue |-> Technical]

\* A thread outside a call; an exception of the RPUSH left a "failed" one.
Outside == {"idle", "failed"}

TypeOK ==
    /\ pending \in [Queues -> Seq(1 .. MaxRequests)]
    /\ tokens \in Nat
    /\ m_queue_subscriptions \in Seq(Queues \cup {Technical})
    /\ m_queue_subscriptions_changed \in BOOLEAN
    /\ m_queue_subscription_lock \in Callers \cup {NoCaller}
    /\ m_queue_thread_alive \in BOOLEAN
    /\ m_is_running \in BOOLEAN
    /\ queues \in Seq(Queues \cup {Technical})
    /\ worker \in {"top", "load", "brpop", "blocked", "popped", "callback", "exited",
                   "terminated"}
    /\ current \in Requests \cup {Token}
    /\ worker = "callback" => current \in Requests
    /\ pc \in [Callers -> Outside \cup {"lock", "notify"}]
    /\ op \in [Callers -> [kind : Kinds, queue : Queues \cup {Technical}]]
    /\ owner \in {"handshake", "ready", "stopping", "joining", "destroyed",
                  "terminated"}
    /\ calls \in 0 .. MaxCalls
    /\ requested \in 0 .. MaxRequests
    /\ wakeups \in 0 .. MaxWakeups
    /\ failures \in 0 .. MaxFailures

\* The constructor has listed the technical channel and started the worker, and
\* is about to enter its handshake loop.  Another process may already have sent
\* requests, which SendRequest does.
Init ==
    /\ pending = [q \in Queues |-> <<>>]
    /\ tokens = 0
    /\ m_queue_subscriptions = <<Technical>>
    /\ m_queue_subscriptions_changed = TRUE
    /\ m_queue_subscription_lock = NoCaller
    /\ m_queue_thread_alive = FALSE
    /\ m_is_running = TRUE
    /\ queues = <<>>
    /\ worker = "top"
    /\ current = Token
    /\ pc = [u \in Callers |-> "idle"]
    /\ op = [u \in Callers |-> NoCall]
    /\ owner = "handshake"
    /\ calls = 0 /\ requested = 0 /\ wakeups = 0 /\ failures = 0

-----------------------------------------------------------------------------
(* The Redis server (external).                                            *)

\* The server answers a BRPOP that is blocked on a list with the very element
\* that is pushed on it.
WaitsFor(list) == worker = "blocked" /\ Contains(queues, list)

\* notify_queue_subscription_change()
NotifyQueueSubscriptionChange ==
    IF WaitsFor(Technical)
    THEN worker' = "popped" /\ current' = Token /\ UNCHANGED tokens
    ELSE tokens' = tokens + 1 /\ UNCHANGED <<worker, current>>

\* send_request(q, request), by a thread of this process or of another one
SendRequest(q) ==
    LET n == requested + 1
    IN  /\ requested < MaxRequests
        /\ requested' = n
        /\ IF WaitsFor(q)
           THEN /\ worker' = "popped"
                /\ current' = [queue |-> q, id |-> n]
                /\ UNCHANGED pending
           ELSE /\ pending' = [pending EXCEPT ![q] = Append(@, n)]
                /\ UNCHANGED <<worker, current>>
    /\ UNCHANGED <<tokens, subscriptions, m_queue_thread_alive, m_is_running, queues,
                   pc, op, owner, calls, wakeups, failures>>

IsEmpty(list) == IF list = Technical THEN tokens = 0 ELSE pending[list] = <<>>

-----------------------------------------------------------------------------
(* The queue worker thread.                                                *)

WorkerUnchanged == UNCHANGED <<m_queue_subscriptions, m_queue_subscription_lock,
                               m_is_running, pc, op, owner, counters>>

\* while (m_is_running)
WorkerLoop ==
    /\ worker = "top"
    /\ worker' = IF m_is_running THEN "load" ELSE "exited"
    /\ UNCHANGED <<redis, m_queue_subscriptions_changed, m_queue_thread_alive,
                   queues, current>>
    /\ WorkerUnchanged

\* The worker takes over the lists if they have changed, under the lock.
LoadQueues ==
    /\ worker = "load"
    /\ m_queue_subscription_lock = NoCaller
    /\ worker' = "brpop"
    /\ queues' = IF m_queue_subscriptions_changed THEN m_queue_subscriptions
                                                  ELSE queues
    /\ m_queue_subscriptions_changed' = FALSE
    /\ UNCHANGED <<redis, m_queue_thread_alive, current>>
    /\ WorkerUnchanged

\* brpop(queues): the first list of the command that is not empty ...
Pop ==
    /\ worker = "brpop"
    /\ \E i \in DOMAIN queues :
          LET list == queues[i]
          IN  /\ ~IsEmpty(list)
              /\ \A j \in 1 .. i - 1 : IsEmpty(queues[j])
              /\ IF list = Technical
                 THEN /\ tokens' = tokens - 1
                      /\ current' = Token
                      /\ UNCHANGED pending
                 ELSE /\ pending' = [pending EXCEPT ![list] = Tail(@)]
                      /\ current' = [queue |-> list, id |-> Head(pending[list])]
                      /\ UNCHANGED tokens
    /\ worker' = "popped"
    /\ UNCHANGED <<m_queue_subscriptions_changed, m_queue_thread_alive, queues>>
    /\ WorkerUnchanged

\* ... or none, and the command blocks.
Block ==
    /\ worker = "brpop"
    /\ \A i \in DOMAIN queues : IsEmpty(queues[i])
    /\ worker' = "blocked"
    /\ UNCHANGED <<redis, m_queue_subscriptions_changed, m_queue_thread_alive,
                   queues, current>>
    /\ WorkerUnchanged

\* m_queue_thread_alive = true; a token has done its work, a request is passed to
\* m_on_queue_callback.
IsTechnical(list) == list = Technical

Popped ==
    /\ worker = "popped"
    /\ m_queue_thread_alive' = TRUE
    /\ worker' = IF IsTechnical(current.queue) THEN "top" ELSE "callback"
    /\ UNCHANGED <<redis, m_queue_subscriptions_changed, queues, current>>
    /\ WorkerUnchanged

CallbackReturns ==
    /\ worker = "callback"
    /\ worker' = "top"
    /\ current' = Token
    /\ UNCHANGED <<redis, m_queue_subscriptions_changed, m_queue_thread_alive, queues>>
    /\ WorkerUnchanged

\* An exception of the callback: nothing in the thread catches it, and the process
\* ends in std::terminate with the request popped.
CallbackThrows ==
    /\ worker = "callback"
    /\ worker' = "terminated"
    /\ UNCHANGED <<redis, m_queue_subscriptions_changed, m_queue_thread_alive, queues,
                   current>>
    /\ WorkerUnchanged

-----------------------------------------------------------------------------
(* The application threads.                                                *)

CallerUnchanged == UNCHANGED <<pending, m_queue_thread_alive, m_is_running, queues,
                               owner, requested, wakeups>>

\* listen(q) or stop_listening(q) is entered.
Call(u, kind, q) ==
    /\ owner = "ready"
    /\ pc[u] \in Outside
    /\ calls < MaxCalls
    /\ calls' = calls + 1
    /\ op' = [op EXCEPT ![u] = [kind |-> kind, queue |-> q]]
    /\ pc' = [pc EXCEPT ![u] = "lock"]
    /\ UNCHANGED <<tokens, subscriptions, worker, current, failures>>
    /\ CallerUnchanged

\* push_back
Faulty_Added(list, q) == <<q>> \o list
Added(list, q) == Append(list, q)

\* std::list::remove
Removed(list, q) == RemoveAll(list, q)

Faulty_MarkChanged == UNCHANGED m_queue_subscriptions_changed
MarkChanged == m_queue_subscriptions_changed' = TRUE

\* Under the lock the list changes, and the flag says so.
Update(u) ==
    LET list == m_queue_subscriptions
        q == op[u].queue
    IN  /\ pc[u] = "lock"
        /\ m_queue_subscription_lock = NoCaller
        /\ m_queue_subscription_lock' = u
        /\ m_queue_subscriptions' = IF op[u].kind = "listen" THEN Added(list, q)
                                                             ELSE Removed(list, q)
        /\ MarkChanged
        /\ pc' = [pc EXCEPT ![u] = "notify"]
        /\ UNCHANGED <<tokens, worker, current, op, calls, failures>>
        /\ CallerUnchanged

\* The token is pushed and the lock released: the call returns, whether or not
\* the worker has seen the change.
Notify(u) ==
    /\ pc[u] = "notify"
    /\ NotifyQueueSubscriptionChange
    /\ m_queue_subscription_lock' = NoCaller
    /\ pc' = [pc EXCEPT ![u] = "idle"]
    /\ op' = [op EXCEPT ![u] = NoCall]
    /\ UNCHANGED <<m_queue_subscriptions, m_queue_subscriptions_changed, calls,
                   failures>>
    /\ CallerUnchanged

\* The RPUSH throws, before or after the server executed it; the list stays
\* changed.
NotifyFails(u) ==
    /\ pc[u] = "notify"
    /\ failures < MaxFailures
    /\ failures' = failures + 1
    /\ NotifyQueueSubscriptionChange \/ UNCHANGED <<tokens, worker, current>>
    /\ m_queue_subscription_lock' = NoCaller
    /\ pc' = [pc EXCEPT ![u] = "failed"]
    /\ op' = [op EXCEPT ![u] = NoCall]
    /\ UNCHANGED <<m_queue_subscriptions, m_queue_subscriptions_changed, calls>>
    /\ CallerUnchanged

-----------------------------------------------------------------------------
(* The thread that constructs and destroys the connector.                  *)

OwnerUnchanged == UNCHANGED <<pending, subscriptions, m_queue_thread_alive, queues,
                              pc, op, calls, requested, failures>>

\* while (!m_queue_thread_alive) notify_queue_subscription_change();
HandshakeNotify ==
    /\ owner = "handshake"
    /\ ~m_queue_thread_alive
    /\ wakeups < MaxWakeups
    /\ wakeups' = wakeups + 1
    /\ NotifyQueueSubscriptionChange
    /\ UNCHANGED <<m_is_running, owner>>
    /\ OwnerUnchanged

Constructed ==
    /\ owner = "handshake"
    /\ m_queue_thread_alive
    /\ owner' = "ready"
    /\ UNCHANGED <<tokens, worker, current, m_is_running, wakeups>>
    /\ OwnerUnchanged

\* ~RedisBrokerConnector(): no call may be in progress.
Stop ==
    /\ owner = "ready"
    /\ \A u \in Callers : pc[u] \in Outside
    /\ owner' = "stopping"
    /\ m_is_running' = FALSE
    /\ UNCHANGED <<tokens, worker, current, wakeups>>
    /\ OwnerUnchanged

Faulty_Wake ==
    /\ owner = "stopping"
    /\ owner' = "joining"
    /\ UNCHANGED <<tokens, worker, current, m_is_running, wakeups>>
    /\ OwnerUnchanged

Wake ==
    /\ owner = "stopping"
    /\ NotifyQueueSubscriptionChange
    /\ owner' = "joining"
    /\ UNCHANGED <<m_is_running, wakeups>>
    /\ OwnerUnchanged

\* Their RPUSH throws.  The constructor's exception destroys two threads that are
\* still joinable, the destructor may not throw at all: the process ends.
OwnerNotifyFails ==
    /\ \/ owner = "handshake" /\ ~m_queue_thread_alive
       \/ owner = "stopping"
    /\ failures < MaxFailures
    /\ failures' = failures + 1
    /\ owner' = "terminated"
    /\ UNCHANGED <<redis, subscriptions, m_queue_thread_alive, m_is_running,
                   worker_vars, pc, op, calls, requested, wakeups>>

\* m_queue_worker.join(); tokens it did not take stay in Redis.
Join ==
    /\ owner = "joining"
    /\ worker = "exited"
    /\ owner' = "destroyed"
    /\ UNCHANGED <<tokens, worker, current, m_is_running, wakeups>>
    /\ OwnerUnchanged

-----------------------------------------------------------------------------
WorkerStep == \/ WorkerLoop \/ LoadQueues \/ Pop \/ Block
              \/ Popped \/ CallbackReturns

CallerStep(u) == Update(u) \/ Notify(u)

OwnerStep == HandshakeNotify \/ Constructed \/ Wake \/ Join

Over == worker = "terminated" \/ owner \in {"destroyed", "terminated"}
Finished == Over /\ UNCHANGED vars

Next ==
    \/ /\ ~Over
       /\ \/ WorkerStep
          \/ \E u \in Callers :
                \/ CallerStep(u)
                \/ NotifyFails(u)
                \/ \E kind \in Kinds, q \in Queues : Call(u, kind, q)
          \/ \E q \in Queues : SendRequest(q)
          \/ CallbackThrows
          \/ OwnerStep
          \/ OwnerNotifyFails
          \/ Stop
    \/ Finished

\* The scheduler runs every thread that can take a step, the server answers, and
\* callbacks return.
Fairness ==
    /\ WF_vars(~Over /\ WorkerStep)
    /\ WF_vars(~Over /\ OwnerStep)
    /\ \A u \in Callers : WF_vars(~Over /\ CallerStep(u))

Spec == Init /\ [][Next]_vars /\ Fairness

-----------------------------------------------------------------------------
(* Correctness.                                                            *)

\* The worker never sleeps on old lists: while its BRPOP is blocked they are
\* the current ones, or the call that changed them has still to push its token.
BlockedListIsCurrent ==
    failures = 0 /\ worker = "blocked" /\ queues # m_queue_subscriptions =>
        \E u \in Callers : pc[u] = "notify"

\* One token is enough: no BRPOP is blocked once the handshake has pushed a token
\* and waits for the worker to be alive, nor once the destructor has pushed one and
\* joins it.  A token pushed at any moment is found by the next BRPOP, and nothing
\* else takes it.
OneTokenIsEnough ==
    worker = "blocked" =>
        /\ owner # "joining"
        /\ owner = "handshake" /\ ~m_queue_thread_alive => wakeups = 0

Stopping(u, q) == pc[u] = "notify" /\ op[u] = [kind |-> "stop_listening", queue |-> q]

\* Once stop_listening has returned, nothing is popped from the queue any more,
\* although the call does not wait for the worker: its token lies in the first
\* list of the command, before every request.  What the worker had popped before
\* is still to be passed to the callback.
StoppedIsNotPopped ==
    [][\A q \in Queues :
          failures = 0 /\ worker # "popped" /\ worker' = "popped" /\ current'.queue = q =>
              \/ Contains(m_queue_subscriptions, q)
              \/ \E u \in Callers : Stopping(u, q)]_vars

\* A request that waits in a queue is popped, unless somebody stops listening on
\* the queue, the connector is shut down, a token failed to be pushed or a callback
\* ended the process: no call of listen is overlooked.
ListenedIsPopped ==
    \A q \in Queues, n \in 1 .. MaxRequests :
        Contains(pending[q], n) ~>
            \/ ~Contains(pending[q], n)
            \/ ~Contains(m_queue_subscriptions, q)
            \/ ~m_is_running
            \/ failures > 0
            \/ worker = "terminated"

\* The destructor returns, unless a last callback or the token throws: the worker sees
\* m_is_running or finds the token that was pushed after it was cleared.
DestructorReturns == owner = "stopping" ~> Over
=============================================================================
