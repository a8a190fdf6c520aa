-------------------------- MODULE TransactionSystem --------------------------
(***************************************************************************)
(* Requests and responses between processes: RequestSender, the promises   *)
(* and their registry in TransactionInterface, its construction and        *)
(* destruction, the queue, RequestHandler at the consumers, and the way of *)
(* a response back.  Consumers crash and come back, pushes throw, promises *)
(* are destroyed early and responses come late.                            *)
(*                                                                         *)
(* Each sending interface has a process, hence a subscriber worker, of its *)
(* own, and so has each consumer.  What EventSystem, QueueConnector and    *)
(* ResponsePromise say in detail is coarse here: events of a channel reach *)
(* a subscriber that is subscribed in order (EventBus), a queue is popped  *)
(* in order, and await is one step.  The locks that matter are             *)
(*    m_on_response_callbacks_lock, held by the worker in the response     *)
(*        lambda and by whoever changes the registry, in one step          *)
(*    MessageHandlerManager::m_channel_subscription_lock of the            *)
(*        interface's own subscriber, held by the worker while it is in    *)
(*        the lambda and by the destructor while it unsubscribes.          *)
(***************************************************************************)
EXTENDS Naturals, Sequences

CONSTANTS
    Interfaces,   \* transaction interfaces that send
    Requests,     \* requests, by the unique id in their header
    SenderOf,     \* the interface that sends each request
    Consumers,    \* processes with a RequestHandler that listens on the queue
    Ahead,        \* those whose clock is ahead of the senders'
    NoRequest,
    MaxCrashes,   \* bound: crashes of consumers
    MaxFailures   \* bound: pushes of a request that throw

ASSUME SendersAssumption ==
    SenderOf \in [Requests -> Interfaces] /\ NoRequest \notin Requests
ASSUME ClocksAssumption == Ahead \subseteq Consumers
ASSUME FaultsAssumption == {MaxCrashes, MaxFailures} \subseteq Nat

VARIABLES
    interface,   \* how far each interface is with its construction or destruction
    subscribed,  \* interfaces whose response channel the server sends to them
    responses,   \* events of that channel that the worker has not read
    registry,    \* m_on_response_callbacks: the requests it has a promise for
    lambda,      \* where the worker is in the response lambda, with what
    pc,          \* where the thread that sends and awaits each request is
    result,      \* what the sender learns of it
    m_response,  \* the response in each promise, by the request it answers
    opened,      \* requests whose m_timeout_mutex was unlocked by on_response
    expired,     \* requests whose valid_until has passed
    queue,       \* the Redis list
    consumer,    \* where each consumer's queue worker is, with which request
    processed,   \* history: requests that a handler was called with
    lost,        \* history: requests that a consumer had when it crashed, or
                 \* discarded by a clock that is ahead
    crashes, failures   \* counters for the bounds

channel_vars == <<interface, subscribed, responses, lambda>>
promise_vars == <<registry, pc, result, m_response, opened, expired>>
queue_vars == <<queue, consumer, processed, lost, crashes>>
vars == <<channel_vars, promise_vars, queue_vars, failures>>

NotInLambda == [stage |-> "idle", id |-> NoRequest, promise |-> NoRequest]
Free == [stage |-> "idle", request |-> NoRequest]

Ids == Requests \cup {NoRequest}
LambdaStages == {"idle", "parsed", "called", "returning", "returned"}

TypeOK ==
    /\ interface \in [Interfaces -> {"absent", "present", "closing", "leaving",
                                     "destroyed", "terminated"}]
    /\ subscribed \subseteq Interfaces
    /\ responses \in [Interfaces -> Seq(Requests)]
    /\ registry \in [Interfaces -> SUBSET Requests]
    /\ lambda \in [Interfaces -> [stage : LambdaStages, id : Ids, promise : Ids]]
    /\ \A i \in Interfaces :
          /\ lambda[i].stage # "idle" => lambda[i].id \in Requests
          /\ lambda[i].stage = "called" => lambda[i].promise \in Requests
    /\ pc \in [Requests -> {"new", "registering", "pushing", "sent", "waiting",
                            "unregistering", "gone"}]
    /\ result \in [Requests -> {"none", "answered", "timed_out", "failed", "dropped"}]
    /\ m_response \in [Requests -> Ids]
    /\ opened \subseteq Requests /\ expired \subseteq Requests
    /\ queue \in Seq(Requests)
    /\ consumer \in [Consumers -> [stage : {"idle", "popped", "processed", "crashed"},
                                   request : Ids]]
    /\ \A k \in Consumers :
          consumer[k].stage \in {"popped", "processed"} <=> consumer[k].request # NoRequest
    /\ processed \subseteq Requests /\ lost \subseteq Requests
    /\ crashes \in 0 .. MaxCrashes /\ failures \in 0 .. MaxFailures

Init ==
    /\ interface = [i \in Interfaces |-> "absent"]
    /\ subscribed = {}
    /\ responses = [i \in Interfaces |-> <<>>]
    /\ registry = [i \in Interfaces |-> {}]
    /\ lambda = [i \in Interfaces |-> NotInLambda]
    /\ pc = [r \in Requests |-> "new"]
    /\ result = [r \in Requests |-> "none"]
    /\ m_response = [r \in Requests |-> NoRequest]
    /\ opened = {} /\ expired = {}
    /\ queue = <<>>
    /\ consumer = [k \in Consumers |-> Free]
    /\ processed = {} /\ lost = {}
    /\ crashes = 0 /\ failures = 0

-----------------------------------------------------------------------------
(* RequestSender::send_request, and the promise it returns.                *)

\* m_on_response_callbacks_lock of i
RegistryFree(i) == lambda[i].stage \in {"idle", "parsed", "returned"}

At(r, from, to) == pc[r] = from /\ pc' = [pc EXCEPT ![r] = to]

\* The promise is made: its deadline is fixed, its gate is closed.
SendRequest(r) ==
    /\ interface[SenderOf[r]] = "present"
    /\ At(r, "new", "registering")
    /\ UNCHANGED <<channel_vars, registry, result, m_response, opened, expired,
                   queue_vars, failures>>

\* m_response_promise_register_callback
Registers(r) == [registry EXCEPT ![SenderOf[r]] = @ \cup {r}]

Register(r) ==
    /\ At(r, "registering", "pushing")
    /\ RegistryFree(SenderOf[r])
    /\ registry' = Registers(r)
    /\ UNCHANGED <<channel_vars, result, m_response, opened, expired, queue_vars,
                   failures>>

Push(r) ==
    /\ At(r, "pushing", "sent")
    /\ queue' = Append(queue, r)
    /\ UNCHANGED <<channel_vars, registry, result, m_response, opened, expired,
                   consumer, processed, lost, crashes, failures>>

\* The push throws, before or after the server executed it: the promise is
\* destroyed while the exception leaves send_request.
Faulty_AfterThrow == "gone"
AfterThrow == "unregistering"

PushThrows(r) ==
    /\ failures < MaxFailures
    /\ failures' = failures + 1
    /\ At(r, "pushing", AfterThrow)
    /\ result' = [result EXCEPT ![r] = "failed"]
    /\ queue' = Append(queue, r) \/ UNCHANGED queue
    /\ UNCHANGED <<channel_vars, registry, m_response, opened, expired, consumer,
                   processed, lost, crashes>>

\* The deadline may pass as soon as it is fixed.
Expire(r) ==
    /\ pc[r] # "new"
    /\ r \notin expired
    /\ expired' = expired \cup {r}
    /\ UNCHANGED <<channel_vars, registry, pc, result, m_response, opened, queue_vars,
                   failures>>

\* await() is called, by the application or by the promise's own thread.
Await(r) ==
    /\ At(r, "sent", "waiting")
    /\ UNCHANGED <<channel_vars, registry, result, m_response, opened, expired,
                   queue_vars, failures>>

\* The thread that had the promise goes on to destroy it.
Read(r, from, what) ==
    /\ At(r, from, "unregistering")
    /\ result' = [result EXCEPT ![r] = what]
    /\ UNCHANGED <<channel_vars, registry, m_response, opened, expired, queue_vars,
                   failures>>

TakeAnswer(r) == r \in opened /\ Read(r, "waiting", "answered")
TimeOut(r) == r \notin opened /\ r \in expired /\ Read(r, "waiting", "timed_out")
Drop(r) == Read(r, "sent", "dropped")

\* ~ResponsePromise: m_response_promise_unregister_callback
Faulty_WaitsForRegistry(i) == TRUE
WaitsForRegistry(i) == RegistryFree(i)

Unregister(r) ==
    /\ At(r, "unregistering", "gone")
    /\ WaitsForRegistry(SenderOf[r])
    /\ registry' = [registry EXCEPT ![SenderOf[r]] = @ \ {r}]
    /\ UNCHANGED <<channel_vars, result, m_response, opened, expired, queue_vars,
                   failures>>

-----------------------------------------------------------------------------
(* The response lambda, on the worker of interface i.                      *)

LambdaUnchanged == UNCHANGED <<subscribed, registry, pc, result, expired, queue_vars,
                               failures>>

\* An event reaches MessageHandlerManager::on_message, which takes the manager's
\* lock, and through Subscriber::on_message the lambda.
TakeResponse(i) ==
    /\ lambda[i].stage = "idle"
    /\ interface[i] \in {"present", "closing"}
    /\ responses[i] # <<>>
    /\ lambda' = [lambda EXCEPT ![i] = [stage |-> "parsed", id |-> Head(responses[i]),
                                        promise |-> NoRequest]]
    /\ responses' = [responses EXCEPT ![i] = Tail(@)]
    /\ UNCHANGED <<interface, m_response, opened>>
    /\ LambdaUnchanged

\* m_on_response_callbacks.find(id)
Faulty_Entries(i, id) == registry[i]
Entries(i, id) == registry[i] \cap {id}

\* Under the registry's lock from here to the return of the lambda.
FindPromise(i) ==
    LET entries == Entries(i, lambda[i].id)
    IN  /\ lambda[i].stage = "parsed"
        /\ \/ \E r \in entries :
                 lambda' = [lambda EXCEPT ![i] = [stage |-> "called",
                                                  id |-> lambda[i].id, promise |-> r]]
           \/ /\ entries = {}
              /\ lambda' = [lambda EXCEPT ![i].stage = "returning"]
        /\ UNCHANGED <<interface, responses, m_response, opened>>
        /\ LambdaUnchanged

\* A lock and a map that are destroyed already: it may be as if they were empty, or
\* end the process.
TouchDestroyed(i) ==
    /\ lambda[i].stage = "parsed"
    /\ interface[i] = "closing"
    /\ interface' = [interface EXCEPT ![i] = "terminated"]
    /\ lambda' = [lambda EXCEPT ![i] = NotInLambda]
    /\ UNCHANGED <<responses, m_response, opened>>
    /\ LambdaUnchanged

\* ResponsePromise::on_response: after the deadline it does nothing.
OnResponse(i) ==
    LET r == lambda[i].promise
    IN  /\ lambda[i].stage = "called"
        /\ lambda' = [lambda EXCEPT ![i].stage = "returning"]
        /\ IF r \in expired
           THEN UNCHANGED <<m_response, opened>>
           ELSE /\ m_response' = [m_response EXCEPT ![r] = lambda[i].id]
                /\ opened' = opened \cup {r}
        /\ UNCHANGED <<interface, responses>>
        /\ LambdaUnchanged

\* The registry's lock is released, and then the manager's.
LambdaReturns(i) ==
    /\ lambda[i].stage = "returning"
    /\ lambda' = [lambda EXCEPT ![i].stage = "returned"]
    /\ UNCHANGED <<interface, responses, m_response, opened>>
    /\ LambdaUnchanged

OnMessageReturns(i) ==
    /\ lambda[i].stage = "returned"
    /\ lambda' = [lambda EXCEPT ![i] = NotInLambda]
    /\ UNCHANGED <<interface, responses, m_response, opened>>
    /\ LambdaUnchanged

-----------------------------------------------------------------------------
(* TransactionInterface: construction and destruction.                     *)

InterfaceUnchanged == UNCHANGED <<responses, lambda, promise_vars, queue_vars, failures>>

\* The constructor returns when the response channel is subscribed (line 51).
Open(i) ==
    /\ interface[i] = "absent"
    /\ interface' = [interface EXCEPT ![i] = "present"]
    /\ subscribed' = subscribed \cup {i}
    /\ InterfaceUnchanged

\* The application destroys promises and senders before the interface they use.
SendersGone(i) == \A r \in Requests : SenderOf[r] = i => pc[r] \in {"new", "gone"}

\* The members are destroyed from the last to the first: the registry with its lock,
\* then the subscriber, then the rest.
Close(i) ==
    /\ interface[i] = "present"
    /\ SendersGone(i)
    /\ interface' = [interface EXCEPT ![i] = "closing"]
    /\ UNCHANGED subscribed
    /\ InterfaceUnchanged

\* ~Subscriber takes the manager's lock and holds it until the worker confirms
\* the end of the subscription ...
Leave(i) ==
    /\ interface[i] = "closing"
    /\ lambda[i].stage = "idle"
    /\ interface' = [interface EXCEPT ![i] = "leaving"]
    /\ UNCHANGED subscribed
    /\ InterfaceUnchanged

ServerUnsubscribes(i) ==
    /\ interface[i] = "leaving"
    /\ i \in subscribed
    /\ subscribed' = subscribed \ {i}
    /\ UNCHANGED interface
    /\ InterfaceUnchanged

\* ... which is behind every event sent before.
Left(i) ==
    /\ interface[i] = "leaving"
    /\ i \notin subscribed
    /\ responses[i] = <<>>
    /\ interface' = [interface EXCEPT ![i] = "destroyed"]
    /\ UNCHANGED subscribed
    /\ InterfaceUnchanged

-----------------------------------------------------------------------------
(* The consumers: the queue worker and RequestHandler::on_message.         *)

ConsumerUnchanged == UNCHANGED <<interface, subscribed, lambda, promise_vars, failures>>

Becomes(k, stage, r) ==
    consumer' = [consumer EXCEPT ![k] = [stage |-> stage, request |-> r]]

Pop(k) ==
    /\ consumer[k].stage = "idle"
    /\ queue # <<>>
    /\ Becomes(k, "popped", Head(queue))
    /\ queue' = Tail(queue)
    /\ UNCHANGED <<responses, processed, lost, crashes>>
    /\ ConsumerUnchanged

\* if (now > valid_until) return.  valid_until was taken from the sender's clock, now
\* is the consumer's: one that is ahead finds a request too late that is not.
Faulty_TooLate(k, r) == TRUE
TooLate(k, r) == r \in expired \/ k \in Ahead

Discard(k) ==
    LET r == consumer[k].request
    IN  /\ consumer[k].stage = "popped"
        /\ TooLate(k, r)
        /\ Becomes(k, "idle", NoRequest)
        /\ lost' = IF k \in Ahead THEN lost \cup {r} ELSE lost
        /\ UNCHANGED <<responses, queue, processed, crashes>>
        /\ ConsumerUnchanged

\* m_on_request_callback.  No guard speaks of the deadline: the consumer's clock may be
\* behind the sender's, if only by the fraction of a millisecond that neither counts,
\* and one that is ahead may be so by less than the request has left.
Process(k) ==
    /\ consumer[k].stage = "popped"
    /\ Becomes(k, "processed", consumer[k].request)
    /\ processed' = processed \cup {consumer[k].request}
    /\ UNCHANGED <<responses, queue, lost, crashes>>
    /\ ConsumerUnchanged

\* m_publisher.publish(response_channel, response): without a subscription the
\* server drops it.
Respond(k) ==
    LET r == consumer[k].request
        i == SenderOf[r]
    IN  /\ consumer[k].stage = "processed"
        /\ Becomes(k, "idle", NoRequest)
        /\ responses' = IF i \in subscribed
                        THEN [responses EXCEPT ![i] = Append(@, r)]
                        ELSE responses
        /\ UNCHANGED <<queue, processed, lost, crashes>>
        /\ ConsumerUnchanged

\* The process ends, by itself or by an exception in the callback or the publish,
\* which nothing on the queue worker catches.  What it had popped is gone.
Crash(k) ==
    /\ consumer[k].stage # "crashed"
    /\ crashes < MaxCrashes
    /\ crashes' = crashes + 1
    /\ Becomes(k, "crashed", NoRequest)
    /\ lost' = lost \cup ({consumer[k].request} \ {NoRequest})
    /\ UNCHANGED <<responses, queue, processed>>
    /\ ConsumerUnchanged

Restart(k) ==
    /\ consumer[k].stage = "crashed"
    /\ Becomes(k, "idle", NoRequest)
    /\ UNCHANGED <<responses, queue, processed, lost, crashes>>
    /\ ConsumerUnchanged

-----------------------------------------------------------------------------
\* What the thread of request r does by itself.
SenderStep(r) ==
    Register(r) \/ Push(r) \/ TakeAnswer(r) \/ TimeOut(r) \/ Unregister(r)

WorkerStep(i) ==
    \/ TakeResponse(i) \/ FindPromise(i) \/ TouchDestroyed(i) \/ OnResponse(i)
    \/ LambdaReturns(i) \/ OnMessageReturns(i)

DestructorStep(i) == Leave(i) \/ ServerUnsubscribes(i) \/ Left(i)

ConsumerStep(k) == Pop(k) \/ Discard(k) \/ Process(k) \/ Respond(k)

Next ==
    \/ \E r \in Requests :
          \/ SenderStep(r)
          \/ SendRequest(r) \/ PushThrows(r) \/ Expire(r) \/ Await(r) \/ Drop(r)
    \/ \E i \in Interfaces : WorkerStep(i) \/ Open(i) \/ Close(i) \/ DestructorStep(i)
    \/ \E k \in Consumers : ConsumerStep(k) \/ Crash(k) \/ Restart(k)

\* Threads, workers and the server go on.  Nobody is obliged to send, to await, to
\* destroy, to crash or to restart, and no deadline need pass.
Fairness ==
    /\ \A r \in Requests : WF_vars(SenderStep(r))
    /\ \A i \in Interfaces : WF_vars(WorkerStep(i)) /\ WF_vars(DestructorStep(i))
    /\ \A k \in Consumers : WF_vars(ConsumerStep(k))

Spec == Init /\ [][Next]_vars /\ Fairness

-----------------------------------------------------------------------------
(* Correctness.                                                            *)

\* The promises that exist: from their construction to the end of their destructor.
Promises == {r \in Requests : pc[r] \notin {"new", "gone"}}

\* The registry and the lambda only name promises that exist, also after a push
\* that threw and while promises are destroyed: the worker never writes into one
\* that is gone.
CalledPromisesExist ==
    \A i \in Interfaces :
        /\ registry[i] \subseteq Promises
        /\ lambda[i].stage = "called" => lambda[i].promise \in Promises

\* Every request that interface i sent has been answered.
AllAnswered(i) ==
    \A r \in Requests : SenderOf[r] = i => pc[r] = "new" \/ result[r] = "answered"

\* An interface all of whose requests were answered is destroyed safely: the worker
\* is not in the lambda, nor does it come there, while registry and lock are gone, and
\* no response waits for the manager's lock while the destructor waits for the worker.
ClosesInPeace ==
    \A i \in Interfaces :
        interface[i] \in {"closing", "leaving"} /\ AllAnswered(i) =>
            lambda[i].stage \in {"idle", "returned"} /\ responses[i] = <<>>

Fate(r) ==
    IF pc[r] \in {"new", "registering", "pushing"} THEN "new"
    ELSE IF result[r] = "none" THEN "pending" ELSE result[r]

T == INSTANCE Transactions WITH
    fate <- [r \in Requests |-> Fate(r)],
    answer <- [r \in Requests |-> IF result[r] = "answered" THEN m_response[r]
                                                            ELSE NoRequest]

\* A request is processed at most once, by one consumer, and its promise gives the
\* answer to this request or none, whatever crashes, fails or comes late.
ImplementsTransactions == T!Spec

\* An await ends with an answer before the deadline, unless the one consumer that
\* had popped the request crashed or found it too late by a clock that is ahead, or
\* all are down; and the destructor of an interface whose requests were answered ends.
CallsEnd ==
    /\ \A r \in Requests :
          pc[r] = "waiting" ~> \/ pc[r] # "waiting"
                               \/ r \in expired \cup lost
                               \/ \A k \in Consumers : consumer[k].stage = "crashed"
    /\ \A i \in Interfaces :
          interface[i] = "closing" /\ AllAnswered(i) ~> interface[i] = "destroyed"
=============================================================================
