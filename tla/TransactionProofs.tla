------------------------- MODULE TransactionProofs -------------------------
(***************************************************************************)
(* Theorems about TransactionSystem, for any interfaces, requests and      *)
(* consumers and for any number of crashes and failing pushes.             *)
(***************************************************************************)
EXTENDS TransactionSystem, TLAPS

Sent(r) == pc[r] \notin {"new", "registering", "pushing"}

\* An entry of the registry belongs to a promise of that interface that has not
\* unregistered yet, and stays while the lambda uses it.
Registered ==
    \A i \in Interfaces :
        /\ \A r \in registry[i] : SenderOf[r] = i /\ pc[r] \notin {"new", "registering", "gone"}
        /\ lambda[i].stage = "called" => lambda[i].promise \in registry[i]

\* A request is in the queue once, or with one consumer, or nowhere.
InOnePlace ==
    /\ \A m, n \in DOMAIN queue : queue[m] = queue[n] => m = n
    /\ \A n \in DOMAIN queue : queue[n] \notin processed /\ Sent(queue[n])
    /\ \A k \in Consumers : consumer[k].request # NoRequest =>
          /\ Sent(consumer[k].request)
          /\ \A n \in DOMAIN queue : queue[n] # consumer[k].request
          /\ \A l \in Consumers : consumer[l].request = consumer[k].request => l = k
          /\ consumer[k].stage = "popped" <=> consumer[k].request \notin processed
    /\ \A r \in processed : Sent(r)

\* A response answers a request that was processed, and a promise takes only
\* the response to its own request.
OwnAnswer ==
    /\ \A i \in Interfaces : \A n \in DOMAIN responses[i] : responses[i][n] \in processed
    /\ \A i \in Interfaces :
          /\ lambda[i].stage # "idle" => lambda[i].id \in processed
          /\ lambda[i].stage = "called" => lambda[i].promise = lambda[i].id
    /\ \A r \in opened : m_response[r] = r /\ r \in processed
    /\ \A r \in Requests :
          /\ pc[r] \notin {"unregistering", "gone"} => result[r] = "none"
          /\ result[r] = "answered" => r \in opened

\* A response is on its way once, or in the lambda, or still to be sent, and it
\* leaves the registry's lock before the promise that it opened is gone.
OneResponse ==
    /\ \A i \in Interfaces :
          /\ \A m, n \in DOMAIN responses[i] : responses[i][m] = responses[i][n] => m = n
          /\ \A n \in DOMAIN responses[i] :
                /\ SenderOf[responses[i][n]] = i
                /\ responses[i][n] \notin opened
                /\ lambda[i].stage # "idle" => lambda[i].id # responses[i][n]
                /\ \A k \in Consumers : consumer[k].request # responses[i][n]
          /\ lambda[i].stage # "idle" =>
                /\ SenderOf[lambda[i].id] = i
                /\ \A k \in Consumers : consumer[k].request # lambda[i].id
                /\ lambda[i].id \in opened =>
                      \/ lambda[i].stage = "returned"
                      \/ lambda[i].stage = "returning" /\ pc[lambda[i].id] # "gone"
    /\ \A k \in Consumers : consumer[k].request \notin opened

\* Nobody sends through an interface that is being destroyed.
NoSenders ==
    \A i \in Interfaces : interface[i] \in {"closing", "leaving"} => SendersGone(i)

IInv == TypeOK /\ Registered /\ InOnePlace /\ OwnAnswer /\ OneResponse /\ NoSenders

-----------------------------------------------------------------------------
(* Sequences.                                                              *)

\* What Append, Head and Tail do to a queue.
LEMMA AppendFacts ==
    ASSUME NEW S, NEW q \in Seq(S), NEW e \in S
    PROVE  /\ Append(q, e) \in Seq(S)
           /\ Append(q, e)[Len(q) + 1] = e
           /\ Len(q) + 1 \notin DOMAIN q
           /\ DOMAIN Append(q, e) = DOMAIN q \cup {Len(q) + 1}
           /\ \A n \in DOMAIN q : Append(q, e)[n] = q[n]
    OBVIOUS

LEMMA TailFacts ==
    ASSUME NEW S, NEW q \in Seq(S), q # <<>>
    PROVE  /\ Head(q) \in S /\ Tail(q) \in Seq(S)
           /\ 1 \in DOMAIN q /\ Head(q) = q[1]
           /\ \A n \in DOMAIN Tail(q) :
                 n + 1 \in DOMAIN q /\ n + 1 # 1 /\ Tail(q)[n] = q[n + 1]
           /\ \A m, n \in DOMAIN Tail(q) : m + 1 = n + 1 => m = n
    OBVIOUS

-----------------------------------------------------------------------------
(* Types.                                                                  *)

LEMMA SenderTypes ==
    ASSUME TypeOK, NEW r \in Requests,
           \/ SenderStep(r)
           \/ SendRequest(r) \/ PushThrows(r) \/ Expire(r) \/ Await(r) \/ Drop(r)
    PROVE  TypeOK'
  <1> USE SendersAssumption, FaultsAssumption DEF TypeOK, channel_vars, queue_vars, At, Ids
  <1>1. CASE SendRequest(r) BY <1>1 DEF SendRequest
  <1>2. CASE Register(r) BY <1>2 DEF Register, Registers
  <1>3. CASE Push(r) BY <1>3, AppendFacts DEF Push
  <1>4. CASE PushThrows(r)
    <2>1. queue' \in Seq(Requests)
      <3>1. queue \in Seq(Requests) /\ Append(queue, r) \in Seq(Requests)
        BY AppendFacts
      <3>2. queue' = Append(queue, r) \/ queue' = queue
        BY <1>4 DEF PushThrows
      <3> QED BY <3>1, <3>2
    <2>2. failures' \in 0 .. MaxFailures
      BY <1>4 DEF PushThrows
    <2>3. pc' = [pc EXCEPT ![r] = "unregistering"] /\ result' = [result EXCEPT ![r] = "failed"]
      BY <1>4 DEF PushThrows, AfterThrow
    <2>4. UNCHANGED <<interface, subscribed, responses, lambda, registry, m_response, opened,
                      expired, consumer, processed, lost, crashes>>
      BY <1>4 DEF PushThrows
    <2> QED BY <2>1, <2>2, <2>3, <2>4
  <1>5. CASE Expire(r) BY <1>5 DEF Expire
  <1>6. CASE Await(r) BY <1>6 DEF Await
  <1>7. CASE Drop(r) BY <1>7 DEF Drop, Read
  <1>8. CASE TakeAnswer(r) BY <1>8 DEF TakeAnswer, Read
  <1>9. CASE TimeOut(r) BY <1>9 DEF TimeOut, Read
  <1>10. CASE Unregister(r) BY <1>10 DEF Unregister
  <1> QED
    BY <1>1, <1>2, <1>3, <1>4, <1>5, <1>6, <1>7, <1>8, <1>9, <1>10 DEF SenderStep

\* The worker moves on in the lambda with what it has.
LEMMA LambdaMoves ==
    ASSUME TypeOK, NEW i \in Interfaces,
           NEW to \in LambdaStages,
           lambda' = [lambda EXCEPT ![i].stage = to]
    PROVE  /\ lambda' \in [Interfaces -> [stage : LambdaStages,
                                         id : Ids, promise : Ids]]
           /\ lambda'[i].stage = to
           /\ lambda'[i].id = lambda[i].id /\ lambda'[i].promise = lambda[i].promise
           /\ \A j \in Interfaces : j # i => lambda'[j] = lambda[j]
  <1>1. lambda \in [Interfaces -> [stage : LambdaStages,
                                  id : Ids, promise : Ids]]
    BY DEF TypeOK
  <1> QED BY <1>1

\* What TypeOK says of the lambda.
LambdaOK ==
    /\ lambda \in [Interfaces -> [stage : LambdaStages,
                                  id : Ids, promise : Ids]]
    /\ \A i \in Interfaces :
          /\ lambda[i].stage # "idle" => lambda[i].id \in Requests
          /\ lambda[i].stage = "called" => lambda[i].promise \in Requests

LEMMA WorkerTypes ==
    ASSUME TypeOK, NEW i \in Interfaces, WorkerStep(i)
    PROVE  TypeOK'
  <1>1. LambdaOK /\ responses \in [Interfaces -> Seq(Requests)]
    BY DEF TypeOK, LambdaOK
  <1>2. LambdaUnchanged
    BY DEF WorkerStep, TakeResponse, FindPromise, TouchDestroyed, OnResponse, LambdaReturns,
           OnMessageReturns
  <1>3. LambdaOK'
    <2>1. CASE TakeResponse(i)
      <3>1. Head(responses[i]) \in Requests
        BY <1>1, <2>1, TailFacts DEF TakeResponse
      <3> QED BY <1>1, <2>1, <3>1, SendersAssumption DEF TakeResponse, LambdaOK, Ids, LambdaStages
    <2>2. CASE FindPromise(i)
      <3>1. CASE lambda' = [lambda EXCEPT ![i].stage = "returning"]
        BY <1>1, <2>2, <3>1, LambdaMoves DEF FindPromise, LambdaOK, LambdaStages
      <3>2. ASSUME NEW r \in Entries(i, lambda[i].id),
                   lambda' = [lambda EXCEPT ![i] = [stage |-> "called",
                                                    id |-> lambda[i].id, promise |-> r]]
            PROVE  LambdaOK'
        <4>1. r \in Requests
          BY DEF Entries, TypeOK
        <4>2. lambda[i].id \in Requests
          BY <1>1, <2>2 DEF FindPromise, LambdaOK
        <4> QED BY <1>1, <3>2, <4>1, <4>2 DEF LambdaOK, Ids, LambdaStages
      <3> QED BY <2>2, <3>1, <3>2 DEF FindPromise
    <2>3. CASE TouchDestroyed(i) \/ OnMessageReturns(i)
      <3>1. lambda' = [lambda EXCEPT ![i] = NotInLambda]
        BY <2>3 DEF TouchDestroyed, OnMessageReturns
      <3>2. /\ NotInLambda \in [stage : LambdaStages,
                                id : Ids, promise : Ids]
            /\ NotInLambda.stage = "idle"
        BY DEF NotInLambda, Ids, LambdaStages
      <3> QED BY <1>1, <3>1, <3>2 DEF LambdaOK
    <2>4. CASE OnResponse(i) \/ LambdaReturns(i)
      <3>1. PICK to \in LambdaStages : /\ to \notin {"idle", "called"}
                                      /\ lambda' = [lambda EXCEPT ![i].stage = to]
        BY <2>4 DEF OnResponse, LambdaReturns, LambdaStages
      <3>2. lambda[i].stage # "idle"
        BY <2>4 DEF OnResponse, LambdaReturns
      <3>3. /\ lambda'[i].stage = to /\ lambda'[i].id = lambda[i].id
            /\ \A j \in Interfaces : j # i => lambda'[j] = lambda[j]
            /\ lambda' \in [Interfaces -> [stage : LambdaStages, id : Ids, promise : Ids]]
        BY <3>1, LambdaMoves
      <3> QED BY <1>1, <3>1, <3>2, <3>3 DEF LambdaOK
    <2> QED BY <2>1, <2>2, <2>3, <2>4 DEF WorkerStep
  <1>4. responses' \in [Interfaces -> Seq(Requests)]
    <2>1. CASE TakeResponse(i) BY <1>1, <2>1, TailFacts DEF TakeResponse
    <2>2. CASE ~TakeResponse(i)
      BY <1>1, <2>2 DEF WorkerStep, FindPromise, TouchDestroyed, OnResponse, LambdaReturns,
                        OnMessageReturns
    <2> QED BY <2>1, <2>2
  <1>5. m_response' \in [Requests -> Ids] /\ opened' \subseteq Requests
    <2>1. CASE OnResponse(i)
      <3>1. lambda[i].promise \in Requests /\ lambda[i].id \in Ids
        BY <1>1, <2>1 DEF OnResponse, LambdaOK
      <3> QED BY <2>1, <3>1 DEF OnResponse, TypeOK
    <2>2. CASE ~OnResponse(i)
      BY <2>2 DEF WorkerStep, FindPromise, TouchDestroyed, TakeResponse, LambdaReturns,
                  OnMessageReturns, TypeOK
    <2> QED BY <2>1, <2>2
  <1>6. \/ UNCHANGED interface
        \/ interface' = [interface EXCEPT ![i] = "terminated"]
    BY DEF WorkerStep, TakeResponse, FindPromise, TouchDestroyed, OnResponse, LambdaReturns,
           OnMessageReturns
  <1> QED
    BY <1>2, <1>3, <1>4, <1>5, <1>6 DEF TypeOK, LambdaOK, LambdaUnchanged, queue_vars

LEMMA InterfaceTypes ==
    ASSUME TypeOK, NEW i \in Interfaces, Open(i) \/ Close(i) \/ DestructorStep(i)
    PROVE  TypeOK'
  <1> USE DEF TypeOK, InterfaceUnchanged, promise_vars, queue_vars
  <1>1. CASE Open(i) BY <1>1 DEF Open
  <1>2. CASE Close(i) BY <1>2 DEF Close
  <1>3. CASE Leave(i) BY <1>3 DEF Leave
  <1>4. CASE ServerUnsubscribes(i) BY <1>4 DEF ServerUnsubscribes
  <1>5. CASE Left(i) BY <1>5 DEF Left
  <1> QED BY <1>1, <1>2, <1>3, <1>4, <1>5 DEF DestructorStep

LEMMA ConsumerTypes ==
    ASSUME TypeOK, NEW k \in Consumers, ConsumerStep(k) \/ Crash(k) \/ Restart(k)
    PROVE  TypeOK'
  <1> USE SendersAssumption, FaultsAssumption
      DEF TypeOK, ConsumerUnchanged, promise_vars, Becomes, Ids
  <1>1. CASE Pop(k) BY <1>1, TailFacts DEF Pop
  <1>2. CASE Discard(k) BY <1>2 DEF Discard
  <1>3. CASE Process(k) BY <1>3 DEF Process
  <1>4. CASE Respond(k) BY SMTT(30), <1>4, AppendFacts DEF Respond
  <1>5. CASE Crash(k) BY <1>5 DEF Crash
  <1>6. CASE Restart(k) BY <1>6 DEF Restart
  <1> QED BY <1>1, <1>2, <1>3, <1>4, <1>5, <1>6 DEF ConsumerStep

LEMMA NextTypeOK ==
    ASSUME TypeOK, [Next]_vars
    PROVE  TypeOK'
  <1>1. CASE UNCHANGED vars
    BY <1>1 DEF TypeOK, Ids, vars, channel_vars, promise_vars, queue_vars
  <1>2. CASE Next
    BY <1>2, SenderTypes, WorkerTypes, InterfaceTypes, ConsumerTypes DEF Next
  <1> QED BY <1>1, <1>2

\* Every variable keeps its type; a worker in the lambda has a request, and a consumer
\* has one exactly while it deals with it (RequestHandler.cpp:27-50).
THEOREM TypeCorrect == Spec => []TypeOK
  <1>1. Init => TypeOK
    BY SendersAssumption, FaultsAssumption DEF Init, TypeOK, Ids, NotInLambda, LambdaStages, Free
  <1> QED BY <1>1, NextTypeOK, PTL DEF Spec

-----------------------------------------------------------------------------
(* The registry and the lambda.                                            *)

LEMMA NextRegistered ==
    ASSUME TypeOK, Registered, [Next]_vars
    PROVE  Registered'
  <1> USE SendersAssumption
  <1>1. CASE UNCHANGED <<registry, lambda, pc>>
    BY <1>1 DEF Registered
  <1>2. ASSUME NEW r \in Requests,
               \/ SendRequest(r) \/ Push(r) \/ PushThrows(r) \/ Await(r) \/ Drop(r)
               \/ TakeAnswer(r) \/ TimeOut(r)
        PROVE  Registered'
    <2>1. /\ pc[r] \in {"new", "pushing", "sent", "waiting"}
          /\ UNCHANGED <<registry, lambda>>
          /\ \E to : to \notin {"new", "gone"} /\ pc' = [pc EXCEPT ![r] = to]
                     /\ (to = "registering" => pc[r] = "new")
      BY <1>2 DEF SendRequest, Push, PushThrows, Await, Drop, TakeAnswer, TimeOut, Read, At,
                  AfterThrow, channel_vars
    <2> QED BY <2>1 DEF Registered, TypeOK
  <1>3. ASSUME NEW r \in Requests, Register(r)
        PROVE  Registered'
    <2>1. /\ pc[r] = "registering" /\ pc' = [pc EXCEPT ![r] = "pushing"]
          /\ registry' = [registry EXCEPT ![SenderOf[r]] = @ \cup {r}]
          /\ UNCHANGED lambda
      BY <1>3 DEF Register, Registers, At, channel_vars
    <2> QED BY <2>1 DEF Registered, TypeOK
  <1>4. ASSUME NEW r \in Requests, Unregister(r)
        PROVE  Registered'
    <2>1. /\ pc' = [pc EXCEPT ![r] = "gone"]
          /\ registry' = [registry EXCEPT ![SenderOf[r]] = @ \ {r}]
          /\ lambda[SenderOf[r]].stage # "called"
          /\ UNCHANGED lambda
      BY <1>4 DEF Unregister, WaitsForRegistry, RegistryFree, At, channel_vars
    <2>2. ASSUME NEW i \in Interfaces, NEW q \in registry'[i]
          PROVE  SenderOf[q] = i /\ pc'[q] \notin {"new", "registering", "gone"}
      <3>1. q \in registry[i] /\ q \in Requests
        BY <2>1 DEF TypeOK
      <3>2. q # r
        BY <2>1, <3>1 DEF Registered, TypeOK
      <3> QED BY <2>1, <3>1, <3>2 DEF Registered, TypeOK
    <2>3. ASSUME NEW i \in Interfaces, lambda'[i].stage = "called"
          PROVE  lambda'[i].promise \in registry'[i]
      <3>1. lambda[i].promise \in registry[i] /\ SenderOf[r] # i
        BY <2>1, <2>3 DEF Registered
      <3> QED BY <2>1, <3>1 DEF TypeOK
    <2> QED BY <2>2, <2>3 DEF Registered
  <1>5. ASSUME NEW i \in Interfaces, WorkerStep(i)
        PROVE  Registered'
    <2>1. UNCHANGED <<registry, pc>>
      BY <1>5 DEF WorkerStep, TakeResponse, FindPromise, TouchDestroyed, OnResponse,
                  LambdaReturns, OnMessageReturns, LambdaUnchanged
    <2>2. \A j \in Interfaces : j # i => lambda'[j] = lambda[j]
      BY <1>5 DEF WorkerStep, TakeResponse, FindPromise, TouchDestroyed, OnResponse,
                  LambdaReturns, OnMessageReturns, TypeOK
    <2>3. lambda'[i].stage = "called" => lambda'[i].promise \in registry[i]
      <3>1. CASE FindPromise(i)
        <4>1. CASE lambda' = [lambda EXCEPT ![i].stage = "returning"]
          BY <4>1, LambdaMoves DEF LambdaStages
        <4>2. ASSUME NEW r \in Entries(i, lambda[i].id),
                     lambda' = [lambda EXCEPT ![i] = [stage |-> "called",
                                                      id |-> lambda[i].id, promise |-> r]]
              PROVE  lambda'[i].promise \in registry[i]
          BY <4>2 DEF Entries, TypeOK
        <4> QED BY <3>1, <4>1, <4>2 DEF FindPromise
      <3>2. CASE OnResponse(i) \/ LambdaReturns(i)
        BY <3>2, LambdaMoves DEF OnResponse, LambdaReturns, LambdaStages
      <3>3. CASE TakeResponse(i) \/ TouchDestroyed(i) \/ OnMessageReturns(i)
        BY <3>3 DEF TakeResponse, TouchDestroyed, OnMessageReturns, NotInLambda, TypeOK
      <3> QED BY <1>5, <3>1, <3>2, <3>3 DEF WorkerStep
    <2> QED BY <2>1, <2>2, <2>3 DEF Registered
  <1>6. ASSUME \/ \E r \in Requests : Expire(r)
               \/ \E i \in Interfaces : Open(i) \/ Close(i) \/ DestructorStep(i)
               \/ \E k \in Consumers : ConsumerStep(k) \/ Crash(k) \/ Restart(k)
        PROVE  UNCHANGED <<registry, lambda, pc>>
    BY <1>6 DEF Expire, Open, Close, DestructorStep, Leave, ServerUnsubscribes, Left,
                ConsumerStep, Pop, Discard, Process, Respond, Crash, Restart,
                InterfaceUnchanged, ConsumerUnchanged, promise_vars, channel_vars
  <1> QED
    BY <1>1, <1>2, <1>3, <1>4, <1>5, <1>6
    DEF Next, SenderStep, vars, channel_vars, promise_vars

\* No call reaches a promise that is gone, whatever fails and however late a response
\* comes (TransactionInterface.cpp:44-72).
THEOREM OnlyPromisesAreCalled == Spec => []CalledPromisesExist
  <1>1. Init => Registered
    <2> SUFFICES ASSUME Init, NEW i \in Interfaces
                 PROVE  registry[i] = {} /\ lambda[i].stage = "idle"
      BY DEF Registered
    <2> QED BY DEF Init, NotInLambda
  <1>2. TypeOK /\ Registered => CalledPromisesExist
    <2> SUFFICES ASSUME TypeOK, Registered, NEW i \in Interfaces
                 PROVE  /\ registry[i] \subseteq Promises
                        /\ lambda[i].stage = "called" => lambda[i].promise \in Promises
      BY DEF CalledPromisesExist
    <2>1. registry[i] \subseteq Requests
      BY DEF TypeOK
    <2> QED BY <2>1 DEF Registered, Promises
  <1> QED BY <1>1, <1>2, TypeCorrect, NextRegistered, PTL DEF Spec

-----------------------------------------------------------------------------
(* The queue and the consumers.                                            *)

\* A consumer k that changes, with a request r or without.
LEMMA ConsumerMoves ==
    ASSUME TypeOK, NEW k \in Consumers, NEW stage, NEW r, Becomes(k, stage, r)
    PROVE  /\ consumer'[k].stage = stage /\ consumer'[k].request = r
           /\ \A l \in Consumers : l # k => consumer'[l] = consumer[l]
  BY DEF TypeOK, Becomes

\* A request becomes Sent by being put into the queue, or when that throws.
LEMMA PushedInOnePlace ==
    ASSUME TypeOK, InOnePlace, NEW r \in Requests, Push(r) \/ PushThrows(r)
    PROVE  InOnePlace'
  <1>1. /\ ~Sent(r) /\ UNCHANGED <<consumer, processed>>
        /\ \A q \in Requests : Sent(q)' <=> Sent(q) \/ q = r
    BY DEF Push, PushThrows, At, AfterThrow, Sent, TypeOK
  <1>2. CASE queue' = queue
    BY <1>1, <1>2 DEF InOnePlace, TypeOK, Ids
  <1>3. CASE queue' = Append(queue, r)
    <2>1. /\ DOMAIN queue' = DOMAIN queue \cup {Len(queue) + 1}
          /\ Len(queue) + 1 \notin DOMAIN queue /\ queue'[Len(queue) + 1] = r
          /\ \A n \in DOMAIN queue : queue'[n] = queue[n]
      BY <1>3, AppendFacts DEF TypeOK
    <2>2. \A n \in DOMAIN queue : queue[n] \in Requests /\ queue[n] # r
      BY <1>1 DEF InOnePlace, TypeOK
    <2>3. \A k \in Consumers : consumer[k].request # r
      BY <1>1, SendersAssumption DEF InOnePlace
    <2>4. r \notin processed
      BY <1>1 DEF InOnePlace
    <2>5. \A m, n \in DOMAIN queue' : queue'[m] = queue'[n] => m = n
      BY <2>1, <2>2 DEF InOnePlace
    <2>6. (\A n \in DOMAIN queue : queue[n] \notin processed /\ Sent(queue[n]))'
      BY <1>1, <2>1, <2>2, <2>4 DEF InOnePlace
    <2>7. ASSUME NEW k \in Consumers, consumer[k].request # NoRequest
          PROVE  /\ Sent(consumer[k].request)'
                 /\ \A n \in DOMAIN queue' : queue'[n] # consumer[k].request
                 /\ \A l \in Consumers : consumer[l].request = consumer[k].request => l = k
                 /\ consumer[k].stage = "popped" <=> consumer[k].request \notin processed
      <3>1. consumer[k].request \in Requests
        BY <2>7 DEF TypeOK, Ids
      <3> QED BY <1>1, <2>1, <2>3, <2>7, <3>1 DEF InOnePlace
    <2>8. \A q \in processed : Sent(q)'
      BY <1>1 DEF InOnePlace, TypeOK
    <2> QED BY <1>1, <2>5, <2>6, <2>7, <2>8 DEF InOnePlace
  <1> QED BY <1>2, <1>3 DEF Push, PushThrows

LEMMA ConsumedInOnePlace ==
    ASSUME TypeOK, InOnePlace, NEW k \in Consumers, ConsumerStep(k) \/ Crash(k) \/ Restart(k)
    PROVE  InOnePlace'
  <1> USE SendersAssumption
  <1>1. \A q : Sent(q)' <=> Sent(q)
    BY DEF ConsumerStep, Pop, Discard, Process, Respond, Crash, Restart, ConsumerUnchanged,
           promise_vars, Sent
  <1>2. CASE Pop(k)
    <2> DEFINE r == Head(queue)
    <2>1. /\ r \in Requests /\ 1 \in DOMAIN queue /\ r = queue[1]
          /\ \A n \in DOMAIN queue' :
                n + 1 \in DOMAIN queue /\ n + 1 # 1 /\ queue'[n] = queue[n + 1]
          /\ \A m, n \in DOMAIN queue' : m + 1 = n + 1 => m = n
      BY <1>2, TailFacts DEF Pop, TypeOK
    <2>2. /\ consumer'[k].stage = "popped" /\ consumer'[k].request = r
          /\ \A l \in Consumers : l # k => consumer'[l] = consumer[l]
      BY <1>2, ConsumerMoves DEF Pop
    <2>3. UNCHANGED processed
      BY <1>2 DEF Pop
    <2>4. Sent(r) /\ r \notin processed
      BY <2>1 DEF InOnePlace
    <2>5. \A l \in Consumers : consumer[l].request # r
      BY <2>1 DEF InOnePlace
    <2>6. \A n \in DOMAIN queue' : queue'[n] # r
      BY <2>1 DEF InOnePlace
    <2>7. \A m, n \in DOMAIN queue' : queue'[m] = queue'[n] => m = n
      BY <2>1 DEF InOnePlace
    <2>8. \A n \in DOMAIN queue' : queue'[n] \notin processed /\ Sent(queue'[n])
      BY <2>1 DEF InOnePlace
    <2>9. ASSUME NEW l \in Consumers, consumer'[l].request # NoRequest
          PROVE  /\ Sent(consumer'[l].request)
                 /\ \A n \in DOMAIN queue' : queue'[n] # consumer'[l].request
                 /\ \A j \in Consumers : consumer'[j].request = consumer'[l].request => j = l
                 /\ consumer'[l].stage = "popped" <=> consumer'[l].request \notin processed
      <3>1. CASE l = k
        BY <2>2, <2>4, <2>5, <2>6, <3>1
      <3>2. CASE l # k
        <4>1. consumer'[l] = consumer[l]
          BY <2>2, <3>2
        <4> QED BY <2>1, <2>2, <2>5, <2>9, <3>2, <4>1 DEF InOnePlace
      <3> QED BY <3>1, <3>2
    <2> QED BY <1>1, <2>3, <2>7, <2>8, <2>9 DEF InOnePlace
  <1>3. CASE Process(k)
    <2> DEFINE r == consumer[k].request
    <2>1. /\ consumer'[k].stage = "processed" /\ consumer'[k].request = r
          /\ \A l \in Consumers : l # k => consumer'[l] = consumer[l]
      BY <1>3, ConsumerMoves DEF Process
    <2>2. UNCHANGED queue /\ processed' = processed \cup {r}
      BY <1>3 DEF Process
    <2>3. r \in Requests /\ r # NoRequest
      BY <1>3 DEF Process, TypeOK, Ids
    <2>4. /\ Sent(r) /\ \A n \in DOMAIN queue : queue[n] # r
          /\ \A l \in Consumers : consumer[l].request = r => l = k
      BY <2>3 DEF InOnePlace
    <2>5. \A l \in Consumers : consumer'[l].request = consumer[l].request
      BY <2>1
    <2>6. ASSUME NEW l \in Consumers, consumer[l].request # NoRequest
          PROVE  consumer'[l].stage = "popped" <=> consumer[l].request \notin processed'
      BY <2>1, <2>2, <2>4, <2>6 DEF InOnePlace
    <2> HIDE DEF r
    <2> QED BY <1>1, <2>2, <2>4, <2>5, <2>6 DEF InOnePlace
  <1>4. CASE Discard(k) \/ Respond(k) \/ Crash(k) \/ Restart(k)
    <2>1. /\ consumer'[k].request = NoRequest
          /\ \A l \in Consumers : l # k => consumer'[l] = consumer[l]
      BY <1>4, ConsumerMoves DEF Discard, Respond, Crash, Restart
    <2>2. UNCHANGED <<queue, processed>>
      BY <1>4 DEF Discard, Respond, Crash, Restart
    <2> QED BY <1>1, <2>1, <2>2 DEF InOnePlace
  <1> QED BY <1>2, <1>3, <1>4 DEF ConsumerStep

LEMMA NextInOnePlace ==
    ASSUME TypeOK, InOnePlace, [Next]_vars
    PROVE  InOnePlace'
  <1>1. CASE UNCHANGED <<queue, consumer, processed>> /\ \A q : Sent(q) => Sent(q)'
    BY <1>1 DEF InOnePlace
  <1>2. ASSUME \/ UNCHANGED vars
               \/ \E r \in Requests : SendRequest(r) \/ Register(r) \/ Expire(r) \/ Await(r)
                                       \/ Drop(r) \/ TakeAnswer(r) \/ TimeOut(r)
                                       \/ Unregister(r)
               \/ \E i \in Interfaces : WorkerStep(i) \/ Open(i) \/ Close(i)
                                         \/ DestructorStep(i)
        PROVE  UNCHANGED <<queue, consumer, processed>> /\ \A q : Sent(q) => Sent(q)'
    <2>1. UNCHANGED <<queue, consumer, processed>>
      BY <1>2 DEF vars, SendRequest, Register, Expire, Await, Drop, TakeAnswer, TimeOut, Read,
           Unregister, WorkerStep, TakeResponse, FindPromise, TouchDestroyed, OnResponse,
           LambdaReturns, OnMessageReturns, LambdaUnchanged, Open, Close, DestructorStep,
           Leave, ServerUnsubscribes, Left, InterfaceUnchanged, queue_vars
    <2>2. \/ UNCHANGED pc
          \/ \E r \in Requests : \E to : /\ pc' = [pc EXCEPT ![r] = to]
                                         /\ \/ ~Sent(r)
                                            \/ to \in {"sent", "waiting", "unregistering", "gone"}
      BY <1>2 DEF vars, SendRequest, Register, Expire, Await, Drop, TakeAnswer, TimeOut, Read,
           Unregister, WorkerStep, TakeResponse, FindPromise, TouchDestroyed, OnResponse,
           LambdaReturns, OnMessageReturns, LambdaUnchanged, Open, Close, DestructorStep,
           Leave, ServerUnsubscribes, Left, InterfaceUnchanged, promise_vars, At, Sent
    <2>3. ASSUME NEW r, NEW to, pc' = [pc EXCEPT ![r] = to], NEW q, Sent(q),
                 ~Sent(r) \/ to \in {"sent", "waiting", "unregistering", "gone"}
          PROVE  Sent(q)'
      BY <2>3 DEF Sent, TypeOK
    <2> QED BY <2>1, <2>2, <2>3 DEF Sent
  <1> QED
    BY <1>1, <1>2, PushedInOnePlace, ConsumedInOnePlace DEF Next, SenderStep

-----------------------------------------------------------------------------
(* Responses.                                                              *)

\* The worker takes the oldest response of its interface.
LEMMA TakenResponse ==
    ASSUME TypeOK, NEW i \in Interfaces, TakeResponse(i)
    PROVE  /\ lambda[i].stage = "idle" /\ 1 \in DOMAIN responses[i]
           /\ lambda'[i].stage = "parsed" /\ lambda'[i].id = responses[i][1]
           /\ \A j \in Interfaces : j # i => lambda'[j] = lambda[j]
                                          /\ responses'[j] = responses[j]
           /\ \A n \in DOMAIN responses'[i] :
                 /\ n + 1 \in DOMAIN responses[i] /\ n + 1 # 1
                 /\ responses'[i][n] = responses[i][n + 1]
           /\ \A m, n \in DOMAIN responses'[i] : m + 1 = n + 1 => m = n
           /\ UNCHANGED <<opened, m_response, pc, result, processed, consumer, interface>>
  <1>1. responses[i] \in Seq(Requests) /\ responses[i] # <<>>
    BY DEF TypeOK, TakeResponse
  <1>2. responses' = [responses EXCEPT ![i] = Tail(responses[i])]
    BY DEF TakeResponse
  <1>3. responses'[i] = Tail(responses[i])
        /\ \A j \in Interfaces : j # i => responses'[j] = responses[j]
    BY <1>2 DEF TypeOK
  <1>4. lambda' = [lambda EXCEPT ![i] = [stage |-> "parsed", id |-> Head(responses[i]),
                                         promise |-> NoRequest]]
    BY DEF TakeResponse
  <1> QED
    BY <1>1, <1>3, <1>4, TailFacts DEF TakeResponse, TypeOK, LambdaUnchanged, queue_vars

\* Otherwise it leaves the responses alone, and keeps what it has in the lambda.
LEMMA InLambda ==
    ASSUME TypeOK, NEW i \in Interfaces, WorkerStep(i), ~TakeResponse(i)
    PROVE  /\ UNCHANGED <<responses, pc, result, processed, consumer>>
           /\ \A j \in Interfaces : j # i => lambda'[j] = lambda[j]
           /\ lambda[i].stage # "idle"
           /\ \/ lambda'[i].stage = "idle"
              \/ /\ lambda'[i].id = lambda[i].id
                 /\ \/ /\ lambda[i].stage \in {"parsed", "called"}
                       /\ lambda'[i].stage \in {"called", "returning"}
                    \/ lambda[i].stage = "returning" /\ lambda'[i].stage = "returned"
           /\ lambda'[i].stage = "called" => lambda'[i].promise = lambda'[i].id
           /\ UNCHANGED <<opened, m_response>> \/ OnResponse(i)
  <1>1. /\ UNCHANGED <<responses, pc, result, processed, consumer>>
        /\ lambda[i].stage # "idle"
        /\ UNCHANGED <<opened, m_response>> \/ OnResponse(i)
    BY DEF WorkerStep, FindPromise, TouchDestroyed, OnResponse, LambdaReturns, OnMessageReturns,
           LambdaUnchanged, queue_vars
  <1>2. ASSUME NEW to \in {"returning", "returned"}, lambda' = [lambda EXCEPT ![i].stage = to]
        PROVE  /\ \A j \in Interfaces : j # i => lambda'[j] = lambda[j]
               /\ lambda'[i].id = lambda[i].id /\ lambda'[i].stage = to
    BY <1>2, LambdaMoves DEF LambdaStages
  <1>3. CASE lambda' = [lambda EXCEPT ![i] = NotInLambda]
    BY <1>1, <1>3 DEF NotInLambda, TypeOK
  <1>4. ASSUME NEW r \in Entries(i, lambda[i].id),
               lambda' = [lambda EXCEPT ![i] = [stage |-> "called",
                                                id |-> lambda[i].id, promise |-> r]],
               lambda[i].stage = "parsed"
        PROVE  /\ \A j \in Interfaces : j # i => lambda'[j] = lambda[j]
               /\ lambda'[i].id = lambda[i].id /\ lambda'[i].stage = "called"
               /\ lambda'[i].promise = lambda'[i].id
    BY <1>4 DEF Entries, TypeOK
  <1> QED
    BY <1>1, <1>2, <1>3, <1>4 DEF WorkerStep, FindPromise, TouchDestroyed, OnResponse,
       LambdaReturns, OnMessageReturns

\* What a response does to the promise it finds.
LEMMA Opening ==
    ASSUME TypeOK, OwnAnswer, NEW i \in Interfaces, OnResponse(i)
    PROVE  /\ lambda[i].stage = "called" /\ lambda'[i].stage = "returning"
           /\ lambda[i].promise = lambda[i].id /\ lambda[i].id \in Requests
           /\ opened' \subseteq opened \cup {lambda[i].id} /\ opened \subseteq opened'
           /\ \A r \in Requests : \/ m_response'[r] = m_response[r]
                                  \/ r = lambda[i].id /\ m_response'[r] = r
           /\ \/ m_response'[lambda[i].id] = lambda[i].id
              \/ lambda[i].id \in opened' => lambda[i].id \in opened
  <1>1. /\ lambda[i].stage = "called" /\ lambda[i].promise = lambda[i].id
        /\ lambda[i].id \in Requests
    BY DEF OnResponse, OwnAnswer, TypeOK
  <1>2. lambda'[i].stage = "returning"
    BY LambdaMoves DEF OnResponse, LambdaStages
  <1>3. \/ UNCHANGED <<m_response, opened>>
        \/ /\ m_response' = [m_response EXCEPT ![lambda[i].id] = lambda[i].id]
           /\ opened' = opened \cup {lambda[i].id}
    BY <1>1 DEF OnResponse
  <1>4. m_response \in [Requests -> Ids]
    BY DEF TypeOK
  <1>5. CASE UNCHANGED <<m_response, opened>>
    <2>1. m_response' = m_response /\ opened' = opened
      BY <1>5
    <2> QED BY <1>1, <1>2, <2>1
  <1>6. CASE /\ m_response' = [m_response EXCEPT ![lambda[i].id] = lambda[i].id]
             /\ opened' = opened \cup {lambda[i].id}
    <2>1. ASSUME NEW r \in Requests
          PROVE  m_response'[r] = IF r = lambda[i].id THEN r ELSE m_response[r]
      BY <1>4, <1>6
    <2> QED BY <1>1, <1>2, <1>6, <2>1
  <1> QED BY <1>3, <1>5, <1>6

LEMMA NextOwnAnswer ==
    ASSUME TypeOK, InOnePlace, OwnAnswer, [Next]_vars
    PROVE  OwnAnswer'
  <1>1. CASE UNCHANGED <<responses, lambda, opened, m_response, pc, result, processed>>
    BY <1>1 DEF OwnAnswer
  <1>2. ASSUME NEW r \in Requests,
               SenderStep(r) \/ SendRequest(r) \/ PushThrows(r) \/ Await(r) \/ Drop(r)
        PROVE  OwnAnswer'
    <2>1. UNCHANGED <<responses, lambda, opened, m_response, processed>>
      BY <1>2 DEF SenderStep, SendRequest, Register, Push, PushThrows, Await, Drop, TakeAnswer,
                  TimeOut, Read, Unregister, channel_vars, queue_vars
    <2>2. \/ /\ UNCHANGED result
             /\ \E to : /\ pc' = [pc EXCEPT ![r] = to]
                        /\ pc[r] # "gone"
                        /\ to \in {"unregistering", "gone"} <=> pc[r] = "unregistering"
          \/ \E what : /\ pc' = [pc EXCEPT ![r] = "unregistering"]
                       /\ result' = [result EXCEPT ![r] = what]
                       /\ what = "answered" => r \in opened
      BY <1>2 DEF SenderStep, SendRequest, Register, Push, PushThrows, AfterThrow, Await, Drop,
                  TakeAnswer, TimeOut, Read, Unregister, At
    <2>3. ASSUME NEW q \in Requests
          PROVE  /\ pc'[q] \notin {"unregistering", "gone"} => result'[q] = "none"
                 /\ result'[q] = "answered" => q \in opened
      <3>1. /\ pc[q] \notin {"unregistering", "gone"} => result[q] = "none"
            /\ result[q] = "answered" => q \in opened
        BY DEF OwnAnswer
      <3>2. pc \in [Requests -> {"new", "registering", "pushing", "sent", "waiting",
                                "unregistering", "gone"}]
            /\ result \in [Requests -> {"none", "answered", "timed_out", "failed", "dropped"}]
        BY DEF TypeOK
      <3>3. CASE q # r
        <4>1. pc'[q] = pc[q] /\ result'[q] = result[q]
          BY <2>2, <3>2, <3>3
        <4> QED BY <3>1, <4>1
      <3>4. ASSUME q = r, UNCHANGED result,
                   NEW to, pc' = [pc EXCEPT ![r] = to],
                   pc[r] # "gone",
                   to \in {"unregistering", "gone"} <=> pc[r] = "unregistering"
            PROVE  /\ pc'[q] \notin {"unregistering", "gone"} => result'[q] = "none"
                   /\ result'[q] = "answered" => q \in opened
        BY <3>1, <3>2, <3>4
      <3>5. ASSUME q = r, NEW what, pc' = [pc EXCEPT ![r] = "unregistering"],
                   result' = [result EXCEPT ![r] = what], what = "answered" => r \in opened
            PROVE  pc'[q] = "unregistering" /\ result'[q] = what
        BY <3>2, <3>5
      <3> QED BY <2>2, <3>1, <3>3, <3>4, <3>5
    <2> QED BY <2>1, <2>3 DEF OwnAnswer
  <1>3. ASSUME NEW i \in Interfaces, WorkerStep(i)
        PROVE  OwnAnswer'
    <2>1. CASE TakeResponse(i)
      BY <2>1, TakenResponse DEF OwnAnswer
    <2>2. CASE ~TakeResponse(i)
      <3>1. \A r \in opened' : m_response'[r] = r /\ r \in processed
        <4>1. CASE OnResponse(i)
          <5>1. lambda[i].id \in processed
            BY <4>1, Opening DEF OwnAnswer
          <5>2. \A r \in opened : r \in Requests /\ m_response[r] = r /\ r \in processed
            BY DEF OwnAnswer, TypeOK
          <5> QED BY <4>1, <5>1, <5>2, Opening
        <4>2. CASE UNCHANGED <<opened, m_response>>
          BY <4>2 DEF OwnAnswer
        <4> QED BY <1>3, <2>2, <4>1, <4>2, InLambda
      <3>2. opened \subseteq opened'
        BY <1>3, <2>2, InLambda, Opening
      <3> QED BY <1>3, <2>2, <3>1, <3>2, InLambda DEF OwnAnswer
    <2> QED BY <2>1, <2>2
  <1>4. ASSUME NEW k \in Consumers, ConsumerStep(k) \/ Crash(k) \/ Restart(k)
        PROVE  OwnAnswer'
    <2>1. UNCHANGED <<lambda, opened, m_response, pc, result>> /\ processed \subseteq processed'
      BY <1>4 DEF ConsumerStep, Pop, Discard, Process, Respond, Crash, Restart,
                  ConsumerUnchanged, promise_vars
    <2>2. ASSUME NEW i \in Interfaces, NEW n \in DOMAIN responses'[i]
          PROVE  responses'[i][n] \in processed'
      <3>1. CASE UNCHANGED responses
        BY <2>1, <3>1 DEF OwnAnswer
      <3>2. CASE Respond(k) /\ responses' = [responses EXCEPT ![SenderOf[consumer[k].request]] =
                                               Append(@, consumer[k].request)]
        <4>1. consumer[k].request \in Requests /\ consumer[k].request \in processed
          BY <3>2 DEF Respond, TypeOK, Ids, InOnePlace
        <4>2. responses'[i] = responses[i]
              \/ responses'[i] = Append(responses[i], consumer[k].request)
          BY <3>2 DEF TypeOK
        <4>3. responses[i] \in Seq(Requests)
          BY DEF TypeOK
        <4>4. CASE responses'[i] = Append(responses[i], consumer[k].request)
          <5>1. \/ n \in DOMAIN responses[i] /\ responses'[i][n] = responses[i][n]
                \/ responses'[i][n] = consumer[k].request
            BY <4>1, <4>3, <4>4, AppendFacts
          <5> QED BY <2>1, <4>1, <5>1 DEF OwnAnswer
        <4> QED BY <2>1, <4>2, <4>4 DEF OwnAnswer
      <3> QED
        BY <1>4, <3>1, <3>2 DEF ConsumerStep, Pop, Discard, Process, Respond, Crash, Restart
    <2> QED BY <2>1, <2>2 DEF OwnAnswer
  <1>5. ASSUME \/ UNCHANGED vars
               \/ \E r \in Requests : Expire(r)
               \/ \E i \in Interfaces : Open(i) \/ Close(i) \/ DestructorStep(i)
        PROVE  UNCHANGED <<responses, lambda, opened, m_response, pc, result, processed>>
    BY <1>5 DEF vars, Expire, Open, Close, DestructorStep, Leave, ServerUnsubscribes, Left,
                InterfaceUnchanged, promise_vars, channel_vars, queue_vars
  <1> QED BY <1>1, <1>2, <1>3, <1>4, <1>5 DEF Next

\* A promise leaves the registry when the worker is not between finding and leaving it.
LEMMA SenderOneResponse ==
    ASSUME TypeOK, OneResponse, NEW r \in Requests,
           \/ SenderStep(r)
           \/ SendRequest(r) \/ PushThrows(r) \/ Expire(r) \/ Await(r) \/ Drop(r)
    PROVE  OneResponse'
  <1>1. UNCHANGED <<responses, lambda, opened, consumer>>
    BY DEF SenderStep, SendRequest, Register, Push, PushThrows, Expire, Await, Drop, TakeAnswer,
           TimeOut, Read, Unregister, channel_vars, queue_vars
  <1>2. \A q \in Requests : pc'[q] = "gone" =>
           pc[q] = "gone" \/ lambda[SenderOf[q]].stage # "returning"
    <2>1. CASE Unregister(r)
      BY <2>1 DEF Unregister, At, WaitsForRegistry, RegistryFree, TypeOK
    <2>2. CASE ~Unregister(r)
      BY <2>2 DEF SenderStep, SendRequest, Register, Push, PushThrows, AfterThrow, Expire, Await,
                  Drop, TakeAnswer, TimeOut, Read, At, TypeOK
    <2> QED BY <2>1, <2>2
  <1> QED BY <1>1, <1>2 DEF OneResponse, TypeOK

LEMMA WorkerOneResponse ==
    ASSUME TypeOK, Registered, OwnAnswer, OneResponse, NEW i \in Interfaces, WorkerStep(i)
    PROVE  OneResponse'
  <1>1. CASE TakeResponse(i)
    <2> DEFINE r == responses[i][1]
    <2>1. /\ 1 \in DOMAIN responses[i]
          /\ lambda'[i].stage = "parsed" /\ lambda'[i].id = r
          /\ UNCHANGED <<opened, pc, consumer>>
      BY <1>1, TakenResponse
    <2>2. /\ SenderOf[r] = i /\ r \notin opened
          /\ \A k \in Consumers : consumer[k].request # r
      BY <2>1 DEF OneResponse
    <2>3. ASSUME NEW n \in DOMAIN responses'[i]
          PROVE  /\ n + 1 \in DOMAIN responses[i]
                 /\ responses'[i][n] = responses[i][n + 1]
                 /\ responses'[i][n] # r
                 /\ \A m \in DOMAIN responses'[i] : responses'[i][m] = responses'[i][n] => m = n
      BY <1>1, <2>1, TakenResponse DEF OneResponse
    <2>4. \A j \in Interfaces : j # i => lambda'[j] = lambda[j] /\ responses'[j] = responses[j]
      BY <1>1, TakenResponse
    <2> HIDE DEF r
    <2> QED BY <2>1, <2>2, <2>3, <2>4 DEF OneResponse
  <1>2. CASE ~TakeResponse(i) /\ UNCHANGED opened
    BY <1>2, InLambda DEF OneResponse
  <1>3. CASE OnResponse(i)
    <2> DEFINE r == lambda[i].id
    <2>1. /\ r \in Requests /\ lambda[i].stage = "called" /\ lambda'[i].stage = "returning"
          /\ lambda[i].promise = r /\ opened' \subseteq opened \cup {r}
      BY <1>3, Opening
    <2>2. /\ UNCHANGED <<responses, pc, consumer>>
          /\ \A j \in Interfaces : j # i => lambda'[j] = lambda[j]
          /\ lambda'[i].id = r
      BY <1>3, <2>1, LambdaMoves DEF OnResponse, LambdaUnchanged, queue_vars, LambdaStages
    <2>3. SenderOf[r] = i /\ \A k \in Consumers : consumer[k].request # r
      BY <2>1 DEF OneResponse
    <2>4. pc[r] # "gone"
      BY <2>1 DEF Registered
    <2>5. \A j \in Interfaces : \A n \in DOMAIN responses[j] : responses[j][n] # r
      BY <2>1, <2>3 DEF OneResponse
    <2>6. \A j \in Interfaces : j # i /\ lambda[j].stage # "idle" => lambda[j].id # r
      BY <2>3 DEF OneResponse
    <2> HIDE DEF r
    <2>7. ASSUME NEW j \in Interfaces
          PROVE  /\ \A m, n \in DOMAIN responses[j] : responses[j][m] = responses[j][n] => m = n
                 /\ \A n \in DOMAIN responses[j] :
                       /\ SenderOf[responses[j][n]] = j /\ responses[j][n] \notin opened'
                       /\ lambda'[j].stage # "idle" => lambda'[j].id # responses[j][n]
                       /\ \A k \in Consumers : consumer[k].request # responses[j][n]
      BY <2>1, <2>2, <2>5 DEF OneResponse
    <2>8. ASSUME NEW j \in Interfaces, lambda'[j].stage # "idle"
          PROVE  /\ SenderOf[lambda'[j].id] = j
                 /\ \A k \in Consumers : consumer[k].request # lambda'[j].id
                 /\ lambda'[j].id \in opened' =>
                       \/ lambda'[j].stage = "returned"
                       \/ lambda'[j].stage = "returning" /\ pc[lambda'[j].id] # "gone"
      <3>1. CASE j = i
        BY <2>1, <2>2, <2>3, <2>4, <3>1
      <3>2. CASE j # i
        <4>1. lambda'[j] = lambda[j] /\ lambda[j].id # r
          BY <2>2, <2>6, <2>8, <3>2
        <4> QED BY <2>1, <2>8, <4>1 DEF OneResponse
      <3> QED BY <3>1, <3>2
    <2>9. \A k \in Consumers : consumer[k].request \notin opened'
      BY <2>1, <2>3 DEF OneResponse
    <2> QED BY <2>2, <2>7, <2>8, <2>9 DEF OneResponse
  <1> QED BY <1>1, <1>2, <1>3, InLambda

LEMMA ConsumerOneResponse ==
    ASSUME TypeOK, InOnePlace, OwnAnswer, OneResponse,
           NEW k \in Consumers, ConsumerStep(k) \/ Crash(k) \/ Restart(k)
    PROVE  OneResponse'
  <1>1. UNCHANGED <<lambda, opened, pc>>
    BY DEF ConsumerStep, Pop, Discard, Process, Respond, Crash, Restart, ConsumerUnchanged,
           promise_vars
  <1>2. NoRequest \notin Requests /\ opened \subseteq Requests
    BY SendersAssumption DEF TypeOK
  <1>3. \A i \in Interfaces : /\ responses[i] \in Seq(Requests)
                              /\ \A n \in DOMAIN responses[i] : responses[i][n] \in Requests
                              /\ lambda[i].stage # "idle" => lambda[i].id \in Requests
    <2>1. \A q \in Seq(Requests) : \A n \in DOMAIN q : q[n] \in Requests
      OBVIOUS
    <2> QED BY <2>1 DEF TypeOK
  <1>4. CASE UNCHANGED responses
    <2>1. ASSUME NEW l \in Consumers
          PROVE  \/ consumer'[l].request = consumer[l].request
                 \/ consumer'[l].request = NoRequest
                 \/ consumer'[l].request \notin processed
      <3>1. CASE Pop(k)
        <4>1. queue # <<>> /\ consumer' = [consumer EXCEPT ![k] = [stage |-> "popped",
                                                                 request |-> Head(queue)]]
          BY <3>1 DEF Pop, Becomes
        <4>2. 1 \in DOMAIN queue /\ Head(queue) = queue[1]
          BY <4>1, TailFacts DEF TypeOK
        <4> QED BY <4>1, <4>2 DEF InOnePlace, TypeOK
      <3>2. CASE ~Pop(k)
        BY <3>2, ConsumerMoves DEF ConsumerStep, Discard, Process, Respond, Crash, Restart
      <3> QED BY <3>1, <3>2
    <2> QED BY <1>1, <1>2, <1>3, <1>4, <2>1 DEF OneResponse, OwnAnswer
  <1>5. CASE Respond(k) /\ responses' = [responses EXCEPT ![SenderOf[consumer[k].request]] =
                                           Append(@, consumer[k].request)]
    <2> DEFINE r == consumer[k].request
               i == SenderOf[r]
    <2>1. r \in Requests /\ i \in Interfaces
      BY <1>5, SendersAssumption DEF Respond, TypeOK, Ids
    <2>2. /\ consumer'[k].request = NoRequest
          /\ \A l \in Consumers : l # k => consumer'[l] = consumer[l]
      BY <1>5, ConsumerMoves DEF Respond
    <2>3. \A l \in Consumers : consumer'[l].request # r
      BY <1>2, <2>1, <2>2 DEF InOnePlace
    <2>4. /\ r \notin opened
          /\ \A j \in Interfaces : /\ \A n \in DOMAIN responses[j] : responses[j][n] # r
                                   /\ lambda[j].stage # "idle" => lambda[j].id # r
      BY DEF OneResponse
    <2>5. /\ responses'[i] = Append(responses[i], r)
          /\ \A j \in Interfaces : j # i => responses'[j] = responses[j]
      BY <1>5, <2>1 DEF TypeOK
    <2>6. \A l \in Consumers : \/ consumer'[l].request = consumer[l].request
                               \/ consumer'[l].request = NoRequest
      BY <2>2
    <2> HIDE DEF r, i
    <2>7. ASSUME NEW j \in Interfaces, NEW n \in DOMAIN responses'[j]
          PROVE  \/ n \in DOMAIN responses[j] /\ responses'[j][n] = responses[j][n]
                 \/ j = i /\ n = Len(responses[j]) + 1 /\ responses'[j][n] = r
      BY <1>3, <2>1, <2>5, AppendFacts
    <2>8. ASSUME NEW j \in Interfaces, NEW m \in DOMAIN responses'[j],
                 NEW n \in DOMAIN responses'[j], responses'[j][m] = responses'[j][n]
          PROVE  m = n
      <3>1. CASE m \in DOMAIN responses[j] /\ n \in DOMAIN responses[j]
                 /\ responses'[j][m] = responses[j][m] /\ responses'[j][n] = responses[j][n]
        <4>1. responses[j][m] = responses[j][n]
          BY <2>8, <3>1
        <4>2. \A a, b \in DOMAIN responses[j] : responses[j][a] = responses[j][b] => a = b
          BY DEF OneResponse
        <4> QED BY <3>1, <4>1, <4>2
      <3>2. CASE \/ m \in DOMAIN responses[j] /\ responses'[j][m] = responses[j][m]
                    /\ responses'[j][n] = r
                 \/ n \in DOMAIN responses[j] /\ responses'[j][n] = responses[j][n]
                    /\ responses'[j][m] = r
        <4>1. \A a \in DOMAIN responses[j] : responses[j][a] # r
          BY <2>4
        <4> QED BY <2>8, <3>2, <4>1
      <3> QED BY <2>7, <3>1, <3>2
    <2>9. ASSUME NEW j \in Interfaces, NEW n \in DOMAIN responses'[j]
          PROVE  /\ SenderOf[responses'[j][n]] = j /\ responses'[j][n] \notin opened
                 /\ lambda[j].stage # "idle" => lambda[j].id # responses'[j][n]
                 /\ \A l \in Consumers : consumer'[l].request # responses'[j][n]
      <3>1. CASE n \in DOMAIN responses[j] /\ responses'[j][n] = responses[j][n]
        BY <1>2, <1>3, <2>6, <3>1 DEF OneResponse
      <3>2. CASE j = i /\ responses'[j][n] = r
        <4>1. SenderOf[r] = i
          BY DEF i
        <4>2. lambda[j].stage # "idle" => lambda[j].id # r
          BY <2>4
        <4> QED BY <2>3, <2>4, <3>2, <4>1, <4>2
      <3> QED BY <2>7, <3>1, <3>2
    <2>10. ASSUME NEW j \in Interfaces, lambda[j].stage # "idle"
           PROVE  \A l \in Consumers : consumer'[l].request # lambda[j].id
      BY <1>2, <1>3, <2>6, <2>10 DEF OneResponse
    <2>11. \A l \in Consumers : consumer'[l].request \notin opened
      BY <1>2, <2>6 DEF OneResponse
    <2> QED BY <1>1, <2>8, <2>9, <2>10, <2>11 DEF OneResponse
  <1> QED BY <1>4, <1>5 DEF ConsumerStep, Pop, Discard, Process, Respond, Crash, Restart

LEMMA NextOneResponse ==
    ASSUME TypeOK, Registered, InOnePlace, OwnAnswer, OneResponse, [Next]_vars
    PROVE  OneResponse'
  <1>1. CASE UNCHANGED <<responses, lambda, opened, consumer, pc>>
    BY <1>1 DEF OneResponse
  <1>2. ASSUME UNCHANGED vars
               \/ \E i \in Interfaces : Open(i) \/ Close(i) \/ DestructorStep(i)
        PROVE  UNCHANGED <<responses, lambda, opened, consumer, pc>>
    BY <1>2 DEF vars, Open, Close, DestructorStep, Leave, ServerUnsubscribes, Left,
                InterfaceUnchanged, promise_vars, channel_vars, queue_vars
  <1> QED
    BY <1>1, <1>2, SenderOneResponse, WorkerOneResponse, ConsumerOneResponse DEF Next

-----------------------------------------------------------------------------
(* The destruction of an interface.                                        *)

LEMMA NextNoSenders ==
    ASSUME TypeOK, NoSenders, [Next]_vars
    PROVE  NoSenders'
  <1> SUFFICES ASSUME NEW i \in Interfaces, interface'[i] \in {"closing", "leaving"},
                      NEW r \in Requests, SenderOf[r] = i
               PROVE  pc'[r] \in {"new", "gone"}
    BY DEF NoSenders, SendersGone
  <1>1. ASSUME UNCHANGED pc, SendersGone(i)
        PROVE  pc'[r] \in {"new", "gone"}
    BY <1>1 DEF SendersGone
  <1>2. ASSUME NEW q \in Requests,
               \/ SenderStep(q)
               \/ SendRequest(q) \/ PushThrows(q) \/ Await(q) \/ Drop(q)
        PROVE  pc'[r] \in {"new", "gone"}
    <2>1. /\ UNCHANGED interface
          /\ \E to : pc' = [pc EXCEPT ![q] = to]
          /\ pc[q] \notin {"new", "gone"} \/ interface[SenderOf[q]] = "present"
      BY <1>2 DEF SenderStep, SendRequest, Register, Push, PushThrows, Await, Drop, TakeAnswer,
                  TimeOut, Read, Unregister, At, channel_vars
    <2>2. pc[r] \in {"new", "gone"} /\ interface[i] # "present"
      BY <2>1 DEF NoSenders, SendersGone
    <2>3. r # q
      BY <2>1, <2>2
    <2> QED BY <2>1, <2>2, <2>3 DEF TypeOK
  <1>3. ASSUME NEW j \in Interfaces, WorkerStep(j) \/ Open(j) \/ Close(j) \/ DestructorStep(j)
        PROVE  UNCHANGED pc /\ SendersGone(i)
    <2>1. UNCHANGED pc
      BY <1>3 DEF WorkerStep, TakeResponse, FindPromise, TouchDestroyed, OnResponse,
                  LambdaReturns, OnMessageReturns, LambdaUnchanged, Open, Close, DestructorStep,
                  Leave, ServerUnsubscribes, Left, InterfaceUnchanged, promise_vars
    <2>2. CASE Close(j) /\ j = i
      BY <2>1, <2>2 DEF Close
    <2>3. CASE ~(Close(j) /\ j = i)
      <3>1. interface[i] \in {"closing", "leaving"}
        BY <1>3, <2>3 DEF WorkerStep, TakeResponse, FindPromise, TouchDestroyed, OnResponse,
                    LambdaReturns, OnMessageReturns, Open, Close, DestructorStep, Leave,
                    ServerUnsubscribes, Left, TypeOK
      <3> QED BY <2>1, <3>1 DEF NoSenders
    <2> QED BY <2>1, <2>2, <2>3
  <1>4. ASSUME \/ UNCHANGED vars
               \/ \E q \in Requests : Expire(q)
               \/ \E k \in Consumers : ConsumerStep(k) \/ Crash(k) \/ Restart(k)
        PROVE  UNCHANGED pc /\ SendersGone(i)
    <2>1. UNCHANGED <<pc, interface>>
      BY <1>4 DEF vars, channel_vars, promise_vars, Expire, ConsumerStep, Pop, Discard, Process,
                  Respond, Crash, Restart, ConsumerUnchanged
    <2> QED BY <2>1 DEF NoSenders
  <1> QED BY <1>1, <1>2, <1>3, <1>4 DEF Next

LEMMA InitIInv == Init => IInv
  <1> SUFFICES ASSUME Init PROVE IInv
    OBVIOUS
  <1>1. TypeOK
    BY SendersAssumption, FaultsAssumption DEF Init, TypeOK, Ids, NotInLambda, LambdaStages, Free
  <1>2. \A i \in Interfaces : /\ registry[i] = {} /\ responses[i] = <<>>
                              /\ lambda[i].stage = "idle" /\ interface[i] = "absent"
    BY DEF Init, NotInLambda
  <1>3. \A k \in Consumers : consumer[k].request = NoRequest
    BY DEF Init, Free
  <1>4. /\ queue = <<>> /\ processed = {} /\ opened = {}
        /\ \A r \in Requests : result[r] = "none"
    BY DEF Init
  <1>5. Registered /\ InOnePlace /\ OwnAnswer /\ NoSenders
    BY <1>2, <1>3, <1>4 DEF Registered, InOnePlace, OwnAnswer, NoSenders
  <1>6. OneResponse
    BY <1>2, <1>4 DEF OneResponse
  <1> QED BY <1>1, <1>5, <1>6 DEF IInv

LEMMA NextIInv == IInv /\ [Next]_vars => IInv'
  BY NextTypeOK, NextRegistered, NextInOnePlace, NextOwnAnswer, NextOneResponse, NextNoSenders
  DEF IInv

\* The destructor of an interface whose requests were all answered never meets the
\* worker, although the registry and its lock are destroyed before the subscription
\* ends (TransactionInterface.h:30-32): every request has at most one response, and the
\* promise that it answers cannot be destroyed before the lambda has left the registry.
THEOREM AnsweredClosesInPeace == Spec => []ClosesInPeace
  <1>1. IInv => ClosesInPeace
    <2> SUFFICES ASSUME IInv, NEW i \in Interfaces, interface[i] \in {"closing", "leaving"},
                        AllAnswered(i)
                 PROVE  lambda[i].stage \in {"idle", "returned"} /\ responses[i] = <<>>
      BY DEF ClosesInPeace
    <2> USE DEF IInv
    <2>1. ASSUME NEW r \in Requests, SenderOf[r] = i, r \in processed
          PROVE  r \in opened /\ pc[r] = "gone"
      BY <2>1 DEF NoSenders, SendersGone, InOnePlace, Sent, AllAnswered, OwnAnswer
    <2>2. ASSUME lambda[i].stage \notin {"idle", "returned"}
          PROVE  FALSE
      <3>1. lambda[i].id \in Requests /\ lambda[i].id \in processed
            /\ SenderOf[lambda[i].id] = i
        BY <2>2 DEF TypeOK, OwnAnswer, OneResponse
      <3> QED BY <2>1, <2>2, <3>1 DEF OneResponse
    <2>3. ASSUME responses[i] # <<>>
          PROVE  FALSE
      <3>1. 1 \in DOMAIN responses[i] /\ responses[i][1] \in Requests
        BY <2>3, TailFacts DEF TypeOK
      <3>2. /\ responses[i][1] \in processed /\ SenderOf[responses[i][1]] = i
            /\ responses[i][1] \notin opened
        BY <3>1 DEF OwnAnswer, OneResponse
      <3> QED BY <2>1, <3>1, <3>2
    <2> QED BY <2>2, <2>3
  <1> QED BY <1>1, InitIInv, NextIInv, PTL DEF Spec

-----------------------------------------------------------------------------
(* The refinement.                                                         *)

\* What the mapped variables are.
Fates == [r \in Requests |-> Fate(r)]
Answers == [r \in Requests |-> IF result[r] = "answered" THEN m_response[r] ELSE NoRequest]

\* An answer that was given stays as it is.
LEMMA AnswersStay ==
    ASSUME TypeOK, OwnAnswer, OwnAnswer', UNCHANGED result,
           opened \subseteq opened'
    PROVE  UNCHANGED Answers
  <1>1. ASSUME NEW r \in Requests, result[r] = "answered"
        PROVE  m_response'[r] = m_response[r]
    BY <1>1 DEF OwnAnswer
  <1> QED BY <1>1 DEF Answers

LEMMA SenderRefines ==
    ASSUME IInv, IInv', NEW r \in Requests,
           \/ SenderStep(r)
           \/ SendRequest(r) \/ PushThrows(r) \/ Expire(r) \/ Await(r) \/ Drop(r)
    PROVE  [T!Next]_(T!vars)
  <1> USE DEF IInv
  <1>1. UNCHANGED <<processed, opened>>
    BY DEF SenderStep, SendRequest, Register, Push, PushThrows, Expire, Await, Drop, TakeAnswer,
           TimeOut, Read, Unregister, channel_vars, queue_vars
  <1>2. CASE SendRequest(r) \/ Register(r) \/ Expire(r) \/ Await(r) \/ Unregister(r)
    <2>1. UNCHANGED result
      BY <1>2 DEF SendRequest, Register, Expire, Await, Unregister
    <2>2. UNCHANGED Answers
      BY <1>1, <2>1, AnswersStay
    <2>3. ASSUME NEW q \in Requests
          PROVE  Fate(q)' = Fate(q)
      BY <1>2, <2>1 DEF SendRequest, Register, Expire, Await, Unregister, At, Fate, TypeOK
    <2> QED BY <1>1, <2>2, <2>3 DEF T!vars, Fates, Answers
  <1>3. CASE Push(r) \/ PushThrows(r)
    <2>1. /\ pc[r] = "pushing" /\ pc' = [pc EXCEPT ![r] = IF Push(r) THEN "sent"
                                                                   ELSE "unregistering"]
          /\ result[r] = "none"
          /\ result' = IF Push(r) THEN result ELSE [result EXCEPT ![r] = "failed"]
          /\ UNCHANGED m_response
      BY <1>3 DEF Push, PushThrows, AfterThrow, At, OwnAnswer
    <2>2. UNCHANGED Answers
      BY <2>1 DEF Answers, TypeOK
    <2>3. Fates[r] = "new" /\ Fates' = [Fates EXCEPT ![r] = IF Push(r) THEN "pending" ELSE "failed"]
      <3>1. /\ Fate(r) = "new"
            /\ Fate(r)' = IF Push(r) THEN "pending" ELSE "failed"
        BY <2>1 DEF Fate, TypeOK
      <3>2. \A q \in Requests : q # r => Fate(q)' = Fate(q)
        BY <2>1 DEF Fate, TypeOK
      <3> QED BY <3>1, <3>2 DEF Fates
    <2>4. T!Send(r)
      BY <1>1, <2>2, <2>3 DEF T!Send, Fates, Answers
    <2> QED BY <2>4 DEF T!Next
  <1>4. ASSUME NEW from, NEW what, Read(r, from, what), from \in {"sent", "waiting"},
               \/ what \in {"timed_out", "dropped"}
               \/ what = "answered" /\ r \in opened
        PROVE  [T!Next]_(T!vars)
    <2>1. /\ pc[r] \in {"sent", "waiting"} /\ pc' = [pc EXCEPT ![r] = "unregistering"]
          /\ result[r] = "none" /\ result' = [result EXCEPT ![r] = what]
          /\ UNCHANGED m_response
      BY <1>4 DEF Read, At, OwnAnswer
    <2>2. Fates[r] = "pending" /\ Fates' = [Fates EXCEPT ![r] = what]
      <3>1. Fate(r) = "pending" /\ Fate(r)' = what
        BY <1>4, <2>1 DEF Fate, TypeOK
      <3>2. \A q \in Requests : q # r => Fate(q)' = Fate(q)
        BY <2>1 DEF Fate, TypeOK
      <3> QED BY <3>1, <3>2 DEF Fates
    <2>3. CASE what \in {"timed_out", "dropped"}
      <3>1. UNCHANGED Answers
        BY <2>1, <2>3 DEF Answers, TypeOK
      <3>2. T!GiveUp(r)
        BY <1>1, <2>2, <2>3, <3>1 DEF T!GiveUp, Fates, Answers
      <3> QED BY <3>2 DEF T!Next
    <2>4. CASE what = "answered" /\ r \in opened
      <3>1. m_response[r] = r /\ r \in processed
        BY <2>4 DEF OwnAnswer
      <3>2. Answers' = [Answers EXCEPT ![r] = r]
        BY <2>1, <2>4, <3>1 DEF Answers, TypeOK
      <3>3. T!Answer(r)
        BY <1>1, <2>2, <2>4, <3>1, <3>2 DEF T!Answer, Fates, Answers
      <3> QED BY <3>3 DEF T!Next
    <2> QED BY <1>4, <2>3, <2>4
  <1> QED BY <1>2, <1>3, <1>4 DEF SenderStep, TakeAnswer, TimeOut, Drop

LEMMA ConsumerRefines ==
    ASSUME IInv, NEW k \in Consumers, ConsumerStep(k) \/ Crash(k) \/ Restart(k)
    PROVE  [T!Next]_(T!vars)
  <1>1. UNCHANGED <<pc, result, m_response>>
    BY DEF ConsumerStep, Pop, Discard, Process, Respond, Crash, Restart, ConsumerUnchanged,
           promise_vars
  <1>2. UNCHANGED Fates /\ UNCHANGED Answers
    BY <1>1 DEF Fates, Answers, Fate
  <1>3. CASE Process(k)
    <2> DEFINE r == consumer[k].request
    <2>1. r \in Requests /\ r \notin processed /\ Sent(r)
      BY <1>3 DEF Process, IInv, TypeOK, Ids, InOnePlace
    <2>2. Fates[r] # "new"
      BY <2>1 DEF Fates, Fate, Sent, IInv, TypeOK
    <2>3. processed' = processed \cup {r}
      BY <1>3 DEF Process
    <2>4. T!Process(r)
      BY <1>2, <2>1, <2>2, <2>3 DEF T!Process, Fates, Answers
    <2> QED BY <2>1, <2>4 DEF T!Next
  <1>4. CASE ~Process(k)
    <2>1. UNCHANGED processed
      BY <1>4 DEF ConsumerStep, Pop, Discard, Respond, Crash, Restart
    <2> QED BY <1>2, <2>1 DEF T!vars, Fates, Answers
  <1> QED BY <1>3, <1>4

\* "Only one consumer will receive the given request" and "only the request issuer gets
\* the response" (README.md:121 and 123 of the library): a request is processed at most
\* once, and a promise gives the answer to its own request or none.
THEOREM ImplementsTheTransactions == Spec => ImplementsTransactions
  <1>1. Init => T!Init
    BY DEF Init, T!Init, Fate
  <1>2. IInv /\ IInv' /\ [Next]_vars => [T!Next]_(T!vars)
    <2> SUFFICES ASSUME IInv, IInv', [Next]_vars
                 PROVE  [T!Next]_(T!vars)
      OBVIOUS
    <2>1. ASSUME \/ UNCHANGED vars
                 \/ \E i \in Interfaces : WorkerStep(i) \/ Open(i) \/ Close(i)
                                           \/ DestructorStep(i)
          PROVE  UNCHANGED <<pc, result, processed>> /\ opened \subseteq opened'
      BY <2>1 DEF vars, channel_vars, promise_vars, queue_vars, WorkerStep, TakeResponse,
                  FindPromise, TouchDestroyed, OnResponse, LambdaReturns, OnMessageReturns,
                  LambdaUnchanged, Open, Close, DestructorStep, Leave, ServerUnsubscribes, Left, InterfaceUnchanged
    <2>2. CASE UNCHANGED <<pc, result, processed>> /\ opened \subseteq opened'
      <3>1. UNCHANGED Answers
        BY <2>2, AnswersStay DEF IInv
      <3>2. UNCHANGED Fates
        BY <2>2 DEF Fates, Fate
      <3> QED BY <2>2, <3>1, <3>2 DEF T!vars, Fates, Answers
    <2> QED BY <2>1, <2>2, SenderRefines, ConsumerRefines DEF Next
  <1> QED BY <1>1, <1>2, InitIInv, NextIInv, PTL DEF Spec, ImplementsTransactions, T!Spec
=============================================================================
