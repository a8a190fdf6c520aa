-------------------------- MODULE QueueSystemProofs --------------------------
(***************************************************************************)
(* Theorems about QueueSystem, for any threads, interfaces, handlers,      *)
(* queues and bounds.                                                      *)
(***************************************************************************)
EXTENDS QueueSystem, ListsProofs

(***************************************************************************)
(* The connector's part.                                                   *)
(***************************************************************************)

\* The theorems about the connector below.
P == INSTANCE QueueConnectorProofs WITH Callers <- Threads, MaxCalls <- 2 * MaxListens

LEMMA ConnAssumptions ==
    /\ Technical \notin Queues /\ NoCaller \notin Threads
    /\ 2 * MaxListens \in Nat /\ MaxRequests \in Nat
    /\ MaxWakeups \in Nat /\ MaxFailures \in Nat
<1> QED BY NamesAssumption, BoundsAssumption

LEMMA SameType == (P!TypeOK <=> Conn!TypeOK) /\ (P!TypeOK' <=> Conn!TypeOK')
<1> QED BY DEF P!TypeOK, Conn!TypeOK, P!Requests, Conn!Requests, P!Token, Conn!Token,
               P!Outside, Conn!Outside, P!Kinds, Conn!Kinds

LEMMA SameStep == [P!Next]_P!vars <=> [Conn!Next]_Conn!vars
<1> QED
  BY DEF P!RemoveAll, Conn!RemoveAll, P!Kept, Conn!Kept, P!Contains,
         Conn!Contains, P!Requests, Conn!Requests, P!Token, Conn!Token, P!Kinds,
         Conn!Kinds, P!NoCall, Conn!NoCall, P!Outside, Conn!Outside,
         P!subscriptions, Conn!subscriptions, P!counters, Conn!counters, P!redis,
         Conn!redis, P!WaitsFor, Conn!WaitsFor, P!NotifyQueueSubscriptionChange,
         Conn!NotifyQueueSubscriptionChange, P!SendRequest, Conn!SendRequest,
         P!IsEmpty, Conn!IsEmpty, P!WorkerUnchanged, Conn!WorkerUnchanged,
         P!WorkerLoop, Conn!WorkerLoop, P!LoadQueues, Conn!LoadQueues, P!Pop,
         Conn!Pop, P!Block, Conn!Block, P!IsTechnical, Conn!IsTechnical,
         P!Popped, Conn!Popped, P!CallbackReturns, Conn!CallbackReturns,
         P!CallbackThrows, Conn!CallbackThrows, P!CallerUnchanged,
         Conn!CallerUnchanged, P!Call, Conn!Call, P!Added, Conn!Added, P!Removed,
         Conn!Removed, P!MarkChanged, Conn!MarkChanged, P!Update, Conn!Update,
         P!Notify, Conn!Notify, P!NotifyFails, Conn!NotifyFails,
         P!OwnerUnchanged, Conn!OwnerUnchanged, P!HandshakeNotify,
         Conn!HandshakeNotify, P!Constructed, Conn!Constructed, P!Stop,
         Conn!Stop, P!Wake, Conn!Wake, P!Join, Conn!Join, P!WorkerStep,
         Conn!WorkerStep, P!CallerStep, Conn!CallerStep, P!OwnerStep,
         Conn!OwnerStep, P!OwnerNotifyFails, Conn!OwnerNotifyFails, P!Over, Conn!Over, P!Finished, Conn!Finished, P!Next,
         Conn!Next, P!vars, Conn!vars, P!worker_vars, Conn!worker_vars

(***************************************************************************)
(* The inductive invariant.                                                *)
(***************************************************************************)

Calls == [kind : Conn!Kinds, handler : Handlers, queue : Queues]
Changes == [kind : {"open", "close"}, interface : Interfaces]

\* What a thread was asked to do fits the place where it is.
TasksFit ==
    \A t \in Threads :
        /\ phase[t] = "idle" => task[t] = NoTask
        /\ phase[t] = "callbacks" => task[t] \in Changes
        /\ phase[t] \in {"manager", "broker", "connector"} => task[t] \in Calls

\* A thread holds its manager's lock while it is in the broker or the connector,
\* and the broker's while it is in the connector, where it makes its own call.
LockDiscipline ==
    \A t \in Threads :
        /\ phase[t] \in {"broker", "connector"} => manager_lock[Manager(t)] = t
        /\ phase[t] = "connector" => broker_lock = t
        /\ pc[t] \in {"lock", "notify"} => phase[t] = "connector"

\* A thread on its way to the broker has made its change in the manager.
ChangeMade ==
    \A t \in Threads : phase[t] = "broker" =>
        (handlers[Manager(t)][task[t].queue] # NoHandler <=> task[t].kind = "listen")

\* The change of a manager that the broker has still to count.
InBroker(m, q) == \E t \in Threads : /\ phase[t] = "broker"
                                     /\ Manager(t) = m /\ task[t].queue = q

\* The managers that the broker has counted for q.
CountedFor(q) == 
    {m \in Interfaces : ~ (handlers[m][q] # NoHandler <=> InBroker(m, q))}

CountIsOfManagers ==
    \A q \in Queues : IsFiniteSet(CountedFor(q)) /\ count[q] = Cardinality(CountedFor(q))

\* A call is about to change the connector's list.
Updating(q) == \E t \in Threads : pc[t] = "lock" /\ op[t].queue = q

\* The connector lists a queue once, and does if its count is not zero: a call that
\* is about to change the list has changed the count.
ListIsOfCounts ==
    /\ Unique(m_queue_subscriptions)
    /\ \A q \in Queues : Contains(m_queue_subscriptions, q)
                             <=> ~ (count[q] # 0 <=> Updating(q))
    /\ \A t \in Threads : pc[t] = "lock" =>
          /\ op[t].queue \in Queues
          /\ op[t].kind = "listen" <=> count[op[t].queue] # 0

\* The worker walks registered interfaces, which exist or were never constructed
\* to the end; it does so only in its callback.
RegisteredExist ==
    /\ dispatching => worker \in {"callback", "terminated"}
    /\ ~dispatching => to_call = <<>>
    /\ \A m \in Interfaces :
          Contains(registered, m) \/ Contains(to_call, m)
              => interface[m] \in {"present", "failed"}

\* Whoever calls a handler's operations has a handler that exists, and one whose
\* interface does.
UsersExist ==
    \A t \in Threads : task[t].kind \in Conn!Kinds =>
        /\ task[t].handler \in alive
        /\ interface[InterfaceOf[task[t].handler]] = "present"

\* A handler is listed by its own interface, because its listen has returned or
\* thrown, or is in progress, or its stop_listening has begun.
Calling(t, h, q) ==
    \/ /\ phase[t] \in {"broker", "connector"}
       /\ task[t] = [kind |-> "listen", handler |-> h, queue |-> q]
    \/ /\ phase[t] = "manager"
       /\ task[t] = [kind |-> "stop_listening", handler |-> h, queue |-> q]

Justified(h, q) ==
    <<h, q>> \in refused \cup listening \/ \E t \in Threads : Calling(t, h, q)

ListedJustified ==
    \A m \in Interfaces, q \in Queues : handlers[m][q] # NoHandler =>
        /\ InterfaceOf[handlers[m][q]] = m
        /\ Justified(handlers[m][q], q)

\* One thread at a time constructs or destroys an interface, which does not exist
\* yet or does still.
ChangesAlone ==
    \A t \in Threads :
        /\ task[t].kind = "open" => interface[task[t].interface] = "absent"
        /\ task[t].kind = "close" => interface[task[t].interface] = "present"
        /\ task[t].kind \in {"open", "close"} =>
              \A u \in Threads : UsesInterface(u, task[t].interface) => u = t

\* An interface that exists is registered, and none of its handlers is left when
\* its destruction begins; a listed handler that exists has its interface.
InterfacesLast ==
    /\ \A m \in Interfaces : interface[m] = "present" => Contains(registered, m)
    /\ \A t \in Threads : task[t].kind = "close" =>
          \A h \in alive : InterfaceOf[h] # task[t].interface
    /\ \A m \in Interfaces, q \in Queues :
          handlers[m][q] \in alive => interface[m] = "present"

\* The request n is still to be passed to interface m, from the queue q.
ToBePassed(n, q, m) ==
    \/ Contains(pending[q], n)
    \/ /\ current = [queue |-> q, id |-> n]
       /\ dispatching => Contains(to_call, m)

\* A worker that has nothing in its hands has a token.
EmptyHands == worker \notin {"popped", "callback", "terminated"} => current = Conn!Token

\* A request that is owed to a handler is still to be passed to its interface, and
\* the interface lists the handler for the queue.
OwedOnItsWay ==
    \A h \in Handlers, n \in 1 .. MaxRequests : <<h, n>> \in owed =>
        /\ h \in alive
        /\ \E q \in Queues : /\ handlers[InterfaceOf[h]][q] = h
                             /\ ToBePassed(n, q, InterfaceOf[h])

IInv ==
    /\ TypeOK
    /\ TasksFit
    /\ LockDiscipline
    /\ ChangeMade
    /\ CountIsOfManagers
    /\ ListIsOfCounts
    /\ RegisteredExist
    /\ UsersExist
    /\ ChangesAlone
    /\ ListedJustified
    /\ InterfacesLast
    /\ EmptyHands
    /\ OwedOnItsWay

(***************************************************************************)
(* The steps.                                                              *)
(***************************************************************************)

\* The steps that only the connector makes.
ConnAlone ==
    \/ Conn!WorkerLoop \/ Conn!LoadQueues \/ Conn!Pop \/ Conn!Block \/ Conn!Popped
    \/ Conn!OwnerStep \/ Conn!OwnerNotifyFails \/ Conn!Stop
    \/ \E t \in Threads : Conn!Update(t) \/ Conn!Notify(t) \/ Conn!NotifyFails(t)

\* The steps of thread t above the connector.
ObjectStep(t) ==
    \/ \E m \in Interfaces : Open(t, m) \/ Close(t, m)
    \/ \E kind \in Conn!Kinds, h \in Handlers, q \in Queues : Enter(t, kind, h, q)
    \/ ChangeCallbacks(t) \/ ConstructorThrows(t)

ManagerStep(t) == AddMessageHandler(t) \/ RemoveMessageHandler(t)

BrokerStep(t) ==
    \/ ListenFirst(t) \/ ListenRefused(t) \/ StopListening(t)
    \/ ConnectorReturns(t) \/ ConnectorThrows(t)

\* A step that changes anything is one of the connector's, a thread's, the
\* worker's in its callback, or one that destroys a handler or sends a request.
LEMMA Steps ==
    ASSUME [Next]_vars
    PROVE  \/ UNCHANGED vars
           \/ /\ ~ Conn!Over
              /\ \/ ConnAlone /\ UpperUnchanged
                 \/ \E t \in Threads : ObjectStep(t) \/ ManagerStep(t) \/ BrokerStep(t)
                 \/ BeginDispatch \/ OnMessage \/ EndDispatch \/ OnMessageEndsProcess
                 \/ \E h \in Handlers : DestroyHandler(h)
                 \/ \E q \in Queues : SendRequest(q)
<1>1. SUFFICES ASSUME Next, ~ UNCHANGED vars PROVE
           /\ ~ Conn!Over
           /\ \/ ConnAlone /\ UpperUnchanged
              \/ \E t \in Threads : ObjectStep(t) \/ ManagerStep(t) \/ BrokerStep(t)
              \/ BeginDispatch \/ OnMessage \/ EndDispatch \/ OnMessageEndsProcess
              \/ \E h \in Handlers : DestroyHandler(h)
              \/ \E q \in Queues : SendRequest(q)
  OBVIOUS
<1>2. ~ Conn!Over
  BY <1>1 DEF Next, Finished
<1>3. ConnWorkerStep => ConnAlone /\ UpperUnchanged
  BY DEF ConnWorkerStep, ConnAlone
<1>4. ASSUME NEW t \in Threads, ThreadStep(t)
      PROVE  \/ ConnAlone /\ UpperUnchanged
             \/ ObjectStep(t) \/ ManagerStep(t) \/ BrokerStep(t)
  BY <1>4 DEF ThreadStep, ObjectStep, ManagerStep, BrokerStep, ConnAlone,
              Conn!CallerStep
<1>5. ASSUME NEW t \in Threads, Request(t) PROVE ObjectStep(t)
  BY <1>5 DEF Request, ObjectStep
<1>6. StopBroker => ConnAlone /\ UpperUnchanged
  BY DEF StopBroker, ConnAlone
<1>7. ASSUME NEW t \in Threads, Conn!NotifyFails(t), UpperUnchanged
      PROVE  ConnAlone /\ UpperUnchanged
  BY <1>7 DEF ConnAlone
<1>8. ASSUME Conn!OwnerStep \/ Conn!OwnerNotifyFails, UpperUnchanged
      PROVE  ConnAlone /\ UpperUnchanged
  BY <1>8 DEF ConnAlone
<1>9. ASSUME NEW t \in Threads, ConstructorThrows(t) PROVE ObjectStep(t)
  BY <1>9 DEF ObjectStep
<1> QED BY <1>1, <1>2, <1>3, <1>4, <1>5, <1>6, <1>7, <1>8, <1>9
        DEF Next, Finished, DispatchStep

\* Every step is one of the connector's or leaves it alone, but for an exception
\* in the constructor of an interface, which is only counted there.
LEMMA ConnSteps ==
    ASSUME TasksFit, [Next]_vars
    PROVE  \/ [Conn!Next]_Conn!vars
           \/ \E t \in Threads : ConstructorThrows(t)
<1>1. UNCHANGED conn_vars => UNCHANGED Conn!vars
  BY DEF conn_vars, Conn!vars, Conn!redis, Conn!subscriptions, Conn!worker_vars,
         Conn!counters
<1>2. UNCHANGED vars => UNCHANGED conn_vars
  BY DEF vars
<1>3. ASSUME ~ Conn!Over, ConnAlone PROVE Conn!Next
  BY <1>3 DEF ConnAlone, Conn!Next, Conn!WorkerStep, Conn!CallerStep
<1>4. ASSUME ~ Conn!Over, NEW t \in Threads, ObjectStep(t)
      PROVE  UNCHANGED conn_vars \/ ConstructorThrows(t)
  BY <1>4 DEF ObjectStep, Open, Close, Enter, Begin, ChangeCallbacks
<1>5. ASSUME NEW t \in Threads, ManagerStep(t) PROVE UNCHANGED conn_vars
  BY <1>5 DEF ManagerStep, AddMessageHandler, RemoveMessageHandler, HasManager
<1>6. ASSUME ~ Conn!Over, NEW t \in Threads, BrokerStep(t), task[t] \in Calls
      PROVE  UNCHANGED conn_vars \/ Conn!Next
  <2>1. task[t].kind \in Conn!Kinds /\ task[t].queue \in Queues
    BY <1>6 DEF Calls
  <2>2. ToConnector(t) => Conn!Next
    BY <1>6, <2>1 DEF ToConnector, Conn!Next
  <2> QED BY <1>6, <2>2 DEF BrokerStep, ListenFirst, ListenRefused, StopListening,
                            ConnectorReturns, ConnectorThrows
<1>7. ASSUME NEW t \in Threads, BrokerStep(t) PROVE task[t] \in Calls
  BY <1>7 DEF TasksFit, BrokerStep, ListenFirst, ListenRefused, StopListening,
              HasBroker, ConnectorReturns, ConnectorThrows
<1>8. ASSUME ~ Conn!Over, EndDispatch PROVE Conn!Next
  BY <1>8 DEF EndDispatch, Conn!Next, Conn!WorkerStep
<1>9. ASSUME ~ Conn!Over, OnMessageEndsProcess PROVE Conn!Next
  BY <1>9 DEF OnMessageEndsProcess, Conn!Next
<1>10. ASSUME ~ Conn!Over, NEW q \in Queues, SendRequest(q) PROVE Conn!Next
  BY <1>10 DEF SendRequest, Conn!Next
<1>11. BeginDispatch \/ OnMessage \/ (\E h \in Handlers : DestroyHandler(h))
           => UNCHANGED conn_vars
  BY DEF BeginDispatch, OnMessage, DestroyHandler
<1> QED BY <1>1, <1>2, <1>3, <1>4, <1>5, <1>6, <1>7, <1>8, <1>9, <1>10, <1>11, Steps

\* The connector's variables keep their types, by the theorem about the connector.
LEMMA ConnType ==
    ASSUME TypeOK, TasksFit, [Next]_vars
    PROVE  Conn!TypeOK'
<1>1. CASE [Conn!Next]_Conn!vars
  <2>1. P!TypeOK /\ [P!Next]_P!vars
    BY <1>1, SameType, SameStep DEF TypeOK
  <2>2. P!TypeOK'
    BY <2>1, ConnAssumptions, P!NextType
  <2> QED BY <2>2, SameType
<1>2. ASSUME NEW t \in Threads, ConstructorThrows(t) PROVE Conn!TypeOK'
  <2>1. failures' \in 0 .. MaxFailures
    BY <1>2, ConnAssumptions DEF ConstructorThrows, TypeOK, Conn!TypeOK
  <2> QED BY <1>2, <2>1 DEF ConstructorThrows, TypeOK, Conn!TypeOK
<1> QED BY <1>1, <1>2, ConnSteps

(***************************************************************************)
(* Type correctness.                                                       *)
(***************************************************************************)

LEMMA TasksAre == Tasks = Calls \cup Changes \cup {NoTask}
<1> QED BY DEF Tasks, Calls, Changes

\* The process as the constructor of its connector starts it is well-typed.
LEMMA InitType == Init => TypeOK /\ TasksFit
<1> SUFFICES ASSUME Init PROVE TypeOK /\ TasksFit
  OBVIOUS
<1>1. Conn!TypeOK
  <2>1. P!Init
    BY DEF Init, P!Init, Conn!Init, P!Token, Conn!Token, P!NoCall, Conn!NoCall
  <2> QED BY <2>1, ConnAssumptions, P!InitType, SameType
<1>2. /\ handlers \in [Interfaces -> [Queues -> Handlers \cup {NoHandler}]]
      /\ manager_lock \in [Interfaces -> Threads \cup {NoCaller}]
      /\ count \in [Queues -> Nat]
      /\ broker_lock \in Threads \cup {NoCaller}
  BY DEF Init
<1>3. registered \in Seq(Interfaces) /\ to_call \in Seq(Interfaces)
      /\ dispatching \in BOOLEAN
  <2>1. <<>> \in Seq(Interfaces) /\ FALSE \in BOOLEAN
    OBVIOUS
  <2> QED BY <2>1 DEF Init
<1>4. /\ interface \in [Interfaces -> {"absent", "present", "destroyed", "failed"}]
      /\ alive \subseteq Handlers
      /\ phase \in [Threads -> {"idle", "callbacks", "manager", "broker", "connector"}]
      /\ task \in [Threads -> Tasks]
  BY TasksAre DEF Init
<1>5. /\ listens \in 0 .. MaxListens
      /\ listening \subseteq Pairs /\ refused \subseteq Pairs
      /\ given \subseteq Handlers \X (1 .. MaxRequests)
      /\ owed \subseteq Handlers \X (1 .. MaxRequests)
  BY BoundsAssumption DEF Init
<1>6. TasksFit
  BY DEF Init, TasksFit
<1> QED BY <1>1, <1>2, <1>3, <1>4, <1>5, <1>6 DEF TypeOK

\* The bookkeeping of the threads above the connector.
ThreadsTyped ==
    /\ manager_lock \in [Interfaces -> Threads \cup {NoCaller}]
    /\ broker_lock \in Threads \cup {NoCaller}
    /\ phase \in [Threads -> {"idle", "callbacks", "manager", "broker", "connector"}]
    /\ task \in [Threads -> Tasks]

\* A call that is begun is typed and in its place, and so is a thread that is
\* back from one.
LEMMA BeginTyped ==
    ASSUME ThreadsTyped, TasksFit, NEW t \in Threads,
           NEW new_task \in Tasks, NEW new_phase, Begin(t, new_task, new_phase),
           \/ new_phase = "callbacks" /\ new_task \in Changes
           \/ new_phase = "manager" /\ new_task \in Calls
    PROVE  ThreadsTyped' /\ TasksFit'
<1>1. /\ task' = [task EXCEPT ![t] = new_task]
      /\ phase' = [phase EXCEPT ![t] = new_phase]
      /\ UNCHANGED <<manager_lock, broker_lock>>
      /\ new_phase \in {"callbacks", "manager"}
  BY DEF Begin
<1> QED BY <1>1 DEF ThreadsTyped, TasksFit

LEMMA IdleTyped ==
    ASSUME ThreadsTyped, TasksFit, NEW t \in Threads,
           phase' = [phase EXCEPT ![t] = "idle"],
           task' = [task EXCEPT ![t] = NoTask]
    PROVE  /\ phase' \in [Threads -> {"idle", "callbacks", "manager", "broker",
                                      "connector"}]
           /\ task' \in [Threads -> Tasks]
           /\ TasksFit'
<1> QED BY TasksAre DEF ThreadsTyped, TasksFit

\* A thread that moves on with its call keeps its task.
LEMMA MovesTyped ==
    ASSUME ThreadsTyped, TasksFit, NEW t \in Threads, task[t] \in Calls,
           NEW new_phase \in {"broker", "connector"},
           phase' = [phase EXCEPT ![t] = new_phase], UNCHANGED task
    PROVE  /\ phase' \in [Threads -> {"idle", "callbacks", "manager", "broker",
                                      "connector"}]
           /\ task' \in [Threads -> Tasks]
           /\ TasksFit'
<1> QED BY DEF ThreadsTyped, TasksFit

\* The task of a thread in a call names a handler, its manager and a queue.
LEMMA CallTyped ==
    ASSUME TasksFit, NEW t \in Threads, phase[t] \in {"manager", "broker", "connector"}
    PROVE  /\ task[t] \in Calls
           /\ task[t].kind \in Conn!Kinds
           /\ task[t].handler \in Handlers /\ task[t].queue \in Queues
           /\ Manager(t) \in Interfaces
<1> QED BY HandlersAssumption DEF TasksFit, Calls, Manager

LEMMA ChangeTyped ==
    ASSUME TasksFit, NEW t \in Threads, phase[t] = "callbacks"
    PROVE  /\ task[t].kind \in {"open", "close"}
           /\ task[t].interface \in Interfaces
<1> QED BY DEF TasksFit, Changes

\* The steps of the manager and the broker keep the bookkeeping.
LEMMA ThreadsType ==
    ASSUME TypeOK, TasksFit, NEW t \in Threads,
           ObjectStep(t) \/ ManagerStep(t) \/ BrokerStep(t)
    PROVE  ThreadsTyped' /\ TasksFit'
<1>0. ThreadsTyped
  BY DEF ThreadsTyped, TypeOK
<1>1. ASSUME NEW m \in Interfaces, Open(t, m) \/ Close(t, m)
      PROVE  ThreadsTyped' /\ TasksFit'
  <2>1. PICK kind \in {"open", "close"} :
           Begin(t, [kind |-> kind, interface |-> m], "callbacks")
    BY <1>1 DEF Open, Close
  <2>2. [kind |-> kind, interface |-> m] \in Changes
    BY DEF Changes
  <2> QED BY <1>0, <2>1, <2>2, BeginTyped, TasksAre
<1>2. ASSUME NEW kind \in Conn!Kinds, NEW h \in Handlers, NEW q \in Queues,
             Enter(t, kind, h, q)
      PROVE  ThreadsTyped' /\ TasksFit'
  <2>1. Begin(t, [kind |-> kind, handler |-> h, queue |-> q], "manager")
    BY <1>2 DEF Enter
  <2>2. [kind |-> kind, handler |-> h, queue |-> q] \in Calls
    BY DEF Calls
  <2> QED BY <1>0, <2>1, <2>2, BeginTyped, TasksAre
<1>3. CASE ChangeCallbacks(t) \/ ConstructorThrows(t)
  <2>1. /\ phase' = [phase EXCEPT ![t] = "idle"]
        /\ task' = [task EXCEPT ![t] = NoTask]
        /\ UNCHANGED <<manager_lock, broker_lock>>
    BY <1>3 DEF ChangeCallbacks, ConstructorThrows
  <2> QED BY <1>0, <2>1, IdleTyped DEF ThreadsTyped
<1>4. ASSUME phase[t] \in {"manager", "broker", "connector"}, Return(t),
             broker_lock' \in Threads \cup {NoCaller}
      PROVE  ThreadsTyped' /\ TasksFit'
  BY <1>0, <1>4, IdleTyped, CallTyped DEF ThreadsTyped, Return
<1>5. CASE ManagerStep(t)
  <2>1. phase[t] = "manager" /\ UNCHANGED broker_lock /\ (Return(t) \/ ToBroker(t))
    BY <1>5 DEF ManagerStep, AddMessageHandler, RemoveMessageHandler, HasManager
  <2>2. CASE Return(t)
    BY <1>0, <1>4, <2>1, <2>2 DEF ThreadsTyped
  <2>3. CASE ToBroker(t)
    BY <1>0, <2>1, <2>3, MovesTyped, CallTyped DEF ThreadsTyped, ToBroker
  <2> QED BY <2>1, <2>2, <2>3
<1>6. CASE BrokerStep(t)
  <2>1. /\ phase[t] \in {"broker", "connector"}
        /\ \/ ToConnector(t)
           \/ Return(t) /\ broker_lock' \in {broker_lock, NoCaller}
    BY <1>6 DEF BrokerStep, ListenFirst, ListenRefused, Refuse, StopListening, HasBroker,
                ConnectorReturns, ConnectorThrows
  <2>2. CASE ToConnector(t)
    BY <1>0, <2>1, <2>2, MovesTyped, CallTyped DEF ThreadsTyped, ToConnector
  <2>3. CASE Return(t) /\ broker_lock' \in {broker_lock, NoCaller}
    BY <1>0, <1>4, <2>1, <2>3 DEF ThreadsTyped
  <2> QED BY <2>1, <2>2, <2>3
<1> QED BY <1>1, <1>2, <1>3, <1>5, <1>6 DEF ObjectStep

\* Other steps leave it alone.
LEMMA ThreadsUndisturbed ==
    ASSUME \/ UNCHANGED vars \/ UpperUnchanged
           \/ BeginDispatch \/ OnMessage \/ EndDispatch \/ OnMessageEndsProcess
           \/ \E h \in Handlers : DestroyHandler(h)
           \/ \E q \in Queues : SendRequest(q)
    PROVE  UNCHANGED <<thread_vars, handlers, count, registered, interface>>
<1> USE DEF object_vars
<1>1. UNCHANGED vars \/ UpperUnchanged =>
          UNCHANGED <<thread_vars, handlers, count, registered, interface>>
  BY DEF vars, UpperUnchanged
<1>2. BeginDispatch \/ OnMessage \/ EndDispatch \/ OnMessageEndsProcess =>
          UNCHANGED <<thread_vars, handlers, count, registered, interface>>
  BY DEF BeginDispatch, OnMessage, EndDispatch, OnMessageEndsProcess
<1>3. (\E h \in Handlers : DestroyHandler(h)) \/ (\E q \in Queues : SendRequest(q)) =>
          UNCHANGED <<thread_vars, handlers, count, registered, interface>>
  BY DEF DestroyHandler, SendRequest
<1> QED BY <1>1, <1>2, <1>3

\* The handlers a manager lists are handlers, whoever adds or erases one.
LEMMA HandlersType ==
    ASSUME TypeOK, TasksFit, [Next]_vars
    PROVE  handlers' \in [Interfaces -> [Queues -> Handlers \cup {NoHandler}]]
<1>1. ASSUME NEW t \in Threads, ObjectStep(t) \/ BrokerStep(t) PROVE UNCHANGED handlers
  BY <1>1 DEF ObjectStep, Open, Close, Enter, Begin, ChangeCallbacks, ConstructorThrows,
              BrokerStep, ListenFirst, ListenRefused, StopListening, HasBroker,
              ConnectorReturns, ConnectorThrows
<1>2. ASSUME NEW t \in Threads, ManagerStep(t)
      PROVE  \/ UNCHANGED handlers
             \/ \E m \in Interfaces, q \in Queues, h \in Handlers \cup {NoHandler} :
                   handlers' = [handlers EXCEPT ![m][q] = h]
  <2>1. phase[t] = "manager"
    BY <1>2 DEF ManagerStep, AddMessageHandler, RemoveMessageHandler, HasManager
  <2> QED BY <1>2, <2>1, CallTyped
          DEF ManagerStep, AddMessageHandler, RemoveMessageHandler, Erased
<1>3. ASSUME NEW m \in Interfaces, NEW q \in Queues, NEW h \in Handlers \cup {NoHandler},
             handlers' = [handlers EXCEPT ![m][q] = h]
      PROVE  handlers' \in [Interfaces -> [Queues -> Handlers \cup {NoHandler}]]
  BY <1>3 DEF TypeOK
<1> QED BY <1>1, <1>2, <1>3, Steps, ThreadsUndisturbed DEF TypeOK

\* The registered interfaces and those the worker has still to call are interfaces.
LEMMA RegisteredType ==
    ASSUME TypeOK, TasksFit, [Next]_vars
    PROVE  /\ registered' \in Seq(Interfaces)
           /\ to_call' \in Seq(Interfaces) /\ dispatching' \in BOOLEAN
           /\ interface' \in [Interfaces -> {"absent", "present", "destroyed", "failed"}]
<1>1. ASSUME NEW t \in Threads, ChangeCallbacks(t) \/ ConstructorThrows(t)
      PROVE  /\ registered' \in Seq(Interfaces)
             /\ UNCHANGED <<to_call, dispatching>>
             /\ interface' \in [Interfaces -> {"absent", "present", "destroyed",
                                               "failed"}]
  <2>1. /\ phase[t] = "callbacks"
        /\ UNCHANGED dispatch_vars
        /\ registered' \in {Append(registered, task[t].interface),
                            RemoveAll(registered, task[t].interface)}
        /\ \E status \in {"present", "destroyed", "failed"} :
              interface' = [interface EXCEPT ![task[t].interface] = status]
    BY <1>1 DEF ChangeCallbacks, ConstructorThrows
  <2>2. task[t].interface \in Interfaces
    BY <2>1, ChangeTyped
  <2>3. registered \in Seq(Interfaces)
    BY DEF TypeOK
  <2>4. registered' \in Seq(Interfaces)
    BY <2>1, <2>2, <2>3, AppendElements, RemoveAllElements
  <2> QED BY <2>1, <2>2, <2>4 DEF TypeOK, dispatch_vars
<1>2. ASSUME UNCHANGED object_vars, UNCHANGED <<dispatching, to_call>>
      PROVE  /\ registered' \in Seq(Interfaces)
             /\ to_call' \in Seq(Interfaces) /\ dispatching' \in BOOLEAN
             /\ interface' \in [Interfaces -> {"absent", "present", "destroyed",
                                               "failed"}]
  BY <1>2 DEF TypeOK, object_vars
<1>3. ASSUME NEW t \in Threads, ObjectStep(t) \/ ManagerStep(t) \/ BrokerStep(t)
      PROVE  \/ ChangeCallbacks(t) \/ ConstructorThrows(t)
             \/ UNCHANGED object_vars /\ UNCHANGED <<dispatching, to_call>>
  BY <1>3 DEF ObjectStep, Open, Close, Enter, Begin, ManagerStep, AddMessageHandler,
              RemoveMessageHandler, HasManager, BrokerStep, ListenFirst, ListenRefused,
              StopListening, HasBroker, ConnectorReturns, ConnectorThrows, dispatch_vars
<1>4. ASSUME \/ UNCHANGED vars \/ UpperUnchanged \/ OnMessageEndsProcess
             \/ \E h \in Handlers : DestroyHandler(h)
             \/ \E q \in Queues : SendRequest(q)
      PROVE  UNCHANGED object_vars /\ UNCHANGED <<dispatching, to_call>>
  BY <1>4 DEF vars, UpperUnchanged, OnMessageEndsProcess, DestroyHandler, SendRequest,
              dispatch_vars
<1>5. ASSUME BeginDispatch \/ OnMessage \/ EndDispatch
      PROVE  /\ UNCHANGED object_vars
             /\ to_call' \in Seq(Interfaces) /\ dispatching' \in BOOLEAN
  <2>1. registered \in Seq(Interfaces) /\ to_call \in Seq(Interfaces)
        /\ dispatching \in BOOLEAN
    BY DEF TypeOK
  <2>2. CASE BeginDispatch
    BY <2>1, <2>2 DEF BeginDispatch, CallbacksToCall
  <2>3. CASE OnMessage
    BY <2>1, <2>3 DEF OnMessage
  <2>4. CASE EndDispatch
    BY <2>1, <2>4 DEF EndDispatch
  <2> QED BY <1>5, <2>2, <2>3, <2>4
<1>6. ASSUME UNCHANGED object_vars, to_call' \in Seq(Interfaces), dispatching' \in BOOLEAN
      PROVE  /\ registered' \in Seq(Interfaces)
             /\ interface' \in [Interfaces -> {"absent", "present", "destroyed",
                                               "failed"}]
  BY <1>6 DEF TypeOK, object_vars
<1>7. dispatching \in BOOLEAN /\ to_call \in Seq(Interfaces)
  BY DEF TypeOK
<1> QED BY <1>1, <1>2, <1>3, <1>4, <1>5, <1>6, <1>7, Steps

\* The books of the application and the histories.
HistoriesTyped ==
    /\ alive \subseteq Handlers
    /\ listens \in 0 .. MaxListens
    /\ listening \subseteq Pairs /\ refused \subseteq Pairs
    /\ given \subseteq Handlers \X (1 .. MaxRequests)
    /\ owed \subseteq Handlers \X (1 .. MaxRequests)

LEMMA HistoriesType ==
    ASSUME TypeOK, TasksFit, RegisteredExist, [Next]_vars
    PROVE  HistoriesTyped'
<1> DEFINE Given == Handlers \X (1 .. MaxRequests)
<1>0. HistoriesTyped
  BY DEF TypeOK, HistoriesTyped
<1>1. ASSUME UNCHANGED <<app_vars, listens, given, owed>> PROVE HistoriesTyped'
  BY <1>0, <1>1 DEF HistoriesTyped, app_vars
<1>2. ASSUME NEW t \in Threads, ObjectStep(t) PROVE HistoriesTyped'
  <2>1. ASSUME NEW m \in Interfaces, Open(t, m) \/ Close(t, m) PROVE HistoriesTyped'
    BY <1>0, <2>1 DEF HistoriesTyped, Open, Close, Begin, dispatch_vars
  <2>2. ASSUME NEW kind \in Conn!Kinds, NEW h \in Handlers, NEW q \in Queues,
               Enter(t, kind, h, q)
        PROVE  HistoriesTyped'
    <3>1. listens' \in 0 .. MaxListens
      BY <1>0, <2>2, BoundsAssumption DEF HistoriesTyped, Enter
    <3>2. listening' \subseteq listening
      BY <2>2 DEF Enter
    <3> QED BY <1>0, <2>2, <3>1, <3>2 DEF HistoriesTyped, Enter, Begin, dispatch_vars
  <2>3. CASE ChangeCallbacks(t) \/ ConstructorThrows(t)
    BY <1>1, <2>3 DEF ChangeCallbacks, ConstructorThrows, dispatch_vars
  <2> QED BY <1>2, <2>1, <2>2, <2>3 DEF ObjectStep
<1>3. ASSUME NEW t \in Threads, ManagerStep(t) PROVE HistoriesTyped'
  <2>1. /\ UNCHANGED <<dispatch_vars, alive, listens, listening>>
        /\ refused' \subseteq refused /\ owed' \subseteq owed
    BY <1>3 DEF ManagerStep, AddMessageHandler, RemoveMessageHandler, HasManager
  <2> QED BY <1>0, <2>1 DEF HistoriesTyped, dispatch_vars
<1>4. ASSUME NEW t \in Threads, BrokerStep(t) PROVE HistoriesTyped'
  <2>1. phase[t] \in {"broker", "connector"}
    BY <1>4 DEF BrokerStep, ListenFirst, ListenRefused, StopListening, HasBroker,
                ConnectorReturns, ConnectorThrows
  <2>2. <<task[t].handler, task[t].queue>> \in Pairs
    BY <2>1, CallTyped DEF Pairs
  <2>3. /\ UNCHANGED <<dispatch_vars, alive, listens, owed>>
        /\ listening' \subseteq listening \cup {<<task[t].handler, task[t].queue>>}
        /\ refused' \subseteq refused \cup {<<task[t].handler, task[t].queue>>}
    BY <1>4 DEF BrokerStep, ListenFirst, ListenRefused, Refuse, StopListening, HasBroker,
                ToConnector, ConnectorReturns, ConnectorThrows
  <2> QED BY <1>0, <2>2, <2>3 DEF HistoriesTyped, dispatch_vars
<1>5. CASE BeginDispatch \/ EndDispatch \/ OnMessageEndsProcess
  BY <1>1, <1>5 DEF BeginDispatch, EndDispatch, OnMessageEndsProcess, thread_vars,
                    dispatch_vars
<1>6. ASSUME OnMessage, ~ Conn!Over PROVE HistoriesTyped'
  <2>1. worker = "callback"
    BY <1>6 DEF OnMessage, RegisteredExist, Conn!Over
  <2>2. current.id \in 1 .. MaxRequests
    BY <2>1 DEF TypeOK, Conn!TypeOK, Conn!Requests
  <2>3. Head(to_call) \in Interfaces
    BY <1>6, P!HeadAndTail DEF OnMessage, TypeOK
  <2>4. current.queue \in Queues
    BY <2>1 DEF TypeOK, Conn!TypeOK, Conn!Requests
  <2> DEFINE h == handlers[Head(to_call)][current.queue]
  <2>5. h \in Handlers \cup {NoHandler}
    BY <2>3, <2>4 DEF TypeOK
  <2>6. /\ UNCHANGED <<app_vars, thread_vars>> /\ owed' \subseteq owed
        /\ given' = given \/ (h # NoHandler /\ given' = given \cup {<<h, current.id>>})
    BY <1>6 DEF OnMessage, HandleRequest
  <2>7. given' \subseteq Given
    BY <1>0, <2>2, <2>5, <2>6 DEF HistoriesTyped
  <2> QED BY <1>0, <2>6, <2>7 DEF HistoriesTyped, app_vars, thread_vars
<1>7. ASSUME NEW h \in Handlers, DestroyHandler(h) PROVE HistoriesTyped'
  BY <1>0, <1>7 DEF HistoriesTyped, DestroyHandler, dispatch_vars, thread_vars
<1>8. ASSUME NEW q \in Queues, SendRequest(q) PROVE HistoriesTyped'
  <2>1. requested + 1 \in 1 .. MaxRequests
    BY <1>8, BoundsAssumption DEF SendRequest, Conn!SendRequest, TypeOK, Conn!TypeOK
  <2>2. owed' \subseteq owed \cup {<<h, requested + 1>> : h \in alive}
    BY <1>8 DEF SendRequest
  <2>3. owed' \subseteq Given
    BY <1>0, <2>1, <2>2 DEF HistoriesTyped
  <2> QED BY <1>0, <1>8, <2>3 DEF HistoriesTyped, SendRequest, app_vars, dispatch_vars,
                                  thread_vars
<1>9. UNCHANGED vars \/ UpperUnchanged => UNCHANGED <<app_vars, listens, given, owed>>
  BY DEF vars, UpperUnchanged, dispatch_vars, thread_vars
<1> QED BY <1>1, <1>2, <1>3, <1>4, <1>5, <1>6, <1>7, <1>8, <1>9, Steps

(***************************************************************************)
(* The locks.                                                              *)
(***************************************************************************)

\* Only the calls of the threads move their places in the connector, and change
\* its list.
LEMMA CallSteps ==
    ASSUME [Next]_vars
    PROVE  \/ UNCHANGED <<pc, op, m_queue_subscriptions>>
           \/ /\ UpperUnchanged
              /\ \E t \in Threads : Conn!Update(t) \/ Conn!Notify(t) \/ Conn!NotifyFails(t)
           \/ \E t \in Threads : BrokerStep(t) /\ ToConnector(t)
<1> USE DEF Conn!WorkerUnchanged, Conn!OwnerUnchanged, Conn!subscriptions
<1>1. ASSUME ConnAlone
      PROVE  \/ UNCHANGED <<pc, op, m_queue_subscriptions>>
             \/ \E t \in Threads : Conn!Update(t) \/ Conn!Notify(t) \/ Conn!NotifyFails(t)
  BY <1>1 DEF ConnAlone, Conn!WorkerLoop, Conn!LoadQueues, Conn!Pop, Conn!Block,
              Conn!Popped, Conn!OwnerStep, Conn!HandshakeNotify, Conn!Constructed,
              Conn!Stop, Conn!Wake, Conn!Join, Conn!OwnerNotifyFails
<1>2. ASSUME NEW t \in Threads, ObjectStep(t) \/ ManagerStep(t)
      PROVE  UNCHANGED <<pc, op, m_queue_subscriptions>>
  BY <1>2 DEF ObjectStep, Open, Close, Enter, Begin, ChangeCallbacks, ConstructorThrows,
              ManagerStep, AddMessageHandler, RemoveMessageHandler, HasManager, conn_vars
<1>3. ASSUME NEW t \in Threads, BrokerStep(t)
      PROVE  UNCHANGED <<pc, op, m_queue_subscriptions>> \/ ToConnector(t)
  BY <1>3 DEF BrokerStep, ListenFirst, ListenRefused, StopListening, ConnectorReturns,
              ConnectorThrows, conn_vars
<1>4. BeginDispatch \/ OnMessage \/ EndDispatch \/ OnMessageEndsProcess
          => UNCHANGED <<pc, op, m_queue_subscriptions>>
  BY DEF BeginDispatch, OnMessage, EndDispatch, OnMessageEndsProcess, conn_vars,
         Conn!CallbackReturns, Conn!CallbackThrows
<1>5. (\E h \in Handlers : DestroyHandler(h)) \/ (\E q \in Queues : SendRequest(q))
      \/ UNCHANGED vars => UNCHANGED <<pc, op, m_queue_subscriptions>>
  BY DEF DestroyHandler, SendRequest, Conn!SendRequest, vars, conn_vars
<1> QED BY <1>1, <1>2, <1>3, <1>4, <1>5, Steps

\* What a step of thread t does to its place and to the locks.
LEMMA PlaceSteps ==
    ASSUME TypeOK, TasksFit, NEW t \in Threads,
           ObjectStep(t) \/ ManagerStep(t) \/ BrokerStep(t)
    PROVE  /\ \A u \in Threads \ {t} : phase'[u] = phase[u] /\ task'[u] = task[u]
           /\ \/ /\ phase[t] \in {"idle", "callbacks"}
                 /\ phase'[t] \in {"idle", "callbacks", "manager"}
                 /\ UNCHANGED <<manager_lock, broker_lock>>
              \/ /\ phase[t] = "manager" /\ manager_lock[Manager(t)] = NoCaller
                 /\ UNCHANGED broker_lock
                 /\ \/ phase'[t] = "idle" /\ UNCHANGED manager_lock
                    \/ /\ phase'[t] = "broker" /\ task'[t] = task[t]
                       /\ manager_lock' = [manager_lock EXCEPT ![Manager(t)] = t]
              \/ /\ phase[t] = "broker" /\ broker_lock = NoCaller
                 /\ ToConnector(t) \/ (Return(t) /\ UNCHANGED broker_lock)
              \/ /\ phase[t] = "connector" /\ pc[t] \notin {"lock", "notify"}
                 /\ Return(t) /\ broker_lock' = NoCaller
<1>0. phase \in [Threads -> {"idle", "callbacks", "manager", "broker", "connector"}]
      /\ task \in [Threads -> Tasks]
      /\ manager_lock \in [Interfaces -> Threads \cup {NoCaller}]
  BY DEF TypeOK
<1>1. CASE ObjectStep(t)
  <2>1. /\ phase[t] \in {"idle", "callbacks"}
        /\ UNCHANGED <<manager_lock, broker_lock>>
        /\ \E new_task, new_phase :
              /\ new_phase \in {"idle", "callbacks", "manager"}
              /\ task' = [task EXCEPT ![t] = new_task]
              /\ phase' = [phase EXCEPT ![t] = new_phase]
    <3>1. ASSUME NEW new_task, NEW new_phase \in {"callbacks", "manager"},
                 Begin(t, new_task, new_phase)
          PROVE  /\ phase[t] = "idle"
                 /\ UNCHANGED <<manager_lock, broker_lock>>
                 /\ task' = [task EXCEPT ![t] = new_task]
                 /\ phase' = [phase EXCEPT ![t] = new_phase]
      BY <3>1 DEF Begin, Busy
    <3>2. ASSUME NEW m \in Interfaces, Open(t, m) \/ Close(t, m)
          PROVE  \E new_task, new_phase :
                    new_phase \in {"callbacks", "manager"} /\ Begin(t, new_task, new_phase)
      BY <3>2 DEF Open, Close
    <3>3. ASSUME NEW kind \in Conn!Kinds, NEW h \in Handlers, NEW q \in Queues,
                 Enter(t, kind, h, q)
          PROVE  \E new_task, new_phase :
                    new_phase \in {"callbacks", "manager"} /\ Begin(t, new_task, new_phase)
      BY <3>3 DEF Enter
    <3>4. CASE ChangeCallbacks(t) \/ ConstructorThrows(t)
      BY <3>4 DEF ChangeCallbacks, ConstructorThrows
    <3> QED BY <1>1, <3>1, <3>2, <3>3, <3>4 DEF ObjectStep
  <2> QED BY <1>0, <2>1
<1>2. CASE ManagerStep(t)
  <2>1. /\ phase[t] = "manager" /\ manager_lock[Manager(t)] = NoCaller
        /\ UNCHANGED broker_lock /\ (Return(t) \/ ToBroker(t))
    BY <1>2 DEF ManagerStep, AddMessageHandler, RemoveMessageHandler, HasManager
  <2>2. CASE Return(t)
    <3>1. manager_lock' = manager_lock
      BY <1>0, <2>1, <2>2 DEF Return
    <3> QED BY <1>0, <2>1, <2>2, <3>1 DEF Return
  <2>3. CASE ToBroker(t)
    BY <1>0, <2>1, <2>3 DEF ToBroker
  <2> QED BY <2>1, <2>2, <2>3
<1>3. CASE BrokerStep(t)
  <2>1. \/ /\ phase[t] = "broker" /\ broker_lock = NoCaller
           /\ ToConnector(t) \/ (Return(t) /\ UNCHANGED broker_lock)
        \/ /\ phase[t] = "connector" /\ pc[t] \in {"idle", "failed"}
           /\ Return(t) /\ broker_lock' = NoCaller
    BY <1>3 DEF BrokerStep, ListenFirst, ListenRefused, Refuse, StopListening, HasBroker,
                ConnectorReturns, ConnectorThrows
  <2>2. \A u \in Threads \ {t} : phase'[u] = phase[u] /\ task'[u] = task[u]
    BY <1>0, <2>1 DEF ToConnector, Return
  <2> QED BY <2>1, <2>2
<1> QED BY <1>1, <1>2, <1>3

\* Every step keeps the discipline of the locks.
LEMMA NextLock ==
    ASSUME TypeOK, TasksFit, LockDiscipline, [Next]_vars
    PROVE  LockDiscipline'
<1> DEFINE Inside(u) == phase[u] \in {"broker", "connector"}
<1>0. /\ pc \in [Threads -> Conn!Outside \cup {"lock", "notify"}]
      /\ manager_lock \in [Interfaces -> Threads \cup {NoCaller}]
      /\ phase \in [Threads -> {"idle", "callbacks", "manager", "broker", "connector"}]
      /\ \A u \in Threads : u # NoCaller
  BY NamesAssumption DEF TypeOK, Conn!TypeOK
<1>1. ASSUME NEW t \in Threads, ObjectStep(t) \/ ManagerStep(t) \/ BrokerStep(t)
      PROVE  LockDiscipline'
  <2>1. /\ \A u \in Threads \ {t} :
              phase'[u] = phase[u] /\ task'[u] = task[u] /\ Manager(u)' = Manager(u)
        /\ \/ /\ phase[t] \in {"idle", "callbacks"}
              /\ phase'[t] \in {"idle", "callbacks", "manager"}
              /\ UNCHANGED <<manager_lock, broker_lock>>
           \/ /\ phase[t] = "manager" /\ manager_lock[Manager(t)] = NoCaller
              /\ UNCHANGED broker_lock
              /\ \/ phase'[t] = "idle" /\ UNCHANGED manager_lock
                 \/ /\ phase'[t] = "broker" /\ task'[t] = task[t]
                    /\ manager_lock' = [manager_lock EXCEPT ![Manager(t)] = t]
           \/ /\ phase[t] = "broker" /\ broker_lock = NoCaller
              /\ ToConnector(t) \/ (Return(t) /\ UNCHANGED broker_lock)
           \/ /\ phase[t] = "connector" /\ pc[t] \notin {"lock", "notify"}
              /\ Return(t) /\ broker_lock' = NoCaller
    BY <1>1, PlaceSteps DEF Manager
  <2>2. ASSUME NEW u \in Threads
        PROVE  /\ u # t => pc'[u] = pc[u]
               /\ pc'[t] # pc[t] => ToConnector(t)
    <3>1. UNCHANGED pc \/ ToConnector(t)
      BY <1>1, CallSteps DEF ObjectStep, Open, Close, Enter, Begin, ChangeCallbacks,
              ConstructorThrows, ManagerStep, AddMessageHandler, RemoveMessageHandler,
              HasManager, BrokerStep, ListenFirst, ListenRefused, StopListening,
              ConnectorReturns, ConnectorThrows, conn_vars
    <3>2. ToConnector(t) => pc' = [pc EXCEPT ![t] = "lock"]
      BY DEF ToConnector, Conn!Call
    <3> QED BY <1>0, <3>1, <3>2
  <2>3. Inside(t) \/ phase[t] = "manager" => Manager(t) \in Interfaces
    BY CallTyped
  <2>4. ASSUME NEW u \in Threads, phase'[u] \in {"broker", "connector"}
        PROVE  manager_lock'[Manager(u)'] = u
    <3>1. CASE u = t
      <4>1. CASE phase[t] = "manager"
        BY <1>0, <2>1, <2>3, <2>4, <3>1, <4>1 DEF Manager
      <4>2. CASE phase[t] # "manager"
        <5>1. ToConnector(t) /\ phase[t] = "broker"
          BY <1>0, <2>1, <2>4, <3>1, <4>2 DEF Return
        <5> QED BY <3>1, <5>1 DEF ToConnector, LockDiscipline, Manager
      <4> QED BY <4>1, <4>2
    <3>2. CASE u # t
      <4>1. Inside(u) /\ Manager(u)' = Manager(u) /\ Manager(u) \in Interfaces
            /\ manager_lock[Manager(u)] = u
        BY <2>1, <2>4, <3>2, CallTyped DEF LockDiscipline
      <4>2. Inside(t) => Manager(t) # Manager(u)
        BY <3>2, <4>1 DEF LockDiscipline
      <4>3. phase[t] = "manager" /\ manager_lock[Manager(t)] = NoCaller
                => Manager(t) # Manager(u)
        BY <1>0, <4>1
      <4>4. \/ UNCHANGED manager_lock
            \/ /\ Manager(t) # Manager(u)
               /\ \E v : manager_lock' = [manager_lock EXCEPT ![Manager(t)] = v]
        BY <2>1, <4>2, <4>3 DEF ToConnector, Return
      <4> QED BY <1>0, <4>1, <4>4
    <3> QED BY <3>1, <3>2
  <2>5. ASSUME NEW u \in Threads, phase'[u] = "connector"
        PROVE  broker_lock' = u
    <3>1. CASE u = t
      <4>1. ToConnector(t)
        BY <1>0, <2>1, <2>5, <3>1 DEF Return
      <4> QED BY <3>1, <4>1 DEF ToConnector
    <3>2. CASE u # t
      <4>1. phase[u] = "connector" /\ broker_lock = u
        BY <2>1, <2>5, <3>2 DEF LockDiscipline
      <4>2. phase[t] # "connector" /\ broker_lock # NoCaller
        BY <1>0, <3>2, <4>1 DEF LockDiscipline
      <4> QED BY <2>1, <4>1, <4>2
    <3> QED BY <3>1, <3>2
  <2>6. ASSUME NEW u \in Threads, pc'[u] \in {"lock", "notify"}
        PROVE  phase'[u] = "connector"
    <3>1. CASE ToConnector(t) /\ u = t
      BY <1>0, <3>1 DEF ToConnector
    <3>2. CASE ~ (ToConnector(t) /\ u = t)
      <4>1. pc'[u] = pc[u] /\ phase[u] = "connector"
        BY <2>2, <2>6, <3>2 DEF LockDiscipline
      <4>2. u # t
        BY <2>1, <2>6, <3>2, <4>1
      <4> QED BY <2>1, <4>1, <4>2
    <3> QED BY <3>1, <3>2
  <2> QED BY <2>4, <2>5, <2>6 DEF LockDiscipline
<1>2. ASSUME UNCHANGED <<manager_lock, broker_lock, phase, task>>,
             \A u \in Threads : pc'[u] \in {"lock", "notify"}
                                    => pc[u] \in {"lock", "notify"}
      PROVE  LockDiscipline'
  BY <1>2 DEF LockDiscipline, Manager
<1>3. ASSUME NEW t \in Threads, Conn!Update(t) \/ Conn!Notify(t) \/ Conn!NotifyFails(t)
      PROVE  \A u \in Threads : pc'[u] \in {"lock", "notify"}
                                    => pc[u] \in {"lock", "notify"}
  BY <1>0, <1>3 DEF Conn!Update, Conn!Notify, Conn!NotifyFails
<1>4. ASSUME \/ UNCHANGED vars \/ UpperUnchanged
             \/ BeginDispatch \/ OnMessage \/ EndDispatch \/ OnMessageEndsProcess
             \/ \E h \in Handlers : DestroyHandler(h)
             \/ \E q \in Queues : SendRequest(q)
      PROVE  LockDiscipline'
  <2>1. UNCHANGED <<manager_lock, broker_lock, phase, task>>
    BY <1>4, ThreadsUndisturbed DEF thread_vars
  <2>2. \A t \in Threads : BrokerStep(t) /\ ToConnector(t) => phase'[t] # phase[t]
    BY <1>0, PlaceSteps DEF ToConnector
  <2>3. \/ UNCHANGED pc
        \/ \E t \in Threads : Conn!Update(t) \/ Conn!Notify(t) \/ Conn!NotifyFails(t)
    BY <2>1, <2>2, CallSteps
  <2> QED BY <1>2, <1>3, <2>1, <2>3
<1> QED BY <1>1, <1>4, Steps

(***************************************************************************)
(* The managers' entries and the broker's count.                           *)
(***************************************************************************)

LEMMA NextTasks ==
    ASSUME TypeOK, TasksFit, [Next]_vars
    PROVE  ThreadsTyped' /\ TasksFit'
<1>1. ASSUME UNCHANGED thread_vars PROVE ThreadsTyped' /\ TasksFit'
  BY <1>1 DEF ThreadsTyped, TasksFit, TypeOK, thread_vars
<1> QED BY <1>1, Steps, ThreadsType, ThreadsUndisturbed

\* What a step of the manager does: it adds the handler or erases it and goes on to
\* the broker, or it changes nothing and returns.
LEMMA ManagerSteps ==
    ASSUME NEW t \in Threads, ManagerStep(t)
    PROVE  /\ phase[t] = "manager" /\ manager_lock[Manager(t)] = NoCaller
           /\ UNCHANGED <<conn_vars, dispatch_vars, object_vars, count, broker_lock,
                          listens, alive, listening>>
           /\ \/ /\ Return(t) /\ UNCHANGED <<handlers, refused, owed>>
                 /\ task[t].kind = "stop_listening" =>
                       handlers[Manager(t)][task[t].queue] # task[t].handler
              \/ /\ ToBroker(t) /\ task[t].kind = "listen"
                 /\ handlers[Manager(t)][task[t].queue] = NoHandler
                 /\ handlers' = [handlers EXCEPT ![Manager(t)][task[t].queue] =
                                                       task[t].handler]
                 /\ UNCHANGED <<refused, owed>>
              \/ /\ ToBroker(t) /\ task[t].kind = "stop_listening"
                 /\ handlers[Manager(t)][task[t].queue] = task[t].handler
                 /\ handlers' = [handlers EXCEPT ![Manager(t)][task[t].queue] =
                                                       NoHandler]
                 /\ refused' = refused \ {<<task[t].handler, task[t].queue>>}
                 /\ owed' = {o \in owed : ~ (/\ o[1] = task[t].handler
                                             /\ InQueue(o[2], task[t].queue))}
<1>1. CASE AddMessageHandler(t)
  BY <1>1 DEF AddMessageHandler, HasManager
<1>2. CASE RemoveMessageHandler(t)
  BY <1>2 DEF RemoveMessageHandler, HasManager, Empties, Erased
<1> QED BY <1>1, <1>2 DEF ManagerStep

\* Two threads that hold the lock of one manager are the same.
LEMMA OneInManager ==
    ASSUME LockDiscipline, NEW t \in Threads, NEW u \in Threads,
           phase[t] \in {"broker", "connector"}, phase[u] \in {"broker", "connector"},
           Manager(t) = Manager(u)
    PROVE  t = u
<1> QED BY DEF LockDiscipline

\* A step that neither moves a thread to the broker or from it nor touches an entry
\* leaves what is counted as it was.
LEMMA CountedUnchanged ==
    ASSUME UNCHANGED handlers,
           \A u \in Threads : /\ phase'[u] = "broker" <=> phase[u] = "broker"
                              /\ phase[u] = "broker" => task'[u] = task[u]
    PROVE  /\ \A q \in Queues : CountedFor(q)' = CountedFor(q)
           /\ ChangeMade => ChangeMade'
<1>1. ASSUME NEW m \in Interfaces, NEW q \in Queues
      PROVE  InBroker(m, q)' <=> InBroker(m, q)
  BY DEF InBroker, Manager
<1> QED BY <1>1 DEF CountedFor, ChangeMade, Manager

\* A step of a manager changes an entry and promises to have it counted.
LEMMA CountManagerStep ==
    ASSUME TypeOK, TasksFit, LockDiscipline, ChangeMade,
           NEW t \in Threads, ManagerStep(t)
    PROVE  /\ \A q \in Queues : CountedFor(q)' = CountedFor(q)
           /\ ChangeMade'
<1>0. /\ phase \in [Threads -> {"idle", "callbacks", "manager", "broker", "connector"}]
      /\ handlers \in [Interfaces -> [Queues -> Handlers \cup {NoHandler}]]
      /\ \A u \in Threads \ {t} : phase'[u] = phase[u] /\ task'[u] = task[u]
      /\ phase[t] = "manager" /\ manager_lock[Manager(t)] = NoCaller
  BY PlaceSteps, ManagerSteps DEF TypeOK
<1>1. CASE Return(t) /\ UNCHANGED handlers
  BY <1>0, <1>1, CountedUnchanged DEF Return
<1>2. CASE ToBroker(t)
  <2> DEFINE m == Manager(t)
             q == task[t].queue
  <2>1. m \in Interfaces /\ q \in Queues /\ task[t].handler \in Handlers
        /\ task[t].kind \in Conn!Kinds
    BY <1>0, CallTyped
  <2>2. /\ phase'[t] = "broker" /\ task'[t] = task[t]
    BY <1>0, <1>2 DEF ToBroker
  <2>3. /\ (handlers'[m][q] # NoHandler) <=> (task[t].kind = "listen")
        /\ (handlers'[m][q] # NoHandler) <=> (handlers[m][q] = NoHandler)
        /\ \A n \in Interfaces, r \in Queues :
              n # m \/ r # q => handlers'[n][r] = handlers[n][r]
    <3>0. NoHandler \notin Handlers
      BY HandlersAssumption
    <3>1. /\ ~ Return(t)
          /\ \/ /\ task[t].kind = "listen" /\ handlers[m][q] = NoHandler
                /\ handlers' = [handlers EXCEPT ![m][q] = task[t].handler]
             \/ /\ task[t].kind = "stop_listening" /\ handlers[m][q] = task[t].handler
                /\ handlers' = [handlers EXCEPT ![m][q] = NoHandler]
      BY <1>0, <2>2, ManagerSteps DEF Return
    <3> HIDE DEF m, q
    <3> QED BY <1>0, <2>1, <3>0, <3>1
  <2>4. \A u \in Threads : phase[u] \in {"broker", "connector"} => Manager(u) # m
    BY <1>0, NamesAssumption DEF LockDiscipline
  <2>5. ASSUME NEW n \in Interfaces, NEW r \in Queues
        PROVE  InBroker(n, r)' <=> \/ InBroker(n, r)
                                   \/ n = m /\ r = q
    <3>1. \A u \in Threads \ {t} : Manager(u)' = Manager(u)
      BY <1>0 DEF Manager
    <3>2. Manager(t)' = m /\ task'[t].queue = q
      BY <2>2 DEF Manager
    <3> QED BY <1>0, <2>2, <3>1, <3>2 DEF InBroker
  <2>6. ~ InBroker(m, q)
    BY <2>4 DEF InBroker
  <2>7. ASSUME NEW r \in Queues PROVE CountedFor(r)' = CountedFor(r)
    <3> HIDE DEF m, q
    <3>1. ASSUME NEW n \in Interfaces
          PROVE  (handlers'[n][r] # NoHandler <=> InBroker(n, r)')
                     <=> (handlers[n][r] # NoHandler <=> InBroker(n, r))
      BY <2>3, <2>5, <2>6
    <3> QED BY <3>1 DEF CountedFor
  <2>8. ASSUME NEW u \in Threads, phase'[u] = "broker"
        PROVE  handlers'[Manager(u)'][task'[u].queue] # NoHandler
                   <=> task'[u].kind = "listen"
    <3>1. CASE u = t
      BY <2>2, <2>3, <3>1 DEF Manager
    <3>2. CASE u # t
      <4>1. phase[u] = "broker" /\ task'[u] = task[u] /\ Manager(u)' = Manager(u)
        BY <1>0, <2>8, <3>2 DEF Manager
      <4>2. Manager(u) # m /\ Manager(u) \in Interfaces /\ task[u].queue \in Queues
        BY <2>4, <4>1, CallTyped
      <4> QED BY <2>3, <4>1, <4>2 DEF ChangeMade
    <3> QED BY <3>1, <3>2
  <2> QED BY <2>7, <2>8 DEF ChangeMade
<1> QED BY <1>1, <1>2, ManagerSteps

\* A step of the broker counts the change of one manager and keeps the others.
LEMMA CountBrokerStep ==
    ASSUME TypeOK, TasksFit, LockDiscipline, ChangeMade,
           NEW t \in Threads, BrokerStep(t), phase[t] = "broker",
           NEW m \in Interfaces, NEW q \in Queues, m = Manager(t), q = task[t].queue
    PROVE  /\ ChangeMade'
           /\ \A r \in Queues \ {q} : CountedFor(r)' = CountedFor(r)
           /\ task[t].kind = "listen" =>
                 /\ m \notin CountedFor(q) /\ CountedFor(q)' = CountedFor(q) \cup {m}
                 /\ count' = [count EXCEPT ![q] = @ + 1]
           /\ task[t].kind = "stop_listening" =>
                 /\ m \in CountedFor(q) /\ CountedFor(q)' = CountedFor(q) \ {m}
                 /\ count' = [count EXCEPT ![q] = @ - 1]
<1>1. /\ phase \in [Threads -> {"idle", "callbacks", "manager", "broker", "connector"}]
      /\ \A u \in Threads \ {t} : phase'[u] = phase[u] /\ task'[u] = task[u]
      /\ task[t].kind \in Conn!Kinds
  BY PlaceSteps, CallTyped DEF TypeOK
<1>2. /\ UNCHANGED handlers /\ phase'[t] # "broker"
      /\ task[t].kind = "listen" => count' = [count EXCEPT ![q] = @ + 1]
      /\ task[t].kind = "stop_listening" => count' = [count EXCEPT ![q] = @ - 1]
  BY <1>1 DEF BrokerStep, ListenFirst, ListenRefused, Refuse, StopListening, HasBroker,
              Counted, ToConnector, ConnectorReturns, ConnectorThrows, Return
<1>3. (handlers[m][q] # NoHandler) <=> (task[t].kind = "listen")
  BY DEF ChangeMade
<1>4. ASSUME NEW n \in Interfaces, NEW r \in Queues
      PROVE  InBroker(n, r) <=> InBroker(n, r)' \/ (n = m /\ r = q)
  <2>1. \A u \in Threads \ {t} : Manager(u)' = Manager(u)
    BY <1>1 DEF Manager
  <2> QED BY <1>1, <1>2, <2>1 DEF InBroker
<1>5. ~ InBroker(m, q)'
  <2>1. SUFFICES ASSUME NEW u \in Threads, phase'[u] = "broker", Manager(u)' = m
                 PROVE  FALSE
    BY DEF InBroker
  <2>2. u # t /\ phase[u] = "broker" /\ Manager(u) = m
    BY <1>1, <1>2, <2>1 DEF Manager
  <2> QED BY <2>2, OneInManager
<1>6. ChangeMade'
  BY <1>1, <1>2 DEF ChangeMade, Manager
<1>7. ASSUME NEW n \in Interfaces, NEW r \in Queues, n # m \/ r # q
      PROVE  n \in CountedFor(r)' <=> n \in CountedFor(r)
  BY <1>2, <1>4, <1>7 DEF CountedFor
<1>8. /\ m \in CountedFor(q)' <=> task[t].kind = "listen"
      /\ m \in CountedFor(q) <=> task[t].kind # "listen"
  BY <1>1, <1>2, <1>3, <1>4, <1>5 DEF CountedFor
<1>9. \A r \in Queues : /\ CountedFor(r) \subseteq Interfaces
                        /\ CountedFor(r)' \subseteq Interfaces
  BY DEF CountedFor
<1>10. \A r \in Queues \ {q} : CountedFor(r)' = CountedFor(r)
  BY <1>7, <1>9
<1>11. task[t].kind = "listen" => CountedFor(q)' = CountedFor(q) \cup {m}
  BY <1>1, <1>7, <1>8, <1>9
<1>12. task[t].kind # "listen" => CountedFor(q)' = CountedFor(q) \ {m}
  BY <1>1, <1>7, <1>8, <1>9
<1> QED BY <1>2, <1>6, <1>8, <1>10, <1>11, <1>12

\* Every step keeps the broker's count in agreement with the managers' entries.
LEMMA NextCount ==
    ASSUME TypeOK, TasksFit, LockDiscipline, ChangeMade, CountIsOfManagers, [Next]_vars
    PROVE  ChangeMade' /\ CountIsOfManagers' /\ count' \in [Queues -> Nat]
<1>0. /\ phase \in [Threads -> {"idle", "callbacks", "manager", "broker", "connector"}]
      /\ count \in [Queues -> Nat]
  BY DEF TypeOK
<1>1. ASSUME UNCHANGED count, ChangeMade',
             \A q \in Queues : CountedFor(q)' = CountedFor(q)
      PROVE  ChangeMade' /\ CountIsOfManagers' /\ count' \in [Queues -> Nat]
  BY <1>0, <1>1 DEF CountIsOfManagers
<1>2. ASSUME NEW t \in Threads, ObjectStep(t)
      PROVE  ChangeMade' /\ CountIsOfManagers' /\ count' \in [Queues -> Nat]
  <2>1. UNCHANGED <<handlers, count>>
    BY <1>2 DEF ObjectStep, Open, Close, Enter, Begin, ChangeCallbacks,
                ConstructorThrows
  <2>2. /\ \A u \in Threads \ {t} : phase'[u] = phase[u] /\ task'[u] = task[u]
        /\ phase[t] # "broker" /\ phase'[t] # "broker"
    <3>1. phase[t] \in {"idle", "callbacks"}
      BY <1>2 DEF ObjectStep, Open, Close, Enter, Begin, Busy, ChangeCallbacks,
                  ConstructorThrows
    <3> QED BY <1>2, <3>1, PlaceSteps
  <2>3. /\ \A q \in Queues : CountedFor(q)' = CountedFor(q)
        /\ ChangeMade'
    BY <2>1, <2>2, CountedUnchanged
  <2> QED BY <1>1, <2>1, <2>3
<1>3. ASSUME NEW t \in Threads, ManagerStep(t)
      PROVE  ChangeMade' /\ CountIsOfManagers' /\ count' \in [Queues -> Nat]
  BY <1>1, <1>3, CountManagerStep, ManagerSteps
<1>4. ASSUME NEW t \in Threads, BrokerStep(t), phase[t] = "broker"
      PROVE  ChangeMade' /\ CountIsOfManagers' /\ count' \in [Queues -> Nat]
  <2>1. PICK m \in Interfaces, q \in Queues :
           /\ m = Manager(t) /\ q = task[t].queue
           /\ task[t].kind \in {"listen", "stop_listening"}
    BY <1>4, CallTyped DEF Conn!Kinds
  <2>2. /\ ChangeMade'
        /\ \A r \in Queues \ {q} : CountedFor(r)' = CountedFor(r)
        /\ task[t].kind = "listen" =>
              /\ m \notin CountedFor(q) /\ CountedFor(q)' = CountedFor(q) \cup {m}
              /\ count' = [count EXCEPT ![q] = @ + 1]
        /\ task[t].kind = "stop_listening" =>
              /\ m \in CountedFor(q) /\ CountedFor(q)' = CountedFor(q) \ {m}
              /\ count' = [count EXCEPT ![q] = @ - 1]
    BY <1>4, <2>1, CountBrokerStep
  <2>3. \A r \in Queues : /\ IsFiniteSet(CountedFor(r))
                          /\ count[r] = Cardinality(CountedFor(r))
    BY DEF CountIsOfManagers
  <2>4. /\ IsFiniteSet(CountedFor(q)')
        /\ Cardinality(CountedFor(q)') = count'[q]
    <3>1. CASE task[t].kind = "listen"
      <4>1. /\ IsFiniteSet(CountedFor(q) \cup {m})
            /\ Cardinality(CountedFor(q) \cup {m}) = Cardinality(CountedFor(q)) + 1
        BY <2>1, <2>2, <2>3, <3>1, FS_AddElement
      <4> QED BY <1>0, <2>1, <2>2, <2>3, <3>1, <4>1
    <3>2. CASE task[t].kind = "stop_listening"
      <4>1. /\ IsFiniteSet(CountedFor(q) \ {m})
            /\ Cardinality(CountedFor(q) \ {m}) = Cardinality(CountedFor(q)) - 1
        BY <2>1, <2>2, <2>3, <3>2, FS_RemoveElement
      <4> QED BY <1>0, <2>1, <2>2, <2>3, <3>2, <4>1
    <3> QED BY <2>1, <3>1, <3>2
  <2>5. /\ count' \in [Queues -> Int]
        /\ \A r \in Queues \ {q} : count'[r] = count[r]
    BY <1>0, <2>1, <2>2
  <2>6. \A r \in Queues : /\ IsFiniteSet(CountedFor(r)')
                          /\ count'[r] = Cardinality(CountedFor(r)')
    BY <2>2, <2>3, <2>4, <2>5
  <2>7. \A r \in Queues : count'[r] \in Nat
    BY <2>6, FS_CardinalityType
  <2> QED BY <2>2, <2>5, <2>6, <2>7 DEF CountIsOfManagers
<1>5. ASSUME NEW t \in Threads, BrokerStep(t), phase[t] # "broker"
      PROVE  ChangeMade' /\ CountIsOfManagers' /\ count' \in [Queues -> Nat]
  <2>1. UNCHANGED <<handlers, count>> /\ Return(t)
    BY <1>5 DEF BrokerStep, ListenFirst, ListenRefused, StopListening, HasBroker,
                ConnectorReturns, ConnectorThrows
  <2>2. /\ \A q \in Queues : CountedFor(q)' = CountedFor(q)
        /\ ChangeMade'
    <3>1. \A u \in Threads \ {t} : phase'[u] = phase[u] /\ task'[u] = task[u]
      BY <1>5, PlaceSteps
    <3>2. phase'[t] # "broker"
      BY <1>0, <2>1 DEF Return
    <3> QED BY <1>5, <2>1, <3>1, <3>2, CountedUnchanged
  <2> QED BY <1>1, <2>1, <2>2
<1>6. ASSUME UNCHANGED <<thread_vars, handlers, count>>
      PROVE  ChangeMade' /\ CountIsOfManagers' /\ count' \in [Queues -> Nat]
  BY <1>1, <1>6, CountedUnchanged DEF thread_vars
<1> QED BY <1>2, <1>3, <1>4, <1>5, <1>6, Steps, ThreadsUndisturbed

\* Every variable keeps its type.
LEMMA NextType ==
    ASSUME TypeOK, TasksFit, LockDiscipline, ChangeMade, CountIsOfManagers,
           RegisteredExist, [Next]_vars
    PROVE  TypeOK'
<1>1. Conn!TypeOK'
  BY ConnType
<1>2. ThreadsTyped' /\ HistoriesTyped'
  BY NextTasks, HistoriesType
<1>3. /\ handlers' \in [Interfaces -> [Queues -> Handlers \cup {NoHandler}]]
      /\ count' \in [Queues -> Nat]
  BY HandlersType, NextCount
<1>4. /\ registered' \in Seq(Interfaces)
      /\ to_call' \in Seq(Interfaces) /\ dispatching' \in BOOLEAN
      /\ interface' \in [Interfaces -> {"absent", "present", "destroyed", "failed"}]
  BY RegisteredType
<1> QED BY <1>1, <1>2, <1>3, <1>4 DEF TypeOK, ThreadsTyped, HistoriesTyped

(***************************************************************************)
(* The connector's list.                                                   *)
(***************************************************************************)

LEMMA SameRemoveAll ==
    ASSUME NEW list, NEW x
    PROVE  Conn!RemoveAll(list, x) = RemoveAll(list, x)
<1> QED BY DEF Conn!RemoveAll, RemoveAll, Conn!Kept, Kept

\* One call at a time is inside the connector.
LEMMA OneInConnector ==
    ASSUME LockDiscipline, NEW t \in Threads, NEW u \in Threads,
           pc[t] = "lock" \/ phase[t] = "connector", pc[u] = "lock"
    PROVE  t = u
<1> QED BY DEF LockDiscipline

\* The list changes as the broker's count has.
LEMMA ListUpdate ==
    ASSUME TypeOK, LockDiscipline, ListIsOfCounts, NEW t \in Threads, Conn!Update(t),
           UNCHANGED count
    PROVE  ListIsOfCounts'
<1> DEFINE list == m_queue_subscriptions
           Listed == Queues \cup {Technical}
<1>0. PICK q \in Queues : q = op[t].queue
  BY DEF ListIsOfCounts, Conn!Update
<1>1. /\ list \in Seq(Listed) /\ q \in Listed
      /\ pc \in [Threads -> Conn!Outside \cup {"lock", "notify"}]
  BY <1>0 DEF TypeOK, Conn!TypeOK
<1>2. /\ pc[t] = "lock" /\ pc' = [pc EXCEPT ![t] = "notify"] /\ UNCHANGED op
      /\ list' = IF op[t].kind = "listen" THEN Append(list, q) ELSE RemoveAll(list, q)
  BY <1>0, SameRemoveAll DEF Conn!Update, Conn!Added, Conn!Removed
<1>3. \A u \in Threads : pc'[u] # "lock"
  BY <1>1, <1>2, OneInConnector
<1>4. /\ Updating(q)
      /\ \A r \in Queues : Updating(r) => r = q
  BY <1>0, <1>2, OneInConnector DEF Updating
<1>5. op[t].kind = "listen" <=> count[q] # 0
  BY <1>0, <1>2 DEF ListIsOfCounts
<1>6. Contains(list, q) <=> count[q] = 0
  BY <1>4 DEF ListIsOfCounts
<1>7. Unique(list) /\ \A r \in Queues \ {q} : Contains(list, r) <=> count[r] # 0
  BY <1>4 DEF ListIsOfCounts
<1>8. Unique(list') /\ \A r \in Queues : Contains(list', r) <=> count[r] # 0
  <2> HIDE DEF list, Listed
  <2>1. CASE op[t].kind = "listen"
    <3>1. list' = Append(list, q) /\ ~ Contains(list, q)
      BY <1>2, <1>5, <1>6, <2>1
    <3>2. Unique(Append(list, q))
      BY <1>1, <1>7, <3>1, AppendUnique
    <3>3. \A r : Contains(Append(list, q), r) <=> Contains(list, r) \/ r = q
      BY <1>1, AppendElements
    <3> QED BY <1>5, <1>7, <2>1, <3>1, <3>2, <3>3
  <2>2. CASE op[t].kind # "listen"
    <3>1. list' = RemoveAll(list, q)
      BY <1>2, <2>2
    <3>2. Unique(RemoveAll(list, q))
      BY <1>1, <1>7, RemoveAllUnique
    <3>3. \A r : Contains(RemoveAll(list, q), r) <=> r # q /\ Contains(list, r)
      BY <1>1, RemoveAllElements
    <3> QED BY <1>5, <1>7, <2>2, <3>1, <3>2, <3>3
  <2> QED BY <2>1, <2>2
<1>9. \A r \in Queues : ~ Updating(r)'
  BY <1>3 DEF Updating
<1> QED BY <1>3, <1>8, <1>9 DEF ListIsOfCounts

\* A call of the connector is made when the count has reached one or zero.
LEMMA ListCall ==
    ASSUME TypeOK, TasksFit, LockDiscipline, ListIsOfCounts,
           NEW t \in Threads, BrokerStep(t), ToConnector(t)
    PROVE  ListIsOfCounts'
<1>1. /\ phase[t] = "broker" /\ broker_lock = NoCaller
      /\ \/ task[t].kind = "listen" /\ count[task[t].queue] + 1 = 1
            /\ count' = [count EXCEPT ![task[t].queue] = 1]
         \/ task[t].kind = "stop_listening" /\ count[task[t].queue] - 1 = 0
            /\ count' = [count EXCEPT ![task[t].queue] = 0]
  <2>1. phase'[t] = "connector" /\ broker_lock' = t
    BY DEF ToConnector, TypeOK
  <2>2. ~ Return(t)
    BY <2>1 DEF Return, TypeOK
  <2> QED BY <2>2 DEF BrokerStep, ListenFirst, ListenRefused, Refuse, StopListening,
                      HasBroker, Counted, ReachesConnector, ConnectorReturns,
                      ConnectorThrows
<1>2. PICK q \in Queues : q = task[t].queue
  BY <1>1, CallTyped
<1>3. /\ count \in [Queues -> Nat]
      /\ pc \in [Threads -> Conn!Outside \cup {"lock", "notify"}]
      /\ op \in [Threads -> [kind : Conn!Kinds, queue : Queues \cup {Technical}]]
  BY DEF TypeOK, Conn!TypeOK
<1>4. /\ UNCHANGED m_queue_subscriptions
      /\ pc' = [pc EXCEPT ![t] = "lock"]
      /\ op' = [op EXCEPT ![t] = [kind |-> task[t].kind, queue |-> q]]
  BY <1>2 DEF ToConnector, Conn!Call, Conn!subscriptions
<1>5. \A u \in Threads : pc[u] # "lock"
  BY <1>1, NamesAssumption DEF LockDiscipline
<1>6. /\ \A r \in Queues : ~ Updating(r)
      /\ \A r \in Queues : Updating(r)' <=> r = q
  BY <1>3, <1>4, <1>5 DEF Updating
<1>7. /\ Unique(m_queue_subscriptions)
      /\ \A r \in Queues : Contains(m_queue_subscriptions, r) <=> count[r] # 0
  BY <1>6 DEF ListIsOfCounts
<1>8. /\ \A r \in Queues \ {q} : count'[r] = count[r]
      /\ \/ task[t].kind = "listen" /\ count[q] = 0 /\ count'[q] = 1
         \/ task[t].kind = "stop_listening" /\ count[q] = 1 /\ count'[q] = 0
  BY <1>1, <1>2, <1>3
<1>9. \A r \in Queues : Contains(m_queue_subscriptions, r)
                            <=> ~ (count'[r] # 0 <=> Updating(r)')
  BY <1>6, <1>7, <1>8
<1>10. \A u \in Threads : pc'[u] = "lock" =>
          u = t /\ op'[u].queue = q /\ op'[u].kind = task[t].kind
  BY <1>3, <1>4, <1>5
<1> QED BY <1>4, <1>7, <1>8, <1>9, <1>10 DEF ListIsOfCounts

\* Every step keeps the connector's list in agreement with the broker's count.
LEMMA NextList ==
    ASSUME TypeOK, TasksFit, LockDiscipline, ChangeMade, CountIsOfManagers,
           ListIsOfCounts, [Next]_vars
    PROVE  ListIsOfCounts'
<1>0. /\ count \in [Queues -> Nat] /\ count' \in [Queues -> Nat]
      /\ pc \in [Threads -> Conn!Outside \cup {"lock", "notify"}]
  BY NextCount DEF TypeOK, Conn!TypeOK
<1>1. ASSUME UNCHANGED m_queue_subscriptions,
             \A q \in Queues : count'[q] # 0 <=> count[q] # 0,
             \A u \in Threads : /\ pc'[u] = "lock" <=> pc[u] = "lock"
                                /\ pc[u] = "lock" => op'[u] = op[u]
      PROVE  ListIsOfCounts'
  <2>1. \A q \in Queues : Updating(q)' <=> Updating(q)
    BY <1>1 DEF Updating
  <2> QED BY <1>1, <2>1 DEF ListIsOfCounts
<1>2. ASSUME UpperUnchanged,
             \E t \in Threads : Conn!Update(t) \/ Conn!Notify(t) \/ Conn!NotifyFails(t)
      PROVE  ListIsOfCounts'
  <2>1. PICK t \in Threads : Conn!Update(t) \/ Conn!Notify(t) \/ Conn!NotifyFails(t)
    BY <1>2
  <2>2. UNCHANGED count
    BY <1>2 DEF UpperUnchanged
  <2>3. ASSUME Conn!Notify(t) \/ Conn!NotifyFails(t)
        PROVE  /\ UNCHANGED m_queue_subscriptions
               /\ \A u \in Threads : /\ pc'[u] = "lock" <=> pc[u] = "lock"
                                     /\ pc[u] = "lock" => op'[u] = op[u]
    <3>1. /\ UNCHANGED m_queue_subscriptions /\ pc[t] = "notify"
          /\ op' = [op EXCEPT ![t] = Conn!NoCall]
          /\ pc' = [pc EXCEPT ![t] = "idle"] \/ pc' = [pc EXCEPT ![t] = "failed"]
      BY <2>3 DEF Conn!Notify, Conn!NotifyFails
    <3>2. op \in [Threads -> [kind : Conn!Kinds, queue : Queues \cup {Technical}]]
      BY DEF TypeOK, Conn!TypeOK
    <3> QED BY <1>0, <3>1, <3>2
  <2> QED BY <1>1, <2>1, <2>2, <2>3, ListUpdate
<1>3. ASSUME NEW t \in Threads, BrokerStep(t), ~ ToConnector(t)
      PROVE  /\ UNCHANGED <<pc, op, m_queue_subscriptions>>
             /\ \A q \in Queues : count'[q] # 0 <=> count[q] # 0
  <2>1. /\ UNCHANGED conn_vars
        /\ \/ UNCHANGED count
           \/ /\ count[task[t].queue] + 1 # 1 /\ phase[t] = "broker"
              /\ count' = [count EXCEPT ![task[t].queue] = @ + 1]
           \/ /\ count[task[t].queue] - 1 # 0 /\ phase[t] = "broker"
              /\ count' = [count EXCEPT ![task[t].queue] = @ - 1]
    BY <1>3 DEF BrokerStep, ListenFirst, ListenRefused, StopListening, HasBroker,
                Counted, ReachesConnector, ConnectorReturns, ConnectorThrows
  <2>2. phase[t] = "broker" => task[t].queue \in Queues
    BY CallTyped
  <2>3. \A q \in Queues : count[q] \in Nat /\ count'[q] \in Nat
    BY <1>0
  <2>4. \A q \in Queues : count'[q] # 0 <=> count[q] # 0
    BY <1>0, <2>1, <2>2, <2>3
  <2> QED BY <2>1, <2>4 DEF conn_vars
<1>4. ASSUME NEW t \in Threads, ObjectStep(t) \/ ManagerStep(t)
      PROVE  UNCHANGED <<pc, op, m_queue_subscriptions, count>>
  BY <1>4 DEF ObjectStep, Open, Close, Enter, Begin, ChangeCallbacks, ConstructorThrows,
              ManagerStep, AddMessageHandler, RemoveMessageHandler, HasManager, conn_vars
<1>5. CASE \E t \in Threads : BrokerStep(t) /\ ToConnector(t)
  BY <1>5, ListCall
<1>6. CASE UNCHANGED <<pc, op, m_queue_subscriptions, count>>
  BY <1>1, <1>6
<1>7. CASE \E t \in Threads : BrokerStep(t) /\ ~ ToConnector(t)
  BY <1>1, <1>3, <1>7
<1>8. ASSUME UNCHANGED <<pc, op, m_queue_subscriptions>>
      PROVE  ListIsOfCounts'
  BY <1>4, <1>5, <1>6, <1>7, <1>8, Steps, ThreadsUndisturbed
<1> QED BY <1>2, <1>5, <1>8, CallSteps

(***************************************************************************)
(* The objects: interfaces, handlers and who uses them.                    *)
(***************************************************************************)

\* What a step does to the worker and to the request in its hands.
LEMMA WorkerSteps ==
    ASSUME TypeOK, TasksFit, [Next]_vars
    PROVE  \/ UNCHANGED <<pending, worker, current>>
           \/ /\ worker \in {"top", "load", "brpop", "blocked"}
              /\ UpperUnchanged /\ UNCHANGED pending
              /\ \/ worker' \in {"load", "brpop", "blocked", "exited"}
                    /\ UNCHANGED current
                 \/ worker' = "popped" /\ current' = Conn!Token
           \/ (Conn!Pop \/ Conn!Popped) /\ UpperUnchanged
           \/ \E q \in Queues : SendRequest(q)
           \/ EndDispatch \/ OnMessageEndsProcess
<1> USE DEF Conn!redis
<1>1. ASSUME Conn!NotifyQueueSubscriptionChange
      PROVE  \/ UNCHANGED <<worker, current>>
             \/ /\ worker = "blocked" /\ worker' = "popped"
                /\ current' = Conn!Token
  BY <1>1 DEF Conn!NotifyQueueSubscriptionChange, Conn!WaitsFor
<1>2. ASSUME ConnAlone
      PROVE  \/ UNCHANGED <<pending, worker, current>>
             \/ /\ worker \in {"top", "load", "brpop", "blocked"}
                /\ UNCHANGED pending
                /\ \/ worker' \in {"load", "brpop", "blocked", "exited"}
                      /\ UNCHANGED current
                   \/ worker' = "popped" /\ current' = Conn!Token
             \/ Conn!Pop \/ Conn!Popped
  <2>1. CASE Conn!WorkerLoop \/ Conn!LoadQueues \/ Conn!Block
    BY <2>1 DEF Conn!WorkerLoop, Conn!LoadQueues, Conn!Block
  <2>2. CASE \E t \in Threads : Conn!Update(t) \/ Conn!Notify(t) \/ Conn!NotifyFails(t)
    BY <1>1, <2>2 DEF Conn!Update, Conn!Notify, Conn!NotifyFails, Conn!CallerUnchanged
  <2>3. CASE Conn!OwnerStep \/ Conn!OwnerNotifyFails \/ Conn!Stop
    BY <1>1, <2>3 DEF Conn!OwnerStep, Conn!OwnerNotifyFails, Conn!HandshakeNotify,
                      Conn!Constructed, Conn!Wake, Conn!Join, Conn!Stop,
                      Conn!OwnerUnchanged, Conn!worker_vars
  <2> QED BY <1>2, <2>1, <2>2, <2>3 DEF ConnAlone
<1>3. ASSUME NEW t \in Threads, ObjectStep(t) \/ ManagerStep(t)
      PROVE  UNCHANGED <<pending, worker, current>>
  BY <1>3 DEF ObjectStep, Open, Close, Enter, Begin, ChangeCallbacks, ConstructorThrows,
              ManagerStep, AddMessageHandler, RemoveMessageHandler, HasManager, conn_vars
<1>4. ASSUME NEW t \in Threads, BrokerStep(t) PROVE UNCHANGED <<pending, worker, current>>
  <2>1. ToConnector(t) => UNCHANGED <<pending, worker, current>>
    BY DEF ToConnector, Conn!Call, Conn!CallerUnchanged
  <2> QED BY <1>4, <2>1 DEF BrokerStep, ListenFirst, ListenRefused, StopListening,
                            ConnectorReturns, ConnectorThrows, conn_vars
<1>5. BeginDispatch \/ OnMessage \/ (\E h \in Handlers : DestroyHandler(h))
      \/ UNCHANGED vars => UNCHANGED <<pending, worker, current>>
  BY DEF BeginDispatch, OnMessage, DestroyHandler, vars, conn_vars
<1> QED BY <1>2, <1>3, <1>4, <1>5, Steps

\* What steps other than the worker's own do to the callbacks it has to call.
LEMMA DispatchSteps ==
    ASSUME [Next]_vars
    PROVE  \/ UNCHANGED <<dispatching, to_call>>
           \/ BeginDispatch \/ OnMessage \/ EndDispatch
<1>1. ASSUME NEW t \in Threads, ObjectStep(t) \/ ManagerStep(t) \/ BrokerStep(t)
      PROVE  UNCHANGED <<dispatching, to_call>>
  BY <1>1 DEF ObjectStep, Open, Close, Enter, Begin, ChangeCallbacks, ConstructorThrows,
              ManagerStep, AddMessageHandler, RemoveMessageHandler, HasManager,
              BrokerStep, ListenFirst, ListenRefused, StopListening, HasBroker,
              ConnectorReturns, ConnectorThrows, dispatch_vars
<1>2. ASSUME \/ UNCHANGED vars \/ UpperUnchanged \/ OnMessageEndsProcess
             \/ \E h \in Handlers : DestroyHandler(h)
             \/ \E q \in Queues : SendRequest(q)
      PROVE  UNCHANGED <<dispatching, to_call>>
  BY <1>2 DEF vars, UpperUnchanged, OnMessageEndsProcess, DestroyHandler, SendRequest,
              dispatch_vars
<1> QED BY <1>1, <1>2, Steps

\* What steps do to the interfaces.
LEMMA InterfaceSteps ==
    ASSUME TasksFit, [Next]_vars
    PROVE  \/ UNCHANGED <<registered, interface>>
           \/ \E t \in Threads :
                 /\ ChangeCallbacks(t) \/ ConstructorThrows(t)
                 /\ phase[t] = "callbacks" /\ ~ dispatching
                 /\ task[t].kind \in {"open", "close"} /\ task[t].interface \in Interfaces
                 /\ UNCHANGED <<dispatching, to_call, handlers, alive>>
                 /\ \/ /\ task[t].kind = "open"
                       /\ registered' = Append(registered, task[t].interface)
                       /\ \E status \in {"present", "failed"} :
                             interface' = [interface EXCEPT ![task[t].interface] = status]
                    \/ /\ task[t].kind = "close"
                       /\ registered' = RemoveAll(registered, task[t].interface)
                       /\ interface' = [interface EXCEPT ![task[t].interface] =
                                            "destroyed"]
<1>1. ASSUME NEW t \in Threads, ChangeCallbacks(t) \/ ConstructorThrows(t)
      PROVE  /\ phase[t] = "callbacks" /\ ~ dispatching
             /\ task[t].kind \in {"open", "close"} /\ task[t].interface \in Interfaces
             /\ UNCHANGED <<dispatching, to_call, handlers, alive>>
             /\ \/ /\ task[t].kind = "open"
                   /\ registered' = Append(registered, task[t].interface)
                   /\ \E status \in {"present", "failed"} :
                         interface' = [interface EXCEPT ![task[t].interface] = status]
                \/ /\ task[t].kind = "close"
                   /\ registered' = RemoveAll(registered, task[t].interface)
                   /\ interface' = [interface EXCEPT ![task[t].interface] = "destroyed"]
  <2>1. phase[t] = "callbacks"
    BY <1>1 DEF ChangeCallbacks, ConstructorThrows
  <2>2. task[t].kind \in {"open", "close"} /\ task[t].interface \in Interfaces
    BY <2>1, ChangeTyped
  <2> QED BY <1>1, <2>1, <2>2 DEF ChangeCallbacks, ConstructorThrows, dispatch_vars,
                                  app_vars
<1>2. ASSUME NEW t \in Threads, ObjectStep(t) \/ ManagerStep(t) \/ BrokerStep(t)
      PROVE  \/ ChangeCallbacks(t) \/ ConstructorThrows(t)
             \/ UNCHANGED <<registered, interface>>
  BY <1>2 DEF ObjectStep, Open, Close, Enter, Begin, ManagerStep, AddMessageHandler,
              RemoveMessageHandler, HasManager, BrokerStep, ListenFirst, ListenRefused,
              StopListening, HasBroker, ConnectorReturns, ConnectorThrows, object_vars
<1> QED BY <1>1, <1>2, Steps, ThreadsUndisturbed

\* What a step does to the task of a thread.
LEMMA TaskSteps ==
    ASSUME TypeOK, TasksFit, [Next]_vars, NEW u \in Threads
    PROVE  \/ task'[u] = task[u] /\ (phase[u] = "idle" => phase'[u] = "idle")
           \/ task'[u] = NoTask
           \/ /\ phase[u] = "idle" /\ task[u] = NoTask
              /\ UNCHANGED <<registered, interface, alive, handlers>>
              /\ \/ \E m \in Interfaces :
                       \/ Open(u, m) /\ task'[u] = [kind |-> "open", interface |-> m]
                       \/ Close(u, m) /\ task'[u] = [kind |-> "close", interface |-> m]
                 \/ \E kind \in Conn!Kinds, h \in Handlers, q \in Queues :
                       /\ Enter(u, kind, h, q) /\ phase'[u] = "manager"
                       /\ task'[u] = [kind |-> kind, handler |-> h, queue |-> q]
<1>0. /\ phase \in [Threads -> {"idle", "callbacks", "manager", "broker", "connector"}]
      /\ task \in [Threads -> Tasks]
  BY DEF TypeOK
<1>1. ASSUME NEW t \in Threads, ObjectStep(t) \/ ManagerStep(t) \/ BrokerStep(t), t # u
      PROVE  task'[u] = task[u] /\ phase'[u] = phase[u]
  BY <1>1, PlaceSteps
<1>2. ASSUME NEW new_task, NEW new_phase, Begin(u, new_task, new_phase)
      PROVE  /\ phase[u] = "idle" /\ task[u] = NoTask
             /\ task'[u] = new_task /\ phase'[u] = new_phase
             /\ UNCHANGED <<registered, interface, alive, handlers>>
  BY <1>0, <1>2 DEF Begin, Busy, TasksFit, object_vars
<1>3. ASSUME NEW m \in Interfaces, Open(u, m)
      PROVE  /\ phase[u] = "idle" /\ task[u] = NoTask
             /\ UNCHANGED <<registered, interface, alive, handlers>>
             /\ task'[u] = [kind |-> "open", interface |-> m]
  BY <1>2, <1>3 DEF Open
<1>4. ASSUME NEW m \in Interfaces, Close(u, m)
      PROVE  /\ phase[u] = "idle" /\ task[u] = NoTask
             /\ UNCHANGED <<registered, interface, alive, handlers>>
             /\ task'[u] = [kind |-> "close", interface |-> m]
  BY <1>2, <1>4 DEF Close
<1>5. ASSUME NEW kind \in Conn!Kinds, NEW h \in Handlers, NEW q \in Queues,
             Enter(u, kind, h, q)
      PROVE  /\ phase[u] = "idle" /\ task[u] = NoTask
             /\ UNCHANGED <<registered, interface, alive, handlers>>
             /\ task'[u] = [kind |-> kind, handler |-> h, queue |-> q]
             /\ phase'[u] = "manager"
  BY <1>2, <1>5 DEF Enter
<1>6. CASE ObjectStep(u)
  <2>1. ChangeCallbacks(u) \/ ConstructorThrows(u) => task'[u] = NoTask
    BY <1>0 DEF ChangeCallbacks, ConstructorThrows
  <2> QED BY <1>3, <1>4, <1>5, <1>6, <2>1 DEF ObjectStep
<1>7. CASE ManagerStep(u) \/ BrokerStep(u)
  <2>1. Return(u) => task'[u] = NoTask
    BY <1>0 DEF Return
  <2>2. ToBroker(u) \/ ToConnector(u) => task'[u] = task[u]
    BY DEF ToBroker, ToConnector
  <2>3. phase[u] # "idle" /\ (Return(u) \/ ToBroker(u) \/ ToConnector(u))
    BY <1>7 DEF ManagerStep, AddMessageHandler, RemoveMessageHandler, HasManager,
                BrokerStep, ListenFirst, ListenRefused, Refuse, StopListening, HasBroker,
                ConnectorReturns, ConnectorThrows
  <2> QED BY <2>1, <2>2, <2>3
<1> QED BY <1>1, <1>6, <1>7, Steps, ThreadsUndisturbed DEF thread_vars

\* Handlers are only ever destroyed.
LEMMA AliveSteps ==
    ASSUME [Next]_vars
    PROVE  UNCHANGED alive \/ \E h \in Handlers : DestroyHandler(h)
<1>1. ASSUME NEW t \in Threads, ObjectStep(t) \/ ManagerStep(t) \/ BrokerStep(t)
      PROVE  UNCHANGED alive
  BY <1>1 DEF ObjectStep, Open, Close, Enter, Begin, ChangeCallbacks, ConstructorThrows,
              ManagerStep, AddMessageHandler, RemoveMessageHandler, HasManager,
              BrokerStep, ListenFirst, ListenRefused, StopListening, HasBroker,
              ConnectorReturns, ConnectorThrows, app_vars
<1>2. ASSUME \/ UNCHANGED vars \/ UpperUnchanged
             \/ BeginDispatch \/ OnMessage \/ EndDispatch \/ OnMessageEndsProcess
             \/ \E q \in Queues : SendRequest(q)
      PROVE  UNCHANGED alive
  BY <1>2 DEF vars, UpperUnchanged, BeginDispatch, OnMessage, EndDispatch,
              OnMessageEndsProcess, SendRequest, app_vars
<1> QED BY <1>1, <1>2, Steps

\* Every step keeps what the worker walks in existence.
LEMMA NextRegistered ==
    ASSUME TypeOK, TasksFit, RegisteredExist, [Next]_vars
    PROVE  RegisteredExist'
<1>0. /\ registered \in Seq(Interfaces) /\ to_call \in Seq(Interfaces)
      /\ dispatching \in BOOLEAN
      /\ interface \in [Interfaces -> {"absent", "present", "destroyed", "failed"}]
  BY DEF TypeOK
<1>1. dispatching' => worker' \in {"callback", "terminated"}
  <2>1. CASE BeginDispatch
    BY <2>1 DEF BeginDispatch, conn_vars
  <2>2. CASE EndDispatch
    BY <2>2 DEF EndDispatch
  <2>3. dispatching => worker' \in {"callback", "terminated"} \/ EndDispatch
    <3>1. ASSUME worker \in {"callback", "terminated"}, NEW q \in Queues, SendRequest(q)
          PROVE  UNCHANGED worker
      BY <3>1 DEF SendRequest, Conn!SendRequest, Conn!WaitsFor
    <3>2. Conn!Pop \/ Conn!Popped => worker \in {"brpop", "popped"}
      BY DEF Conn!Pop, Conn!Popped
    <3>3. OnMessageEndsProcess => worker' = "terminated"
      BY DEF OnMessageEndsProcess, Conn!CallbackThrows
    <3> QED BY <3>1, <3>2, <3>3, WorkerSteps DEF RegisteredExist
  <2>4. dispatching' => dispatching \/ BeginDispatch
    BY <1>0, DispatchSteps DEF OnMessage, EndDispatch
  <2> QED BY <2>1, <2>2, <2>3, <2>4
<1>2. ~ dispatching' => to_call' = <<>>
  <2>1. CASE UNCHANGED <<dispatching, to_call>>
    BY <2>1 DEF RegisteredExist
  <2>2. CASE BeginDispatch
    BY <2>2 DEF BeginDispatch
  <2>3. CASE OnMessage
    BY <2>3 DEF OnMessage
  <2>4. CASE EndDispatch
    BY <2>4 DEF EndDispatch
  <2> QED BY <2>1, <2>2, <2>3, <2>4, DispatchSteps
<1>3. ASSUME NEW m \in Interfaces, Contains(registered', m) \/ Contains(to_call', m)
      PROVE  interface'[m] \in {"present", "failed"}
  <2>1. CASE UNCHANGED <<registered, interface>>
    <3>1. Contains(to_call', m) => Contains(to_call, m) \/ Contains(registered, m)
      <4>1. OnMessage => to_call # <<>> /\ to_call' = Tail(to_call)
        BY DEF OnMessage
      <4>2. OnMessage /\ Contains(to_call', m) => Contains(to_call, m)
        BY <1>0, <4>1, HeadAndTailElements
      <4>3. BeginDispatch => to_call' = registered
        BY DEF BeginDispatch, CallbacksToCall
      <4>4. EndDispatch => to_call' = to_call
        BY DEF EndDispatch
      <4> QED BY <4>2, <4>3, <4>4, DispatchSteps
    <3> QED BY <1>3, <2>1, <3>1 DEF RegisteredExist
  <2>2. CASE ~ UNCHANGED <<registered, interface>>
    <3>1. PICK t \in Threads, n \in Interfaces :
             /\ ~ dispatching /\ UNCHANGED <<dispatching, to_call>>
             /\ n = task[t].interface
             /\ \/ /\ registered' = Append(registered, n)
                   /\ \E status \in {"present", "failed"} :
                         interface' = [interface EXCEPT ![n] = status]
                \/ /\ registered' = RemoveAll(registered, n)
                   /\ interface' = [interface EXCEPT ![n] = "destroyed"]
      BY <2>2, InterfaceSteps
    <3>2. Contains(registered', m)
      <4>1. to_call' = <<>> /\ Len(<<>>) = 0
        BY <3>1 DEF RegisteredExist
      <4> QED BY <1>3, <4>1 DEF Contains
    <3>3. CASE /\ registered' = Append(registered, n)
               /\ \E status \in {"present", "failed"} :
                     interface' = [interface EXCEPT ![n] = status]
      <4>1. Contains(registered, m) \/ m = n
        BY <1>0, <3>2, <3>3, AppendElements
      <4> QED BY <1>0, <3>3, <4>1 DEF RegisteredExist
    <3>4. CASE /\ registered' = RemoveAll(registered, n)
               /\ interface' = [interface EXCEPT ![n] = "destroyed"]
      <4>1. Contains(registered, m) /\ m # n
        BY <1>0, <3>2, <3>4, RemoveAllElements
      <4> QED BY <1>0, <3>4, <4>1 DEF RegisteredExist
    <3> QED BY <3>1, <3>3, <3>4
  <2> QED BY <2>1, <2>2
<1>4. \A m : /\ Contains(registered, m)' <=> Contains(registered', m)
             /\ Contains(to_call, m)' <=> Contains(to_call', m)
  BY DEF Contains
<1> QED BY <1>1, <1>2, <1>3, <1>4 DEF RegisteredExist

\* An interface's fate is changed by the thread whose task it is.
LEMMA InterfaceChanges ==
    ASSUME TypeOK, TasksFit, [Next]_vars, ~ UNCHANGED <<registered, interface>>
    PROVE  \E t \in Threads, m \in Interfaces :
              /\ task[t].kind \in {"open", "close"} /\ task[t].interface = m
              /\ task'[t] = NoTask /\ \A u \in Threads \ {t} : task'[u] = task[u]
              /\ UNCHANGED <<handlers, alive>>
              /\ \A n \in Interfaces \ {m} : interface'[n] = interface[n]
              /\ interface'[m] = "present" => task[t].kind = "open"
              /\ task[t].kind = "open" => registered' = Append(registered, m)
              /\ task[t].kind = "close" => registered' = RemoveAll(registered, m)
<1>1. PICK t \in Threads :
         /\ ChangeCallbacks(t) \/ ConstructorThrows(t)
         /\ task[t].kind \in {"open", "close"} /\ task[t].interface \in Interfaces
         /\ UNCHANGED <<handlers, alive>>
         /\ \/ /\ task[t].kind = "open"
               /\ registered' = Append(registered, task[t].interface)
               /\ \E status \in {"present", "failed"} :
                     interface' = [interface EXCEPT ![task[t].interface] = status]
            \/ /\ task[t].kind = "close"
               /\ registered' = RemoveAll(registered, task[t].interface)
               /\ interface' = [interface EXCEPT ![task[t].interface] = "destroyed"]
  BY InterfaceSteps
<1>2. task'[t] = NoTask /\ \A u \in Threads \ {t} : task'[u] = task[u]
  BY <1>1 DEF ChangeCallbacks, ConstructorThrows, TypeOK
<1> QED BY <1>1, <1>2 DEF TypeOK

\* Every step keeps the construction and destruction of an interface to one thread.
LEMMA NextChangesAlone ==
    ASSUME TypeOK, TasksFit, ChangesAlone, [Next]_vars
    PROVE  ChangesAlone'
<1> DEFINE Uses(new_task, m) == /\ new_task.kind \in {"open", "close"}
                                /\ new_task.interface = m
<1>1. \A u \in Threads : \A m : /\ UsesInterface(u, m) <=> Uses(task[u], m)
                                /\ UsesInterface(u, m)' <=> Uses(task'[u], m)
  BY DEF UsesInterface
<1>2. /\ \A m : ~ Uses(NoTask, m)
      /\ \A m : \A kind \in Conn!Kinds, h \in Handlers, q \in Queues :
            ~ Uses([kind |-> kind, handler |-> h, queue |-> q], m)
  BY DEF NoTask, Conn!Kinds
<1>3. ASSUME NEW t \in Threads, NEW m, Uses(task'[t], m)
      PROVE  /\ task'[t].kind = "open" => interface'[m] = "absent"
             /\ task'[t].kind = "close" => interface'[m] = "present"
             /\ \A u \in Threads : Uses(task'[u], m) => u = t
  <2>1. CASE task'[t] = task[t]
    <3>1. /\ Uses(task[t], m)
          /\ task[t].kind = "open" => interface[m] = "absent"
          /\ task[t].kind = "close" => interface[m] = "present"
          /\ \A u \in Threads : Uses(task[u], m) => u = t
      BY <1>1, <1>3, <2>1 DEF ChangesAlone
    <3>2. ASSUME NEW u \in Threads, u # t, Uses(task'[u], m)
          PROVE  FALSE
      <4>1. \/ \E n \in Interfaces :
                  \/ Open(u, n) /\ task'[u] = [kind |-> "open", interface |-> n]
                  \/ Close(u, n) /\ task'[u] = [kind |-> "close", interface |-> n]
            \/ \E kind \in Conn!Kinds, h \in Handlers, q \in Queues :
                  task'[u] = [kind |-> kind, handler |-> h, queue |-> q]
        BY <1>2, <3>1, <3>2, TaskSteps
      <4>2. PICK n \in Interfaces :
                  \/ Open(u, n) /\ task'[u] = [kind |-> "open", interface |-> n]
                  \/ Close(u, n) /\ task'[u] = [kind |-> "close", interface |-> n]
        BY <1>2, <3>2, <4>1
      <4>3. n = m
        BY <3>2, <4>2
      <4>4. ~ UsesInterface(t, m)
        BY <4>2, <4>3 DEF Open, Close
      <4> QED BY <1>1, <3>1, <4>4
    <3>3. UNCHANGED interface \/ interface'[m] = interface[m]
      <4>1. SUFFICES ASSUME ~ UNCHANGED <<registered, interface>>
                     PROVE  interface'[m] = interface[m]
        OBVIOUS
      <4>2. PICK u \in Threads, n \in Interfaces :
               /\ Uses(task[u], n) /\ task'[u] = NoTask
               /\ \A k \in Interfaces \ {n} : interface'[k] = interface[k]
        BY <4>1, InterfaceChanges
      <4>3. u # t
        BY <1>2, <1>3, <4>2
      <4>4. n # m
        BY <3>1, <4>2, <4>3
      <4>5. m \in Interfaces
        <5>1. phase[t] = "callbacks"
          BY <3>1 DEF TasksFit, Calls, Conn!Kinds, NoTask, TypeOK
        <5> QED BY <3>1, <5>1, ChangeTyped
      <4> QED BY <4>2, <4>4, <4>5
    <3> QED BY <2>1, <3>1, <3>2, <3>3
  <2>2. CASE task'[t] # task[t]
    <3>1. /\ UNCHANGED <<registered, interface>>
          /\ \/ \E n \in Interfaces :
                   \/ Open(t, n) /\ task'[t] = [kind |-> "open", interface |-> n]
                   \/ Close(t, n) /\ task'[t] = [kind |-> "close", interface |-> n]
             \/ \E kind \in Conn!Kinds, h \in Handlers, q \in Queues :
                   task'[t] = [kind |-> kind, handler |-> h, queue |-> q]
      BY SMTT(30), <1>2, <1>3, <2>2, TaskSteps
    <3>2. \/ Open(t, m) /\ task'[t].kind = "open" /\ m \in Interfaces
          \/ Close(t, m) /\ task'[t].kind = "close" /\ m \in Interfaces
      <4>1. PICK n \in Interfaces :
                \/ Open(t, n) /\ task'[t] = [kind |-> "open", interface |-> n]
                \/ Close(t, n) /\ task'[t] = [kind |-> "close", interface |-> n]
        BY <1>2, <1>3, <3>1
      <4>2. n = m
        BY <1>3, <4>1
      <4> QED BY <4>1, <4>2
    <3>3. /\ \A u \in Threads : ~ Uses(task[u], m)
          /\ task'[t].kind = "open" => interface[m] = "absent"
          /\ task'[t].kind = "close" => interface[m] = "present"
      BY <1>1, <3>2 DEF Open, Close
    <3>4. \A u \in Threads \ {t} : task'[u] = task[u]
      BY <3>2, PlaceSteps DEF ObjectStep
    <3> QED BY <3>1, <3>3, <3>4
  <2> QED BY <2>1, <2>2
<1> HIDE DEF Uses
<1>4. \A t \in Threads : /\ task[t].kind \in {"open", "close"}
                               => Uses(task[t], task[t].interface)
                         /\ task'[t].kind \in {"open", "close"}
                               => Uses(task'[t], task'[t].interface)
  BY DEF Uses
<1>5. ASSUME NEW t \in Threads
      PROVE  /\ task'[t].kind = "open" => interface'[task'[t].interface] = "absent"
             /\ task'[t].kind = "close" => interface'[task'[t].interface] = "present"
             /\ task'[t].kind \in {"open", "close"} =>
                   \A u \in Threads : Uses(task'[u], task'[t].interface) => u = t
  BY <1>3, <1>4
<1> QED BY <1>5 DEF ChangesAlone, UsesInterface, Uses

\* Every step keeps the handlers that are in use, and their interfaces.
LEMMA NextUsers ==
    ASSUME TypeOK, TasksFit, UsersExist, ChangesAlone, InterfacesLast, [Next]_vars
    PROVE  UsersExist'
<1>1. SUFFICES ASSUME NEW t \in Threads, task'[t].kind \in Conn!Kinds
               PROVE  /\ task'[t].handler \in alive'
                      /\ interface'[InterfaceOf[task'[t].handler]] = "present"
  BY DEF UsersExist
<1>2. CASE task'[t] = task[t]
  <2> DEFINE h == task[t].handler
             m == InterfaceOf[h]
  <2>1. h \in alive /\ interface[m] = "present" /\ m \in Interfaces
    BY <1>1, <1>2, HandlersAssumption DEF UsersExist, TypeOK
  <2>2. h \in alive'
    <3>1. ASSUME NEW g \in Handlers, DestroyHandler(g) PROVE h \in alive'
      <4>1. alive' = alive \ {g} /\ ~ UsesHandler(t, g)
        BY <3>1 DEF DestroyHandler
      <4> QED BY <1>1, <1>2, <2>1, <4>1 DEF UsesHandler
    <3> QED BY <2>1, <3>1, AliveSteps
  <2>3. interface'[m] = "present"
    <3>1. SUFFICES ASSUME ~ UNCHANGED <<registered, interface>>
                   PROVE  interface'[m] = "present"
      BY <2>1
    <3>2. PICK u \in Threads, n \in Interfaces :
             /\ task[u].kind \in {"open", "close"} /\ task[u].interface = n
             /\ \A k \in Interfaces \ {n} : interface'[k] = interface[k]
      BY <3>1, InterfaceChanges
    <3>3. n # m
      BY <2>1, <3>2 DEF ChangesAlone, InterfacesLast
    <3> QED BY <2>1, <3>2, <3>3
  <2> QED BY <1>2, <2>2, <2>3
<1>3. CASE task'[t] # task[t]
  <2>1. PICK kind \in Conn!Kinds, h \in Handlers, q \in Queues :
           /\ Enter(t, kind, h, q)
           /\ task'[t] = [kind |-> kind, handler |-> h, queue |-> q]
           /\ UNCHANGED <<interface, alive>>
    <3>1. task'[t] # NoTask
      BY <1>1 DEF NoTask, Conn!Kinds
    <3>2. \A m : /\ task'[t] # [kind |-> "open", interface |-> m]
                 /\ task'[t] # [kind |-> "close", interface |-> m]
      BY <1>1 DEF Conn!Kinds
    <3> QED BY <1>3, <3>1, <3>2, TaskSteps
  <2> QED BY <2>1 DEF Enter
<1> QED BY <1>2, <1>3

\* Every step keeps an interface that exists registered, and its handlers' end
\* before its own.
LEMMA NextInterfacesLast ==
    ASSUME TypeOK, TasksFit, UsersExist, ChangesAlone, ListedJustified,
           InterfacesLast, [Next]_vars
    PROVE  InterfacesLast'
<1>0. /\ registered \in Seq(Interfaces)
      /\ handlers \in [Interfaces -> [Queues -> Handlers \cup {NoHandler}]]
      /\ alive \subseteq Handlers /\ NoHandler \notin Handlers
  BY HandlersAssumption DEF TypeOK
<1>1. alive' \subseteq alive
  BY AliveSteps DEF DestroyHandler
<1>2. ASSUME NEW m \in Interfaces, interface'[m] = "present"
      PROVE  Contains(registered', m)
  <2>1. CASE UNCHANGED <<registered, interface>>
    BY <1>2, <2>1 DEF InterfacesLast
  <2>2. CASE ~ UNCHANGED <<registered, interface>>
    <3>1. PICK t \in Threads, n \in Interfaces :
             /\ task[t].kind \in {"open", "close"}
             /\ \A k \in Interfaces \ {n} : interface'[k] = interface[k]
             /\ interface'[n] = "present" => task[t].kind = "open"
             /\ task[t].kind = "open" => registered' = Append(registered, n)
             /\ task[t].kind = "close" => registered' = RemoveAll(registered, n)
      BY <2>2, InterfaceChanges
    <3>2. m # n => Contains(registered, m)
      BY <1>2, <3>1 DEF InterfacesLast
    <3>3. CASE task[t].kind = "open"
      <4>1. \A y : Contains(Append(registered, n), y) <=> Contains(registered, y) \/ y = n
        BY <1>0, AppendElements
      <4> QED BY <3>1, <3>2, <3>3, <4>1
    <3>4. CASE task[t].kind = "close"
      <4>1. m # n
        BY <1>2, <3>1, <3>4
      <4> QED BY <1>0, <3>1, <3>2, <3>4, <4>1, RemoveAllElements
    <3> QED BY <3>1, <3>3, <3>4
  <2> QED BY <2>1, <2>2
<1>3. ASSUME NEW t \in Threads, task'[t].kind = "close"
      PROVE  \A h \in alive' : InterfaceOf[h] # task'[t].interface
  <2>1. CASE task'[t] = task[t]
    BY <1>1, <1>3, <2>1 DEF InterfacesLast
  <2>2. CASE task'[t] # task[t]
    <3>1. PICK m \in Interfaces :
             Close(t, m) /\ task'[t] = [kind |-> "close", interface |-> m]
      <4>1. task'[t] # NoTask
        BY <1>3 DEF NoTask
      <4>2. /\ \A m : task'[t] # [kind |-> "open", interface |-> m]
            /\ \A kind \in Conn!Kinds, h \in Handlers, q \in Queues :
                  task'[t] # [kind |-> kind, handler |-> h, queue |-> q]
        BY <1>3 DEF Conn!Kinds
      <4> QED BY <2>2, <4>1, <4>2, TaskSteps
    <3> QED BY <1>1, <3>1 DEF Close
  <2> QED BY <2>1, <2>2
<1>4. ASSUME NEW m \in Interfaces, NEW q \in Queues, handlers'[m][q] \in alive'
      PROVE  interface'[m] = "present"
  <2> DEFINE h == handlers'[m][q]
  <2>1. CASE handlers'[m][q] = handlers[m][q]
    <3>1. h \in alive /\ interface[m] = "present" /\ InterfaceOf[h] = m
      BY <1>0, <1>1, <1>4, <2>1 DEF InterfacesLast, ListedJustified
    <3>2. SUFFICES ASSUME ~ UNCHANGED <<registered, interface>>
                   PROVE  interface'[m] = "present"
      BY <3>1
    <3>3. PICK u \in Threads, n \in Interfaces :
             /\ task[u].kind \in {"open", "close"} /\ task[u].interface = n
             /\ \A k \in Interfaces \ {n} : interface'[k] = interface[k]
      BY <3>2, InterfaceChanges
    <3>4. n # m
      BY <3>1, <3>3 DEF ChangesAlone, InterfacesLast
    <3> QED BY <3>1, <3>3, <3>4
  <2>2. CASE handlers'[m][q] # handlers[m][q]
    <3>1. PICK t \in Threads : ManagerStep(t)
      <4>1. ASSUME NEW t \in Threads, ObjectStep(t) \/ BrokerStep(t)
            PROVE  UNCHANGED handlers
        BY <4>1 DEF ObjectStep, Open, Close, Enter, Begin, ChangeCallbacks,
                    ConstructorThrows, BrokerStep, ListenFirst, ListenRefused,
                    StopListening, HasBroker, ConnectorReturns, ConnectorThrows
      <4> QED BY <2>2, <4>1, Steps, ThreadsUndisturbed
    <3>2. /\ Manager(t) \in Interfaces /\ task[t].queue \in Queues
          /\ task[t].kind \in Conn!Kinds
      BY <3>1, ManagerSteps, CallTyped
    <3>3. /\ UNCHANGED interface
          /\ \/ handlers' = [handlers EXCEPT ![Manager(t)][task[t].queue] =
                                                 task[t].handler]
             \/ handlers' = [handlers EXCEPT ![Manager(t)][task[t].queue] = NoHandler]
      BY <2>2, <3>1, ManagerSteps DEF object_vars
    <3>4. m = Manager(t) /\ q = task[t].queue
      BY <1>0, <2>2, <3>2, <3>3
    <3>5. h \in {task[t].handler, NoHandler}
      BY <1>0, <3>3, <3>4
    <3>6. h = task[t].handler
      BY <1>0, <1>1, <1>4, <3>5
    <3> QED BY <3>2, <3>3, <3>4 DEF UsersExist, Manager
  <2> QED BY <2>1, <2>2
<1> QED BY <1>2, <1>3, <1>4 DEF InterfacesLast, Contains

\* A listed handler stays justified, if what justifies it is not taken away.
LEMMA StaysJustified ==
    ASSUME TypeOK, ListedJustified, NEW t \in Threads,
           \A u \in Threads \ {t} : phase'[u] = phase[u] /\ task'[u] = task[u],
           \A h \in Handlers, q \in Queues :
              handlers'[InterfaceOf[h]][q] = h =>
                 \/ /\ handlers[InterfaceOf[h]][q] = h
                    /\ <<h, q>> \in refused \cup listening \/ Calling(t, h, q) =>
                          <<h, q>> \in refused' \cup listening' \/ Calling(t, h, q)'
                 \/ Calling(t, h, q)',
           \A m \in Interfaces, q \in Queues :
              \/ handlers'[m][q] \in {handlers[m][q], NoHandler}
              \/ handlers'[m][q] \in Handlers /\ InterfaceOf[handlers'[m][q]] = m
    PROVE  ListedJustified'
<1>1. SUFFICES ASSUME NEW m \in Interfaces, NEW q \in Queues, handlers'[m][q] # NoHandler
               PROVE  /\ InterfaceOf[handlers'[m][q]] = m
                      /\ Justified(handlers[m][q], q)'
  BY DEF ListedJustified
<1>2. PICK h : h = handlers'[m][q]
  OBVIOUS
<1>3. InterfaceOf[h] = m /\ h \in Handlers
  BY <1>1, <1>2 DEF ListedJustified, TypeOK
<1>4. Calling(t, h, q)' \/ handlers[m][q] = h
  BY <1>2, <1>3
<1>5. CASE Calling(t, h, q)'
  <2>1. Justified(h, q)'
    BY <1>5 DEF Justified
  <2> QED BY <1>2, <1>3, <2>1 DEF Justified, Calling
<1>6. CASE handlers[m][q] = h /\ ~ Calling(t, h, q)'
  <2>1. /\ <<h, q>> \in refused \cup listening \/ Calling(t, h, q) =>
              <<h, q>> \in refused' \cup listening'
        /\ <<h, q>> \in refused \cup listening \/ \E u \in Threads : Calling(u, h, q)
    BY <1>1, <1>2, <1>3, <1>6 DEF ListedJustified, Justified
  <2>2. \A u \in Threads \ {t} : Calling(u, h, q)' <=> Calling(u, h, q)
    BY DEF Calling
  <2>3. Justified(h, q)'
    BY <2>1, <2>2 DEF Justified
  <2> QED BY <1>2, <1>3, <2>3 DEF Justified, Calling
<1> QED BY <1>4, <1>5, <1>6

\* Every step keeps the entries of the managers justified.
LEMMA NextListed ==
    ASSUME TypeOK, TasksFit, ListedJustified, [Next]_vars
    PROVE  ListedJustified'
<1>0. /\ phase \in [Threads -> {"idle", "callbacks", "manager", "broker", "connector"}]
      /\ task \in [Threads -> Tasks]
      /\ handlers \in [Interfaces -> [Queues -> Handlers \cup {NoHandler}]]
      /\ NoHandler \notin Handlers /\ InterfaceOf \in [Handlers -> Interfaces]
  BY HandlersAssumption DEF TypeOK
<1>1. ASSUME NEW t \in Threads, ObjectStep(t) \/ ManagerStep(t) \/ BrokerStep(t)
      PROVE  \A u \in Threads \ {t} : phase'[u] = phase[u] /\ task'[u] = task[u]
  BY <1>1, PlaceSteps
<1>2. ASSUME NEW t \in Threads, ObjectStep(t) PROVE ListedJustified'
  <2>1. /\ UNCHANGED <<handlers, refused>>
        /\ phase[t] \in {"idle", "callbacks"}
    BY <1>2 DEF ObjectStep, Open, Close, Enter, Begin, Busy, ChangeCallbacks,
                ConstructorThrows, app_vars
  <2>2. \A h, q : ~ Calling(t, h, q)
    BY <2>1 DEF Calling
  <2>3. \/ UNCHANGED listening
        \/ \E h \in Handlers, q \in Queues :
              listening' = listening \ {<<h, q>>} /\ Calling(t, h, q)'
    <3>1. ASSUME NEW kind \in Conn!Kinds, NEW h \in Handlers, NEW q \in Queues,
                 Enter(t, kind, h, q), kind # "listen"
          PROVE  listening' = listening \ {<<h, q>>} /\ Calling(t, h, q)'
      <4>1. /\ listening' = listening \ {<<h, q>>} /\ kind = "stop_listening"
            /\ task' = [task EXCEPT ![t] = [kind |-> kind, handler |-> h, queue |-> q]]
            /\ phase' = [phase EXCEPT ![t] = "manager"]
        BY <3>1 DEF Enter, Begin, Conn!Kinds
      <4> QED BY <1>0, <4>1 DEF Calling
    <3>2. ASSUME NEW kind \in Conn!Kinds, NEW h \in Handlers, NEW q \in Queues,
                 Enter(t, kind, h, q), kind = "listen"
          PROVE  UNCHANGED listening
      BY <3>2 DEF Enter
    <3>3. (\E m \in Interfaces : Open(t, m) \/ Close(t, m)) \/ ChangeCallbacks(t)
          \/ ConstructorThrows(t) => UNCHANGED listening
      BY DEF Open, Close, ChangeCallbacks, ConstructorThrows, app_vars
    <3> QED BY <1>2, <3>1, <3>2, <3>3 DEF ObjectStep
  <2>4. \A h \in Handlers, q \in Queues :
           <<h, q>> \in refused \cup listening =>
              <<h, q>> \in refused' \cup listening' \/ Calling(t, h, q)'
    BY <2>1, <2>3
  <2> QED BY <1>1, <1>2, <2>1, <2>2, <2>4, StaysJustified
<1>3. ASSUME NEW t \in Threads, ManagerStep(t) PROVE ListedJustified'
  <2>1. PICK h \in Handlers, q \in Queues, m \in Interfaces :
           /\ h = task[t].handler /\ q = task[t].queue /\ m = Manager(t)
           /\ phase[t] = "manager" /\ InterfaceOf[h] = m
           /\ task[t].kind \in {"listen", "stop_listening"}
           /\ task[t] = [kind |-> task[t].kind, handler |-> h, queue |-> q]
    <3>1. phase[t] = "manager"
      BY <1>3, ManagerSteps
    <3>2. task[t] \in Calls
      BY <3>1, CallTyped
    <3> QED BY <3>1, <3>2, CallTyped DEF Manager, Calls, Conn!Kinds
  <2>2. UNCHANGED listening
    BY <1>3, ManagerSteps
  <2>3. ASSUME NEW g \in Handlers, NEW r \in Queues, Calling(t, g, r)
        PROVE  g = h /\ r = q /\ task[t].kind = "stop_listening"
    BY <2>1, <2>3 DEF Calling
  <2>4. CASE /\ Return(t) /\ UNCHANGED <<handlers, refused>>
             /\ task[t].kind = "stop_listening" => handlers[m][q] # h
    <3>1. \A g \in Handlers, r \in Queues :
             handlers[InterfaceOf[g]][r] = g => ~ Calling(t, g, r)
      BY <2>1, <2>3, <2>4
    <3> QED BY <1>1, <1>3, <2>2, <2>4, <3>1, StaysJustified
  <2>5. CASE /\ ToBroker(t) /\ task[t].kind = "listen"
             /\ handlers' = [handlers EXCEPT ![m][q] = h] /\ UNCHANGED refused
    <3>1. Calling(t, h, q)'
      <4>1. phase'[t] = "broker" /\ task'[t] = task[t]
        BY <1>0, <2>5 DEF ToBroker
      <4> QED BY <2>1, <2>5, <4>1 DEF Calling
    <3>2. \A g \in Handlers, r \in Queues : ~ Calling(t, g, r)
      BY <2>3, <2>5
    <3>3. \A n \in Interfaces, r \in Queues :
             handlers'[n][r] = IF n = m /\ r = q THEN h ELSE handlers[n][r]
      BY <1>0, <2>5
    <3>4. ASSUME NEW g \in Handlers, NEW r \in Queues, handlers'[InterfaceOf[g]][r] = g
          PROVE  handlers[InterfaceOf[g]][r] = g \/ Calling(t, g, r)'
      BY <1>0, <3>1, <3>3, <3>4
    <3> QED BY <1>1, <1>3, <2>1, <2>2, <2>5, <3>2, <3>3, <3>4, StaysJustified
  <2>6. CASE /\ task[t].kind = "stop_listening"
             /\ handlers' = [handlers EXCEPT ![m][q] = NoHandler]
             /\ refused' = refused \ {<<h, q>>}
    <3>1. \A n \in Interfaces, r \in Queues :
             handlers'[n][r] = IF n = m /\ r = q THEN NoHandler ELSE handlers[n][r]
      BY <1>0, <2>6
    <3>2. ASSUME NEW g \in Handlers, NEW r \in Queues, handlers'[InterfaceOf[g]][r] = g
          PROVE  /\ handlers[InterfaceOf[g]][r] = g
                 /\ g # h \/ r # q
      BY <1>0, <2>1, <3>1, <3>2
    <3>3. ASSUME NEW g \in Handlers, NEW r \in Queues, g # h \/ r # q
          PROVE  /\ ~ Calling(t, g, r)
                 /\ <<g, r>> \in refused \cup listening
                        => <<g, r>> \in refused' \cup listening'
      BY <2>2, <2>3, <2>6, <3>3
    <3> QED BY <1>1, <1>3, <3>1, <3>2, <3>3, StaysJustified
  <2> QED BY <1>3, <2>1, <2>4, <2>5, <2>6, ManagerSteps
<1>4. ASSUME NEW t \in Threads, BrokerStep(t) PROVE ListedJustified'
  <2>1. PICK h \in Handlers, q \in Queues :
           /\ h = task[t].handler /\ q = task[t].queue
           /\ phase[t] \in {"broker", "connector"}
    <3>1. phase[t] \in {"broker", "connector"}
      BY <1>4 DEF BrokerStep, ListenFirst, ListenRefused, StopListening, HasBroker,
                  ConnectorReturns, ConnectorThrows
    <3> QED BY <3>1, CallTyped
  <2>2. ASSUME NEW g \in Handlers, NEW r \in Queues, Calling(t, g, r)
        PROVE  g = h /\ r = q /\ task[t].kind = "listen"
    BY <2>1, <2>2 DEF Calling
  <2>3. /\ UNCHANGED handlers
        /\ refused \subseteq refused' /\ listening \subseteq listening'
        /\ \/ ToConnector(t)
           \/ task[t].kind = "listen" => <<h, q>> \in refused' \cup listening'
    BY <1>4, <2>1 DEF BrokerStep, ListenFirst, ListenRefused, Refuse, StopListening,
                      HasBroker, ToConnector, ConnectorReturns, ConnectorThrows
  <2>4. ASSUME ToConnector(t), NEW g \in Handlers, NEW r \in Queues, Calling(t, g, r)
        PROVE  Calling(t, g, r)'
    <3>1. phase'[t] = "connector" /\ task'[t] = task[t]
      BY <1>0, <2>4 DEF ToConnector
    <3> QED BY <2>1, <2>4, <3>1 DEF Calling
  <2>5. \A g \in Handlers, r \in Queues :
           <<g, r>> \in refused \cup listening \/ Calling(t, g, r) =>
              <<g, r>> \in refused' \cup listening' \/ Calling(t, g, r)'
    BY <2>2, <2>3, <2>4
  <2> QED BY <1>1, <1>4, <2>3, <2>5, StaysJustified
<1>5. ASSUME UNCHANGED <<handlers, phase, task, refused, listening>>
      PROVE  ListedJustified'
  <2>1. \A h, q : Justified(h, q)' <=> Justified(h, q)
    BY <1>5 DEF Justified, Calling
  <2> QED BY <1>5, <2>1 DEF ListedJustified
<1>6. ASSUME \/ UNCHANGED vars \/ UpperUnchanged
             \/ BeginDispatch \/ OnMessage \/ EndDispatch \/ OnMessageEndsProcess
             \/ \E h \in Handlers : DestroyHandler(h)
             \/ \E q \in Queues : SendRequest(q)
      PROVE  UNCHANGED <<handlers, phase, task, refused, listening>>
  <2>1. UNCHANGED <<refused, listening>>
    BY <1>6 DEF vars, UpperUnchanged, BeginDispatch, OnMessage, EndDispatch,
                OnMessageEndsProcess, DestroyHandler, SendRequest, app_vars
  <2> QED BY <1>6, <2>1, ThreadsUndisturbed DEF thread_vars
<1> QED BY <1>2, <1>3, <1>4, <1>5, <1>6, Steps

(***************************************************************************)
(* The requests on their way.                                              *)
(***************************************************************************)

LEMMA NextEmptyHands ==
    ASSUME TypeOK, TasksFit, EmptyHands, [Next]_vars
    PROVE  EmptyHands'
<1>1. CASE UNCHANGED <<pending, worker, current>>
  BY <1>1 DEF EmptyHands, Conn!Token
<1>2. CASE /\ worker \in {"top", "load", "brpop", "blocked"}
           /\ UNCHANGED current \/ current' = Conn!Token
  BY <1>2 DEF EmptyHands, Conn!Token
<1>3. CASE Conn!Pop
  BY <1>3 DEF Conn!Pop, EmptyHands
<1>4. CASE Conn!Popped
  <2>1. worker' = "callback" \/ current.queue = Technical
    BY <1>4 DEF Conn!Popped, Conn!IsTechnical
  <2>2. current.queue = Technical => current = Conn!Token
    BY NamesAssumption DEF TypeOK, Conn!TypeOK, Conn!Requests, Conn!Token
  <2> QED BY <1>4, <2>1, <2>2 DEF Conn!Popped, EmptyHands, Conn!Token
<1>5. ASSUME NEW q \in Queues, SendRequest(q) PROVE EmptyHands'
  BY <1>5 DEF SendRequest, Conn!SendRequest, EmptyHands, Conn!Token
<1>6. CASE EndDispatch
  BY <1>6 DEF EndDispatch, Conn!CallbackReturns, EmptyHands, Conn!Token
<1>7. CASE OnMessageEndsProcess
  BY <1>7 DEF OnMessageEndsProcess, Conn!CallbackThrows, EmptyHands
<1> QED BY <1>1, <1>2, <1>3, <1>4, <1>5, <1>6, <1>7, WorkerSteps

\* Whatever else happens, a request stays on its way to a registered interface; only
\* the call of that interface brings it to its end.
LEMMA PassedOn ==
    ASSUME TypeOK, TasksFit, RegisteredExist, EmptyHands, [Next]_vars, ~ OnMessage,
           NEW n \in 1 .. MaxRequests, NEW q \in Queues, NEW m \in Interfaces,
           Contains(registered, m), ToBePassed(n, q, m)
    PROVE  ToBePassed(n, q, m)'
<1>0. /\ pending \in [Queues -> Seq(1 .. MaxRequests)]
      /\ current \in Conn!Requests \cup {Conn!Token}
  BY DEF TypeOK, Conn!TypeOK
<1>1. ToBePassed(n, q, m)' <=>
          \/ Contains(pending'[q], n)
          \/ /\ current' = [queue |-> q, id |-> n]
             /\ dispatching' => Contains(to_call', m)
  BY DEF ToBePassed, Contains
<1>2. current = Conn!Token => current # [queue |-> q, id |-> n]
  BY NamesAssumption DEF Conn!Token
<1>3. CASE UNCHANGED <<pending, worker, current>>
  <2>1. ~ EndDispatch
    BY <1>3 DEF EndDispatch, Conn!CallbackReturns
  <2>2. BeginDispatch => to_call' = registered
    BY DEF BeginDispatch, CallbacksToCall
  <2> QED BY <1>1, <1>3, <2>1, <2>2, DispatchSteps DEF ToBePassed
<1>4. CASE worker \in {"top", "load", "brpop", "blocked"} /\ UNCHANGED pending
  BY <1>1, <1>2, <1>4 DEF EmptyHands, ToBePassed
<1>5. CASE Conn!Pop /\ UpperUnchanged
  <2>1. /\ Contains(pending[q], n) /\ ~ dispatching' /\ worker = "brpop"
    BY <1>2, <1>5 DEF Conn!Pop, EmptyHands, ToBePassed, RegisteredExist, UpperUnchanged,
                      dispatch_vars
  <2>2. \/ UNCHANGED pending
        \/ \E list \in Queues :
              /\ pending[list] # <<>>
              /\ pending' = [pending EXCEPT ![list] = Tail(@)]
              /\ current' = [queue |-> list, id |-> Head(pending[list])]
    <3>1. \A i \in DOMAIN queues : queues[i] \in Queues \cup {Technical}
      BY DEF TypeOK, Conn!TypeOK
    <3> QED BY <1>5, <3>1 DEF Conn!Pop, Conn!IsEmpty
  <2>3. CASE UNCHANGED pending
    BY <1>1, <2>1, <2>3
  <2>4. ASSUME NEW list \in Queues, pending[list] # <<>>,
               pending' = [pending EXCEPT ![list] = Tail(@)],
               current' = [queue |-> list, id |-> Head(pending[list])]
        PROVE  ToBePassed(n, q, m)'
    <3>1. CASE list = q
      <4>1. n = Head(pending[q]) \/ Contains(Tail(pending[q]), n)
        BY <1>0, <2>1, <2>4, <3>1, HeadAndTailElements
      <4> QED BY <1>0, <1>1, <2>1, <2>4, <3>1, <4>1
    <3>2. CASE list # q
      BY <1>0, <1>1, <2>1, <2>4, <3>2
    <3> QED BY <3>1, <3>2
  <2> QED BY <2>2, <2>3, <2>4
<1>6. CASE Conn!Popped /\ UpperUnchanged
  BY <1>1, <1>6 DEF Conn!Popped, Conn!redis, ToBePassed, UpperUnchanged, dispatch_vars
<1>7. ASSUME NEW r \in Queues, SendRequest(r) PROVE ToBePassed(n, q, m)'
  <2>1. /\ UNCHANGED <<dispatching, to_call>>
        /\ requested + 1 \in 1 .. MaxRequests
        /\ \/ worker = "blocked" /\ UNCHANGED pending
           \/ /\ pending' = [pending EXCEPT ![r] = Append(@, requested + 1)]
              /\ UNCHANGED current
    BY <1>7, BoundsAssumption DEF SendRequest, Conn!SendRequest, Conn!WaitsFor,
                                  dispatch_vars, TypeOK, Conn!TypeOK
  <2>2. CASE worker = "blocked" /\ UNCHANGED pending
    BY <1>4, <2>2
  <2>3. CASE /\ pending' = [pending EXCEPT ![r] = Append(@, requested + 1)]
             /\ UNCHANGED current
    <3>1. Contains(pending[q], n) => Contains(pending'[q], n)
      <4>1. Contains(pending[q], n) => Contains(Append(pending[q], requested + 1), n)
        BY <1>0, <2>1, AppendElements
      <4> QED BY <1>0, <2>3, <4>1
    <3> QED BY <1>1, <2>1, <2>3, <3>1 DEF ToBePassed
  <2> QED BY <2>1, <2>2, <2>3
<1>8. CASE EndDispatch
  <2>1. dispatching /\ to_call = <<>> /\ UNCHANGED pending
    BY <1>8 DEF EndDispatch, Conn!CallbackReturns, Conn!redis
  <2>2. ~ Contains(<<>>, m)
    BY DEF Contains
  <2> QED BY <1>1, <2>1, <2>2 DEF ToBePassed
<1>9. CASE OnMessageEndsProcess
  BY <1>1, <1>9 DEF OnMessageEndsProcess, Conn!CallbackThrows, Conn!redis, ToBePassed,
                    dispatch_vars
<1> QED BY <1>3, <1>4, <1>5, <1>6, <1>7, <1>8, <1>9, WorkerSteps

\* Every step keeps the owed requests on their way.
LEMMA NextOwed ==
    ASSUME TypeOK, TasksFit, RegisteredExist, InterfacesLast, EmptyHands,
           OwedOnItsWay, [Next]_vars
    PROVE  OwedOnItsWay'
<1>0. /\ handlers \in [Interfaces -> [Queues -> Handlers \cup {NoHandler}]]
      /\ NoHandler \notin Handlers /\ InterfaceOf \in [Handlers -> Interfaces]
      /\ pending \in [Queues -> Seq(1 .. MaxRequests)]
      /\ to_call \in Seq(Interfaces)
      /\ owed \subseteq Handlers \X (1 .. MaxRequests)
  BY HandlersAssumption DEF TypeOK, Conn!TypeOK
<1>1. SUFFICES ASSUME NEW h \in Handlers, NEW n \in 1 .. MaxRequests, <<h, n>> \in owed'
               PROVE  /\ h \in alive'
                      /\ \E q \in Queues : /\ handlers'[InterfaceOf[h]][q] = h
                                           /\ ToBePassed(n, q, InterfaceOf[h])'
  BY DEF OwedOnItsWay
<1>2. UNCHANGED to_call => ~ OnMessage
  <2>1. to_call # <<>> => Tail(to_call) # to_call
    <3>1. to_call # <<>> => Len(Tail(to_call)) = Len(to_call) - 1 /\ Len(to_call) \in Nat
      BY <1>0
    <3> QED BY <3>1
  <2> QED BY <2>1 DEF OnMessage
<1> DEFINE m == InterfaceOf[h]
           Stays == /\ h \in alive'
                    /\ \E q \in Queues : /\ handlers'[m][q] = h
                                         /\ ToBePassed(n, q, m)'
<1>3. m \in Interfaces
  BY <1>0
<1>4. ASSUME <<h, n>> \in owed
      PROVE  /\ h \in alive /\ Contains(registered, m)
             /\ \E q \in Queues : handlers[m][q] = h /\ ToBePassed(n, q, m)
  BY <1>3, <1>4 DEF OwedOnItsWay, InterfacesLast
<1>5. ASSUME <<h, n>> \in owed, h \in alive', ~ OnMessage,
             \A q \in Queues : handlers[m][q] = h /\ ToBePassed(n, q, m)
                                   => handlers'[m][q] = h
      PROVE  Stays
  <2>1. PICK q \in Queues : handlers[m][q] = h /\ ToBePassed(n, q, m)
    BY <1>4, <1>5
  <2>2. ToBePassed(n, q, m)'
    BY <1>3, <1>4, <1>5, <2>1, PassedOn
  <2> QED BY <1>5, <2>1, <2>2
<1>6. ASSUME UNCHANGED <<owed, alive, handlers>>, ~ OnMessage PROVE Stays
  BY <1>1, <1>4, <1>5, <1>6
<1>7. ASSUME OnMessage PROVE Stays
  <2>1. /\ to_call # <<>> /\ to_call' = Tail(to_call)
        /\ UNCHANGED <<pending, current, alive, handlers>>
        /\ owed' = owed \ {<<handlers[Head(to_call)][current.queue], current.id>>}
    BY <1>7 DEF OnMessage, app_vars, conn_vars
  <2>2. PICK q \in Queues : handlers[m][q] = h /\ ToBePassed(n, q, m)
    BY <1>1, <1>4, <2>1
  <2>3. ToBePassed(n, q, m)' <=>
            \/ Contains(pending'[q], n)
            \/ /\ current' = [queue |-> q, id |-> n]
               /\ dispatching' => Contains(to_call', m)
    BY DEF ToBePassed, Contains
  <2>4. CASE Contains(pending[q], n)
    BY <1>1, <1>4, <2>1, <2>2, <2>3, <2>4
  <2>5. CASE current = [queue |-> q, id |-> n] /\ Contains(to_call, m)
    <3>1. m = Head(to_call) \/ Contains(Tail(to_call), m)
      BY <1>0, <2>1, <2>5, HeadAndTailElements
    <3>2. m # Head(to_call)
      BY <1>1, <2>1, <2>2, <2>5
    <3> QED BY <1>1, <1>4, <2>1, <2>2, <2>3, <2>5, <3>1, <3>2
  <2>6. dispatching
    BY <1>7 DEF OnMessage
  <2> QED BY <2>2, <2>4, <2>5, <2>6 DEF ToBePassed
<1>8. ASSUME NEW t \in Threads, ManagerStep(t) PROVE Stays
  <2>1. PICK k \in Interfaces, r \in Queues :
           /\ k = Manager(t) /\ r = task[t].queue
    <3>1. phase[t] = "manager"
      BY <1>8, ManagerSteps
    <3> QED BY <3>1, CallTyped
  <2>2. UNCHANGED alive /\ ~ OnMessage /\ <<h, n>> \in owed
    <3>1. UNCHANGED alive /\ owed' \subseteq owed /\ UNCHANGED dispatch_vars
      BY <1>8, ManagerSteps
    <3>2. ~ OnMessage
      BY <1>2, <3>1 DEF dispatch_vars
    <3> QED BY <1>1, <3>1, <3>2
  <2>3. ASSUME NEW q \in Queues, handlers[m][q] = h, ToBePassed(n, q, m)
        PROVE  handlers'[m][q] = h
    <3>1. CASE UNCHANGED handlers
      BY <2>3, <3>1
    <3>2. CASE /\ handlers[k][r] = NoHandler
               /\ handlers' = [handlers EXCEPT ![k][r] = task[t].handler]
      <4>1. k # m \/ r # q
        BY <1>0, <2>3, <3>2
      <4> QED BY <1>0, <1>3, <2>1, <2>3, <3>2, <4>1
    <3>3. CASE /\ handlers[k][r] = task[t].handler
               /\ handlers' = [handlers EXCEPT ![k][r] = NoHandler]
               /\ owed' = {o \in owed : ~ (/\ o[1] = task[t].handler
                                           /\ InQueue(o[2], r))}
      <4>1. InQueue(n, q)
        BY <2>3 DEF ToBePassed, InQueue
      <4>2. ~ (h = task[t].handler /\ InQueue(n, r))
        BY <1>1, <3>3
      <4>3. k # m \/ r # q
        BY <2>3, <3>3, <4>1, <4>2
      <4> QED BY <1>0, <1>3, <2>1, <2>3, <3>3, <4>3
    <3> QED BY <1>8, <2>1, <3>1, <3>2, <3>3, ManagerSteps
  <2> QED BY <1>4, <1>5, <2>2, <2>3
<1>9. ASSUME NEW r \in Queues, SendRequest(r) PROVE Stays
  <2>1. /\ UNCHANGED <<alive, handlers, dispatching, to_call>>
        /\ owed' = owed \cup {<<g, requested + 1>> :
                                 g \in {g \in alive : handlers[InterfaceOf[g]][r] = g}}
    BY <1>9 DEF SendRequest, app_vars, dispatch_vars
  <2>2. ~ OnMessage
    BY <1>2, <2>1
  <2>3. CASE <<h, n>> \in owed
    BY <1>4, <1>5, <2>1, <2>2, <2>3
  <2>4. CASE <<h, n>> \notin owed
    <3>1. h \in alive /\ handlers[m][r] = h /\ n = requested + 1
      BY <1>1, <2>1, <2>4
    <3>2. ToBePassed(n, r, m)'
      <4>1. ToBePassed(n, r, m)' <=>
                \/ Contains(pending'[r], n)
                \/ /\ current' = [queue |-> r, id |-> n]
                   /\ dispatching' => Contains(to_call', m)
        BY DEF ToBePassed, Contains
      <4>2. CASE worker = "blocked" /\ current' = [queue |-> r, id |-> n]
        BY <2>1, <4>1, <4>2 DEF RegisteredExist
      <4>3. CASE pending' = [pending EXCEPT ![r] = Append(@, n)]
        <5>1. Contains(Append(pending[r], n), n)
          BY <1>0, AppendElements
        <5> QED BY <1>0, <4>1, <4>3, <5>1
      <4> QED BY <1>9, <3>1, <4>2, <4>3 DEF SendRequest, Conn!SendRequest, Conn!WaitsFor
    <3> QED BY <2>1, <3>1, <3>2
  <2> QED BY <2>3, <2>4
<1>10. ASSUME NEW g \in Handlers, DestroyHandler(g) PROVE Stays
  <2>1. /\ alive' = alive \ {g} /\ owed' = {o \in owed : o[1] # g}
        /\ UNCHANGED <<handlers, to_call>>
    BY <1>10 DEF DestroyHandler, dispatch_vars
  <2>2. ~ OnMessage
    BY <1>2, <2>1
  <2>3. <<h, n>> \in owed /\ h # g
    BY <1>1, <2>1
  <2> QED BY <1>4, <1>5, <2>1, <2>2, <2>3
<1>11. ASSUME ~ OnMessage,
              \/ UNCHANGED vars \/ UpperUnchanged
              \/ BeginDispatch \/ EndDispatch \/ OnMessageEndsProcess
              \/ \E t \in Threads : ObjectStep(t) \/ BrokerStep(t)
       PROVE  UNCHANGED <<owed, alive, handlers>>
  <2>1. ASSUME NEW t \in Threads, ObjectStep(t) \/ BrokerStep(t)
        PROVE  UNCHANGED <<owed, alive, handlers>>
    BY <2>1 DEF ObjectStep, Open, Close, Enter, Begin, ChangeCallbacks,
                ConstructorThrows, BrokerStep, ListenFirst, ListenRefused,
                StopListening, HasBroker, ConnectorReturns, ConnectorThrows, app_vars
  <2> QED BY <1>11, <2>1 DEF vars, UpperUnchanged, BeginDispatch, EndDispatch,
                             OnMessageEndsProcess, app_vars
<1>12. Stays
  BY <1>6, <1>7, <1>8, <1>9, <1>10, <1>11, Steps
<1> QED BY <1>12

(***************************************************************************)
(* The invariant, and the theorems.                                        *)
(***************************************************************************)

\* With nobody listening and nothing sent, the books agree.
LEMMA InitInv == Init => IInv
<1> SUFFICES ASSUME Init PROVE IInv
  OBVIOUS
<1>1. TypeOK /\ TasksFit
  BY InitType
<1>2. /\ \A t \in Threads : phase[t] = "idle" /\ pc[t] = "idle" /\ task[t] = NoTask
      /\ \A m \in Interfaces, q \in Queues : handlers[m][q] = NoHandler
      /\ \A m \in Interfaces : interface[m] = "absent"
      /\ \A q \in Queues : count[q] = 0
      /\ m_queue_subscriptions = <<Technical>>
      /\ registered = <<>> /\ to_call = <<>> /\ ~ dispatching
      /\ worker = "top" /\ current = Conn!Token /\ owed = {}
  BY DEF Init, Conn!Init
<1>3. LockDiscipline /\ ChangeMade
  BY <1>2 DEF LockDiscipline, ChangeMade
<1>4. CountIsOfManagers
  <2>1. \A q \in Queues : CountedFor(q) = {}
    BY <1>2 DEF CountedFor, InBroker
  <2> QED BY <1>2, <2>1, FS_EmptySet DEF CountIsOfManagers
<1>5. ListIsOfCounts
  <2>1. Unique(m_queue_subscriptions)
    BY <1>2 DEF Unique
  <2>2. \A q \in Queues : ~ Contains(m_queue_subscriptions, q)
    BY <1>2, NamesAssumption DEF Contains
  <2> QED BY <1>2, <2>1, <2>2 DEF ListIsOfCounts, Updating
<1>6. RegisteredExist /\ EmptyHands
  BY <1>2 DEF RegisteredExist, EmptyHands, Contains
<1>7. UsersExist /\ ChangesAlone
  BY <1>2 DEF UsersExist, ChangesAlone, NoTask, Conn!Kinds
<1>8. ListedJustified /\ OwedOnItsWay
  BY <1>2 DEF ListedJustified, OwedOnItsWay
<1>9. InterfacesLast
  <2>1. NoHandler \notin alive
    BY <1>1, HandlersAssumption DEF TypeOK
  <2> QED BY <1>2, <2>1 DEF InterfacesLast, NoTask
<1> QED BY <1>1, <1>3, <1>4, <1>5, <1>6, <1>7, <1>8, <1>9 DEF IInv

LEMMA NextInv == IInv /\ [Next]_vars => IInv'
<1> SUFFICES ASSUME IInv, [Next]_vars PROVE IInv'
  OBVIOUS
<1> USE DEF IInv
<1>1. TypeOK' /\ TasksFit' /\ LockDiscipline'
  BY NextType, NextTasks, NextLock
<1>2. ChangeMade' /\ CountIsOfManagers' /\ ListIsOfCounts'
  BY NextCount, NextList
<1>3. RegisteredExist' /\ UsersExist' /\ ChangesAlone'
  BY NextRegistered, NextUsers, NextChangesAlone
<1>4. ListedJustified' /\ InterfacesLast' /\ EmptyHands' /\ OwedOnItsWay'
  BY NextListed, NextInterfacesLast, NextEmptyHands, NextOwed
<1> QED BY <1>1, <1>2, <1>3, <1>4

LEMMA Invariance == Spec => []IInv
<1> QED BY InitInv, NextInv, PTL DEF Spec

\* Every variable keeps its type: in particular the count of a queue never goes
\* below zero.
THEOREM TypeCorrect == Spec => []TypeOK
<1>1. IInv => TypeOK
  BY DEF IInv
<1> QED BY <1>1, Invariance, PTL

\* With no call in progress the managers' entries, the broker's count and the
\* connector's list agree, after any number of calls, refusals and failures.
THEOREM BooksInAgreement == Spec => []BooksAgree
<1>1. ASSUME IInv PROVE BooksAgree
  <2>1. SUFFICES ASSUME AtRest, NEW q \in Queues
                 PROVE  /\ count[q] = Cardinality(Listing(q))
                        /\ Cardinality({i \in DOMAIN m_queue_subscriptions :
                                           m_queue_subscriptions[i] = q})
                               = (IF Listing(q) = {} THEN 0 ELSE 1)
    BY DEF BooksAgree
  <2>2. \A t \in Threads : phase[t] \notin {"broker", "connector"} /\ pc[t] # "lock"
    <3>1. SUFFICES ASSUME NEW t \in Threads, phase[t] \in {"broker", "connector"}
                   PROVE  FALSE
      BY <1>1 DEF IInv, LockDiscipline
    <3>2. manager_lock[Manager(t)] = t /\ Manager(t) \in Interfaces
      BY <1>1, <3>1, CallTyped DEF IInv, LockDiscipline
    <3> QED BY <2>1, <3>2, NamesAssumption DEF AtRest
  <2>3. CountedFor(q) = Listing(q)
    BY <2>2 DEF CountedFor, InBroker, Listing
  <2>4. IsFiniteSet(Listing(q)) /\ count[q] = Cardinality(Listing(q))
    BY <1>1, <2>3 DEF IInv, CountIsOfManagers
  <2>5. Contains(m_queue_subscriptions, q) <=> count[q] # 0
    BY <1>1, <2>2 DEF IInv, ListIsOfCounts, Updating
  <2>6. Cardinality({i \in DOMAIN m_queue_subscriptions : m_queue_subscriptions[i] = q})
            = IF Contains(m_queue_subscriptions, q) THEN 1 ELSE 0
    <3>1. m_queue_subscriptions \in Seq(Queues \cup {Technical})
      BY <1>1 DEF IInv, TypeOK, Conn!TypeOK
    <3>2. Unique(m_queue_subscriptions)
      BY <1>1 DEF IInv, ListIsOfCounts
    <3> QED BY <3>1, <3>2, Places
  <2>7. Cardinality(Listing(q)) = 0 <=> Listing(q) = {}
    BY <2>4, FS_EmptySet
  <2> QED BY <2>4, <2>5, <2>6, <2>7
<1> QED BY <1>1, Invariance, PTL

\* A listen is refused only because another interface has an entry for the queue, or
\* is about to give it up: the broker's count is never left behind.
THEOREM RefusalsHaveReasons == Spec => RefusedForAReason
<1> DEFINE HasReason(t) ==
        LET q == task[t].queue
        IN  phase[t] = "broker" /\ task[t].kind = "listen" /\ phase'[t] = "idle" =>
               \/ \E m \in Interfaces \ {Manager(t)} :
                     <<handlers[m][q], q>> \in listening \cup refused
               \/ \E u \in Threads :
                     task[u].kind = "stop_listening" /\ task[u].queue = q
<1>1. ASSUME IInv, [Next]_vars, NEW t \in Threads, phase[t] = "broker",
             task[t].kind = "listen", phase'[t] = "idle"
      PROVE  HasReason(t)
  <2> DEFINE q == task[t].queue
  <2> USE DEF IInv
  <2>1. ListenRefused(t)
    <3>1. PICK u \in Threads : ObjectStep(u) \/ ManagerStep(u) \/ BrokerStep(u)
      BY <1>1, Steps, ThreadsUndisturbed DEF thread_vars
    <3>2. u = t
      BY <1>1, <3>1, PlaceSteps
    <3>3. ~ ObjectStep(t) /\ ~ ManagerStep(t)
      BY <1>1 DEF ObjectStep, Open, Close, Enter, Begin, Busy, ChangeCallbacks,
                  ConstructorThrows, ManagerStep, AddMessageHandler,
                  RemoveMessageHandler, HasManager
    <3>4. ~ ToConnector(t)
      BY <1>1 DEF ToConnector, TypeOK
    <3> QED BY <1>1, <3>1, <3>2, <3>3, <3>4
            DEF BrokerStep, ListenFirst, StopListening, HasBroker, ConnectorReturns,
                ConnectorThrows
  <2>2. q \in Queues /\ Manager(t) \in Interfaces
    BY <1>1, HandlersAssumption DEF TasksFit, Calls, Manager
  <2>3. broker_lock = NoCaller /\ count[q] # 0
    BY <2>1, <2>2 DEF ListenRefused, HasBroker, ReachesConnector, TypeOK
  <2>4. PICK m \in Interfaces : ~ (handlers[m][q] # NoHandler <=> InBroker(m, q))
    <3>1. CountedFor(q) # {}
      BY <1>1, <2>2, <2>3, FS_EmptySet DEF CountIsOfManagers
    <3> QED BY <3>1 DEF CountedFor
  <2>5. m # Manager(t)
    BY <1>1, <2>4 DEF ChangeMade, InBroker
  <2> DEFINE h == handlers[m][q]
  <2>6. CASE h # NoHandler /\ ~ InBroker(m, q)
    <3>1. InterfaceOf[h] = m /\ Justified(h, q)
      BY <1>1, <2>2, <2>6 DEF ListedJustified
    <3>2. ASSUME NEW u \in Threads, Calling(u, h, q)
          PROVE  task[u].kind = "stop_listening" /\ task[u].queue = q
      <4>1. CASE phase[u] = "manager"
        BY <3>2, <4>1 DEF Calling
      <4>2. CASE phase[u] # "manager"
        <5>1. /\ phase[u] \in {"broker", "connector"}
              /\ task[u] = [kind |-> "listen", handler |-> h, queue |-> q]
          BY <3>2, <4>2 DEF Calling
        <5>2. Manager(u) = m /\ task[u].queue = q
          BY <3>1, <5>1 DEF Manager
        <5>3. phase[u] # "broker"
          BY <2>6, <5>2 DEF InBroker
        <5>4. broker_lock = u
          BY <1>1, <5>1, <5>3 DEF LockDiscipline
        <5> QED BY <2>3, <5>4, ConnAssumptions
      <4> QED BY <4>1, <4>2
    <3> QED BY <2>5, <3>1, <3>2 DEF Justified
  <2>7. CASE h = NoHandler /\ InBroker(m, q)
    <3>1. PICK u \in Threads : /\ phase[u] = "broker"
                               /\ Manager(u) = m /\ task[u].queue = q
      BY <2>7 DEF InBroker
    <3>2. task[u].kind # "listen"
      BY <1>1, <2>7, <3>1 DEF ChangeMade
    <3>3. task[u].kind = "stop_listening"
      BY <1>1, <3>1, <3>2 DEF TasksFit, Calls, Conn!Kinds
    <3> QED BY <3>1, <3>3
  <2> QED BY <2>4, <2>6, <2>7
<1>2. IInv /\ [Next]_vars => [\A t \in Threads : HasReason(t)]_vars
  BY <1>1
<1> QED BY <1>2, Invariance, PTL DEF Spec, RefusedForAReason

\* The worker calls interfaces and handlers that exist, but for a handler whose owner
\* never stopped listening and an interface whose constructor threw.
THEOREM CalledExist == Spec => []CalledObjectsExist
<1>1. ASSUME IInv PROVE CalledObjectsExist
  <2>1. ASSUME NEW m \in Interfaces, NEW q \in Queues, handlers[m][q] # NoHandler
        PROVE  \/ handlers[m][q] \in alive
               \/ <<handlers[m][q], q>> \in refused \cup listening
    <3>1. Justified(handlers[m][q], q)
      BY <1>1, <2>1 DEF IInv, ListedJustified
    <3>2. \A h, kind : \A t \in Threads : task[t] = [kind |-> kind, handler |-> h, queue |-> q]
              => task[t].kind = kind /\ task[t].handler = h
      OBVIOUS
    <3>3. \A h : \A t \in Threads : Calling(t, h, q) => h \in alive
      BY <1>1, <3>2 DEF IInv, UsersExist, Calling, Conn!Kinds
    <3> QED BY <3>1, <3>3 DEF Justified
  <2>2. ASSUME NEW m \in Interfaces, Contains(registered \o to_call, m)
        PROVE  interface[m] \in {"present", "failed"}
    <3>1. registered \in Seq(Interfaces) /\ to_call \in Seq(Interfaces)
      BY <1>1 DEF IInv, TypeOK
    <3>2. Contains(registered, m) \/ Contains(to_call, m)
      BY <2>2, <3>1, ConcatElements
    <3> QED BY <1>1, <3>2 DEF IInv, RegisteredExist
  <2> QED BY <2>1, <2>2 DEF CalledObjectsExist
<1> QED BY <1>1, Invariance, PTL

\* A request sent while a handler was listed for its queue stays on its way to it
\* until it is called, whatever others start and stop.
THEOREM OnlyStoppingLoses == Spec => []LostOnlyByStopping
<1>1. ASSUME IInv PROVE LostOnlyByStopping
  <2>1. SUFFICES ASSUME NEW o \in owed PROVE \E q \in Queues : InQueue(o[2], q)
    BY DEF LostOnlyByStopping
  <2>2. PICK h \in Handlers, n \in 1 .. MaxRequests : o = <<h, n>>
    BY <1>1 DEF IInv, TypeOK
  <2>3. PICK q \in Queues : ToBePassed(n, q, InterfaceOf[h])
    BY <1>1, <2>1, <2>2 DEF IInv, OwedOnItsWay
  <2> QED BY <2>2, <2>3 DEF ToBePassed, InQueue
<1> QED BY <1>1, Invariance, PTL

(***************************************************************************)
(* Nobody is stuck.                                                        *)
(***************************************************************************)

\* Who holds a lock is on the way on which it is taken, and the connector's lock
\* is held to push the token.
HoldersInside ==
    /\ \A m \in Interfaces, u \in Threads : manager_lock[m] = u =>
          phase[u] \in {"broker", "connector"} /\ Manager(u) = m
    /\ \A u \in Threads : broker_lock = u => phase[u] = "connector"
    /\ \A u \in Threads : m_queue_subscription_lock = u => pc[u] = "notify"

\* The connector serves as long as anybody is in a call or an interface exists.
ConnectorServes ==
    owner # "ready" => /\ \A t \in Threads : phase[t] = "idle"
                       /\ \A m \in Interfaces : interface[m] # "present"

\* The queues for which the connector was called, and the calls of listen that may
\* have it called.
Reached == {q \in Queues : count[q] # 0}
Coming == {t \in Threads : phase[t] \in {"manager", "broker"} /\ task[t].kind = "listen"}

\* A call of listen calls the connector at most once, and so does what ends it.
CallsCounted ==
    /\ IsFiniteSet(Reached) /\ IsFiniteSet(Coming)
    /\ calls + Cardinality(Reached) + 2 * Cardinality(Coming) <= 2 * listens

WaitIInv == IInv /\ HoldersInside /\ ConnectorServes /\ CallsCounted

LEMMA NextHolders ==
    ASSUME TypeOK, TasksFit, LockDiscipline, HoldersInside, [Next]_vars
    PROVE  HoldersInside'
<1>0. /\ manager_lock \in [Interfaces -> Threads \cup {NoCaller}]
      /\ phase \in [Threads -> {"idle", "callbacks", "manager", "broker", "connector"}]
      /\ \A u \in Threads : u # NoCaller
  BY NamesAssumption DEF TypeOK
<1> DEFINE Inside == /\ \A m \in Interfaces, u \in Threads : manager_lock[m] = u =>
                           phase[u] \in {"broker", "connector"} /\ Manager(u) = m
                     /\ \A u \in Threads : broker_lock = u => phase[u] = "connector"
<1>1. ASSUME NEW t \in Threads, ObjectStep(t) \/ ManagerStep(t) \/ BrokerStep(t)
      PROVE  Inside'
  <2>1. /\ \A u \in Threads \ {t} :
              phase'[u] = phase[u] /\ task'[u] = task[u] /\ Manager(u)' = Manager(u)
        /\ \/ /\ phase[t] \in {"idle", "callbacks"}
              /\ UNCHANGED <<manager_lock, broker_lock>>
           \/ /\ phase[t] = "manager" /\ UNCHANGED broker_lock
              /\ \/ UNCHANGED manager_lock
                 \/ /\ phase'[t] = "broker" /\ task'[t] = task[t]
                    /\ manager_lock' = [manager_lock EXCEPT ![Manager(t)] = t]
           \/ phase[t] = "broker" /\ ToConnector(t)
           \/ phase[t] = "broker" /\ Return(t) /\ UNCHANGED broker_lock
           \/ phase[t] = "connector" /\ Return(t) /\ broker_lock' = NoCaller
    BY <1>1, PlaceSteps DEF Manager
  <2>2. phase[t] \in {"manager", "broker", "connector"} => Manager(t) \in Interfaces
    BY CallTyped
  <2>3. ASSUME NEW m \in Interfaces, NEW u \in Threads, manager_lock'[m] = u
        PROVE  phase'[u] \in {"broker", "connector"} /\ Manager(u)' = m
    <3>1. CASE phase[t] \in {"idle", "callbacks"} /\ UNCHANGED manager_lock
      <4>1. u # t /\ phase[u] \in {"broker", "connector"} /\ Manager(u) = m
        BY <1>0, <2>3, <3>1 DEF HoldersInside
      <4> QED BY <2>1, <4>1
    <3>2. CASE phase[t] = "manager" /\ UNCHANGED manager_lock
      <4>1. u # t /\ phase[u] \in {"broker", "connector"} /\ Manager(u) = m
        BY <1>0, <2>3, <3>2 DEF HoldersInside
      <4> QED BY <2>1, <4>1
    <3>3. CASE /\ phase[t] = "manager" /\ phase'[t] = "broker" /\ task'[t] = task[t]
               /\ manager_lock' = [manager_lock EXCEPT ![Manager(t)] = t]
      <4>1. CASE m = Manager(t)
        BY <1>0, <2>2, <2>3, <3>3, <4>1 DEF Manager
      <4>2. CASE m # Manager(t)
        <5>1. manager_lock[m] = u
          BY <1>0, <2>3, <3>3, <4>2
        <5>2. u # t /\ phase[u] \in {"broker", "connector"} /\ Manager(u) = m
          BY <1>0, <3>3, <5>1 DEF HoldersInside
        <5> QED BY <2>1, <5>2
      <4> QED BY <4>1, <4>2
    <3>4. CASE phase[t] = "broker" /\ ToConnector(t)
      <4>1. /\ phase[u] \in {"broker", "connector"} /\ Manager(u) = m
            /\ phase' = [phase EXCEPT ![t] = "connector"] /\ UNCHANGED task
        BY <2>3, <3>4 DEF HoldersInside, ToConnector
      <4> QED BY <1>0, <4>1 DEF Manager
    <3>5. CASE phase[t] \in {"broker", "connector"} /\ Return(t)
      <4>1. m # Manager(t) /\ manager_lock[m] = u
        BY <1>0, <2>2, <2>3, <3>5 DEF Return
      <4>2. u # t /\ phase[u] \in {"broker", "connector"} /\ Manager(u) = m
        BY <4>1 DEF HoldersInside
      <4> QED BY <2>1, <4>2
    <3> QED BY <2>1, <3>1, <3>2, <3>3, <3>4, <3>5
  <2>4. ASSUME NEW u \in Threads, broker_lock' = u
        PROVE  phase'[u] = "connector"
    <3>1. CASE phase[t] = "broker" /\ ToConnector(t)
      BY <1>0, <2>4, <3>1 DEF ToConnector
    <3>2. CASE UNCHANGED broker_lock /\ phase[t] # "connector"
      <4>1. u # t /\ phase[u] = "connector"
        BY <2>4, <3>2 DEF HoldersInside
      <4> QED BY <2>1, <4>1
    <3> QED BY <1>0, <2>1, <2>4, <3>1, <3>2
  <2> QED BY <2>3, <2>4
<1>2. ASSUME UNCHANGED thread_vars PROVE Inside'
  BY <1>2 DEF HoldersInside, thread_vars, Manager
<1>3. Inside'
  <2> HIDE DEF Inside
  <2> QED BY <1>1, <1>2, Steps, ThreadsUndisturbed
<1>4. (\A u \in Threads : m_queue_subscription_lock = u => pc[u] = "notify")'
  <2>1. CASE [Conn!Next]_Conn!vars
    <3>1. P!TypeOK /\ P!HolderNotifies /\ [P!Next]_P!vars
      BY <2>1, SameType, SameStep DEF TypeOK, HoldersInside, P!HolderNotifies
    <3>2. P!HolderNotifies'
      BY <3>1, ConnAssumptions, P!NextHolder
    <3> QED BY <3>2 DEF P!HolderNotifies
  <2>2. ASSUME NEW t \in Threads, ConstructorThrows(t)
        PROVE  UNCHANGED <<pc, m_queue_subscription_lock>>
    BY <2>2 DEF ConstructorThrows
  <2> QED BY <2>1, <2>2, ConnSteps DEF HoldersInside
<1> QED BY <1>3, <1>4 DEF HoldersInside

\* The owner of the connector stops it when everything else is gone, and nothing
\* comes back.
LEMMA NextServes ==
    ASSUME TypeOK, TasksFit, ConnectorServes, [Next]_vars
    PROVE  ConnectorServes'
<1>0. phase \in [Threads -> {"idle", "callbacks", "manager", "broker", "connector"}]
  BY DEF TypeOK
<1>1. ASSUME NEW t \in Threads, ObjectStep(t) \/ ManagerStep(t) \/ BrokerStep(t)
      PROVE  ConnectorServes'
  <2>1. UNCHANGED owner
    BY <1>1 DEF ObjectStep, Open, Close, Enter, Begin, ChangeCallbacks,
            ConstructorThrows, ManagerStep, AddMessageHandler, RemoveMessageHandler,
            HasManager, BrokerStep, ListenFirst, ListenRefused, StopListening,
            ToConnector, Conn!Call, Conn!CallerUnchanged, ConnectorReturns,
            ConnectorThrows, conn_vars
  <2>2. owner = "ready"
    <3>1. \A m \in Interfaces : Open(t, m) \/ Close(t, m) => owner = "ready"
      BY DEF Open, Close, ConnectorServes
    <3>2. ASSUME NEW kind \in Conn!Kinds, NEW h \in Handlers, NEW q \in Queues,
                 Enter(t, kind, h, q)
          PROVE  owner = "ready"
      BY <3>2, HandlersAssumption DEF Enter, ConnectorServes
    <3>3. ChangeCallbacks(t) \/ ConstructorThrows(t) \/ ManagerStep(t) \/ BrokerStep(t)
              => phase[t] # "idle"
      BY DEF ChangeCallbacks, ConstructorThrows, ManagerStep, AddMessageHandler,
             RemoveMessageHandler, HasManager, BrokerStep, ListenFirst, ListenRefused,
             StopListening, HasBroker, ConnectorReturns, ConnectorThrows
    <3> QED BY <1>1, <3>1, <3>2, <3>3 DEF ObjectStep, ConnectorServes
  <2> QED BY <2>1, <2>2 DEF ConnectorServes
<1>2. ASSUME UNCHANGED <<phase, interface>>,
             owner # "ready" \/ owner' = owner \/ owner' = "ready"
      PROVE  ConnectorServes'
  BY <1>2 DEF ConnectorServes
<1>3. CASE StopBroker
  BY <1>3 DEF StopBroker, Busy, ConnectorServes, UpperUnchanged, thread_vars, object_vars
<1>4. ASSUME \/ UNCHANGED vars \/ UpperUnchanged
             \/ BeginDispatch \/ OnMessage \/ EndDispatch \/ OnMessageEndsProcess
             \/ \E h \in Handlers : DestroyHandler(h)
             \/ \E q \in Queues : SendRequest(q)
      PROVE  UNCHANGED <<phase, interface>>
  BY <1>4, ThreadsUndisturbed DEF thread_vars
<1>5. \/ StopBroker
      \/ \E t \in Threads : ObjectStep(t) \/ ManagerStep(t) \/ BrokerStep(t)
      \/ owner # "ready" \/ owner' = owner \/ owner' = "ready"
  <2>1. ConnWorkerStep \/ DispatchStep \/ OnMessageEndsProcess => owner' = owner
    BY DEF ConnWorkerStep, Conn!WorkerLoop, Conn!LoadQueues, Conn!Pop, Conn!Block,
           Conn!Popped, Conn!WorkerUnchanged, DispatchStep, BeginDispatch, OnMessage,
           EndDispatch, Conn!CallbackReturns, OnMessageEndsProcess, Conn!CallbackThrows,
           conn_vars
  <2>2. ASSUME NEW t \in Threads, ThreadStep(t)
        PROVE  ObjectStep(t) \/ ManagerStep(t) \/ BrokerStep(t) \/ owner' = owner
    BY <2>2 DEF ThreadStep, ObjectStep, ManagerStep, BrokerStep, Conn!CallerStep,
                Conn!Update, Conn!Notify, Conn!CallerUnchanged
  <2>3. \A t \in Threads : Request(t) \/ ConstructorThrows(t) => ObjectStep(t)
    BY DEF Request, ObjectStep
  <2>4. \A t \in Threads : Conn!NotifyFails(t) => owner' = owner
    BY DEF Conn!NotifyFails, Conn!CallerUnchanged
  <2>5. (\E h \in Handlers : DestroyHandler(h)) \/ (\E q \in Queues : SendRequest(q))
            => owner' = owner
    BY DEF DestroyHandler, SendRequest, Conn!SendRequest, conn_vars
  <2>6. Conn!OwnerStep \/ Conn!OwnerNotifyFails => owner # "ready" \/ owner' = "ready"
    BY DEF Conn!OwnerStep, Conn!OwnerNotifyFails, Conn!HandshakeNotify, Conn!Constructed, Conn!Wake, Conn!Join
  <2>7. UNCHANGED vars => owner' = owner
    BY DEF vars, conn_vars
  <2> QED BY <2>1, <2>2, <2>3, <2>4, <2>5, <2>6, <2>7 DEF Next, Finished
<1> QED BY <1>1, <1>2, <1>3, <1>4, <1>5, Steps

\* Which calls are on their way to the connector, and how many it can have had, as
\* a step of thread t changes it.
LEMMA ComingSteps ==
    ASSUME TypeOK, TasksFit, LockDiscipline, ChangeMade, CountIsOfManagers,
           NEW t \in Threads, ObjectStep(t) \/ ManagerStep(t) \/ BrokerStep(t)
    PROVE  /\ Coming \ {t} = Coming' \ {t}
           /\ \/ /\ UNCHANGED <<calls, count, listens>>
                 /\ t \in Coming' => t \in Coming
              \/ /\ UNCHANGED <<calls, count>>
                 /\ listens' = listens + 1 /\ t \notin Coming
              \/ /\ UNCHANGED listens /\ calls' \in {calls, calls + 1}
                 /\ t \in Coming /\ t \notin Coming'
                 /\ \E q \in Queues : Reached' = Reached \cup {q}
              \/ /\ UNCHANGED listens
                 /\ t \notin Coming /\ t \notin Coming'
                 /\ \/ UNCHANGED calls /\ Reached' = Reached
                    \/ /\ calls' = calls + 1
                       /\ \E q \in Reached : Reached' = Reached \ {q}
<1>0. /\ phase \in [Threads -> {"idle", "callbacks", "manager", "broker", "connector"}]
      /\ task \in [Threads -> Tasks] /\ count \in [Queues -> Nat]
  BY DEF TypeOK
<1>1. Coming \ {t} = Coming' \ {t}
  BY PlaceSteps DEF Coming
<1>2. CASE ObjectStep(t)
  <2>1. phase[t] \in {"idle", "callbacks"}
    BY <1>2 DEF ObjectStep, Open, Close, Enter, Begin, Busy, ChangeCallbacks,
                ConstructorThrows
  <2>2. t \notin Coming
    BY <2>1 DEF Coming
  <2>3. ASSUME NEW m \in Interfaces, Open(t, m) \/ Close(t, m)
        PROVE  UNCHANGED <<calls, count, listens>> /\ t \notin Coming'
    <3>1. UNCHANGED <<calls, count, listens>> /\ phase' = [phase EXCEPT ![t] = "callbacks"]
      BY <2>3 DEF Open, Close, Begin, conn_vars
    <3> QED BY <1>0, <3>1 DEF Coming
  <2>4. ASSUME NEW kind \in Conn!Kinds, NEW h \in Handlers, NEW q \in Queues,
               Enter(t, kind, h, q)
        PROVE  /\ UNCHANGED <<calls, count>>
               /\ \/ UNCHANGED listens /\ t \notin Coming'
                  \/ listens' = listens + 1
    <3>1. UNCHANGED <<calls, count>>
      BY <2>4 DEF Enter, Begin, conn_vars
    <3>2. CASE kind = "listen"
      BY <2>4, <3>1, <3>2 DEF Enter
    <3>3. CASE kind # "listen"
      <4>1. task' = [task EXCEPT ![t] = [kind |-> kind, handler |-> h, queue |-> q]]
        BY <2>4 DEF Enter, Begin
      <4>2. task'[t].kind # "listen"
        BY <1>0, <3>3, <4>1
      <4> QED BY <2>4, <3>1, <3>3, <4>2 DEF Enter, Coming
    <3> QED BY <3>2, <3>3
  <2>5. ASSUME ChangeCallbacks(t) \/ ConstructorThrows(t)
        PROVE  UNCHANGED <<calls, count, listens>> /\ t \notin Coming'
    <3>1. UNCHANGED <<calls, count, listens>> /\ phase' = [phase EXCEPT ![t] = "idle"]
      BY <2>5 DEF ChangeCallbacks, ConstructorThrows, conn_vars
    <3> QED BY <1>0, <3>1 DEF Coming
  <2> QED BY <1>1, <1>2, <2>2, <2>3, <2>4, <2>5 DEF ObjectStep
<1>3. CASE ManagerStep(t)
  <2>1. /\ phase[t] = "manager" /\ UNCHANGED <<calls, count, listens>>
        /\ Return(t) \/ ToBroker(t)
    BY <1>3 DEF ManagerStep, AddMessageHandler, RemoveMessageHandler, HasManager,
                conn_vars
  <2>2. t \in Coming' => t \in Coming
    BY <1>0, <2>1 DEF Return, ToBroker, Coming
  <2> QED BY <1>1, <2>1, <2>2
<1>4. CASE BrokerStep(t) /\ phase[t] = "connector"
  <2>1. UNCHANGED <<calls, count, listens>> /\ Return(t)
    BY <1>4 DEF BrokerStep, ListenFirst, ListenRefused, StopListening, HasBroker,
                ConnectorReturns, ConnectorThrows, conn_vars
  <2>2. t \notin Coming'
    BY <1>0, <2>1 DEF Return, Coming
  <2> QED BY <1>1, <2>1, <2>2
<1>5. CASE BrokerStep(t) /\ phase[t] # "connector"
  <2>1. phase[t] = "broker"
    BY <1>5 DEF BrokerStep, ListenFirst, ListenRefused, StopListening, HasBroker,
                ConnectorReturns, ConnectorThrows
  <2>2. PICK m \in Interfaces, q \in Queues : m = Manager(t) /\ q = task[t].queue
    BY <2>1, CallTyped
  <2>3. UNCHANGED listens /\ (ToConnector(t) \/ Return(t))
    BY <1>5 DEF BrokerStep, ListenFirst, ListenRefused, Refuse, StopListening, HasBroker,
                ConnectorReturns, ConnectorThrows
  <2>4. phase'[t] \in {"idle", "connector"} /\ t \notin Coming'
    BY <1>0, <2>3 DEF ToConnector, Return, Coming
  <2>5. ToConnector(t) => calls' = calls + 1
    BY DEF ToConnector, Conn!Call
  <2>6. CASE task[t].kind = "listen"
    <3>1. count' = [count EXCEPT ![q] = @ + 1] /\ calls' \in {calls, calls + 1}
      BY <1>5, <2>1, <2>2, <2>5, <2>6 DEF BrokerStep, ListenFirst, ListenRefused,
         StopListening, HasBroker, ConnectorReturns, ConnectorThrows, Counted, conn_vars
    <3>2. Reached' = Reached \cup {q}
      BY <1>0, <2>2, <3>1 DEF Reached
    <3>3. t \in Coming
      BY <2>1, <2>6 DEF Coming
    <3> QED BY <1>1, <2>2, <2>3, <2>4, <3>1, <3>2, <3>3
  <2>7. CASE task[t].kind # "listen"
    <3>1. StopListening(t)
      BY <1>5, <2>1, <2>7 DEF BrokerStep, ListenFirst, ListenRefused, HasBroker,
                              ConnectorReturns, ConnectorThrows
    <3>2. /\ count' = [count EXCEPT ![q] = count[q] - 1]
          /\ \/ count[q] - 1 = 0 /\ calls' = calls + 1
             \/ count[q] - 1 # 0 /\ UNCHANGED calls
      BY <2>2, <2>5, <3>1 DEF StopListening, Counted, ReachesConnector, conn_vars
    <3>3. count[q] \in Nat /\ count'[q] \in Nat
      <4>1. count' \in [Queues -> Nat]
        <5>1. task[t].kind = "stop_listening" /\ m \in CountedFor(q)
          <6>1. task[t].kind = "stop_listening"
            BY <3>1 DEF StopListening, HasBroker
          <6> QED BY <1>5, <2>1, <2>2, <6>1, CountBrokerStep
        <5>2. IsFiniteSet(CountedFor(q)) /\ count[q] = Cardinality(CountedFor(q))
          BY DEF CountIsOfManagers
        <5>3. count[q] # 0
          BY <5>1, <5>2, FS_EmptySet
        <5> QED BY <1>0, <3>2, <5>3
      <4> QED BY <1>0, <2>2, <4>1
    <3>4. CASE count[q] - 1 = 0 /\ calls' = calls + 1
      <4>1. q \in Reached /\ Reached' = Reached \ {q}
        BY <1>0, <3>2, <3>3, <3>4 DEF Reached
      <4>2. t \notin Coming
        BY <2>7 DEF Coming
      <4> QED BY <1>1, <2>3, <2>4, <3>4, <4>1, <4>2
    <3>5. CASE count[q] - 1 # 0 /\ UNCHANGED calls
      <4>1. count[q] # 0 /\ count'[q] # 0
        BY <1>0, <3>2, <3>3, <3>5
      <4>2. Reached' = Reached
        BY <1>0, <3>2, <4>1 DEF Reached
      <4>3. t \notin Coming
        BY <2>7 DEF Coming
      <4> QED BY <1>1, <2>3, <2>4, <3>5, <4>2, <4>3
    <3> QED BY <3>2, <3>4, <3>5
  <2> QED BY <2>6, <2>7
<1> QED BY <1>2, <1>3, <1>4, <1>5

LEMMA NextCalls ==
    ASSUME TypeOK, TasksFit, LockDiscipline, ChangeMade, CountIsOfManagers,
           CallsCounted, [Next]_vars
    PROVE  CallsCounted'
<1>0. calls \in Nat /\ listens \in Nat
  BY BoundsAssumption DEF TypeOK, Conn!TypeOK
<1> DEFINE R == Cardinality(Reached)
           C == Cardinality(Coming)
<1>1. /\ IsFiniteSet(Reached) /\ IsFiniteSet(Coming) /\ R \in Nat /\ C \in Nat
      /\ calls + R + 2 * C <= 2 * listens
  BY FS_CardinalityType DEF CallsCounted
<1>2. ASSUME NEW t \in Threads, ObjectStep(t) \/ ManagerStep(t) \/ BrokerStep(t)
      PROVE  CallsCounted'
  <2>0. \/ Coming' = Coming
        \/ t \in Coming /\ t \notin Coming' /\ Coming' = Coming \ {t}
        \/ t \notin Coming /\ t \in Coming' /\ Coming' = Coming \cup {t}
    BY <1>2, ComingSteps
  <2>1. /\ IsFiniteSet(Coming')
        /\ \/ Coming' = Coming /\ C' = C
           \/ t \in Coming /\ t \notin Coming' /\ C' = C - 1
           \/ t \notin Coming /\ t \in Coming' /\ C' = C + 1
    <3>1. IsFiniteSet(Coming \ {t}) /\ (t \in Coming => Cardinality(Coming \ {t}) = C - 1)
      BY <1>1, FS_RemoveElement
    <3>2. /\ IsFiniteSet(Coming \cup {t})
          /\ t \notin Coming => Cardinality(Coming \cup {t}) = C + 1
      BY <1>1, FS_AddElement
    <3> QED BY <1>1, <2>0, <3>1, <3>2
  <2>2. ASSUME count' = count \/ Reached' = Reached
        PROVE  IsFiniteSet(Reached') /\ R' = R
    BY <1>1, <2>2 DEF Reached
  <2>3. ASSUME NEW q \in Queues, Reached' = Reached \cup {q}
        PROVE  IsFiniteSet(Reached') /\ R' \in {R, R + 1}
    <3>1. q \in Reached => Reached' = Reached
      BY <2>3
    <3> QED BY <1>1, <2>3, <3>1, FS_AddElement
  <2>4. ASSUME NEW q \in Reached, Reached' = Reached \ {q}
        PROVE  IsFiniteSet(Reached') /\ R' = R - 1
    BY <1>1, <2>4, FS_RemoveElement
  <2>5. CASE UNCHANGED <<calls, count, listens>> /\ (t \in Coming' => t \in Coming)
    <3>1. IsFiniteSet(Reached') /\ R' = R
      BY <2>2, <2>5
    <3> QED BY <1>0, <1>1, <2>1, <2>5, <3>1 DEF CallsCounted
  <2>6. CASE UNCHANGED <<calls, count>> /\ listens' = listens + 1 /\ t \notin Coming
    <3>1. IsFiniteSet(Reached') /\ R' = R
      BY <2>2, <2>6
    <3> QED BY <1>0, <1>1, <2>1, <2>6, <3>1 DEF CallsCounted
  <2>7. CASE /\ UNCHANGED listens /\ calls' \in {calls, calls + 1}
             /\ t \in Coming /\ t \notin Coming'
             /\ \E q \in Queues : Reached' = Reached \cup {q}
    <3>1. IsFiniteSet(Reached') /\ R' \in {R, R + 1}
      BY <2>3, <2>7
    <3>2. C' = C - 1
      BY <2>1, <2>7
    <3> QED BY <1>0, <1>1, <2>1, <2>7, <3>1, <3>2 DEF CallsCounted
  <2>8. CASE /\ UNCHANGED <<listens, calls>> /\ t \notin Coming /\ t \notin Coming'
             /\ Reached' = Reached
    <3>1. IsFiniteSet(Reached') /\ R' = R
      BY <2>2, <2>8
    <3> QED BY <1>0, <1>1, <2>1, <2>8, <3>1 DEF CallsCounted
  <2>9. CASE /\ UNCHANGED listens /\ t \notin Coming /\ t \notin Coming'
             /\ calls' = calls + 1 /\ \E q \in Reached : Reached' = Reached \ {q}
    <3>1. IsFiniteSet(Reached') /\ R' = R - 1
      BY <2>4, <2>9
    <3> QED BY <1>0, <1>1, <2>1, <2>9, <3>1 DEF CallsCounted
  <2> QED BY <1>2, <2>5, <2>6, <2>7, <2>8, <2>9, ComingSteps
<1>3. ASSUME UNCHANGED <<thread_vars, count, calls>> PROVE CallsCounted'
  BY <1>3 DEF CallsCounted, Reached, Coming, thread_vars
<1>4. ASSUME \/ UNCHANGED vars
             \/ ConnAlone /\ UpperUnchanged
             \/ BeginDispatch \/ OnMessage \/ EndDispatch \/ OnMessageEndsProcess
             \/ \E h \in Handlers : DestroyHandler(h)
             \/ \E q \in Queues : SendRequest(q)
      PROVE  CallsCounted'
  <2> USE DEF Conn!WorkerUnchanged, Conn!OwnerUnchanged, Conn!counters,
              Conn!CallerUnchanged, conn_vars
  <2>1. ConnAlone => UNCHANGED calls
    BY DEF ConnAlone, Conn!WorkerLoop, Conn!LoadQueues, Conn!Pop, Conn!Block,
           Conn!Popped, Conn!OwnerStep, Conn!HandshakeNotify, Conn!Constructed,
           Conn!Stop, Conn!Wake, Conn!Join, Conn!Update, Conn!Notify, Conn!NotifyFails,
           Conn!OwnerNotifyFails
  <2>2. BeginDispatch \/ OnMessage \/ EndDispatch \/ OnMessageEndsProcess
            => UNCHANGED calls
    BY DEF BeginDispatch, OnMessage, EndDispatch, OnMessageEndsProcess,
           Conn!CallbackReturns, Conn!CallbackThrows
  <2>3. (\E h \in Handlers : DestroyHandler(h)) \/ (\E q \in Queues : SendRequest(q))
            => UNCHANGED calls
    BY DEF DestroyHandler, SendRequest, Conn!SendRequest
  <2>4. UNCHANGED vars => UNCHANGED calls
    BY DEF vars
  <2>5. UNCHANGED calls
    BY <1>4, <2>1, <2>2, <2>3, <2>4
  <2>6. UNCHANGED <<thread_vars, count>>
    BY <1>4, ThreadsUndisturbed
  <2> QED BY <1>3, <2>5, <2>6
<1> QED BY <1>2, <1>4, Steps

LEMMA WaitInvariance == Spec => []WaitIInv
<1>1. Init => WaitIInv
  <2>1. SUFFICES ASSUME Init PROVE HoldersInside /\ ConnectorServes /\ CallsCounted
    BY InitInv DEF WaitIInv
  <2>2. HoldersInside /\ ConnectorServes
    BY <2>1, NamesAssumption DEF Init, Conn!Init, HoldersInside, ConnectorServes
  <2>3. Reached = {} /\ Coming = {} /\ calls = 0 /\ listens = 0
    BY <2>1 DEF Init, Conn!Init, Reached, Coming
  <2> QED BY <2>2, <2>3, FS_EmptySet DEF CallsCounted
<1>2. WaitIInv /\ [Next]_vars => WaitIInv'
  <2>1. SUFFICES ASSUME WaitIInv, [Next]_vars PROVE WaitIInv'
    OBVIOUS
  <2>2. IInv'
    BY <2>1, NextInv DEF WaitIInv
  <2> QED BY <2>1, <2>2, NextHolders, NextServes, NextCalls DEF WaitIInv, IInv
<1> QED BY <1>1, <1>2, PTL DEF Spec

\* A thread or a worker that cannot go on waits for one that is deeper inside the
\* locks, so that there is no circle of waiting.
THEOREM NoCircleOfWaiting == Spec => []NobodyIsStuck
<1>1. ASSUME WaitIInv, ~ Conn!Over PROVE NobodyIsStuck
  <2>0. /\ phase \in [Threads -> {"idle", "callbacks", "manager", "broker", "connector"}]
        /\ manager_lock \in [Interfaces -> Threads \cup {NoCaller}]
        /\ broker_lock \in Threads \cup {NoCaller}
        /\ m_queue_subscription_lock \in Threads \cup {NoCaller}
        /\ count \in [Queues -> Nat]
        /\ pc \in [Threads -> Conn!Outside \cup {"lock", "notify"}]
    BY <1>1 DEF WaitIInv, IInv, TypeOK, Conn!TypeOK
  <2>1. ASSUME NEW u \in Threads PROVE WorkerWaitsFor(u) => Depth(u) > 1
    <3>1. to_call # <<>> => Head(to_call) \in Interfaces
      BY <1>1, P!HeadAndTail DEF WaitIInv, IInv, TypeOK
    <3>2. m_queue_subscription_lock = u => phase[u] = "connector"
      BY <1>1 DEF WaitIInv, HoldersInside, IInv, LockDiscipline
    <3> QED BY <1>1, <3>1, <3>2 DEF WaitIInv, HoldersInside, WorkerWaitsFor, Depth
  <2>2. ASSUME NEW t \in Threads, Busy(t)
        PROVE  \/ CanGo(t)
               \/ \E u \in Threads : WaitsFor(t, u) /\ Depth(u) > Depth(t)
               \/ phase[t] = "callbacks" /\ WorkerCanGo
    <3>1. CASE phase[t] = "callbacks"
      <4>1. dispatching => worker = "callback"
        BY <1>1 DEF WaitIInv, IInv, RegisteredExist, Conn!Over
      <4> QED BY <2>1, <3>1, <4>1 DEF CanGo, WorkerCanGo, WaitsFor, Depth
    <3>2. CASE phase[t] = "manager"
      <4>1. Manager(t) \in Interfaces
        BY <1>1, <3>2, CallTyped DEF WaitIInv, IInv
      <4>2. CASE manager_lock[Manager(t)] = NoCaller
        BY <3>2, <4>2 DEF CanGo
      <4>3. CASE manager_lock[Manager(t)] \in Threads
        <5>1. PICK u \in Threads : manager_lock[Manager(t)] = u
          BY <4>3
        <5>2. phase[u] \in {"broker", "connector"}
          BY <1>1, <4>1, <5>1 DEF WaitIInv, HoldersInside
        <5> QED BY <3>2, <5>1, <5>2 DEF WaitsFor, Depth
      <4> QED BY <2>0, <4>1, <4>2, <4>3
    <3>3. CASE phase[t] = "broker"
      <4>1. CASE broker_lock = NoCaller
        <5>1. owner = "ready"
          BY <1>1, <3>3 DEF WaitIInv, ConnectorServes
        <5>2. pc[t] \in Conn!Outside
          BY <1>1, <2>0, <3>3 DEF WaitIInv, IInv, LockDiscipline
        <5>3. task[t].queue \in Queues /\ task[t].kind \in Conn!Kinds
          BY <1>1, <3>3, CallTyped DEF WaitIInv, IInv
        <5>4. /\ IsFiniteSet(Reached) /\ IsFiniteSet(Coming)
              /\ calls + Cardinality(Reached) + 2 * Cardinality(Coming) <= 2 * listens
              /\ calls \in Nat /\ listens \in 0 .. MaxListens
              /\ Cardinality(Reached) \in Nat /\ Cardinality(Coming) \in Nat
          BY <1>1, BoundsAssumption, FS_CardinalityType
          DEF WaitIInv, CallsCounted, IInv, TypeOK, Conn!TypeOK
        <5>5. CASE task[t].kind = "listen"
          <6>1. Cardinality(Coming) # 0
            <7>1. t \in Coming
              BY <3>3, <5>5 DEF Coming
            <7> QED BY <5>4, <7>1, FS_EmptySet
          <6>2. calls < 2 * MaxListens
            BY <5>4, <6>1, BoundsAssumption
          <6> QED BY <3>3, <4>1, <5>1, <5>2, <6>2 DEF CanGo
        <5>6. CASE task[t].kind # "listen"
          <6>1. count[task[t].queue] - 1 = 0 => calls < 2 * MaxListens
            <7>1. SUFFICES ASSUME count[task[t].queue] - 1 = 0
                           PROVE  calls < 2 * MaxListens
              OBVIOUS
            <7>2. task[t].queue \in Reached
              BY <2>0, <5>3, <7>1 DEF Reached
            <7>3. Cardinality(Reached) # 0
              BY <5>4, <7>2, FS_EmptySet
            <7> QED BY <5>4, <7>3, BoundsAssumption
          <6>2. count[task[t].queue] + (-1) = count[task[t].queue] - 1
            BY <2>0, <5>3
          <6> QED BY <3>3, <4>1, <5>1, <5>2, <5>6, <6>1, <6>2 DEF CanGo, ReachesConnector
        <5> QED BY <5>5, <5>6
      <4>2. CASE broker_lock \in Threads
        BY <1>1, <3>3, <4>2 DEF WaitIInv, HoldersInside, WaitsFor, Depth
      <4> QED BY <2>0, <4>1, <4>2
    <3>4. CASE phase[t] = "connector"
      <4>1. ASSUME pc[t] = "lock" PROVE m_queue_subscription_lock = NoCaller
        <5>1. SUFFICES ASSUME m_queue_subscription_lock \in Threads PROVE FALSE
          BY <2>0
        <5>2. PICK u \in Threads : m_queue_subscription_lock = u
          BY <5>1
        <5>3. pc[u] = "notify" /\ phase[u] = "connector"
          BY <1>1, <5>2 DEF WaitIInv, HoldersInside, IInv, LockDiscipline
        <5>4. u = t
          BY <1>1, <3>4, <5>3 DEF WaitIInv, IInv, LockDiscipline
        <5> QED BY <4>1, <5>3, <5>4
      <4> QED BY <3>4, <4>1 DEF CanGo
    <3> QED BY <2>0, <2>2, <3>1, <3>2, <3>3, <3>4 DEF Busy
  <2> QED BY <2>1, <2>2 DEF NobodyIsStuck
<1>2. WaitIInv => NobodyIsStuck
  BY <1>1 DEF NobodyIsStuck
<1> QED BY <1>2, WaitInvariance, PTL

\* Taken together: as long as a call is in progress, a thread or the worker can go on.
\* Following whoever a thread waits for leads there in at most three steps, since each
\* is deeper inside the locks.
THEOREM SomebodyCanGo ==
    Spec => [](~ Conn!Over /\ (\E t \in Threads : Busy(t)) =>
                   \/ \E t \in Threads : CanGo(t)
                   \/ WorkerCanGo)
<1> DEFINE Goes == \/ \E t \in Threads : CanGo(t)
                   \/ WorkerCanGo
<1>1. ASSUME NobodyIsStuck, ~ Conn!Over, NEW t \in Threads, Busy(t)
      PROVE  Goes
  <2>1. ASSUME NEW u \in Threads, Busy(u), ~ Goes
        PROVE  \E v \in Threads : Depth(v) > Depth(u)
    BY <1>1, <2>1 DEF NobodyIsStuck
  <2>2. \A u \in Threads : /\ Depth(u) \in 0 .. 3
                           /\ Depth(u) > 0 => Busy(u)
    BY DEF Depth, Busy
  <2> HIDE DEF Goes
  <2>3. SUFFICES ASSUME ~ Goes PROVE FALSE
    OBVIOUS
  <2>4. ASSUME NEW u \in Threads, Busy(u)
        PROVE  \E v \in Threads : Busy(v) /\ Depth(v) > Depth(u)
    <3>1. PICK v \in Threads : Depth(v) > Depth(u)
      BY <2>1, <2>3, <2>4
    <3> QED BY <2>2, <3>1
  <2>5. PICK u \in Threads : Busy(u) /\ Depth(u) > 0
    <3>1. PICK u \in Threads : Busy(u) /\ Depth(u) > Depth(t)
      BY <1>1, <2>4
    <3> QED BY <2>2, <3>1
  <2>6. PICK v \in Threads : Busy(v) /\ Depth(v) > Depth(u)
    BY <2>4, <2>5
  <2>7. PICK w \in Threads : Busy(w) /\ Depth(w) > Depth(v)
    BY <2>4, <2>6
  <2>8. PICK x \in Threads : Busy(x) /\ Depth(x) > Depth(w)
    BY <2>4, <2>7
  <2> QED BY <2>2, <2>5, <2>6, <2>7, <2>8
<1>2. NobodyIsStuck => (~ Conn!Over /\ (\E t \in Threads : Busy(t)) => Goes)
  BY <1>1
<1> QED BY <1>2, NoCircleOfWaiting, PTL
=============================================================================
