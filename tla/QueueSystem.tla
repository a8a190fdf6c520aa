----------------------------- MODULE QueueSystem -----------------------------
(***************************************************************************)
(* Request handling inside one process: TransactionInterface with its      *)
(* MessageHandlerManager of type Transaction, RequestHandler, the          *)
(* transaction half of MessageBroker, and below them the connector of      *)
(* QueueConnector, whose variables this module shares and whose steps it   *)
(* takes.                                                                  *)
(*                                                                         *)
(* Locks, outermost first, as application threads take them:               *)
(*    MessageHandlerManager::m_channel_subscription_lock (one per manager) *)
(*    MessageBroker::m_queue_subscription_lock                             *)
(*    RedisBrokerConnector::m_queue_subscription_lock                      *)
(* and as the queue worker takes them, the last one outside its callback:  *)
(*    MessageBroker::m_transaction_callbacks_lock                          *)
(*    MessageHandlerManager::m_channel_subscription_lock                   *)
(*    RedisBrokerConnector::m_queue_subscription_lock                      *)
(* Nobody who holds one of them waits for the worker.                      *)
(***************************************************************************)
EXTENDS Integers, FiniteSets, Sequences, SequencesExt, Lists

CONSTANTS
    Threads,        \* application threads
    Interfaces,     \* transaction interfaces, each with its handler manager
    Handlers,       \* RequestHandler objects
    InterfaceOf,    \* the interface that creates each handler
    NoHandler,      \* a manager has no entry for a queue
    Queues, Technical, NoCaller,
    MaxListens,     \* bound: calls of listen
    MaxRequests, MaxWakeups, MaxFailures

ASSUME HandlersAssumption ==
    InterfaceOf \in [Handlers -> Interfaces] /\ NoHandler \notin Handlers
ASSUME NamesAssumption == Technical \notin Queues /\ NoCaller \notin Threads
ASSUME BoundsAssumption ==
    MaxListens \in Nat /\ MaxRequests \in Nat /\ MaxWakeups \in Nat /\ MaxFailures \in Nat

VARIABLES
    pending, tokens, m_queue_subscriptions, m_queue_subscriptions_changed,
    m_queue_subscription_lock, m_queue_thread_alive, m_is_running, queues, worker,
    current, pc, op, owner, calls, requested, wakeups, failures,  \* QueueConnector's
    handlers,      \* MessageHandlerManager::m_channel_subscriptions
    manager_lock,  \* MessageHandlerManager::m_channel_subscription_lock
    count,         \* MessageBroker::m_queue_subscriptions
    broker_lock,   \* MessageBroker::m_queue_subscription_lock
    registered,    \* MessageBroker::m_transaction_callbacks
    dispatching,   \* the worker holds MessageBroker::m_transaction_callbacks_lock
    to_call,       \* the callbacks it has not called yet
    interface,     \* "absent", "present", "destroyed" or, after a constructor that
                   \* threw, "failed"
    alive,         \* handlers that are not destroyed
    phase,         \* where each application thread is
    task,          \* what it was asked to do
    listens,       \* counter for MaxListens
    listening,     \* history: <<h, q>> for a listen of h on q that returned
    refused,       \* history: <<h, q>> for one that threw after h was listed
    given,         \* history: <<h, n>> for a request n that h processed
    owed           \* history: <<h, n>> for one sent while h was listed, until h
                   \* is called with it or leaves

conn_vars == <<pending, tokens, m_queue_subscriptions,
    m_queue_subscriptions_changed, m_queue_subscription_lock, m_queue_thread_alive,
    m_is_running, queues, worker, current, pc, op, owner, calls, requested, wakeups,
    failures>>
dispatch_vars == <<dispatching, to_call, given>>
object_vars == <<registered, interface>>
thread_vars == <<manager_lock, broker_lock, phase, task, listens>>
app_vars == <<alive, listening, refused>>
vars == <<conn_vars, dispatch_vars, object_vars, thread_vars, handlers, count,
          app_vars, owed>>

\* Every listen reaches the connector at most once, and so does its end.
Conn == INSTANCE QueueConnector WITH Callers <- Threads, MaxCalls <- 2 * MaxListens

NoTask == [kind |-> "none"]
Manager(t) == InterfaceOf[task[t].handler]

Pairs == Handlers \X Queues
Tasks == [kind : Conn!Kinds, handler : Handlers, queue : Queues]
         \cup [kind : {"open", "close"}, interface : Interfaces]
         \cup {NoTask}

TypeOK ==
    /\ Conn!TypeOK
    /\ handlers \in [Interfaces -> [Queues -> Handlers \cup {NoHandler}]]
    /\ manager_lock \in [Interfaces -> Threads \cup {NoCaller}]
    /\ count \in [Queues -> Nat]
    /\ broker_lock \in Threads \cup {NoCaller}
    /\ registered \in Seq(Interfaces)
    /\ dispatching \in BOOLEAN
    /\ to_call \in Seq(Interfaces)
    /\ interface \in [Interfaces -> {"absent", "present", "destroyed", "failed"}]
    /\ alive \subseteq Handlers
    /\ phase \in [Threads -> {"idle", "callbacks", "manager", "broker", "connector"}]
    /\ task \in [Threads -> Tasks]
    /\ listens \in 0 .. MaxListens
    /\ listening \subseteq Pairs /\ refused \subseteq Pairs
    /\ given \subseteq Handlers \X (1 .. MaxRequests)
    /\ owed \subseteq Handlers \X (1 .. MaxRequests)

Init ==
    /\ Conn!Init
    /\ handlers = [m \in Interfaces |-> [q \in Queues |-> NoHandler]]
    /\ manager_lock = [m \in Interfaces |-> NoCaller]
    /\ count = [q \in Queues |-> 0]
    /\ broker_lock = NoCaller
    /\ registered = <<>>
    /\ dispatching = FALSE
    /\ to_call = <<>>
    /\ interface = [m \in Interfaces |-> "absent"]
    /\ alive = Handlers
    /\ phase = [t \in Threads |-> "idle"]
    /\ task = [t \in Threads |-> NoTask]
    /\ listens = 0
    /\ listening = {}
    /\ refused = {}
    /\ given = {}
    /\ owed = {}

-----------------------------------------------------------------------------
(* TransactionInterface: construction and destruction by thread t.         *)

Busy(t) == phase[t] # "idle"
UsesInterface(t, m) == task[t].kind \in {"open", "close"} /\ task[t].interface = m
UsesHandler(t, h) == task[t].kind \in Conn!Kinds /\ task[t].handler = h

Begin(t, new_task, new_phase) ==
    /\ ~Busy(t)
    /\ task' = [task EXCEPT ![t] = new_task]
    /\ phase' = [phase EXCEPT ![t] = new_phase]
    /\ UNCHANGED <<conn_vars, dispatch_vars, object_vars, handlers, count,
                   manager_lock, broker_lock, alive, refused, owed>>

Open(t, m) ==
    /\ owner = "ready"
    /\ interface[m] = "absent"
    /\ \A u \in Threads : ~UsesInterface(u, m)
    /\ Begin(t, [kind |-> "open", interface |-> m], "callbacks")
    /\ UNCHANGED <<listens, listening>>

\* An interface is destroyed after the handlers it created.
Close(t, m) ==
    /\ interface[m] = "present"
    /\ \A h \in alive : InterfaceOf[h] # m
    /\ \A u \in Threads : ~UsesInterface(u, m)
    /\ Begin(t, [kind |-> "close", interface |-> m], "callbacks")
    /\ UNCHANGED <<listens, listening>>

\* register_transaction_callback and remove_transaction_callback, under
\* m_transaction_callbacks_lock.  The manager goes with its interface: whatever
\* it still listed stays counted at the broker.
ChangeCallbacks(t) ==
    LET m == task[t].interface
        opens == task[t].kind = "open"
    IN  /\ phase[t] = "callbacks"
        /\ ~dispatching
        /\ registered' = IF opens THEN Append(registered, m)
                                  ELSE RemoveAll(registered, m)
        /\ interface' = [interface EXCEPT ![m] = IF opens THEN "present"
                                                          ELSE "destroyed"]
        /\ phase' = [phase EXCEPT ![t] = "idle"]
        /\ task' = [task EXCEPT ![t] = NoTask]
        /\ UNCHANGED <<conn_vars, dispatch_vars, handlers, count, manager_lock,
                       broker_lock, listens, app_vars, owed>>

\* The constructor registers its callback and then subscribes to the response
\* channel, which may throw: its members are destroyed, but not by its destructor,
\* so the callback stays registered.
ConstructorThrows(t) ==
    LET m == task[t].interface
    IN  /\ phase[t] = "callbacks" /\ task[t].kind = "open"
        /\ ~dispatching
        /\ failures < MaxFailures
        /\ failures' = failures + 1
        /\ registered' = Append(registered, m)
        /\ interface' = [interface EXCEPT ![m] = "failed"]
        /\ phase' = [phase EXCEPT ![t] = "idle"]
        /\ task' = [task EXCEPT ![t] = NoTask]
        /\ UNCHANGED <<pending, tokens, m_queue_subscriptions,
                       m_queue_subscriptions_changed, m_queue_subscription_lock,
                       m_queue_thread_alive, m_is_running, queues, worker, current, pc,
                       op, owner, calls, requested, wakeups, dispatch_vars, handlers,
                       count, manager_lock, broker_lock, listens, app_vars, owed>>

-----------------------------------------------------------------------------
(* RequestHandler: calls entered by thread t.                              *)

\* listen(q), stop_listening(q)
Enter(t, kind, h, q) ==
    /\ h \in alive
    /\ interface[InterfaceOf[h]] = "present"
    /\ Begin(t, [kind |-> kind, handler |-> h, queue |-> q], "manager")
    /\ IF kind = "listen"
       THEN /\ listens < MaxListens
            /\ listens' = listens + 1
            /\ UNCHANGED listening
       ELSE listening' = listening \ {<<h, q>>} /\ UNCHANGED listens

\* A handler is destroyed when nobody uses it, with or without a stop_listening
\* before it (the integration tests do without).  It has no destructor of its own.
DestroyHandler(h) ==
    /\ h \in alive
    /\ interface[InterfaceOf[h]] = "present"
    /\ \A t \in Threads : ~UsesHandler(t, h)
    /\ alive' = alive \ {h}
    /\ owed' = {o \in owed : o[1] # h}
    /\ UNCHANGED <<conn_vars, dispatch_vars, object_vars, thread_vars, handlers,
                   count, listening, refused>>

-----------------------------------------------------------------------------
(* MessageHandlerManager, type Transaction.                                *)

\* The call of thread t is over, its manager's lock is released.
Return(t) ==
    /\ phase' = [phase EXCEPT ![t] = "idle"]
    /\ task' = [task EXCEPT ![t] = NoTask]
    /\ manager_lock' = [manager_lock EXCEPT ![Manager(t)] = NoCaller]

ToBroker(t) ==
    /\ phase' = [phase EXCEPT ![t] = "broker"]
    /\ manager_lock' = [manager_lock EXCEPT ![Manager(t)] = t]
    /\ UNCHANGED task

HasManager(t, kind) ==
    /\ phase[t] = "manager" /\ task[t].kind = kind
    /\ manager_lock[Manager(t)] = NoCaller
    /\ UNCHANGED <<conn_vars, dispatch_vars, object_vars, count, broker_lock,
                   listens, alive, listening>>

\* add_message_handler: a queue has one handler per manager, a second one throws
\* (and so does the same one a second time).
AddMessageHandler(t) ==
    LET m == Manager(t)
        q == task[t].queue
    IN  /\ HasManager(t, "listen")
        /\ IF handlers[m][q] = NoHandler
           THEN /\ handlers' = [handlers EXCEPT ![m][q] = task[t].handler]
                /\ ToBroker(t)
           ELSE UNCHANGED handlers /\ Return(t)
        /\ UNCHANGED <<refused, owed>>

\* Request n is in the list of q or with the worker.
InQueue(n, q) == Contains(pending[q], n) \/ current = [queue |-> q, id |-> n]

\* The queue has an entry, and it becomes empty.
Faulty_Empties(m, q, h) == TRUE
Empties(m, q, h) == handlers[m][q] = h

Faulty_Erased(m, q) == handlers
Erased(m, q) == [handlers EXCEPT ![m][q] = NoHandler]

\* remove_message_handler(q, h): a queue that another handler has, or nobody, is
\* left alone.
RemoveMessageHandler(t) ==
    LET m == Manager(t)
        q == task[t].queue
        h == task[t].handler
    IN  /\ HasManager(t, "stop_listening")
        /\ IF Empties(m, q, h)
           THEN /\ handlers' = Erased(m, q)
                /\ refused' = refused \ {<<h, q>>}
                /\ owed' = {o \in owed : ~(o[1] = h /\ InQueue(o[2], q))}
                /\ ToBroker(t)
           ELSE UNCHANGED <<handlers, refused, owed>> /\ Return(t)

-----------------------------------------------------------------------------
(* MessageBroker::listen and stop_listening.                               *)

HasBroker(t, kind) ==
    /\ phase[t] = "broker" /\ task[t].kind = kind
    /\ broker_lock = NoCaller
    /\ UNCHANGED <<dispatch_vars, object_vars, handlers, listens, alive, owed>>

\* The count has reached a value at which the connector is called.
Faulty_ReachesConnector(kind, n) == IF kind = "listen" THEN n = 1 ELSE TRUE
ReachesConnector(kind, n) == IF kind = "listen" THEN n = 1 ELSE n = 0

ToConnector(t) ==
    /\ Conn!Call(t, task[t].kind, task[t].queue)
    /\ broker_lock' = t
    /\ phase' = [phase EXCEPT ![t] = "connector"]
    /\ UNCHANGED <<manager_lock, task, listening, refused>>

\* ++ and --, before the result is looked at
Faulty_Counted(t, n) ==
    count' = IF task[t].kind = "listen" THEN [count EXCEPT ![task[t].queue] = n]
                                        ELSE count
Counted(t, n) == count' = [count EXCEPT ![task[t].queue] = n]

\* The first listener goes on to the connector.
ListenFirst(t) ==
    LET n == count[task[t].queue] + 1
    IN  /\ HasBroker(t, "listen")
        /\ Counted(t, n)
        /\ ReachesConnector("listen", n)
        /\ ToConnector(t)

\* Any other is refused: "Only one message handler should listen a given command
\* channel!"  The count and the manager's entry remain.
Faulty_Refuse(t) ==
    /\ Return(t)
    /\ broker_lock' = t
    /\ refused' = refused \cup {<<task[t].handler, task[t].queue>>}
    /\ UNCHANGED listening

Refuse(t) ==
    /\ Return(t)
    /\ UNCHANGED broker_lock
    /\ refused' = refused \cup {<<task[t].handler, task[t].queue>>}
    /\ UNCHANGED listening

ListenRefused(t) ==
    LET n == count[task[t].queue] + 1
    IN  /\ HasBroker(t, "listen")
        /\ Counted(t, n)
        /\ ~ReachesConnector("listen", n)
        /\ Refuse(t)
        /\ UNCHANGED conn_vars

StopListening(t) ==
    LET n == count[task[t].queue] - 1
    IN  /\ HasBroker(t, "stop_listening")
        /\ Counted(t, n)
        /\ IF ReachesConnector("stop_listening", n)
           THEN ToConnector(t)
           ELSE /\ Return(t)
                /\ UNCHANGED <<conn_vars, broker_lock, listening, refused>>

ConnectorReturns(t) ==
    /\ phase[t] = "connector"
    /\ pc[t] = "idle"
    /\ broker_lock' = NoCaller
    /\ Return(t)
    /\ listening' = IF task[t].kind = "listen"
                    THEN listening \cup {<<task[t].handler, task[t].queue>>}
                    ELSE listening
    /\ UNCHANGED <<conn_vars, dispatch_vars, object_vars, handlers, count,
                   listens, alive, refused, owed>>

\* The token could not be pushed: the exception goes up through broker and manager.
ConnectorThrows(t) ==
    /\ phase[t] = "connector"
    /\ pc[t] = "failed"
    /\ broker_lock' = NoCaller
    /\ Return(t)
    /\ refused' = IF task[t].kind = "listen"
                  THEN refused \cup {<<task[t].handler, task[t].queue>>}
                  ELSE refused
    /\ UNCHANGED <<conn_vars, dispatch_vars, object_vars, handlers, count,
                   listens, alive, listening, owed>>

-----------------------------------------------------------------------------
(* The callback of the queue worker.                                       *)

Faulty_CallbacksToCall == IF registered = <<>> THEN <<>> ELSE Tail(registered)
CallbacksToCall == registered

BeginDispatch ==
    /\ worker = "callback"
    /\ ~dispatching
    /\ dispatching' = TRUE
    /\ to_call' = CallbacksToCall
    /\ UNCHANGED <<conn_vars, given, object_vars, thread_vars, handlers, count,
                   app_vars, owed>>

\* RequestHandler::on_message: a request whose deadline has passed is dropped, any
\* other is processed and answered.
HandleRequest(h) == given' = given \/ given' = given \cup {<<h, current.id>>}

\* MessageHandlerManager::on_message of the next interface, under its lock: the
\* handler of the queue is called, if there is one.
OnMessage ==
    LET m == Head(to_call)
        h == handlers[m][current.queue]
    IN  /\ dispatching
        /\ to_call # <<>>
        /\ manager_lock[m] = NoCaller
        /\ to_call' = Tail(to_call)
        /\ IF h = NoHandler THEN UNCHANGED given ELSE HandleRequest(h)
        /\ owed' = owed \ {<<h, current.id>>}
        /\ UNCHANGED <<conn_vars, dispatching, object_vars, thread_vars, handlers,
                       count, app_vars>>

\* The handler throws (its callback, or the publish of the answer), or handler or
\* manager are destroyed: the call may end the process.
OnMessageEndsProcess ==
    LET m == Head(to_call)
    IN  /\ dispatching
        /\ to_call # <<>>
        /\ manager_lock[m] = NoCaller
        /\ handlers[m][current.queue] # NoHandler \/ interface[m] = "failed"
        /\ Conn!CallbackThrows
        /\ UNCHANGED <<dispatch_vars, object_vars, thread_vars, handlers, count,
                       app_vars, owed>>

EndDispatch ==
    /\ dispatching
    /\ to_call = <<>>
    /\ Conn!CallbackReturns
    /\ dispatching' = FALSE
    /\ UNCHANGED <<to_call, given, object_vars, thread_vars, handlers, count,
                   app_vars, owed>>

-----------------------------------------------------------------------------
(* The steps of the connector.                                             *)

UpperUnchanged == UNCHANGED <<dispatch_vars, object_vars, thread_vars, handlers,
                              count, app_vars, owed>>

ConnWorkerStep ==
    /\ Conn!WorkerLoop \/ Conn!LoadQueues \/ Conn!Pop \/ Conn!Block \/ Conn!Popped
    /\ UpperUnchanged

\* A request is sent: every handler listed for its queue is entitled to it.
SendRequest(q) ==
    /\ Conn!SendRequest(q)
    /\ owed' = owed \cup {<<h, requested + 1>> :
                             h \in {h \in alive : handlers[InterfaceOf[h]][q] = h}}
    /\ UNCHANGED <<dispatch_vars, object_vars, thread_vars, handlers, count, app_vars>>

\* The broker is destroyed after every interface on it, the connector last.
StopBroker ==
    /\ \A m \in Interfaces : interface[m] # "present"
    /\ \A t \in Threads : ~Busy(t)
    /\ Conn!Stop
    /\ UpperUnchanged

-----------------------------------------------------------------------------
DispatchStep == BeginDispatch \/ OnMessage \/ EndDispatch

ThreadStep(t) ==
    \/ ChangeCallbacks(t)
    \/ AddMessageHandler(t) \/ RemoveMessageHandler(t)
    \/ ListenFirst(t) \/ ListenRefused(t) \/ StopListening(t)
    \/ ConnectorReturns(t) \/ ConnectorThrows(t)
    \/ Conn!CallerStep(t) /\ UpperUnchanged

Request(t) ==
    \/ \E m \in Interfaces : Open(t, m) \/ Close(t, m)
    \/ \E kind \in Conn!Kinds, h \in Handlers, q \in Queues : Enter(t, kind, h, q)

Finished == Conn!Over /\ UNCHANGED vars

Next ==
    \/ /\ ~Conn!Over
       /\ \/ ConnWorkerStep
          \/ DispatchStep
          \/ \E t \in Threads : \/ ThreadStep(t)
                                \/ Request(t)
                                \/ Conn!NotifyFails(t) /\ UpperUnchanged
                                \/ ConstructorThrows(t)
          \/ OnMessageEndsProcess
          \/ \E h \in Handlers : DestroyHandler(h)
          \/ \E q \in Queues : SendRequest(q)
          \/ (Conn!OwnerStep \/ Conn!OwnerNotifyFails) /\ UpperUnchanged
          \/ StopBroker
    \/ Finished

\* As in QueueConnector; the application's own callbacks return, being part of
\* the step OnMessage.
Fairness ==
    /\ WF_vars(~Conn!Over /\ (ConnWorkerStep \/ DispatchStep))
    /\ WF_vars(~Conn!Over /\ Conn!OwnerStep /\ UpperUnchanged)
    /\ \A t \in Threads : WF_vars(~Conn!Over /\ ThreadStep(t))

Spec == Init /\ [][Next]_vars /\ Fairness

-----------------------------------------------------------------------------
(* Correctness.                                                            *)

AtRest == \A m \in Interfaces : manager_lock[m] = NoCaller
Listing(q) == {m \in Interfaces : handlers[m][q] # NoHandler}

\* Three books are kept of who listens on a queue: a manager's entries, the
\* broker's count and the connector's list.  With no call in progress they agree,
\* also after calls that were refused or failed: the count is the number of
\* managers with an entry, and the connector has the queue once if it is not zero.
\* A manager that was destroyed with an entry still counts, for nothing takes its
\* count back.
BooksAgree ==
    AtRest =>
        \A q \in Queues :
            /\ count[q] = Cardinality(Listing(q))
            /\ Cardinality({i \in DOMAIN m_queue_subscriptions :
                               m_queue_subscriptions[i] = q})
                   = (IF Listing(q) = {} THEN 0 ELSE 1)

\* What the worker calls exists.  A destroyed handler that is still listed is one
\* whose owner never called stop_listening after the listen, perhaps because that
\* listen threw; a registered interface that does not exist is one whose
\* constructor threw.
CalledObjectsExist ==
    /\ \A m \in Interfaces, q \in Queues :
          LET h == handlers[m][q]
          IN  h # NoHandler => h \in alive \/ <<h, q>> \in refused \cup listening
    /\ \A m \in Interfaces : Contains(registered \o to_call, m) =>
          interface[m] \in {"present", "failed"}

\* A listen is refused only because another interface has an entry for the queue,
\* made by a listen that returned or was itself refused, or is about to give up its
\* own: never after everybody has stopped, in whatever order, and never because of
\* another caller who is just as far.
RefusedForAReason ==
    [][\A t \in Threads :
          LET q == task[t].queue
          IN  phase[t] = "broker" /\ task[t].kind = "listen" /\ phase'[t] = "idle" =>
                 \/ \E m \in Interfaces \ {Manager(t)} :
                       <<handlers[m][q], q>> \in listening \cup refused
                 \/ \E u \in Threads :
                       task[u].kind = "stop_listening" /\ task[u].queue = q]_vars

\* README: "only one consumer will receive the given request"; MessageBroker:
\* "Only one message handler should listen a given command channel!"
OneConsumer ==
    \A n \in 1 .. MaxRequests, g, h \in Handlers :
        <<g, n>> \in given /\ <<h, n>> \in given => g = h

\* A request that was sent while a handler was listed for its queue is on its way
\* to it until the handler is called, whatever else starts or stops listening:
\* only the end of the handler's own listening loses it.
LostOnlyByStopping == \A o \in owed : \E q \in Queues : InQueue(o[2], q)

\* How far a thread is inside the locks.
Depth(t) == CASE phase[t] = "manager"   -> 1
              [] phase[t] = "broker"    -> 2
              [] phase[t] = "connector" -> 3
              [] OTHER                  -> 0

\* The worker waits for a lock that thread u holds.
WorkerWaitsFor(u) ==
    \/ worker = "load" /\ m_queue_subscription_lock = u
    \/ /\ worker = "callback" /\ dispatching /\ to_call # <<>>
       /\ manager_lock[Head(to_call)] = u

WorkerCanGo == /\ worker \notin {"blocked", "exited", "terminated"}
               /\ \A u \in Threads : ~WorkerWaitsFor(u)

\* Thread t waits for a lock that thread u holds, or for the worker that does.
WaitsFor(t, u) ==
    \/ phase[t] = "manager" /\ manager_lock[Manager(t)] = u
    \/ phase[t] = "broker" /\ broker_lock = u
    \/ phase[t] = "callbacks" /\ dispatching /\ WorkerWaitsFor(u)

\* Where thread t is, the locks that it needs next are free, and so is the way into
\* the connector: the guards of its next step.
CanGo(t) ==
    \/ phase[t] = "callbacks" /\ ~dispatching
    \/ phase[t] = "manager" /\ manager_lock[Manager(t)] = NoCaller
    \/ /\ phase[t] = "broker" /\ broker_lock = NoCaller
       /\ LET n == count[task[t].queue] + IF task[t].kind = "listen" THEN 1 ELSE -1
          IN  ReachesConnector(task[t].kind, n) =>
                 owner = "ready" /\ pc[t] \in Conn!Outside /\ calls < 2 * MaxListens
    \/ /\ phase[t] = "connector"
       /\ pc[t] = "lock" => m_queue_subscription_lock = NoCaller

\* No call is stuck, neither listen and stop_listening nor the (un)registration of
\* an interface's callback.  A thread that cannot go on waits for one that is
\* deeper inside the locks, or for a worker that can go on or itself waits for such
\* a thread: so there is no circle of waiting, and never one through the BRPOP.
NobodyIsStuck ==
    ~Conn!Over =>
        /\ \A t \in Threads : Busy(t) =>
              \/ CanGo(t)
              \/ \E u \in Threads : WaitsFor(t, u) /\ Depth(u) > Depth(t)
              \/ phase[t] = "callbacks" /\ WorkerCanGo
        /\ \A u \in Threads : WorkerWaitsFor(u) => Depth(u) > 1

=============================================================================
