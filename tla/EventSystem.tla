----------------------------- MODULE EventSystem -----------------------------
(***************************************************************************)
(* The event system inside one process: EventInterface with its            *)
(* MessageHandlerManager, Subscriber, the event half of MessageBroker, and *)
(* below them the connector of EventConnector, whose variables this module *)
(* shares and whose steps it takes.                                        *)
(*                                                                         *)
(* Locks, outermost first, as application threads take them:               *)
(*    MessageHandlerManager::m_channel_subscription_lock (one per manager) *)
(*    MessageBroker::m_channel_subscription_lock                           *)
(*    RedisBrokerConnector::m_subscription_lock                            *)
(* and as the subscriber worker takes them in its callback:                *)
(*    MessageBroker::m_event_callbacks_lock                                *)
(*    MessageHandlerManager::m_channel_subscription_lock                   *)
(* A critical section that takes no further lock and waits for nobody is   *)
(* one step.  Faulty_ definitions are variants with a bug, as there.       *)
(***************************************************************************)
EXTENDS Naturals, FiniteSets, Sequences, SequencesExt, Lists

CONSTANTS
    Threads,        \* application threads
    Managers,       \* event interfaces, each with its handler manager
    Subscribers,    \* Subscriber objects
    ManagerOf,      \* the interface that creates each subscriber
    Channels, Technical, NoCaller,
    MaxOperations,  \* bound: calls of subscribe and unsubscribe
    MaxEvents, MaxWakeups, MaxFailures

ASSUME ManagerOfAssumption == ManagerOf \in [Subscribers -> Managers]
ASSUME NamesAssumption == Technical \notin Channels /\ NoCaller \notin Threads
ASSUME BoundsAssumption ==
    /\ MaxOperations \in Nat /\ MaxEvents \in Nat
    /\ MaxWakeups \in Nat /\ MaxFailures \in Nat

VARIABLES
    output, wire, replies, server_channels, m_subscription_status_changed,
    m_subscriber_thread_alive, m_is_running, m_subscription_lock, worker, current,
    pc, op, owner, calls, published, wakeups, failures,     \* EventConnector's
    handlers,      \* MessageHandlerManager::m_channel_subscriptions
    manager_lock,  \* MessageHandlerManager::m_channel_subscription_lock
    count,         \* MessageBroker::m_channel_subscriptions
    broker_lock,   \* MessageBroker::m_channel_subscription_lock
    registered,    \* MessageBroker::m_event_callbacks
    dispatching,   \* the worker holds MessageBroker::m_event_callbacks_lock
    to_call,       \* the callbacks it has not called yet
    interface,     \* "absent", "present" or "destroyed", for each interface
    subscriber,    \* the same for each subscriber
    phase,         \* where each application thread is
    task,          \* what it was asked to do
    todo,          \* the channels it still has to take to the broker
    operations,    \* counter for MaxOperations
    received,      \* history: events each subscriber was given
    owed           \* history: <<subscriber, channel, event>> still to be given

conn_vars == <<output, wire, replies, server_channels,
    m_subscription_status_changed, m_subscriber_thread_alive, m_is_running,
    m_subscription_lock, worker, current, pc, op, owner, calls, published, wakeups,
    failures>>
dispatch_vars == <<dispatching, to_call, received>>
object_vars == <<registered, interface, subscriber>>
thread_vars == <<handlers, manager_lock, count, broker_lock, phase, task, todo,
                 operations>>
vars == <<conn_vars, dispatch_vars, object_vars, thread_vars, owed>>

\* Every operation makes at most one subscription at the connector, and every
\* subscription is taken back at most once.
Conn == INSTANCE EventConnector WITH Callers <- Threads,
                                     MaxCalls <- 2 * MaxOperations

Tasks == [kind : {"subscribe", "unsubscribe"}, subscriber : Subscribers,
          channel : Channels]
         \cup [kind : {"destroy"}, subscriber : Subscribers]
         \cup [kind : {"open", "close"}, interface : Managers]
         \cup [kind : {"none"}]
NoTask == [kind |-> "none"]

Manager(t) == ManagerOf[task[t].subscriber]

TypeOK ==
    /\ Conn!TypeOK
    /\ handlers \in [Managers -> [Channels -> Seq(Subscribers)]]
    /\ manager_lock \in [Managers -> Threads \cup {NoCaller}]
    /\ count \in [Channels -> Nat]
    /\ broker_lock \in Threads \cup {NoCaller}
    /\ registered \in Seq(Managers)
    /\ dispatching \in BOOLEAN
    /\ to_call \in Seq(Managers)
    /\ interface \in [Managers -> {"absent", "present", "destroyed"}]
    /\ subscriber \in [Subscribers -> {"absent", "present", "destroyed"}]
    /\ phase \in [Threads -> {"idle", "manager", "broker", "connector", "callbacks"}]
    /\ task \in [Threads -> Tasks]
    /\ todo \in [Threads -> SUBSET Channels]
    /\ operations \in 0 .. MaxOperations
    /\ received \in [Subscribers -> Seq(1 .. MaxEvents)]
    /\ owed \subseteq Subscribers \X Channels \X (1 .. MaxEvents)

Init ==
    /\ Conn!Init
    /\ handlers = [m \in Managers |-> [c \in Channels |-> <<>>]]
    /\ manager_lock = [m \in Managers |-> NoCaller]
    /\ count = [c \in Channels |-> 0]
    /\ broker_lock = NoCaller
    /\ registered = <<>>
    /\ dispatching = FALSE
    /\ to_call = <<>>
    /\ interface = [m \in Managers |-> "absent"]
    /\ subscriber = [s \in Subscribers |-> "absent"]
    /\ phase = [t \in Threads |-> "idle"]
    /\ task = [t \in Threads |-> NoTask]
    /\ todo = [t \in Threads |-> {}]
    /\ operations = 0
    /\ received = [s \in Subscribers |-> <<>>]
    /\ owed = {}

-----------------------------------------------------------------------------
(* EventInterface: construction and destruction by thread t.               *)

Busy(t) == phase[t] # "idle"
UsesInterface(t, m) == task[t].kind \in {"open", "close"} /\ task[t].interface = m
UsesSubscriber(t, s) == /\ task[t].kind \in {"subscribe", "unsubscribe", "destroy"}
                        /\ task[t].subscriber = s

Begin(t, new_task, new_phase) ==
    /\ ~Busy(t)
    /\ task' = [task EXCEPT ![t] = new_task]
    /\ phase' = [phase EXCEPT ![t] = new_phase]

\* An interface is made once, by one thread, on a constructed broker.
Open(t, m) ==
    /\ owner = "ready"
    /\ interface[m] = "absent"
    /\ \A u \in Threads : ~UsesInterface(u, m)
    /\ Begin(t, [kind |-> "open", interface |-> m], "callbacks")
    /\ UNCHANGED <<conn_vars, dispatch_vars, object_vars, handlers, manager_lock,
                   count, broker_lock, todo, operations, owed>>

\* An interface is destroyed after the subscribers it created.
Close(t, m) ==
    /\ interface[m] = "present"
    /\ \A s \in Subscribers : ManagerOf[s] = m => subscriber[s] # "present"
    /\ \A u \in Threads : ~UsesInterface(u, m)
    /\ Begin(t, [kind |-> "close", interface |-> m], "callbacks")
    /\ UNCHANGED <<conn_vars, dispatch_vars, object_vars, handlers, manager_lock,
                   count, broker_lock, todo, operations, owed>>

\* m_event_callbacks_lock is free.
Faulty_CallbackListFree == TRUE
CallbackListFree == ~dispatching

\* register_event_callback and remove_event_callback, under m_event_callbacks_lock
RegisterCallback(t) ==
    /\ phase[t] = "callbacks" /\ task[t].kind = "open"
    /\ CallbackListFree
    /\ registered' = Append(registered, task[t].interface)
    /\ interface' = [interface EXCEPT ![task[t].interface] = "present"]
    /\ phase' = [phase EXCEPT ![t] = "idle"]
    /\ task' = [task EXCEPT ![t] = NoTask]
    /\ UNCHANGED <<conn_vars, dispatch_vars, subscriber, handlers, manager_lock,
                   count, broker_lock, todo, operations, owed>>

RemoveCallback(t) ==
    /\ phase[t] = "callbacks" /\ task[t].kind = "close"
    /\ CallbackListFree
    /\ registered' = RemoveAll(registered, task[t].interface)
    /\ interface' = [interface EXCEPT ![task[t].interface] = "destroyed"]
    /\ phase' = [phase EXCEPT ![t] = "idle"]
    /\ task' = [task EXCEPT ![t] = NoTask]
    /\ UNCHANGED <<conn_vars, dispatch_vars, subscriber, handlers, manager_lock,
                   count, broker_lock, todo, operations, owed>>

-----------------------------------------------------------------------------
(* Subscriber: calls entered by thread t.                                  *)

\* create_subscriber touches nothing but the new object.
CreateSubscriber(s) ==
    /\ interface[ManagerOf[s]] = "present"
    /\ \A t \in Threads : ~UsesInterface(t, ManagerOf[s])
    /\ subscriber[s] = "absent"
    /\ subscriber' = [subscriber EXCEPT ![s] = "present"]
    /\ UNCHANGED <<conn_vars, dispatch_vars, registered, interface, thread_vars,
                   owed>>

\* subscribe(c), unsubscribe(c): what was owed is no longer when unsubscribe is
\* called.  Nobody may use a subscriber that is being destroyed.
Enter(t, kind, s, c) ==
    /\ subscriber[s] = "present"
    /\ \A u \in Threads : UsesSubscriber(u, s) => task[u].kind # "destroy"
    /\ operations < MaxOperations
    /\ operations' = operations + 1
    /\ Begin(t, [kind |-> kind, subscriber |-> s, channel |-> c], "manager")
    /\ owed' = IF kind = "subscribe" THEN owed
               ELSE {o \in owed : ~(o[1] = s /\ o[2] = c)}
    /\ UNCHANGED <<conn_vars, dispatch_vars, object_vars, handlers, manager_lock,
                   count, broker_lock, todo>>

\* ~Subscriber(), which needs every other call on it to be over.
EnterDestructor(t, s) ==
    /\ subscriber[s] = "present"
    /\ \A u \in Threads : ~UsesSubscriber(u, s)
    /\ Begin(t, [kind |-> "destroy", subscriber |-> s], "manager")
    /\ owed' = {o \in owed : o[1] # s}
    /\ UNCHANGED <<conn_vars, dispatch_vars, object_vars, handlers, manager_lock,
                   count, broker_lock, todo, operations>>

-----------------------------------------------------------------------------
(* MessageHandlerManager.                                                  *)

\* The call of thread t is over: its manager's lock is released, and a destructor
\* has destroyed its subscriber.
Return(t) ==
    /\ phase' = [phase EXCEPT ![t] = "idle"]
    /\ task' = [task EXCEPT ![t] = NoTask]
    /\ todo' = [todo EXCEPT ![t] = {}]
    /\ manager_lock' = [manager_lock EXCEPT ![Manager(t)] = NoCaller]
    /\ subscriber' = IF task[t].kind = "destroy"
                     THEN [subscriber EXCEPT ![task[t].subscriber] = "destroyed"]
                     ELSE subscriber

\* Thread t takes the channels to the broker one by one, or returns.
ToBroker(t, channels) ==
    IF channels = {}
    THEN Return(t)
    ELSE /\ phase' = [phase EXCEPT ![t] = "broker"]
         /\ todo' = [todo EXCEPT ![t] = channels]
         /\ manager_lock' = [manager_lock EXCEPT ![Manager(t)] = t]
         /\ UNCHANGED <<task, subscriber>>

HasManager(t, kind) ==
    /\ phase[t] = "manager" /\ task[t].kind = kind
    /\ manager_lock[Manager(t)] = NoCaller
    /\ UNCHANGED <<conn_vars, dispatch_vars, registered, interface, count,
                   broker_lock, operations, owed>>

\* std::find_if in the subscriber vector
Faulty_Listed(subscribers, s) == FALSE
Listed(subscribers, s) == Contains(subscribers, s)

\* add_message_handler: a subscriber is listed once, and the first subscriber of
\* a channel takes it to the broker.
AddMessageHandler(t) ==
    LET m == Manager(t)
        s == task[t].subscriber
        c == task[t].channel
        subscribers == handlers[m][c]
    IN  /\ HasManager(t, "subscribe")
        /\ handlers' = IF Listed(subscribers, s) THEN handlers
                       ELSE [handlers EXCEPT ![m][c] = Append(subscribers, s)]
        /\ ToBroker(t, IF subscribers = <<>> THEN {c} ELSE {})

\* std::remove_if of the subscriber
Faulty_Without(subscribers, s) ==
    IF subscribers # <<>> /\ Head(subscribers) = s THEN Tail(subscribers)
                                                   ELSE subscribers
Without(subscribers, s) == RemoveAll(subscribers, s)

\* The channel was listed and its last subscriber goes.
Faulty_BecomesEmpty(before, after) == after = <<>>
BecomesEmpty(before, after) == before # <<>> /\ after = <<>>

\* remove_message_handler(c, s): the last subscriber of a channel takes the end
\* of the subscription to the broker; a channel nobody has is left alone.
RemoveMessageHandler(t) ==
    LET m == Manager(t)
        c == task[t].channel
        left == Without(handlers[m][c], task[t].subscriber)
    IN  /\ HasManager(t, "unsubscribe")
        /\ handlers' = [handlers EXCEPT ![m][c] = left]
        /\ ToBroker(t, IF BecomesEmpty(handlers[m][c], left) THEN {c} ELSE {})

\* remove_message_handler(s): the same for every channel at once.
RemoveFromAllChannels(t) ==
    LET m == Manager(t)
        left == [c \in Channels |-> Without(handlers[m][c], task[t].subscriber)]
    IN  /\ HasManager(t, "destroy")
        /\ handlers' = [handlers EXCEPT ![m] = left]
        /\ ToBroker(t, {c \in Channels : BecomesEmpty(handlers[m][c], left[c])})

-----------------------------------------------------------------------------
(* MessageBroker::subscribe and unsubscribe.                               *)

\* Does a change of the reference count from n reach the connector?
Faulty_ReachesConnector(kind, n) == kind = "unsubscribe" \/ n = 0
ReachesConnector(kind, n) == IF kind = "subscribe" THEN n = 0 ELSE n = 1

\* ++ and --
Faulty_Counted(kind, n) == IF kind = "subscribe" THEN 1 ELSE 0
Counted(kind, n) == IF kind = "subscribe" THEN n + 1 ELSE n - 1

CountChannel(t) ==
    /\ phase[t] = "broker"
    /\ broker_lock = NoCaller
    /\ \E c \in todo[t] :
          LET kind == IF task[t].kind = "subscribe" THEN "subscribe"
                                                    ELSE "unsubscribe"
          IN  /\ count' = [count EXCEPT ![c] = Counted(kind, @)]
              /\ IF ReachesConnector(kind, count[c])
                 THEN /\ Conn!Call(t, kind, c)
                      /\ broker_lock' = t
                      /\ phase' = [phase EXCEPT ![t] = "connector"]
                      /\ todo' = [todo EXCEPT ![t] = @ \ {c}]
                      /\ UNCHANGED <<manager_lock, task, subscriber>>
                 ELSE /\ ToBroker(t, todo[t] \ {c})
                      /\ UNCHANGED <<conn_vars, broker_lock>>
    /\ UNCHANGED <<dispatch_vars, registered, interface, handlers,
                   operations, owed>>

Faulty_ConnectorReturns(t) ==
    /\ phase[t] = "connector"
    /\ pc[t] = "idle"
    /\ ToBroker(t, todo[t])
    /\ UNCHANGED <<conn_vars, broker_lock, dispatch_vars, registered, interface,
                   handlers, count, operations, owed>>

ConnectorReturns(t) ==
    /\ phase[t] = "connector"
    /\ pc[t] = "idle"
    /\ broker_lock' = NoCaller
    /\ ToBroker(t, todo[t])
    /\ UNCHANGED <<conn_vars, dispatch_vars, registered, interface, handlers, count,
                   operations, owed>>

\* An exception leaves the broker and the manager: every lock is released, the
\* handler list and the count stay as they are.  Out of a destructor it ends the
\* process.
ConnectorThrows(t) ==
    /\ phase[t] = "connector"
    /\ pc[t] \in {"refused", "failed"}
    /\ broker_lock' = NoCaller
    /\ IF task[t].kind = "destroy"
       THEN /\ worker' = "terminated"
            /\ UNCHANGED <<manager_lock, phase, task, todo, subscriber>>
       ELSE Return(t) /\ UNCHANGED worker
    /\ UNCHANGED <<output, wire, replies, server_channels,
                   m_subscription_status_changed, m_subscriber_thread_alive,
                   m_is_running, m_subscription_lock, current, pc, op, owner, calls,
                   published, wakeups, failures, dispatch_vars, registered,
                   interface, handlers, count, operations, owed>>

-----------------------------------------------------------------------------
(* The callback of the subscriber worker.                                  *)

CallbacksToCall == registered

BeginDispatch ==
    /\ worker = "callback"
    /\ ~dispatching
    /\ dispatching' = TRUE
    /\ to_call' = CallbacksToCall
    /\ UNCHANGED <<conn_vars, received, object_vars, thread_vars, owed>>

\* MessageHandlerManager::on_message of the next interface: its subscribers of the
\* channel are called in the order they are listed, under the manager's lock.
Faulty_Called(m, c) == SubSeq(handlers[m][c], 2, Len(handlers[m][c]))
Called(m, c) == handlers[m][c]

Times(subscribers, s) == Cardinality({i \in DOMAIN subscribers : subscribers[i] = s})

OnMessage ==
    LET m == Head(to_call)
        called == Called(m, current.channel)
    IN  /\ dispatching
        /\ to_call # <<>>
        /\ manager_lock[m] = NoCaller
        /\ received' = [s \in Subscribers |-> received[s] \o
                          [i \in 1 .. Times(called, s) |-> current.id]]
        /\ owed' = {o \in owed : ~(o[3] = current.id /\ Contains(called, o[1]))}
        /\ to_call' = Tail(to_call)
        /\ UNCHANGED <<conn_vars, dispatching, object_vars, thread_vars>>

EndDispatch ==
    /\ dispatching
    /\ to_call = <<>>
    /\ Conn!CallbackReturns
    /\ dispatching' = FALSE
    /\ UNCHANGED <<to_call, received, object_vars, thread_vars, owed>>

-----------------------------------------------------------------------------
(* The steps of the connector.                                             *)

UpperUnchanged == UNCHANGED <<dispatch_vars, object_vars, thread_vars, owed>>

ConnWorkerStep ==
    /\ \/ Conn!WorkerLoop \/ Conn!WriteCommand \/ Conn!BlockInRead
       \/ Conn!ReceiveTechnical \/ Conn!ReceiveEvent \/ Conn!ReceiveMeta
       \/ Conn!ReceiveMetaThrows \/ Conn!ConsumeReturns
    /\ UpperUnchanged

\* s is subscribed to c: its call has returned and no call that ends the
\* subscription has begun.
SubscribedTo(c) ==
    {s \in Subscribers :
        /\ Contains(handlers[ManagerOf[s]][c], s)
        /\ \A t \in Threads : UsesSubscriber(t, s) =>
              task[t].kind # "destroy" /\ task[t].channel # c}

\* Publisher::publish, by anyone connected to the server.
Publish(c) ==
    /\ Conn!Publish(c)
    /\ owed' = owed \cup {<<s, c, published + 1>> : s \in SubscribedTo(c)}
    /\ UNCHANGED <<dispatch_vars, object_vars, thread_vars>>

\* The broker is destroyed after every interface on it.  Its locks and callback
\* lists go first, the connector, its first member, last.
StopBroker ==
    /\ \A m \in Managers : interface[m] # "present"
    /\ \A t \in Threads : ~Busy(t)
    /\ Conn!Stop
    /\ UpperUnchanged

-----------------------------------------------------------------------------
DispatchStep == BeginDispatch \/ OnMessage \/ EndDispatch

ThreadStep(t) ==
    \/ RegisterCallback(t) \/ RemoveCallback(t)
    \/ AddMessageHandler(t) \/ RemoveMessageHandler(t) \/ RemoveFromAllChannels(t)
    \/ CountChannel(t) \/ ConnectorReturns(t) \/ ConnectorThrows(t)
    \/ Conn!CallerStep(t) /\ UpperUnchanged

Request(t) ==
    \/ \E m \in Managers : Open(t, m) \/ Close(t, m)
    \/ \E s \in Subscribers :
          \/ EnterDestructor(t, s)
          \/ \E kind \in Conn!Kinds, c \in Channels : Enter(t, kind, s, c)

Finished == Conn!Over /\ UNCHANGED vars

Next ==
    \/ /\ ~Conn!Over
       /\ \/ Conn!ServerExecutes /\ UpperUnchanged
          \/ ConnWorkerStep
          \/ DispatchStep
          \/ \E t \in Threads : \/ ThreadStep(t)
                                \/ Request(t)
                                \/ Conn!NotifyFails(t) /\ UpperUnchanged
          \/ \E s \in Subscribers : CreateSubscriber(s)
          \/ \E c \in Channels : Publish(c)
          \/ (Conn!OwnerStep \/ Conn!OwnerNotifyFails) /\ UpperUnchanged
          \/ StopBroker
    \/ Finished

\* As in EventConnector; the application's own callbacks return, being part of
\* the step OnMessage.
Fairness ==
    /\ WF_vars(~Conn!Over /\ Conn!ServerExecutes /\ UpperUnchanged)
    /\ WF_vars(~Conn!Over /\ (ConnWorkerStep \/ DispatchStep))
    /\ WF_vars(~Conn!Over /\ Conn!OwnerStep /\ UpperUnchanged)
    /\ \A t \in Threads : WF_vars(~Conn!Over /\ ThreadStep(t))

Spec == Init /\ [][Next]_vars /\ Fairness

-----------------------------------------------------------------------------
(* Correctness.                                                            *)

\* No thread is inside a call about the handlers of m, or of anybody's.
ManagerAtRest(m) == manager_lock[m] = NoCaller
AllAtRest == \A m \in Managers : ManagerAtRest(m)

\* A manager whose lock is free lists a handler for a channel only if the server
\* sends that channel to this process: whichever interface subscribed first, and
\* whichever of them unsubscribed last, the reference count kept it.  With no call
\* in progress no other channel is sent.
ServedWhileHandled ==
    failures = 0 =>
        \A c \in Channels :
            /\ \A m \in Managers :
                  ManagerAtRest(m) /\ handlers[m][c] # <<>> => c \in server_channels
            /\ AllAtRest /\ c \in server_channels =>
                  \E m \in Managers : handlers[m][c] # <<>>

\* The reference count of a channel is the number of interfaces that list a
\* handler for it, also after calls that ended in an exception: a count that went
\* below zero would wrap around (size_t) and leave the channel subscribed for good.
CountIsNumberOfManagers ==
    AllAtRest =>
        \A c \in Channels :
            count[c] = Cardinality({m \in Managers : handlers[m][c] # <<>>})

\* A call about the subscription of s to c is in progress.
InCall(s, c) ==
    \E t \in Threads : /\ UsesSubscriber(t, s)
                       /\ task[t].kind = "destroy" \/ task[t].channel = c

BusStatus(s, c) ==
    IF failures = 0 /\ s \in SubscribedTo(c) THEN "subscribed"
    ELSE IF InCall(s, c) \/ Contains(handlers[ManagerOf[s]][c], s) THEN "changing"
    ELSE "none"

BusEvents == {r \in Conn!Events : r = current \/ Contains(replies, r)}

Statuses == [s \in Subscribers |-> [c \in Channels |-> BusStatus(s, c)]]
Pending == {<<r.channel, r.id>> : r \in BusEvents}
Promised == IF failures = 0 THEN owed ELSE {}

Bus == INSTANCE EventBus WITH status <- Statuses, pending <- Pending,
                              owed <- Promised

\* The layers together keep the promise of EventBus: each event is given to every
\* subscriber entitled to it before the next one is begun, once and in the order
\* of publication, whichever interfaces, subscriptions and exceptions come and go.
ImplementsEventBus == Bus!Spec

\* The lists that the worker walks name only subscribers that exist: it never
\* calls into one that was destroyed.
HandlersExist ==
    \A m \in Managers, c \in Channels : \A i \in DOMAIN handlers[m][c] :
        subscriber[handlers[m][c][i]] = "present"

\* The same for the callbacks registered at the broker, and for those that the
\* worker has taken on its current round.
CallbacksExist ==
    \A m \in Managers :
        Contains(registered, m) \/ Contains(to_call, m) => interface[m] = "present"

\* The locks and lists of the broker are destroyed before its connector stops the
\* worker.  That is safe because no event is left when the last subscriber is gone.
DestroyedBrokerNotCalled ==
    failures = 0 /\ owner \in {"stopping", "joining"} =>
        /\ worker # "callback"
        /\ \A i \in DOMAIN replies : replies[i] \notin Conn!Events

\* Thread t spins on the confirmation of its command.
Spins(t) == pc[t] = "spin" /\ ~m_subscription_status_changed

\* The worker delivers an event to a manager whose lock is held by a thread that
\* waits for the worker to confirm a subscription: its own, or that of the thread
\* that holds the broker's lock.
CircularWait ==
    /\ dispatching /\ to_call # <<>>
    /\ LET t == manager_lock[Head(to_call)]
       IN  /\ t # NoCaller
           /\ \/ Spins(t)
              \/ phase[t] = "broker" /\ broker_lock # NoCaller /\ Spins(broker_lock)

\* How far a thread is inside the locks.
Depth(t) == CASE phase[t] = "manager"   -> 1
              [] phase[t] = "broker"    -> 2
              [] phase[t] = "connector" -> 3
              [] OTHER                  -> 0

\* The worker waits for a lock that thread u holds.
WorkerWaitsFor(u) == /\ worker = "callback" /\ dispatching /\ to_call # <<>>
                     /\ manager_lock[Head(to_call)] = u

WorkerCanGo == \/ worker \in {"top", "consume", "consumed"}
               \/ worker = "read" /\ replies # <<>>
               \/ worker = "callback" /\ \A u \in Threads : ~WorkerWaitsFor(u)

\* Thread t waits for a lock that thread u holds, or for the worker that does.
WaitsFor(t, u) ==
    \/ phase[t] = "manager" /\ manager_lock[Manager(t)] = u
    \/ phase[t] = "broker" /\ broker_lock = u
    \/ phase[t] = "callbacks" /\ dispatching /\ WorkerWaitsFor(u)

\* Where thread t is, the locks that it needs next are free, and so is the way into
\* the connector and through it: the guards of its next step.
CanGo(t) ==
    \/ phase[t] = "callbacks" /\ ~dispatching
    \/ phase[t] = "manager" /\ manager_lock[Manager(t)] = NoCaller
    \/ /\ phase[t] = "broker" /\ broker_lock = NoCaller
       /\ \E c \in todo[t] : ReachesConnector(task[t].kind, count[c]) =>
             owner = "ready" /\ pc[t] \in Conn!Outside /\ calls < 2 * MaxOperations
    \/ /\ phase[t] = "connector" /\ ~Spins(t)
       /\ pc[t] = "lock" => m_subscription_lock = NoCaller

\* A call that is stuck for good is in that circular wait or behind it.  A thread
\* that cannot go on waits for one that is deeper inside the locks, or for a worker
\* that can go on or itself waits for such a thread; one that spins has a worker
\* that can go on or a server that owes it an answer.  No wake-up is lost, whichever
\* interfaces and subscribers the threads are busy with.
OnlyCircularWaitBlocks ==
    ~Conn!Over =>
        /\ \A t \in Threads : Busy(t) =>
              \/ CanGo(t)
              \/ \E u \in Threads : WaitsFor(t, u) /\ Depth(u) > Depth(t)
              \/ phase[t] = "callbacks" /\ WorkerCanGo
              \/ Spins(t) /\ (WorkerCanGo \/ wire # <<>> \/ CircularWait)
        /\ \A u \in Threads : WorkerWaitsFor(u) => Depth(u) > 1


\* Every call returns, unless that one circular wait occurs: nobody waits for a
\* confirmation that cannot come, and the destructors end.
ReturnsUnlessCircularWait ==
    \A t \in Threads : Busy(t) ~> ~Busy(t) \/ CircularWait

\* An event published on a channel is received by every subscriber subscribed to
\* it, unless that one circular wait occurs.
DeliveredUnlessCircularWait ==
    \A s \in Subscribers, c \in Channels, n \in 1 .. MaxEvents :
        <<s, c, n>> \in owed ~> <<s, c, n>> \notin owed \/ CircularWait

\* README: "An event published on a given channel will be received by all
\* subscribers subscribed to the channel."
ReceivedByAllSubscribers ==
    \A s \in Subscribers, c \in Channels, n \in 1 .. MaxEvents :
        <<s, c, n>> \in owed ~> <<s, c, n>> \notin owed
=============================================================================
