-------------------------- MODULE EventSystemProofs --------------------------
(***************************************************************************)
(* Theorems about EventSystem, for any threads, interfaces, subscribers,   *)
(* channels and bounds.                                                    *)
(***************************************************************************)
EXTENDS EventSystem, ListsProofs

(***************************************************************************)
(* The connector's part.                                                   *)
(***************************************************************************)

\* The theorems about the connector below.
P == INSTANCE EventConnectorProofs WITH Callers <- Threads,
                                        MaxCalls <- 2 * MaxOperations

LEMMA ConnAssumptions ==
    /\ Technical \notin Channels /\ NoCaller \notin Threads
    /\ 2 * MaxOperations \in Nat /\ MaxEvents \in Nat
    /\ MaxWakeups \in Nat /\ MaxFailures \in Nat
<1> QED BY NamesAssumption, BoundsAssumption

LEMMA SameType == (P!TypeOK <=> Conn!TypeOK) /\ (P!TypeOK' <=> Conn!TypeOK')
<1> QED BY DEF P!TypeOK, Conn!TypeOK, P!Commands, Conn!Commands, P!Replies,
               Conn!Replies, P!Events, Conn!Events, P!NoMessage, Conn!NoMessage,
               P!Message, Conn!Message, P!Kinds, Conn!Kinds, P!Outside,
               Conn!Outside, P!Holding, Conn!Holding

LEMMA SameInit == P!Init <=> Conn!Init
<1> QED BY DEF P!Init, Conn!Init, P!NoMessage, Conn!NoMessage, P!Message,
               Conn!Message, P!NoCall, Conn!NoCall

LEMMA SameStep == [P!Next]_P!vars <=> [Conn!Next]_Conn!vars
<1> QED
  BY DEF P!Kinds, Conn!Kinds, P!Meta, Conn!Meta, P!Message, Conn!Message,
         P!NoMessage, Conn!NoMessage, P!NoCall, Conn!NoCall, P!Outside,
         Conn!Outside, P!connection, Conn!connection, P!flags, Conn!flags,
         P!counters, Conn!counters, P!vars, Conn!vars, P!Deliver, Conn!Deliver,
         P!NotifyEventSubscriptionChange, Conn!NotifyEventSubscriptionChange,
         P!ServerExecutes, Conn!ServerExecutes, P!WorkerUnchanged,
         Conn!WorkerUnchanged, P!WorkerLoop, Conn!WorkerLoop, P!WriteCommand,
         Conn!WriteCommand, P!BlockInRead, Conn!BlockInRead, P!Receives,
         Conn!Receives, P!IsTechnical, Conn!IsTechnical, P!ReceiveTechnical,
         Conn!ReceiveTechnical, P!ReceiveEvent, Conn!ReceiveEvent,
         P!CallbackReturns, Conn!CallbackReturns, P!ReceiveMeta,
         Conn!ReceiveMeta, P!ReceiveMetaThrows, Conn!ReceiveMetaThrows,
         P!ConsumeReturns, Conn!ConsumeReturns, P!CallerUnchanged,
         Conn!CallerUnchanged, P!Call, Conn!Call, P!LockIsFree,
         Conn!LockIsFree, P!Lock, Conn!Lock, P!CheckPasses, Conn!CheckPasses,
         P!CheckThrows, Conn!CheckThrows, P!AppendCommand, Conn!AppendCommand,
         P!Notify, Conn!Notify, P!NotifyFails, Conn!NotifyFails, P!Confirmed,
         Conn!Confirmed, P!Spin, Conn!Spin, P!Reset, Conn!Reset, P!Publish,
         Conn!Publish, P!OwnerUnchanged, Conn!OwnerUnchanged,
         P!HandshakeNotify, Conn!HandshakeNotify, P!Constructed,
         Conn!Constructed, P!Stop, Conn!Stop, P!Wake, Conn!Wake, P!Join,
         Conn!Join, P!WorkerStep, Conn!WorkerStep, P!CallerStep,
         Conn!CallerStep, P!OwnerStep, Conn!OwnerStep, P!OwnerNotifyFails,
         Conn!OwnerNotifyFails, P!Over, Conn!Over,
         P!Finished, Conn!Finished, P!Next, Conn!Next

(***************************************************************************)
(* The inductive invariant.                                                *)
(***************************************************************************)

Calls == [kind : {"subscribe", "unsubscribe"}, subscriber : Subscribers,
          channel : Channels]
Destructions == [kind : {"destroy"}, subscriber : Subscribers]
Changes == [kind : {"open", "close"}, interface : Managers]

\* What a thread was asked to do, and what it has still to do, fits its place.
TasksFit ==
    \A t \in Threads :
        /\ phase[t] = "idle" => task[t] = NoTask
        /\ phase[t] = "callbacks" => task[t] \in Changes
        /\ phase[t] \in {"manager", "broker", "connector"} =>
              task[t] \in Calls \cup Destructions
        /\ phase[t] \in {"idle", "callbacks", "manager"} => todo[t] = {}
        /\ task[t] \in Calls => todo[t] \subseteq {task[t].channel}
        /\ phase[t] = "connector" /\ task[t] \in Calls => todo[t] = {}

\* Thread t is in the broker, or below it in the connector.
Inside(t) == phase[t] \in {"broker", "connector"}

\* It is in subscribe or unsubscribe of the connector.
AtConnector(t) == pc[t] \in {"lock", "check", "append", "notify", "spin", "reset"}

\* A thread holds its manager's lock while it is inside, and the broker's as long as
\* it is in the connector, unless its exception has ended the process.
LockDiscipline ==
    \A t \in Threads :
        /\ Inside(t) => manager_lock[Manager(t)] = t
        /\ phase[t] = "connector" /\ worker # "terminated" => broker_lock = t
        /\ AtConnector(t) => phase[t] = "connector"

\* A thread that is inside has made its change in the manager: it is the first
\* subscriber of its channel, or there is none left of those it has still to leave.
ChangeMade ==
    \A t \in Threads : Inside(t) =>
        IF task[t].kind = "subscribe"
        THEN handlers[Manager(t)][task[t].channel] = <<task[t].subscriber>>
        ELSE \A c \in todo[t] : handlers[Manager(t)][c] = <<>>

\* The change of a manager that the broker has still to count.
ToBeCounted(m, c) == \E t \in Threads : Inside(t) /\ Manager(t) = m /\ c \in todo[t]

\* The managers that the broker has counted for c.
CountedFor(c) ==
    {m \in Managers : ~ (handlers[m][c] # <<>> <=> ToBeCounted(m, c))}

CountIsOfManagers ==
    \A c \in Channels : IsFiniteSet(CountedFor(c)) /\ count[c] = Cardinality(CountedFor(c))

\* A call that has reached the connector took the count from or to zero.
CallsCounted ==
    \A t \in Threads : AtConnector(t) =>
        /\ op[t].channel \in Channels
        /\ IF op[t].kind = "subscribe"
           THEN /\ task[t].kind = "subscribe" /\ task[t].channel = op[t].channel
                /\ count[op[t].channel] = 1
           ELSE count[op[t].channel] = 0

\* A call at the connector about c whose command the server has not executed.
Ordered(c) ==
    \E t \in Threads :
        /\ AtConnector(t) /\ op[t].channel = c
        /\ pc[t] \in P!Waits => output # <<>> \/ wire # <<>>

\* The server has a channel if its count is not zero, but for what is ordered.
ServerIsOfCounts ==
    failures = 0 =>
        \A c \in Channels : c \in server_channels <=> ~ (count[c] # 0 <=> Ordered(c))

\* A wake-up that threw is counted.
FailuresCounted == \A t \in Threads : pc[t] = "failed" => failures # 0

\* The worker walks interfaces that exist, and only in its callback.
RegisteredExist ==
    /\ dispatching => worker \in {"callback", "terminated"}
    /\ ~dispatching => to_call = <<>>
    /\ \A m \in Managers :
          Contains(registered, m) \/ Contains(to_call, m) => interface[m] = "present"

\* Whoever calls an operation of a subscriber has one that exists, and whoever
\* destroys it is alone with it.
UsersExist ==
    \A t \in Threads, s \in Subscribers : UsesSubscriber(t, s) =>
        /\ subscriber[s] = "present"
        /\ task[t].kind = "destroy" => \A u \in Threads : UsesSubscriber(u, s) => u = t

\* A manager lists subscribers of its own that exist, and not the one whose
\* destructor has been to it.
ListedExist ==
    \A m \in Managers, c \in Channels, s \in Subscribers :
        Contains(handlers[m][c], s) =>
            /\ ManagerOf[s] = m
            /\ subscriber[s] = "present"
            /\ \A t \in Threads : Inside(t) /\ task[t].kind = "destroy"
                                      => task[t].subscriber # s

\* An interface exists as long as its subscribers do, and none of them is left when
\* its destruction begins.
InterfacesLast ==
    /\ \A s \in Subscribers :
          subscriber[s] = "present" => interface[ManagerOf[s]] = "present"
    /\ \A t \in Threads : task[t].kind = "close" =>
          \A s \in Subscribers :
              ManagerOf[s] = task[t].interface => subscriber[s] # "present"

\* The broker is constructed before all of them and destroyed after them, by a thread
\* that is alone.
BrokerLast ==
    owner # "ready" =>
        /\ \A t \in Threads : phase[t] = "idle"
        /\ \A m \in Managers : interface[m] # "present"

\* Events are numbered from 1.
EventsNumbered ==
    /\ \A i \in DOMAIN replies : replies[i] \in Conn!Events => replies[i].id # 0
    /\ current \in Conn!Events => current.id # 0

IInv ==
    /\ TypeOK
    /\ P!QuietIInv
    /\ TasksFit
    /\ LockDiscipline
    /\ ChangeMade
    /\ CountIsOfManagers
    /\ CallsCounted
    /\ ServerIsOfCounts
    /\ FailuresCounted
    /\ RegisteredExist
    /\ UsersExist
    /\ ListedExist
    /\ InterfacesLast
    /\ BrokerLast
    /\ EventsNumbered

(***************************************************************************)
(* The steps.                                                              *)
(***************************************************************************)

\* The steps that only the connector makes.
ConnAlone ==
    \/ Conn!ServerExecutes \/ Conn!WorkerLoop \/ Conn!WriteCommand \/ Conn!BlockInRead
    \/ Conn!ReceiveTechnical \/ Conn!ReceiveEvent \/ Conn!ReceiveMeta
    \/ Conn!ReceiveMetaThrows \/ Conn!ConsumeReturns \/ Conn!OwnerStep
    \/ Conn!OwnerNotifyFails
    \/ \E t \in Threads : Conn!CallerStep(t) \/ Conn!NotifyFails(t)

\* The steps of thread t above the connector.
ObjectStep(t) ==
    \/ \E m \in Managers : Open(t, m) \/ Close(t, m)
    \/ \E s \in Subscribers :
          \/ EnterDestructor(t, s)
          \/ \E kind \in Conn!Kinds, c \in Channels : Enter(t, kind, s, c)
    \/ RegisterCallback(t) \/ RemoveCallback(t)

ManagerStep(t) ==
    AddMessageHandler(t) \/ RemoveMessageHandler(t) \/ RemoveFromAllChannels(t)

BrokerStep(t) == CountChannel(t) \/ ConnectorReturns(t) \/ ConnectorThrows(t)

\* A step that changes anything is one of the connector's, a thread's, the worker's
\* in its callback, or one that makes a subscriber or publishes an event.
LEMMA Steps ==
    ASSUME [Next]_vars
    PROVE  \/ UNCHANGED vars
           \/ /\ ~ Conn!Over
              /\ \/ ConnAlone /\ UpperUnchanged
                 \/ StopBroker
                 \/ \E t \in Threads : ObjectStep(t) \/ ManagerStep(t) \/ BrokerStep(t)
                 \/ DispatchStep
                 \/ \E s \in Subscribers : CreateSubscriber(s)
                 \/ \E c \in Channels : Publish(c)
<1>1. SUFFICES ASSUME Next, ~ UNCHANGED vars PROVE
           /\ ~ Conn!Over
           /\ \/ ConnAlone /\ UpperUnchanged
              \/ StopBroker
              \/ \E t \in Threads : ObjectStep(t) \/ ManagerStep(t) \/ BrokerStep(t)
              \/ DispatchStep
              \/ \E s \in Subscribers : CreateSubscriber(s)
              \/ \E c \in Channels : Publish(c)
  OBVIOUS
<1>2. ~ Conn!Over
  BY <1>1 DEF Next, Finished
<1>3. ConnWorkerStep => ConnAlone /\ UpperUnchanged
  BY DEF ConnWorkerStep, ConnAlone
<1>4. ASSUME NEW t \in Threads, ThreadStep(t)
      PROVE  \/ ConnAlone /\ UpperUnchanged
             \/ ObjectStep(t) \/ ManagerStep(t) \/ BrokerStep(t)
  BY <1>4 DEF ThreadStep, ObjectStep, ManagerStep, BrokerStep, ConnAlone
<1>5. ASSUME NEW t \in Threads, Request(t) PROVE ObjectStep(t)
  BY <1>5 DEF Request, ObjectStep
<1>6. ASSUME NEW t \in Threads, Conn!NotifyFails(t), UpperUnchanged
      PROVE  ConnAlone /\ UpperUnchanged
  BY <1>6 DEF ConnAlone
<1>7. ASSUME Conn!OwnerStep \/ Conn!OwnerNotifyFails \/ Conn!ServerExecutes,
             UpperUnchanged
      PROVE  ConnAlone /\ UpperUnchanged
  BY <1>7 DEF ConnAlone
<1> QED BY <1>1, <1>2, <1>3, <1>4, <1>5, <1>6, <1>7 DEF Next, Finished

\* An exception out of a destructor ends the process.
EndsProcess(t) == ConnectorThrows(t) /\ task[t].kind = "destroy"

\* Every step is one of the connector's or leaves it alone, but for the end of the
\* process by an exception out of a destructor.
LEMMA ConnSteps ==
    ASSUME TasksFit, TypeOK, [Next]_vars
    PROVE  \/ [Conn!Next]_Conn!vars
           \/ \E t \in Threads : EndsProcess(t)
<1>1. UNCHANGED conn_vars => UNCHANGED Conn!vars
  BY DEF conn_vars, Conn!vars, Conn!connection, Conn!flags, Conn!counters
<1>2. UNCHANGED vars => UNCHANGED conn_vars
  BY DEF vars
<1>3. ASSUME ~ Conn!Over, ConnAlone PROVE Conn!Next
  BY <1>3 DEF ConnAlone, Conn!Next, Conn!WorkerStep
<1>4. ASSUME NEW t \in Threads, ObjectStep(t) \/ ManagerStep(t) PROVE UNCHANGED conn_vars
  BY <1>4 DEF ObjectStep, Open, Close, Enter, EnterDestructor, RegisterCallback,
              RemoveCallback, ManagerStep, AddMessageHandler, RemoveMessageHandler,
              RemoveFromAllChannels, HasManager
<1>5. ASSUME ~ Conn!Over, NEW t \in Threads, BrokerStep(t)
      PROVE  UNCHANGED conn_vars \/ Conn!Next \/ EndsProcess(t)
  <2>1. ASSUME NEW kind \in Conn!Kinds, NEW c \in Channels, Conn!Call(t, kind, c)
        PROVE  Conn!Next
    BY <1>5, <2>1 DEF Conn!Next
  <2>2. CASE CountChannel(t)
    <3>1. PICK c \in todo[t] :
            \/ \E kind \in {"subscribe", "unsubscribe"} : Conn!Call(t, kind, c)
            \/ UNCHANGED conn_vars
      BY <2>2 DEF CountChannel, Counted
    <3>2. c \in Channels
      BY DEF TypeOK
    <3> QED BY <2>1, <3>1, <3>2 DEF Conn!Kinds
  <2>3. CASE ConnectorReturns(t)
    BY <2>3 DEF ConnectorReturns
  <2>4. CASE ConnectorThrows(t)
    BY <2>4 DEF ConnectorThrows, EndsProcess, conn_vars
  <2> QED BY <1>5, <2>2, <2>3, <2>4 DEF BrokerStep
<1>6. ASSUME ~ Conn!Over, DispatchStep PROVE UNCHANGED conn_vars \/ Conn!Next
  BY <1>6 DEF DispatchStep, BeginDispatch, OnMessage, EndDispatch, Conn!Next,
              Conn!WorkerStep
<1>7. ASSUME ~ Conn!Over, NEW c \in Channels, Publish(c) PROVE Conn!Next
  BY <1>7 DEF Publish, Conn!Next
<1>8. ASSUME ~ Conn!Over, StopBroker PROVE Conn!Next
  BY <1>8 DEF StopBroker, Conn!Next
<1>9. ASSUME NEW s \in Subscribers, CreateSubscriber(s) PROVE UNCHANGED conn_vars
  BY <1>9 DEF CreateSubscriber
<1> QED BY <1>1, <1>2, <1>3, <1>4, <1>5, <1>6, <1>7, <1>8, <1>9, Steps

\* Nothing is thrown out of the connector unless a wake-up has failed.
LEMMA ThrowsAfterFailure ==
    ASSUME P!QuietIInv, FailuresCounted, NEW t \in Threads, ConnectorThrows(t)
    PROVE  failures # 0
<1>1. pc[t] = "refused" \/ pc[t] = "failed"
  BY DEF ConnectorThrows
<1>2. ASSUME failures = 0 PROVE pc[t] # "refused"
  BY <1>2 DEF P!QuietIInv, P!IInv, P!CommandInv, P!SubscriptionsMutexed
<1> QED BY <1>1, <1>2 DEF FailuresCounted

\* The connector's variables keep their types and its invariant, by the theorems
\* about the connector.
LEMMA ConnInv ==
    ASSUME TypeOK, TasksFit, P!QuietIInv, FailuresCounted, [Next]_vars
    PROVE  P!QuietIInv' /\ Conn!TypeOK'
<1>1. CASE [Conn!Next]_Conn!vars
  <2>1. [P!Next]_P!vars
    BY <1>1, SameStep
  <2>2. P!QuietIInv'
    BY <2>1, ConnAssumptions, P!NextQuiet
  <2>3. P!TypeOK'
    BY <2>2 DEF P!QuietIInv, P!IInv
  <2> QED BY <2>2, <2>3, SameType
<1>2. ASSUME NEW t \in Threads, EndsProcess(t) PROVE P!QuietIInv' /\ Conn!TypeOK'
  <2>1. failures # 0 /\ failures' = failures
    BY <1>2, ThrowsAfterFailure DEF EndsProcess, ConnectorThrows
  <2>2. /\ UNCHANGED <<output, wire, replies, server_channels,
                       m_subscription_status_changed, m_subscriber_thread_alive,
                       m_is_running, m_subscription_lock, current, pc, op, owner, calls,
                       published, wakeups, failures>>
        /\ worker' = "terminated"
    BY <1>2 DEF EndsProcess, ConnectorThrows
  <2>3. Conn!TypeOK'
    BY <2>2 DEF TypeOK, Conn!TypeOK
  <2>4. P!LockDiscipline'
    BY <2>2 DEF P!QuietIInv, P!IInv, P!LockDiscipline
  <2> QED BY <2>1, <2>3, <2>4, SameType DEF P!QuietIInv, P!IInv
<1> QED BY <1>1, <1>2, ConnSteps

(***************************************************************************)
(* Types.                                                                  *)
(***************************************************************************)

LEMMA TasksAre == Tasks = Calls \cup Destructions \cup Changes \cup {NoTask}
<1> QED BY DEF Tasks, Calls, Destructions, Changes, NoTask

\* The operands of what a thread was asked to do.
LEMMA Operands ==
    ASSUME TypeOK, TasksFit, NEW t \in Threads
    PROVE  /\ phase[t] = "callbacks" =>
                 /\ task[t].interface \in Managers
                 /\ task[t].kind \in {"open", "close"}
           /\ phase[t] \in {"manager", "broker", "connector"} =>
                 /\ task[t].subscriber \in Subscribers
                 /\ Manager(t) \in Managers
                 /\ task[t].kind \in {"subscribe", "unsubscribe", "destroy"}
                 /\ task[t].kind # "destroy" =>
                       task[t] \in Calls /\ task[t].channel \in Channels
                 /\ task[t].kind = "destroy" => task[t] \in Destructions
<1>1. phase[t] = "callbacks" => task[t] \in Changes
  BY DEF TasksFit
<1>2. phase[t] \in {"manager", "broker", "connector"} =>
          task[t] \in Calls \cup Destructions
  BY DEF TasksFit
<1>3. task[t] \in Calls => /\ task[t].kind \in {"subscribe", "unsubscribe"}
                           /\ task[t].subscriber \in Subscribers
                           /\ task[t].channel \in Channels
  BY DEF Calls
<1>4. task[t] \in Destructions => /\ task[t].kind = "destroy"
                                  /\ task[t].subscriber \in Subscribers
  BY DEF Destructions
<1>5. task[t] \in Changes => /\ task[t].kind \in {"open", "close"}
                             /\ task[t].interface \in Managers
  BY DEF Changes
<1> QED BY <1>1, <1>2, <1>3, <1>4, <1>5, ManagerOfAssumption DEF Manager

\* Where the threads are, and what they hold.
ThreadsTyped ==
    /\ manager_lock \in [Managers -> Threads \cup {NoCaller}]
    /\ broker_lock \in Threads \cup {NoCaller}
    /\ phase \in [Threads -> {"idle", "manager", "broker", "connector", "callbacks"}]
    /\ task \in [Threads -> Tasks]
    /\ todo \in [Threads -> SUBSET Channels]
    /\ operations \in 0 .. MaxOperations
    /\ subscriber \in [Subscribers -> {"absent", "present", "destroyed"}]

\* A step that takes thread t to a place with what fits it.
LEMMA Moves ==
    ASSUME ThreadsTyped, TasksFit, NEW t \in Threads,
           NEW ph \in {"idle", "manager", "broker", "connector", "callbacks"},
           NEW tk \in Tasks, NEW td \in SUBSET Channels,
           phase' = [phase EXCEPT ![t] = ph], task' = [task EXCEPT ![t] = tk],
           todo' = [todo EXCEPT ![t] = td],
           ph = "idle" => tk = NoTask,
           ph = "callbacks" => tk \in Changes,
           ph \in {"manager", "broker", "connector"} => tk \in Calls \cup Destructions,
           ph \in {"idle", "callbacks", "manager"} => td = {},
           tk \in Calls => td \subseteq {tk.channel},
           ph = "connector" /\ tk \in Calls => td = {}
    PROVE  /\ TasksFit'
           /\ phase' \in [Threads -> {"idle", "manager", "broker", "connector",
                                      "callbacks"}]
           /\ task' \in [Threads -> Tasks]
           /\ todo' \in [Threads -> SUBSET Channels]
<1>1. /\ phase'[t] = ph /\ task'[t] = tk /\ todo'[t] = td
      /\ \A u \in Threads \ {t} :
            phase'[u] = phase[u] /\ task'[u] = task[u] /\ todo'[u] = todo[u]
  BY DEF ThreadsTyped
<1> QED BY <1>1 DEF ThreadsTyped, TasksFit

\* A call that returns, or goes on to the broker with channels of its own.
LEMMA ToBrokerTyped ==
    ASSUME TypeOK, TasksFit, NEW t \in Threads, NEW channels \in SUBSET Channels,
           phase[t] \in {"manager", "broker", "connector"},
           task[t] \in Calls => channels \subseteq {task[t].channel},
           ToBroker(t, channels) \/ Return(t)
    PROVE  /\ TasksFit'
           /\ manager_lock' \in [Managers -> Threads \cup {NoCaller}]
           /\ phase' \in [Threads -> {"idle", "manager", "broker", "connector",
                                      "callbacks"}]
           /\ task' \in [Threads -> Tasks]
           /\ todo' \in [Threads -> SUBSET Channels]
           /\ subscriber' \in [Subscribers -> {"absent", "present", "destroyed"}]
<1>0. ThreadsTyped
  BY DEF TypeOK, ThreadsTyped
<1>1. CASE Return(t)
  <2>1. NoTask \in Tasks /\ NoTask \notin Calls
    BY DEF Tasks, NoTask, Calls
  <2>2. /\ phase' = [phase EXCEPT ![t] = "idle"] /\ task' = [task EXCEPT ![t] = NoTask]
        /\ todo' = [todo EXCEPT ![t] = {}]
    BY <1>1 DEF Return
  <2>3. /\ TasksFit'
        /\ phase' \in [Threads -> {"idle", "manager", "broker", "connector",
                                   "callbacks"}]
        /\ task' \in [Threads -> Tasks]
        /\ todo' \in [Threads -> SUBSET Channels]
    BY ZenonT(60), <1>0, <2>1, <2>2, Moves
  <2> QED BY <1>0, <1>1, <2>3 DEF Return, ThreadsTyped
<1>2. CASE channels # {} /\ ToBroker(t, channels)
  <2>1. /\ phase' = [phase EXCEPT ![t] = "broker"] /\ task' = task
        /\ todo' = [todo EXCEPT ![t] = channels]
        /\ manager_lock' = [manager_lock EXCEPT ![Manager(t)] = t]
        /\ subscriber' = subscriber
    BY <1>2 DEF ToBroker
  <2>2. task[t] \in Tasks /\ task' = [task EXCEPT ![t] = task[t]]
    BY <1>0, <2>1 DEF ThreadsTyped
  <2>3. task[t] \in Calls \cup Destructions
    BY DEF TasksFit
  <2>4. /\ TasksFit'
        /\ phase' \in [Threads -> {"idle", "manager", "broker", "connector",
                                   "callbacks"}]
        /\ task' \in [Threads -> Tasks]
        /\ todo' \in [Threads -> SUBSET Channels]
    BY <1>0, <2>1, <2>2, <2>3, Moves
  <2> QED BY <1>0, <2>1, <2>4 DEF ThreadsTyped
<1> QED BY <1>1, <1>2 DEF ToBroker

\* Every step of a thread leaves it somewhere that fits its task.
LEMMA ObjectType ==
    ASSUME TypeOK, TasksFit, NEW t \in Threads, ObjectStep(t)
    PROVE  ThreadsTyped' /\ TasksFit'
<1>0. ThreadsTyped /\ MaxOperations \in Nat
  BY BoundsAssumption DEF TypeOK, ThreadsTyped
<1>1. /\ manager_lock' \in [Managers -> Threads \cup {NoCaller}]
      /\ broker_lock' \in Threads \cup {NoCaller}
      /\ operations' \in 0 .. MaxOperations
      /\ subscriber' \in [Subscribers -> {"absent", "present", "destroyed"}]
      /\ UNCHANGED todo
  <2> DEFINE Same == UNCHANGED <<manager_lock, broker_lock, subscriber, todo>>
  <2>1. ASSUME NEW m \in Managers, Open(t, m) \/ Close(t, m)
        PROVE  Same /\ UNCHANGED operations
    BY <2>1 DEF Open, Close, object_vars
  <2>2. ASSUME NEW s \in Subscribers, EnterDestructor(t, s)
        PROVE  Same /\ UNCHANGED operations
    BY <2>2 DEF EnterDestructor, object_vars
  <2>3. ASSUME NEW s \in Subscribers, NEW kind \in Conn!Kinds, NEW c \in Channels,
               Enter(t, kind, s, c)
        PROVE  Same /\ operations' = operations + 1 /\ operations < MaxOperations
    BY <2>3 DEF Enter, object_vars
  <2>4. ASSUME RegisterCallback(t) \/ RemoveCallback(t)
        PROVE  Same /\ UNCHANGED operations
    BY <2>4 DEF RegisterCallback, RemoveCallback
  <2>5. /\ Same
        /\ \/ UNCHANGED operations
           \/ operations' = operations + 1 /\ operations < MaxOperations
    BY <2>1, <2>2, <2>3, <2>4 DEF ObjectStep
  <2> QED BY <1>0, <2>5 DEF ThreadsTyped
<1>2. ASSUME NEW tk \in Tasks, NEW ph \in {"callbacks", "manager"}, Begin(t, tk, ph),
             ph = "callbacks" => tk \in Changes,
             ph = "manager" => tk \in Calls \cup Destructions
      PROVE  ThreadsTyped' /\ TasksFit'
  <2>1. /\ phase' = [phase EXCEPT ![t] = ph] /\ task' = [task EXCEPT ![t] = tk]
        /\ phase[t] = "idle"
    BY <1>2 DEF Begin, Busy
  <2>2. todo[t] = {} /\ todo' = [todo EXCEPT ![t] = {}]
    BY <1>0, <1>1, <2>1 DEF TasksFit, ThreadsTyped
  <2>3. /\ TasksFit'
        /\ phase' \in [Threads -> {"idle", "manager", "broker", "connector",
                                   "callbacks"}]
        /\ task' \in [Threads -> Tasks]
        /\ todo' \in [Threads -> SUBSET Channels]
    BY <1>0, <1>2, <2>1, <2>2, Moves
  <2> QED BY <1>1, <2>3 DEF ThreadsTyped
<1>3. ASSUME NEW m \in Managers, Open(t, m) \/ Close(t, m) PROVE ThreadsTyped' /\ TasksFit'
  <2>1. \A kind \in {"open", "close"} : [kind |-> kind, interface |-> m] \in Changes
    BY DEF Changes
  <2>2. PICK kind \in {"open", "close"} :
           Begin(t, [kind |-> kind, interface |-> m], "callbacks")
    BY <1>3 DEF Open, Close
  <2> QED BY <1>2, <2>1, <2>2, TasksAre
<1>4. ASSUME NEW s \in Subscribers, EnterDestructor(t, s) PROVE ThreadsTyped' /\ TasksFit'
  <2>1. [kind |-> "destroy", subscriber |-> s] \in Destructions
    BY DEF Destructions
  <2> QED BY <1>2, <1>4, <2>1, TasksAre DEF EnterDestructor
<1>5. ASSUME NEW s \in Subscribers, NEW kind \in Conn!Kinds, NEW c \in Channels,
             Enter(t, kind, s, c)
      PROVE  ThreadsTyped' /\ TasksFit'
  <2>1. [kind |-> kind, subscriber |-> s, channel |-> c] \in Calls
    BY DEF Calls, Conn!Kinds
  <2> QED BY <1>2, <1>5, <2>1, TasksAre DEF Enter
<1>6. CASE RegisterCallback(t) \/ RemoveCallback(t)
  <2>1. /\ phase' = [phase EXCEPT ![t] = "idle"] /\ task' = [task EXCEPT ![t] = NoTask]
        /\ phase[t] = "callbacks"
    BY <1>6 DEF RegisterCallback, RemoveCallback
  <2>2. todo[t] = {} /\ todo' = [todo EXCEPT ![t] = {}]
    BY <1>0, <1>1, <2>1 DEF TasksFit, ThreadsTyped
  <2>3. NoTask \in Tasks /\ NoTask \notin Calls
    BY DEF Tasks, NoTask, Calls
  <2>4. /\ TasksFit'
        /\ phase' \in [Threads -> {"idle", "manager", "broker", "connector",
                                   "callbacks"}]
        /\ task' \in [Threads -> Tasks]
        /\ todo' \in [Threads -> SUBSET Channels]
    BY <1>0, <2>1, <2>2, <2>3, Moves
  <2> QED BY <1>1, <2>4 DEF ThreadsTyped
<1> QED BY <1>3, <1>4, <1>5, <1>6 DEF ObjectStep

\* What a step of the broker does: thread t has the next of its channels counted and
\* goes to the connector or on, or it comes back from the connector.
LEMMA BrokerSteps ==
    ASSUME TypeOK, TasksFit, NEW t \in Threads, BrokerStep(t)
    PROVE  /\ UNCHANGED <<dispatch_vars, registered, interface, handlers, operations,
                          owed>>
           /\ \/ /\ phase[t] = "broker" /\ broker_lock = NoCaller
                 /\ \E c \in todo[t], kind \in {"subscribe", "unsubscribe"} :
                       /\ c \in Channels
                       /\ kind = "subscribe" <=> task[t].kind = "subscribe"
                       /\ task[t] \in Calls => task[t].channel = c /\ todo[t] = {c}
                       /\ count' = [count EXCEPT ![c] = IF kind = "subscribe"
                                                        THEN @ + 1 ELSE @ - 1]
                       /\ \/ /\ ReachesConnector(kind, count[c])
                             /\ Conn!Call(t, kind, c)
                             /\ broker_lock' = t
                             /\ phase' = [phase EXCEPT ![t] = "connector"]
                             /\ todo' = [todo EXCEPT ![t] = @ \ {c}]
                             /\ UNCHANGED <<manager_lock, task, subscriber>>
                          \/ /\ ~ ReachesConnector(kind, count[c])
                             /\ ToBroker(t, todo[t] \ {c})
                             /\ UNCHANGED <<conn_vars, broker_lock>>
              \/ /\ phase[t] = "connector" /\ pc[t] = "idle"
                 /\ broker_lock' = NoCaller
                 /\ ToBroker(t, todo[t])
                 /\ UNCHANGED <<conn_vars, count>>
              \/ /\ phase[t] = "connector" /\ pc[t] \in {"refused", "failed"}
                 /\ broker_lock' = NoCaller /\ Return(t)
                 /\ task[t].kind # "destroy"
                 /\ UNCHANGED <<conn_vars, count>>
              \/ /\ phase[t] = "connector" /\ pc[t] \in {"refused", "failed"}
                 /\ broker_lock' = NoCaller
                 /\ worker' = "terminated"
                 /\ task[t].kind = "destroy"
                 /\ UNCHANGED <<output, wire, replies, server_channels,
                                m_subscription_status_changed,
                                m_subscriber_thread_alive, m_is_running,
                                m_subscription_lock, current, pc, op, owner, calls,
                                published, wakeups, failures>>
                 /\ UNCHANGED <<count, manager_lock, phase, task, todo, subscriber>>
<1>1. CASE CountChannel(t)
  <2>1. PICK c \in todo[t] :
          LET kind == IF task[t].kind = "subscribe" THEN "subscribe"
                                                    ELSE "unsubscribe"
          IN  /\ count' = [count EXCEPT ![c] =
                              IF kind = "subscribe" THEN @ + 1 ELSE @ - 1]
              /\ IF ReachesConnector(kind, count[c])
                 THEN /\ Conn!Call(t, kind, c)
                      /\ broker_lock' = t
                      /\ phase' = [phase EXCEPT ![t] = "connector"]
                      /\ todo' = [todo EXCEPT ![t] = @ \ {c}]
                      /\ UNCHANGED <<manager_lock, task, subscriber>>
                 ELSE /\ ToBroker(t, todo[t] \ {c})
                      /\ UNCHANGED <<conn_vars, broker_lock>>
    BY <1>1 DEF CountChannel, Counted
  <2>2. /\ phase[t] = "broker" /\ broker_lock = NoCaller
        /\ UNCHANGED <<dispatch_vars, registered, interface, handlers, operations, owed>>
    BY <1>1 DEF CountChannel, Counted
  <2>3. c \in Channels /\ (task[t] \in Calls => task[t].channel = c /\ todo[t] = {c})
    BY DEF TypeOK, TasksFit
  <2>4. PICK kind \in {"subscribe", "unsubscribe"} :
           kind = IF task[t].kind = "subscribe" THEN "subscribe" ELSE "unsubscribe"
    OBVIOUS
  <2> QED BY <2>1, <2>2, <2>3, <2>4
<1>2. CASE ConnectorReturns(t)
  BY <1>2 DEF ConnectorReturns
<1>3. CASE ConnectorThrows(t)
  BY <1>3 DEF ConnectorThrows, conn_vars
<1> QED BY <1>1, <1>2, <1>3 DEF BrokerStep

LEMMA BrokerType ==
    ASSUME TypeOK, TasksFit, NEW t \in Threads, BrokerStep(t)
    PROVE  ThreadsTyped' /\ TasksFit'
<1>0. ThreadsTyped
  BY DEF TypeOK, ThreadsTyped
<1>1. /\ broker_lock' \in Threads \cup {NoCaller}
      /\ operations' \in 0 .. MaxOperations
      /\ phase[t] \in {"broker", "connector"}
  BY <1>0, BrokerSteps DEF ThreadsTyped
<1>2. ASSUME NEW channels \in SUBSET Channels, channels \subseteq todo[t],
             ToBroker(t, channels) \/ Return(t)
      PROVE  ThreadsTyped' /\ TasksFit'
  <2>1. task[t] \in Calls => channels \subseteq {task[t].channel}
    BY <1>2 DEF TasksFit
  <2> QED BY <1>1, <1>2, <2>1, ToBrokerTyped DEF ThreadsTyped
<1>3. ASSUME NEW c \in todo[t], phase[t] = "broker",
             phase' = [phase EXCEPT ![t] = "connector"],
             todo' = [todo EXCEPT ![t] = @ \ {c}],
             UNCHANGED <<manager_lock, task, subscriber>>
      PROVE  ThreadsTyped' /\ TasksFit'
  <2>1. /\ task' = [task EXCEPT ![t] = task[t]] /\ task[t] \in Tasks
        /\ todo' = [todo EXCEPT ![t] = todo[t] \ {c}]
        /\ todo[t] \ {c} \in SUBSET Channels
    BY <1>0, <1>3 DEF ThreadsTyped
  <2>2. /\ task[t] \in Calls \cup Destructions
        /\ task[t] \in Calls => todo[t] \ {c} = {}
    BY <1>3 DEF TasksFit
  <2>3. /\ TasksFit'
        /\ phase' \in [Threads -> {"idle", "manager", "broker", "connector",
                                   "callbacks"}]
        /\ task' \in [Threads -> Tasks]
        /\ todo' \in [Threads -> SUBSET Channels]
    BY <1>0, <1>3, <2>1, <2>2, Moves
  <2> QED BY <1>0, <1>1, <1>3, <2>3 DEF ThreadsTyped
<1>4. todo[t] \in SUBSET Channels /\ \A c : todo[t] \ {c} \in SUBSET Channels
  BY <1>0 DEF ThreadsTyped
<1>5. ASSUME UNCHANGED <<manager_lock, phase, task, todo, subscriber>>
      PROVE  ThreadsTyped' /\ TasksFit'
  BY <1>0, <1>1, <1>5 DEF ThreadsTyped, TasksFit
<1> QED BY <1>2, <1>3, <1>4, <1>5, BrokerSteps

(***************************************************************************)
(* The managers' steps.                                                    *)
(***************************************************************************)

\* Does the task of thread t end the subscription of its subscriber to c?
Ends(t, c) == \/ task[t].kind = "destroy"
              \/ task[t].kind = "unsubscribe" /\ task[t].channel = c

\* What a step of a manager makes of its lists: the subscriber of the task is added
\* or taken out, and the channels that got their first subscriber or lost their last
\* one are taken to the broker.
Left(t, left, channels) ==
    LET old == handlers[Manager(t)]
        s == task[t].subscriber
    IN  /\ channels = {c \in Channels : ~ (left[c] = <<>> <=> old[c] = <<>>)}
        /\ task[t] \in Calls => channels \subseteq {task[t].channel}
        /\ \A c \in Channels :
              /\ Unique(old[c]) => Unique(left[c])
              /\ task[t].kind = "subscribe" =>
                    /\ c \in channels => left[c] = <<s>>
                    /\ \A y : Contains(left[c], y) <=>
                                 \/ Contains(old[c], y)
                                 \/ c = task[t].channel /\ y = s
              /\ task[t].kind # "subscribe" =>
                    /\ c \in channels => left[c] = <<>>
                    /\ \A y : Contains(left[c], y) <=>
                                 Contains(old[c], y) /\ ~ (Ends(t, c) /\ y = s)

\* An empty list contains nothing, and any other its first element.
LEMMA EmptyList ==
    ASSUME NEW S, NEW list \in Seq(S)
    PROVE  list = <<>> <=> \A y : ~ Contains(list, y)
<1>1. list # <<>> => Contains(list, list[1])
  BY DEF Contains
<1>2. list = <<>> => \A y : ~ Contains(list, y)
  BY DEF Contains
<1> QED BY <1>1, <1>2

LEMMA SingleElement ==
    ASSUME NEW x
    PROVE  /\ Append(<<>>, x) = <<x>> /\ <<x>> # <<>> /\ Unique(<<x>>)
           /\ \A y : Contains(<<x>>, y) <=> y = x
<1> QED BY DEF Contains, Unique

LEMMA ManagerSteps ==
    ASSUME TypeOK, TasksFit, NEW t \in Threads, ManagerStep(t)
    PROVE  /\ phase[t] = "manager" /\ manager_lock[Manager(t)] = NoCaller
           /\ UNCHANGED <<conn_vars, dispatch_vars, registered, interface, count,
                          broker_lock, operations, owed>>
           /\ \E left \in [Channels -> Seq(Subscribers)], channels \in SUBSET Channels :
                 /\ handlers' = [handlers EXCEPT ![Manager(t)] = left]
                 /\ ToBroker(t, channels)
                 /\ Left(t, left, channels)
<1>1. /\ phase[t] = "manager" /\ manager_lock[Manager(t)] = NoCaller
      /\ UNCHANGED <<conn_vars, dispatch_vars, registered, interface, count,
                     broker_lock, operations, owed>>
  BY DEF ManagerStep, AddMessageHandler, RemoveMessageHandler, RemoveFromAllChannels,
         HasManager
<1> DEFINE m == Manager(t)
           s == task[t].subscriber
           old == handlers[m]
           Done(left, channels) == /\ handlers' = [handlers EXCEPT ![m] = left]
                                   /\ ToBroker(t, channels)
                                   /\ Left(t, left, channels)
<1>2. /\ m \in Managers /\ s \in Subscribers
      /\ task[t].kind \in {"subscribe", "unsubscribe", "destroy"}
      /\ task[t].kind # "destroy" => task[t] \in Calls /\ task[t].channel \in Channels
      /\ task[t].kind = "destroy" => task[t] \notin Calls
  BY <1>1, Operands DEF Calls
<1>3. /\ handlers \in [Managers -> [Channels -> Seq(Subscribers)]]
      /\ old \in [Channels -> Seq(Subscribers)]
  BY <1>2 DEF TypeOK
<1> HIDE DEF m, s, old
<1>4. ASSUME NEW c \in Channels
      PROVE  /\ Without(old[c], s) \in Seq(Subscribers)
             /\ \A y : Contains(Without(old[c], s), y) <=> y # s /\ Contains(old[c], y)
             /\ Unique(old[c]) => Unique(Without(old[c], s))
  BY <1>3, RemoveAllElements, RemoveAllUnique DEF Without
<1>5. CASE AddMessageHandler(t)
  <2> DEFINE c == task[t].channel
             left == IF Contains(old[c], s) THEN old
                     ELSE [old EXCEPT ![c] = Append(old[c], s)]
             channels == IF old[c] = <<>> THEN {c} ELSE {}
  <2>1. /\ task[t].kind = "subscribe" /\ c \in Channels
        /\ handlers' = IF Contains(old[c], s) THEN handlers
                       ELSE [handlers EXCEPT ![m][c] = Append(old[c], s)]
        /\ ToBroker(t, channels)
    BY <1>2, <1>5 DEF AddMessageHandler, HasManager, Listed, m, s, old
  <2> HIDE DEF c
  <2>2. /\ left \in [Channels -> Seq(Subscribers)] /\ channels \in SUBSET Channels
        /\ handlers' = [handlers EXCEPT ![m] = left]
    <3>1. Append(old[c], s) \in Seq(Subscribers)
      BY <1>2, <1>3, <2>1, AppendElements
    <3>2. CASE Contains(old[c], s)
      BY <1>2, <1>3, <2>1, <3>2 DEF old
    <3>3. CASE ~ Contains(old[c], s)
      BY <1>2, <1>3, <2>1, <3>1, <3>3 DEF old
    <3> QED BY <3>2, <3>3
  <2>3. /\ \A d \in Channels \ {c} : left[d] = old[d]
        /\ Contains(old[c], s) => left[c] = old[c]
        /\ ~ Contains(old[c], s) => left[c] = Append(old[c], s)
    BY <1>3, <2>1
  <2>4. \A d \in Channels : /\ old[d] \in Seq(Subscribers)
                            /\ left[d] \in Seq(Subscribers)
    BY <1>3, <2>2
  <2> HIDE DEF left
  <2>5. /\ \A y : Contains(left[c], y) <=> Contains(old[c], y) \/ y = s
        /\ Unique(old[c]) => Unique(left[c])
    <3>1. CASE Contains(old[c], s)
      BY <2>3, <3>1
    <3>2. CASE ~ Contains(old[c], s)
      <4>1. \A y : Contains(Append(old[c], s), y) <=> Contains(old[c], y) \/ y = s
        BY <1>2, <2>1, <2>4, AppendElements
      <4>2. Unique(old[c]) => Unique(Append(old[c], s))
        BY <1>2, <2>1, <2>4, <3>2, AppendUnique
      <4> QED BY <2>3, <3>2, <4>1, <4>2
    <3> QED BY <3>1, <3>2
  <2>6. old[c] = <<>> => ~ Contains(old[c], s) /\ left[c] = <<s>>
    <3>1. ASSUME old[c] = <<>> PROVE ~ Contains(old[c], s)
      BY <2>1, <2>4, <3>1, EmptyList
    <3> QED BY <2>3, <3>1, SingleElement
  <2>7. left[c] # <<>>
    BY <2>1, <2>4, <2>5, EmptyList
  <2>8. channels = {d \in Channels : ~ (left[d] = <<>> <=> old[d] = <<>>)}
    BY <2>1, <2>3, <2>7
  <2>9. Left(t, left, channels)
    BY <1>2, <2>1, <2>3, <2>5, <2>6, <2>8 DEF Left, m, s, old, c
  <2> QED BY <1>1, <2>1, <2>2, <2>9 DEF m
<1>6. CASE RemoveMessageHandler(t)
  <2> DEFINE c == task[t].channel
             left == [old EXCEPT ![c] = Without(old[c], s)]
             channels == IF BecomesEmpty(old[c], Without(old[c], s)) THEN {c} ELSE {}
  <2>1. /\ task[t].kind = "unsubscribe" /\ c \in Channels
        /\ handlers' = [handlers EXCEPT ![m][c] = Without(old[c], s)]
        /\ ToBroker(t, channels)
    BY <1>2, <1>6 DEF RemoveMessageHandler, HasManager, m, s, old
  <2> HIDE DEF c
  <2>2. /\ left \in [Channels -> Seq(Subscribers)] /\ channels \in SUBSET Channels
        /\ handlers' = [handlers EXCEPT ![m] = left]
    BY <1>2, <1>3, <1>4, <2>1 DEF old
  <2>3. /\ \A d \in Channels \ {c} : left[d] = old[d]
        /\ left[c] = Without(old[c], s)
    BY <1>3, <2>1
  <2>4. \A d \in Channels : /\ old[d] \in Seq(Subscribers)
                            /\ left[d] \in Seq(Subscribers)
    BY <1>3, <2>2
  <2>5. channels = IF BecomesEmpty(old[c], left[c]) THEN {c} ELSE {}
    BY <2>3
  <2> HIDE DEF left, channels
  <2>6. /\ \A y : Contains(left[c], y) <=> Contains(old[c], y) /\ y # s
        /\ Unique(old[c]) => Unique(left[c])
    BY <1>2, <1>4, <2>1, <2>3
  <2>7. old[c] = <<>> => left[c] = <<>>
    BY <2>1, <2>4, <2>6, EmptyList
  <2>8. channels = {d \in Channels : ~ (left[d] = <<>> <=> old[d] = <<>>)}
    BY <2>1, <2>3, <2>5, <2>7 DEF BecomesEmpty
  <2>9. Left(t, left, channels)
    BY <1>2, <2>1, <2>3, <2>5, <2>6, <2>8 DEF Left, Ends, BecomesEmpty, m, s, old, c
  <2> QED BY <1>1, <2>1, <2>2, <2>9 DEF m
<1>7. CASE RemoveFromAllChannels(t)
  <2> DEFINE left == [c \in Channels |-> Without(old[c], s)]
             channels == {c \in Channels : BecomesEmpty(old[c], left[c])}
  <2>1. /\ task[t].kind = "destroy"
        /\ handlers' = [handlers EXCEPT ![m] = left]
        /\ ToBroker(t, channels)
    BY <1>7 DEF RemoveFromAllChannels, HasManager, m, s, old
  <2>2. /\ left \in [Channels -> Seq(Subscribers)] /\ channels \in SUBSET Channels
        /\ \A c \in Channels : left[c] = Without(old[c], s)
    BY <1>2, <1>4
  <2>3. \A c \in Channels : /\ old[c] \in Seq(Subscribers)
                            /\ left[c] \in Seq(Subscribers)
    BY <1>3, <2>2
  <2> HIDE DEF left
  <2>4. \A c \in Channels :
           /\ \A y : Contains(left[c], y) <=> Contains(old[c], y) /\ y # s
           /\ Unique(old[c]) => Unique(left[c])
    BY <1>2, <1>4, <2>2
  <2>5. \A c \in Channels : old[c] = <<>> => left[c] = <<>>
    BY <2>3, <2>4, EmptyList
  <2>6. channels = {d \in Channels : ~ (left[d] = <<>> <=> old[d] = <<>>)}
    BY <2>5 DEF BecomesEmpty
  <2>7. \A c \in channels : left[c] = <<>>
    BY DEF BecomesEmpty
  <2> HIDE DEF channels
  <2>8. Left(t, left, channels)
    BY <1>2, <2>1, <2>4, <2>6, <2>7 DEF Left, Ends, m, s, old
  <2> QED BY <1>1, <2>1, <2>2, <2>8 DEF m
<1> QED BY <1>5, <1>6, <1>7 DEF ManagerStep

(***************************************************************************)
(* What each step changes.                                                 *)
(***************************************************************************)

\* Where the threads are, the lists of the managers and the counts change by steps of
\* the threads above the connector only.
LEMMA ThreadsUndisturbed ==
    ASSUME [Next]_vars
    PROVE  \/ UNCHANGED thread_vars
           \/ /\ ~ Conn!Over
              /\ \E t \in Threads : ObjectStep(t) \/ ManagerStep(t) \/ BrokerStep(t)
<1>1. CASE UNCHANGED vars
  BY <1>1 DEF vars
<1>2. CASE (ConnAlone /\ UpperUnchanged) \/ StopBroker
  BY <1>2 DEF UpperUnchanged, StopBroker
<1>3. CASE DispatchStep
  BY <1>3 DEF DispatchStep, BeginDispatch, OnMessage, EndDispatch
<1>4. ASSUME NEW s \in Subscribers, CreateSubscriber(s) PROVE UNCHANGED thread_vars
  BY <1>4 DEF CreateSubscriber
<1>5. ASSUME NEW c \in Channels, Publish(c) PROVE UNCHANGED thread_vars
  BY <1>5 DEF Publish
<1> QED BY <1>1, <1>2, <1>3, <1>4, <1>5, Steps

\* The lists of the managers change by steps of the managers, ...
LEMMA HandlerSteps ==
    ASSUME TypeOK, TasksFit, [Next]_vars
    PROVE  UNCHANGED handlers \/ \E t \in Threads : ManagerStep(t)
<1>1. ASSUME NEW t \in Threads, ObjectStep(t) PROVE UNCHANGED handlers
  BY <1>1 DEF ObjectStep, Open, Close, Enter, EnterDestructor, RegisterCallback,
              RemoveCallback
<1>2. ASSUME NEW t \in Threads, BrokerStep(t) PROVE UNCHANGED handlers
  BY <1>2, BrokerSteps
<1> QED BY <1>1, <1>2, ThreadsUndisturbed DEF thread_vars

\* ... the interfaces and their callbacks at the broker by their own, ...
LEMMA InterfaceSteps ==
    ASSUME TypeOK, TasksFit, [Next]_vars
    PROVE  \/ UNCHANGED <<registered, interface>>
           \/ \E t \in Threads : RegisterCallback(t) \/ RemoveCallback(t)
<1>1. CASE UNCHANGED vars
  BY <1>1 DEF vars, object_vars
<1>2. CASE (ConnAlone /\ UpperUnchanged) \/ StopBroker
  BY <1>2 DEF UpperUnchanged, StopBroker, object_vars
<1>3. CASE DispatchStep
  BY <1>3 DEF DispatchStep, BeginDispatch, OnMessage, EndDispatch, object_vars
<1>4. ASSUME NEW s \in Subscribers, CreateSubscriber(s)
      PROVE  UNCHANGED <<registered, interface>>
  BY <1>4 DEF CreateSubscriber
<1>5. ASSUME NEW c \in Channels, Publish(c) PROVE UNCHANGED <<registered, interface>>
  BY <1>5 DEF Publish, object_vars
<1>6. ASSUME NEW t \in Threads, ObjectStep(t)
      PROVE  \/ UNCHANGED <<registered, interface>>
             \/ RegisterCallback(t) \/ RemoveCallback(t)
  BY <1>6 DEF ObjectStep, Open, Close, Enter, EnterDestructor, object_vars
<1>7. ASSUME NEW t \in Threads, ManagerStep(t) \/ BrokerStep(t)
      PROVE  UNCHANGED <<registered, interface>>
  BY <1>7, ManagerSteps, BrokerSteps
<1> QED BY <1>1, <1>2, <1>3, <1>4, <1>5, <1>6, <1>7, Steps

\* ... and what the worker does in its callback by the steps of the dispatch.
LEMMA WorkerSteps ==
    ASSUME TypeOK, TasksFit, [Next]_vars
    PROVE  UNCHANGED dispatch_vars \/ (~ Conn!Over /\ DispatchStep)
<1>1. CASE UNCHANGED vars
  BY <1>1 DEF vars
<1>2. CASE (ConnAlone /\ UpperUnchanged) \/ StopBroker
  BY <1>2 DEF UpperUnchanged, StopBroker
<1>4. ASSUME NEW s \in Subscribers, CreateSubscriber(s) PROVE UNCHANGED dispatch_vars
  BY <1>4 DEF CreateSubscriber
<1>5. ASSUME NEW c \in Channels, Publish(c) PROVE UNCHANGED dispatch_vars
  BY <1>5 DEF Publish
<1>6. ASSUME NEW t \in Threads, ObjectStep(t) PROVE UNCHANGED dispatch_vars
  BY <1>6 DEF ObjectStep, Open, Close, Enter, EnterDestructor, RegisterCallback,
              RemoveCallback
<1>7. ASSUME NEW t \in Threads, ManagerStep(t) \/ BrokerStep(t)
      PROVE  UNCHANGED dispatch_vars
  BY <1>7, ManagerSteps, BrokerSteps
<1> QED BY <1>1, <1>2, <1>4, <1>5, <1>6, <1>7, Steps

LEMMA NextTasks ==
    ASSUME TypeOK, TasksFit, [Next]_vars
    PROVE  ThreadsTyped' /\ TasksFit'
<1>0. ThreadsTyped
  BY DEF TypeOK, ThreadsTyped
<1>1. ASSUME NEW t \in Threads, ManagerStep(t) PROVE ThreadsTyped' /\ TasksFit'
  <2>1. /\ phase[t] = "manager" /\ UNCHANGED <<broker_lock, operations>>
        /\ \E channels \in SUBSET Channels :
              /\ ToBroker(t, channels)
              /\ task[t] \in Calls => channels \subseteq {task[t].channel}
    BY ZenonT(60), <1>1, ManagerSteps DEF Left
  <2> QED BY <1>0, <2>1, ToBrokerTyped DEF ThreadsTyped
<1>2. ASSUME UNCHANGED thread_vars PROVE TasksFit'
  BY <1>2 DEF thread_vars, TasksFit
<1>3. ASSUME UNCHANGED thread_vars PROVE ThreadsTyped'
  <2>1. subscriber' \in [Subscribers -> {"absent", "present", "destroyed"}]
    <3>1. ASSUME NEW s \in Subscribers, CreateSubscriber(s)
          PROVE  subscriber' = [subscriber EXCEPT ![s] = "present"]
      BY <3>1 DEF CreateSubscriber
    <3>2. CASE UNCHANGED vars
      BY <1>0, <3>2 DEF vars, object_vars, ThreadsTyped
    <3>3. CASE (ConnAlone /\ UpperUnchanged) \/ StopBroker
      BY <1>0, <3>3 DEF UpperUnchanged, StopBroker, object_vars, ThreadsTyped
    <3>4. CASE DispatchStep
      BY <1>0, <3>4 DEF DispatchStep, BeginDispatch, OnMessage, EndDispatch, object_vars,
                        ThreadsTyped
    <3>5. ASSUME NEW c \in Channels, Publish(c) PROVE UNCHANGED subscriber
      BY <3>5 DEF Publish, object_vars
    <3>6. ASSUME NEW t \in Threads, ObjectStep(t) \/ ManagerStep(t) \/ BrokerStep(t)
          PROVE  subscriber' \in [Subscribers -> {"absent", "present", "destroyed"}]
      BY <1>1, <3>6, ObjectType, BrokerType DEF ThreadsTyped
    <3> QED BY <1>0, <3>1, <3>2, <3>3, <3>4, <3>5, <3>6, Steps DEF ThreadsTyped
  <2> QED BY <1>0, <1>3, <2>1 DEF ThreadsTyped, thread_vars
<1> QED BY <1>1, <1>2, <1>3, ObjectType, BrokerType, ThreadsUndisturbed

\* What becomes of the replies and of the message that the worker's callback was
\* given.
LEMMA ReplySteps ==
    ASSUME Conn!TypeOK, [Conn!Next]_Conn!vars
    PROVE  \/ UNCHANGED <<replies, current, published>>
           \/ /\ UNCHANGED <<current, published>>
              /\ \E r \in Conn!Replies \ Conn!Events : replies' = Append(replies, r)
           \/ \E c \in Channels : Conn!Publish(c)
           \/ /\ replies # <<>> /\ Head(replies) \notin Conn!Events
              /\ replies' = Tail(replies)
              /\ UNCHANGED <<current, published>>
           \/ /\ replies # <<>> /\ Head(replies) \in Conn!Events
              /\ worker \in {"consume", "read"}
              /\ replies' = Tail(replies) /\ current' = Head(replies)
              /\ UNCHANGED published
           \/ Conn!CallbackReturns
           \/ /\ Conn!Join
              /\ replies' = <<>> /\ owner = "joining" /\ UNCHANGED <<current, published>>
<1>0. /\ Technical \notin Channels /\ MaxEvents \in Nat
      /\ replies \in Seq(Conn!Replies)
  BY ConnAssumptions DEF Conn!TypeOK
<1>1. /\ Conn!Message(Technical, 0) \in Conn!Replies \ Conn!Events
      /\ \A c \in Channels \cup {Technical} :
            Conn!Meta(c) \in Conn!Replies \ Conn!Events
  BY <1>0 DEF Conn!Message, Conn!Meta, Conn!Replies, Conn!Events
<1>2. CASE Conn!ServerExecutes
  <2>1. Head(wire).channel \in Channels \cup {Technical}
    <3>1. Head(wire) \in Conn!Commands
      BY <1>2 DEF Conn!ServerExecutes, Conn!TypeOK
    <3> QED BY <3>1 DEF Conn!Commands
  <2> QED BY <1>1, <1>2, <2>1 DEF Conn!ServerExecutes, Conn!counters
<1>3. ASSUME Conn!NotifyEventSubscriptionChange
      PROVE  \/ UNCHANGED replies
             \/ \E r \in Conn!Replies \ Conn!Events : replies' = Append(replies, r)
  BY <1>1, <1>3 DEF Conn!NotifyEventSubscriptionChange, Conn!Deliver
<1>4. ASSUME NEW t \in Threads, Conn!CallerStep(t) \/ Conn!NotifyFails(t)
      PROVE  /\ UNCHANGED <<current, published>>
             /\ UNCHANGED replies \/ Conn!NotifyEventSubscriptionChange
  BY <1>4 DEF Conn!CallerStep, Conn!NotifyFails, Conn!Lock, Conn!CheckPasses,
              Conn!CheckThrows, Conn!AppendCommand, Conn!Notify, Conn!Spin, Conn!Reset,
              Conn!CallerUnchanged, Conn!connection
<1>5. ASSUME NEW t \in Threads, NEW kind \in Conn!Kinds, NEW c \in Channels,
             Conn!Call(t, kind, c)
      PROVE  UNCHANGED <<replies, current, published>>
  BY <1>5 DEF Conn!Call, Conn!CallerUnchanged, Conn!connection
<1>6. CASE Conn!OwnerStep \/ Conn!OwnerNotifyFails \/ Conn!Stop
  BY <1>3, <1>6 DEF Conn!OwnerStep, Conn!OwnerNotifyFails, Conn!Stop,
                    Conn!HandshakeNotify, Conn!Constructed, Conn!Wake, Conn!Join,
                    Conn!OwnerUnchanged, Conn!connection
<1>7. CASE Conn!WorkerLoop \/ Conn!WriteCommand \/ Conn!BlockInRead \/ Conn!ConsumeReturns
  BY <1>7 DEF Conn!WorkerLoop, Conn!WriteCommand, Conn!BlockInRead, Conn!ConsumeReturns,
              Conn!WorkerUnchanged, Conn!counters
<1>8. CASE Conn!ReceiveTechnical \/ Conn!ReceiveMeta \/ Conn!ReceiveMetaThrows
  BY <1>0, <1>8 DEF Conn!ReceiveTechnical, Conn!ReceiveMeta, Conn!ReceiveMetaThrows,
                    Conn!Receives, Conn!WorkerUnchanged, Conn!counters, Conn!Events,
                    Conn!IsTechnical
<1>9. CASE Conn!ReceiveEvent
  <2>1. Head(replies) \in Conn!Replies
    BY <1>0, <1>9 DEF Conn!ReceiveEvent, Conn!Receives
  <2>2. Head(replies) \in Conn!Events
    BY <1>9, <2>1 DEF Conn!ReceiveEvent, Conn!IsTechnical, Conn!Events, Conn!Replies
  <2> QED BY <1>9, <2>2 DEF Conn!ReceiveEvent, Conn!Receives, Conn!WorkerUnchanged,
                            Conn!counters
<1>10. CASE UNCHANGED Conn!vars
  BY <1>10 DEF Conn!vars, Conn!connection, Conn!counters
<1> QED BY <1>2, <1>3, <1>4, <1>5, <1>6, <1>7, <1>8, <1>9, <1>10
        DEF Conn!Next, Conn!Finished, Conn!WorkerStep

\* A step of the whole system does the same to them.
LEMMA NextReplies ==
    ASSUME TypeOK, TasksFit, [Next]_vars
    PROVE  \/ UNCHANGED <<replies, current, published>>
           \/ /\ UNCHANGED <<current, published>>
              /\ \E r \in Conn!Replies \ Conn!Events : replies' = Append(replies, r)
           \/ \E c \in Channels : Conn!Publish(c)
           \/ /\ replies # <<>> /\ Head(replies) \notin Conn!Events
              /\ replies' = Tail(replies)
              /\ UNCHANGED <<current, published>>
           \/ /\ replies # <<>> /\ Head(replies) \in Conn!Events
              /\ worker \in {"consume", "read"}
              /\ replies' = Tail(replies) /\ current' = Head(replies)
              /\ UNCHANGED published
           \/ Conn!CallbackReturns
           \/ /\ Conn!Join
              /\ replies' = <<>> /\ owner = "joining" /\ UNCHANGED <<current, published>>
<1>1. ASSUME NEW t \in Threads, EndsProcess(t)
      PROVE  UNCHANGED <<replies, current, published>>
  BY <1>1 DEF EndsProcess, ConnectorThrows
<1>2. Conn!TypeOK
  BY DEF TypeOK
<1> QED BY <1>1, <1>2, ConnSteps, ReplySteps

\* Every event that is published gets a number of its own, from 1.
LEMMA NextNumbered ==
    ASSUME TypeOK, TasksFit, EventsNumbered, [Next]_vars
    PROVE  EventsNumbered'
<1>0. /\ replies \in Seq(Conn!Replies) /\ published \in Nat
      /\ Conn!NoMessage \notin Conn!Events
  BY ConnAssumptions DEF TypeOK, Conn!TypeOK, Conn!NoMessage, Conn!Message, Conn!Events
<1>1. Conn!Events' = Conn!Events
  BY DEF Conn!Events, Conn!Replies
<1>2. ASSUME NEW r \in Conn!Replies, replies' = Append(replies, r), UNCHANGED current,
             r \in Conn!Events => r.id # 0
      PROVE  EventsNumbered'
  <2>1. /\ \A i \in DOMAIN replies : replies'[i] = replies[i]
        /\ replies'[Len(replies) + 1] = r
        /\ DOMAIN replies' = (DOMAIN replies) \cup {Len(replies) + 1}
    BY <1>0, <1>2
  <2> QED BY <1>1, <1>2, <2>1 DEF EventsNumbered
<1>3. ASSUME UNCHANGED <<replies, current>> PROVE EventsNumbered'
  BY <1>1, <1>3 DEF EventsNumbered
<1>4. ASSUME replies # <<>>, replies' = Tail(replies),
             current' \in {current, Head(replies)}
      PROVE  EventsNumbered'
  <2>1. /\ 1 \in DOMAIN replies /\ Head(replies) = replies[1]
        /\ \A i \in DOMAIN replies' : i + 1 \in DOMAIN replies
                                      /\ replies'[i] = replies[i + 1]
    BY <1>0, <1>4
  <2> QED BY <1>1, <1>4, <2>1 DEF EventsNumbered
<1>5. ASSUME replies' = <<>>, UNCHANGED current PROVE EventsNumbered'
  BY <1>1, <1>5 DEF EventsNumbered
<1>6. ASSUME NEW c \in Channels, Conn!Publish(c) PROVE EventsNumbered'
  <2>1. /\ UNCHANGED current
        /\ \/ UNCHANGED replies
           \/ replies' = Append(replies, Conn!Message(c, published + 1))
        /\ published < MaxEvents
    BY <1>6 DEF Conn!Publish, Conn!Deliver
  <2>2. Conn!Message(c, published + 1) \in Conn!Replies
    BY <1>0, <2>1, BoundsAssumption DEF Conn!Message, Conn!Replies
  <2>3. Conn!Message(c, published + 1).id # 0
    BY <1>0 DEF Conn!Message
  <2> QED BY <1>2, <1>3, <2>1, <2>2, <2>3
<1>7. CASE Conn!CallbackReturns
  BY <1>0, <1>1, <1>7 DEF Conn!CallbackReturns, EventsNumbered
<1> QED BY <1>2, <1>3, <1>4, <1>5, <1>6, <1>7, NextReplies

\* The worker's callback has been given an event as long as the process runs.
LEMMA CallbackGiven ==
    ASSUME TypeOK, RegisteredExist, EventsNumbered, ~ Conn!Over
    PROVE  dispatching \/ worker = "callback" =>
              /\ worker = "callback"
              /\ current \in Conn!Events /\ current.channel \in Channels
              /\ current.id \in 1 .. MaxEvents
<1>1. dispatching => worker = "callback"
  BY DEF RegisteredExist, Conn!Over
<1>2. worker = "callback" => current \in Conn!Events
  BY DEF TypeOK, Conn!TypeOK
<1>3. current \in Conn!Events =>
         current.channel \in Channels /\ current.id \in 0 .. MaxEvents
  BY DEF Conn!Events, Conn!Replies
<1>4. current \in Conn!Events => current.id \in 1 .. MaxEvents
  BY <1>3, BoundsAssumption DEF EventsNumbered
<1> QED BY <1>1, <1>2, <1>3, <1>4

\* Every variable of this module but the counts keeps its type.
LEMMA NextUpperType ==
    ASSUME TypeOK, TasksFit, RegisteredExist, EventsNumbered, [Next]_vars
    PROVE  /\ handlers' \in [Managers -> [Channels -> Seq(Subscribers)]]
           /\ registered' \in Seq(Managers)
           /\ dispatching' \in BOOLEAN
           /\ to_call' \in Seq(Managers)
           /\ interface' \in [Managers -> {"absent", "present", "destroyed"}]
           /\ received' \in [Subscribers -> Seq(1 .. MaxEvents)]
           /\ owed' \subseteq Subscribers \X Channels \X (1 .. MaxEvents)
<1>0. /\ handlers \in [Managers -> [Channels -> Seq(Subscribers)]]
      /\ registered \in Seq(Managers)
      /\ dispatching \in BOOLEAN
      /\ to_call \in Seq(Managers)
      /\ interface \in [Managers -> {"absent", "present", "destroyed"}]
      /\ received \in [Subscribers -> Seq(1 .. MaxEvents)]
      /\ owed \subseteq Subscribers \X Channels \X (1 .. MaxEvents)
  BY DEF TypeOK
<1>1. handlers' \in [Managers -> [Channels -> Seq(Subscribers)]]
  <2>1. ASSUME NEW t \in Threads, ManagerStep(t)
        PROVE  handlers' \in [Managers -> [Channels -> Seq(Subscribers)]]
    <3>1. \E left \in [Channels -> Seq(Subscribers)] :
             handlers' = [handlers EXCEPT ![Manager(t)] = left]
      BY <2>1, ManagerSteps
    <3> QED BY <1>0, <3>1
  <2> QED BY <1>0, <2>1, HandlerSteps
<1>2. /\ registered' \in Seq(Managers)
      /\ interface' \in [Managers -> {"absent", "present", "destroyed"}]
  <2>1. ASSUME NEW t \in Threads, RegisterCallback(t) \/ RemoveCallback(t)
        PROVE  /\ registered' \in Seq(Managers)
               /\ interface' \in [Managers -> {"absent", "present", "destroyed"}]
    <3>1. task[t].interface \in Managers
      BY <2>1, Operands DEF RegisterCallback, RemoveCallback
    <3>2. /\ Append(registered, task[t].interface) \in Seq(Managers)
          /\ RemoveAll(registered, task[t].interface) \in Seq(Managers)
      BY <1>0, <3>1, AppendElements, RemoveAllElements
    <3>3. registered' \in Seq(Managers)
      BY <2>1, <3>2 DEF RegisterCallback, RemoveCallback
    <3>4. \E i \in {"present", "destroyed"} :
             interface' = [interface EXCEPT ![task[t].interface] = i]
      BY <2>1 DEF RegisterCallback, RemoveCallback
    <3> QED BY <1>0, <3>3, <3>4
  <2> QED BY <1>0, <2>1, InterfaceSteps
<1>3. ASSUME ~ Conn!Over, OnMessage
      PROVE  /\ received' \in [Subscribers -> Seq(1 .. MaxEvents)]
             /\ owed' \subseteq owed
             /\ to_call # <<>> /\ to_call' = Tail(to_call) /\ UNCHANGED dispatching
  <2> DEFINE called == Called(Head(to_call), current.channel)
  <2>1. /\ received' = [s \in Subscribers |-> received[s] \o
                          [i \in 1 .. Times(called, s) |-> current.id]]
        /\ owed' \subseteq owed
        /\ to_call # <<>> /\ to_call' = Tail(to_call) /\ UNCHANGED dispatching
        /\ dispatching
    BY <1>3 DEF OnMessage
  <2>2. current.channel \in Channels /\ current.id \in 1 .. MaxEvents
    BY <1>3, <2>1, CallbackGiven
  <2>3. called \in Seq(Subscribers)
    BY <1>0, <2>1, <2>2 DEF Called
  <2> HIDE DEF called
  <2>4. ASSUME NEW s \in Subscribers
        PROVE  received[s] \o [i \in 1 .. Times(called, s) |-> current.id]
                   \in Seq(1 .. MaxEvents)
    <3> DEFINE at == {i \in DOMAIN called : called[i] = s}
    <3>1. DOMAIN called = 1 .. Len(called) /\ Len(called) \in Nat
      BY <2>3
    <3>2. IsFiniteSet(1 .. Len(called))
      BY <3>1, FS_Interval
    <3>3. IsFiniteSet(at)
      BY <3>1, <3>2, FS_Subset
    <3>4. Times(called, s) \in Nat
      BY <3>3, FS_CardinalityType DEF Times
    <3>5. [i \in 1 .. Times(called, s) |-> current.id] \in Seq(1 .. MaxEvents)
      <4>1. ASSUME NEW n \in Nat, NEW e \in 1 .. MaxEvents
            PROVE  [i \in 1 .. n |-> e] \in Seq(1 .. MaxEvents)
        OBVIOUS
      <4> QED BY <2>2, <3>4, <4>1
    <3> QED BY <1>0, <3>5
  <2> QED BY <2>1, <2>4
<1>4. /\ dispatching' \in BOOLEAN
      /\ to_call' \in Seq(Managers)
      /\ received' \in [Subscribers -> Seq(1 .. MaxEvents)]
  <2>1. CASE UNCHANGED dispatch_vars
    BY <1>0, <2>1 DEF dispatch_vars
  <2>2. CASE BeginDispatch \/ EndDispatch
    BY <1>0, <2>2 DEF BeginDispatch, EndDispatch, CallbacksToCall
  <2>3. CASE ~ Conn!Over /\ OnMessage
    <3>1. to_call # <<>> => Tail(to_call) \in Seq(Managers)
      BY <1>0
    <3>2. to_call' \in Seq(Managers) /\ dispatching' \in BOOLEAN
      BY <1>0, <1>3, <2>3, <3>1
    <3> QED BY <1>3, <2>3, <3>2
  <2> QED BY <2>1, <2>2, <2>3, WorkerSteps DEF DispatchStep
<1>5. owed' \subseteq Subscribers \X Channels \X (1 .. MaxEvents)
  <2>1. ASSUME NEW c \in Channels, Publish(c)
        PROVE  owed' \subseteq Subscribers \X Channels \X (1 .. MaxEvents)
    <3>1. owed' = owed \cup {<<s, c, published + 1>> : s \in SubscribedTo(c)}
      BY <2>1 DEF Publish
    <3>2. published < MaxEvents /\ published \in Nat
      BY <2>1 DEF Publish, Conn!Publish, TypeOK, Conn!TypeOK
    <3>3. published + 1 \in 1 .. MaxEvents
      BY <3>2, BoundsAssumption
    <3> QED BY <1>0, <3>1, <3>3 DEF SubscribedTo
  <2>2. CASE UNCHANGED vars
    BY <1>0, <2>2 DEF vars
  <2>3. CASE (ConnAlone /\ UpperUnchanged) \/ StopBroker
    BY <1>0, <2>3 DEF UpperUnchanged, StopBroker
  <2>4. CASE ~ Conn!Over /\ DispatchStep
    BY <1>0, <1>3, <2>4 DEF DispatchStep, BeginDispatch, EndDispatch
  <2>5. ASSUME NEW s \in Subscribers, CreateSubscriber(s) PROVE UNCHANGED owed
    BY <2>5 DEF CreateSubscriber
  <2>6. ASSUME NEW t \in Threads, ObjectStep(t) PROVE owed' \subseteq owed
    BY <2>6 DEF ObjectStep, Open, Close, Enter, EnterDestructor, RegisterCallback,
                RemoveCallback
  <2>7. ASSUME NEW t \in Threads, ManagerStep(t) \/ BrokerStep(t) PROVE UNCHANGED owed
    BY <2>7, ManagerSteps, BrokerSteps
  <2> QED BY <1>0, <2>1, <2>2, <2>3, <2>4, <2>5, <2>6, <2>7, Steps
<1> QED BY <1>1, <1>2, <1>4, <1>5

(***************************************************************************)
(* The locks.                                                              *)
(***************************************************************************)

\* A thread moves by steps of its own.
LEMMA OthersStay ==
    ASSUME TypeOK, TasksFit, NEW t \in Threads,
           ObjectStep(t) \/ ManagerStep(t) \/ BrokerStep(t)
    PROVE  /\ \A u \in Threads \ {t} :
                 /\ phase'[u] = phase[u] /\ task'[u] = task[u] /\ todo'[u] = todo[u]
                 /\ pc'[u] = pc[u] /\ op'[u] = op[u]
           /\ \A m \in Managers :
                 manager_lock'[m] # manager_lock[m] =>
                     /\ phase[t] \in {"manager", "broker", "connector"}
                     /\ m = Manager(t)
<1>0. /\ phase \in [Threads -> {"idle", "manager", "broker", "connector", "callbacks"}]
      /\ task \in [Threads -> Tasks] /\ todo \in [Threads -> SUBSET Channels]
      /\ manager_lock \in [Managers -> Threads \cup {NoCaller}]
      /\ pc \in [Threads -> Conn!Outside \cup Conn!Holding \cup {"lock"}]
      /\ op \in [Threads -> Conn!Commands]
  BY DEF TypeOK, Conn!TypeOK
<1> DEFINE Stay == /\ \A u \in Threads \ {t} :
                         /\ phase'[u] = phase[u] /\ task'[u] = task[u]
                         /\ todo'[u] = todo[u]
                   /\ \A m \in Managers :
                         manager_lock'[m] # manager_lock[m] => m = Manager(t)
           StayAtConn == \A u \in Threads \ {t} : pc'[u] = pc[u] /\ op'[u] = op[u]
<1>1. ASSUME NEW channels, ToBroker(t, channels) \/ Return(t) PROVE Stay
  BY <1>0, <1>1 DEF ToBroker, Return
<1>2. ASSUME UNCHANGED conn_vars PROVE StayAtConn
  BY <1>2 DEF conn_vars
<1>3. CASE ObjectStep(t)
  <2>1. UNCHANGED <<conn_vars, todo, manager_lock>>
    BY <1>3 DEF ObjectStep, Open, Close, Enter, EnterDestructor, RegisterCallback,
                RemoveCallback
  <2>2. \E ph, tk : /\ phase' = [phase EXCEPT ![t] = ph]
                    /\ task' = [task EXCEPT ![t] = tk]
    BY <1>3 DEF ObjectStep, Open, Close, Enter, EnterDestructor, RegisterCallback,
                RemoveCallback, Begin
  <2> QED BY <1>0, <1>2, <2>1, <2>2
<1>4. CASE ManagerStep(t)
  <2>1. /\ UNCHANGED conn_vars /\ phase[t] = "manager"
        /\ \E channels : ToBroker(t, channels)
    BY <1>4, ManagerSteps
  <2> QED BY <1>1, <1>2, <2>1
<1>5. CASE BrokerStep(t)
  <2>1. phase[t] \in {"broker", "connector"}
    BY <1>5, BrokerSteps
  <2>2. ASSUME NEW channels, ToBroker(t, channels) \/ Return(t), UNCHANGED conn_vars
        PROVE  Stay /\ StayAtConn
    BY <1>1, <1>2, <2>2
  <2>3. ASSUME NEW c, NEW kind, Conn!Call(t, kind, c),
               phase' = [phase EXCEPT ![t] = "connector"],
               todo' = [todo EXCEPT ![t] = @ \ {c}],
               UNCHANGED <<manager_lock, task>>
        PROVE  Stay /\ StayAtConn
    BY <1>0, <2>3 DEF Conn!Call
  <2>4. ASSUME UNCHANGED <<pc, op, manager_lock, phase, task, todo>>
        PROVE  Stay /\ StayAtConn
    BY <2>4
  <2> HIDE DEF Stay, StayAtConn
  <2>5. Stay /\ StayAtConn
    BY <1>5, <2>2, <2>3, <2>4, BrokerSteps
  <2> QED BY <2>1, <2>5 DEF Stay, StayAtConn
<1> QED BY <1>3, <1>4, <1>5

\* What a caller does at the connector.
LEMMA CallerSteps ==
    ASSUME TypeOK, NEW t \in Threads, Conn!CallerStep(t) \/ Conn!NotifyFails(t)
    PROVE  /\ AtConnector(t)
           /\ \A u \in Threads \ {t} : pc'[u] = pc[u] /\ op'[u] = op[u]
           /\ AtConnector(t)' => op'[t] = op[t]
           /\ UNCHANGED <<wire, server_channels, owner>>
           /\ failures' = failures =>
                 \/ pc'[t] = "refused"
                 \/ pc[t] \in {"lock", "check"} /\ AtConnector(t)'
                    /\ pc'[t] \notin P!Waits /\ UNCHANGED output
                 \/ pc[t] = "append" /\ pc'[t] = "notify"
                    /\ output' = Append(output, op[t])
                 \/ pc[t] \in {"notify", "spin"} /\ pc'[t] \in P!Waits
                    /\ UNCHANGED output
                 \/ pc[t] = "reset" /\ pc'[t] = "idle" /\ UNCHANGED output
           /\ failures' # failures => failures' # 0
           /\ pc'[t] = "failed" => failures' # 0
<1>0. /\ pc \in [Threads -> Conn!Outside \cup Conn!Holding \cup {"lock"}]
      /\ op \in [Threads -> Conn!Commands]
      /\ failures \in Nat
  BY DEF TypeOK, Conn!TypeOK
<1> USE DEF AtConnector, P!Waits, Conn!CallerUnchanged, Conn!connection
<1>1. CASE Conn!Lock(t)
  BY <1>0, <1>1 DEF Conn!Lock
<1>2. CASE Conn!CheckPasses(t)
  BY <1>0, <1>2 DEF Conn!CheckPasses
<1>3. CASE Conn!CheckThrows(t)
  BY <1>0, <1>3 DEF Conn!CheckThrows
<1>4. CASE Conn!AppendCommand(t)
  BY <1>0, <1>4 DEF Conn!AppendCommand
<1>5. CASE Conn!Notify(t)
  BY <1>0, <1>5 DEF Conn!Notify
<1>6. CASE Conn!Spin(t)
  BY <1>0, <1>6 DEF Conn!Spin
<1>7. CASE Conn!Reset(t)
  BY <1>0, <1>7 DEF Conn!Reset
<1>8. CASE Conn!NotifyFails(t)
  BY <1>0, <1>8 DEF Conn!NotifyFails
<1> QED BY <1>1, <1>2, <1>3, <1>4, <1>5, <1>6, <1>7, <1>8 DEF Conn!CallerStep

\* The other steps of the connector leave the callers where they are.
LEMMA CallersStay ==
    ASSUME [Next]_vars
    PROVE  \/ UNCHANGED <<pc, op, thread_vars>>
           \/ \E t \in Threads :
                 /\ Conn!CallerStep(t) \/ Conn!NotifyFails(t)
                 /\ UNCHANGED <<object_vars, thread_vars>>
                 /\ ~ Conn!Over
           \/ /\ ~ Conn!Over
              /\ \E t \in Threads : ObjectStep(t) \/ ManagerStep(t) \/ BrokerStep(t)
<1>1. CASE UNCHANGED vars
  BY <1>1 DEF vars, conn_vars
<1>2. CASE ConnAlone /\ UpperUnchanged /\ ~ Conn!Over
  BY <1>2 DEF ConnAlone, UpperUnchanged, Conn!ServerExecutes, Conn!WorkerLoop,
              Conn!WriteCommand, Conn!BlockInRead, Conn!ReceiveTechnical,
              Conn!ReceiveEvent, Conn!ReceiveMeta, Conn!ReceiveMetaThrows,
              Conn!ConsumeReturns, Conn!Receives, Conn!WorkerUnchanged, Conn!OwnerStep,
              Conn!HandshakeNotify, Conn!Constructed, Conn!Wake, Conn!Join,
              Conn!OwnerUnchanged, Conn!OwnerNotifyFails
<1>3. CASE StopBroker
  BY <1>3 DEF StopBroker, UpperUnchanged, Conn!Stop, Conn!OwnerUnchanged
<1>4. CASE DispatchStep
  BY <1>4 DEF DispatchStep, BeginDispatch, OnMessage, EndDispatch, conn_vars,
              Conn!CallbackReturns, Conn!WorkerUnchanged
<1>5. ASSUME NEW s \in Subscribers, CreateSubscriber(s)
      PROVE  UNCHANGED <<pc, op, thread_vars>>
  BY <1>5 DEF CreateSubscriber, conn_vars
<1>6. ASSUME NEW c \in Channels, Publish(c) PROVE UNCHANGED <<pc, op, thread_vars>>
  BY <1>6 DEF Publish, Conn!Publish
<1> QED BY <1>1, <1>2, <1>3, <1>4, <1>5, <1>6, Steps

\* Every step respects the locks.
LEMMA NextLock ==
    ASSUME TypeOK, TasksFit, LockDiscipline, [Next]_vars
    PROVE  LockDiscipline'
<1>0. /\ phase \in [Threads -> {"idle", "manager", "broker", "connector", "callbacks"}]
      /\ task \in [Threads -> Tasks] /\ todo \in [Threads -> SUBSET Channels]
      /\ manager_lock \in [Managers -> Threads \cup {NoCaller}]
      /\ NoCaller \notin Threads
  BY NamesAssumption DEF TypeOK
<1>1. ASSUME UNCHANGED thread_vars, worker' # "terminated" => worker # "terminated",
             \A t \in Threads : AtConnector(t)' => AtConnector(t)
      PROVE  LockDiscipline'
  BY <1>1 DEF LockDiscipline, Inside, Manager, thread_vars
<1>2. worker' # "terminated" => worker # "terminated"
  <2>1. Conn!Over \/ worker # "terminated"
    BY DEF Conn!Over
  <2>2. UNCHANGED vars => UNCHANGED worker
    BY DEF vars, conn_vars
  <2> QED BY <2>1, <2>2, Steps DEF Conn!Over
<1>3. ASSUME NEW t \in Threads, Conn!CallerStep(t) \/ Conn!NotifyFails(t),
             UNCHANGED thread_vars
      PROVE  LockDiscipline'
  <2>1. \A u \in Threads : AtConnector(u)' => AtConnector(u)
    BY <1>3, CallerSteps DEF AtConnector
  <2> QED BY <1>1, <1>2, <1>3, <2>1
<1>4. ASSUME UNCHANGED <<pc, op, thread_vars>> PROVE LockDiscipline'
  BY <1>1, <1>2, <1>4 DEF AtConnector
<1>5. ASSUME NEW t \in Threads, ObjectStep(t) \/ ManagerStep(t) \/ BrokerStep(t),
             Inside(t)' => manager_lock'[Manager(t)'] = t,
             phase'[t] = "connector" /\ worker' # "terminated" => broker_lock' = t,
             AtConnector(t)' => phase'[t] = "connector",
             \A u \in Threads \ {t} : Inside(u) => Manager(u) # Manager(t)
                                         \/ UNCHANGED manager_lock,
             \A u \in Threads \ {t} : phase[u] = "connector" /\ worker # "terminated" =>
                                          UNCHANGED broker_lock \/ worker' = "terminated"
      PROVE  LockDiscipline'
  <2>1. ASSUME NEW u \in Threads \ {t}
        PROVE  /\ Inside(u)' => manager_lock'[Manager(u)'] = u
               /\ phase'[u] = "connector" /\ worker' # "terminated" => broker_lock' = u
               /\ AtConnector(u)' => phase'[u] = "connector"
    <3>1. /\ phase'[u] = phase[u] /\ task'[u] = task[u] /\ pc'[u] = pc[u]
          /\ Inside(u)' <=> Inside(u)
          /\ Manager(u)' = Manager(u)
          /\ AtConnector(u)' <=> AtConnector(u)
      BY <1>5, OthersStay DEF Inside, Manager, AtConnector
    <3>2. Inside(u) => Manager(u) \in Managers
      BY Operands DEF Inside
    <3>3. Inside(u) => manager_lock'[Manager(u)] = manager_lock[Manager(u)]
      BY <1>5, <3>2, OthersStay
    <3>4. Inside(u)' => manager_lock'[Manager(u)'] = u
      BY <3>1, <3>3 DEF LockDiscipline
    <3>5. phase'[u] = "connector" /\ worker' # "terminated" => broker_lock' = u
      BY <1>2, <1>5, <3>1 DEF LockDiscipline
    <3>6. AtConnector(u)' => phase'[u] = "connector"
      BY <3>1 DEF LockDiscipline
    <3> QED BY <3>4, <3>5, <3>6
  <2> QED BY <1>5, <2>1 DEF LockDiscipline
<1>6. ASSUME NEW t \in Threads, ObjectStep(t) PROVE LockDiscipline'
  <2>1. UNCHANGED <<conn_vars, todo, manager_lock, broker_lock>>
    BY <1>6 DEF ObjectStep, Open, Close, Enter, EnterDestructor, RegisterCallback,
                RemoveCallback
  <2>2. /\ phase[t] \in {"idle", "callbacks"}
        /\ phase'[t] \in {"idle", "callbacks", "manager"}
    BY <1>0, <1>6 DEF ObjectStep, Open, Close, Enter, EnterDestructor, RegisterCallback,
                      RemoveCallback, Begin, Busy
  <2>3. ~ AtConnector(t)' /\ ~ Inside(t)'
    BY <2>1, <2>2 DEF LockDiscipline, AtConnector, Inside, conn_vars
  <2> QED BY <1>5, <1>6, <2>1, <2>2, <2>3
<1>7. ASSUME NEW t \in Threads, NEW channels, ToBroker(t, channels) \/ Return(t),
             phase[t] \in {"manager", "broker", "connector"}
      PROVE  /\ Inside(t)' => manager_lock'[Manager(t)'] = t
             /\ phase'[t] # "connector"
  <2>1. Manager(t) \in Managers
    BY <1>7, Operands
  <2>2. Return(t) => phase'[t] = "idle"
    BY <1>0 DEF Return
  <2>3. channels # {} /\ ToBroker(t, channels) =>
           /\ phase'[t] = "broker" /\ task' = task
           /\ manager_lock' = [manager_lock EXCEPT ![Manager(t)] = t]
    BY <1>0 DEF ToBroker
  <2>4. channels # {} /\ ToBroker(t, channels) =>
           manager_lock'[Manager(t)'] = t
    BY <1>0, <2>1, <2>3 DEF Manager
  <2> QED BY <1>7, <2>2, <2>3, <2>4 DEF ToBroker, Inside
<1>8. ASSUME NEW t \in Threads, ManagerStep(t) PROVE LockDiscipline'
  <2>1. /\ UNCHANGED <<conn_vars, broker_lock>>
        /\ phase[t] = "manager" /\ manager_lock[Manager(t)] = NoCaller
        /\ \E channels : ToBroker(t, channels)
    BY <1>8, ManagerSteps
  <2>2. \A u \in Threads : Inside(u) => Manager(u) # Manager(t)
    BY <1>0, <2>1 DEF LockDiscipline
  <2>3. ~ AtConnector(t)'
    BY <2>1 DEF LockDiscipline, AtConnector, conn_vars
  <2> QED BY <1>5, <1>7, <1>8, <2>1, <2>2, <2>3
<1>9. ASSUME NEW t \in Threads, BrokerStep(t), ~ Conn!Over PROVE LockDiscipline'
  <2>0. worker # "terminated"
    BY <1>9 DEF Conn!Over
  <2>1. /\ phase[t] \in {"broker", "connector"}
        /\ phase[t] = "broker" => broker_lock = NoCaller
        /\ phase[t] = "connector" => ~ AtConnector(t)
    BY <1>9, BrokerSteps DEF AtConnector
  <2>2. \A u \in Threads \ {t} : Inside(u) => Manager(u) # Manager(t)
    BY <2>1 DEF LockDiscipline, Inside
  <2>3. \A u \in Threads \ {t} : phase[u] # "connector"
    BY <1>0, <2>0, <2>1 DEF LockDiscipline
  <2>4. ~ AtConnector(t)
    BY <2>1 DEF LockDiscipline
  <2>5. ASSUME NEW channels, ToBroker(t, channels) \/ Return(t), UNCHANGED conn_vars
        PROVE  LockDiscipline'
    <3>1. ~ AtConnector(t)'
      BY <2>4, <2>5 DEF AtConnector, conn_vars
    <3> QED BY <1>5, <1>7, <1>9, <2>1, <2>2, <2>3, <2>5, <3>1
  <2>6. ASSUME NEW c, NEW kind, Conn!Call(t, kind, c), broker_lock' = t,
               phase' = [phase EXCEPT ![t] = "connector"],
               UNCHANGED <<manager_lock, task>>
        PROVE  LockDiscipline'
    <3>1. phase'[t] = "connector" /\ Manager(t)' = Manager(t)
      BY <1>0, <2>6 DEF Manager
    <3>2. manager_lock'[Manager(t)'] = t
      BY <2>1, <2>6, <3>1 DEF LockDiscipline, Inside
    <3> QED BY <1>5, <1>9, <2>3, <2>6, <3>1, <3>2
  <2>7. ASSUME UNCHANGED <<pc, manager_lock, phase, task>>, worker' = "terminated"
        PROVE  LockDiscipline'
    BY <2>7 DEF LockDiscipline, Inside, AtConnector, Manager
  <2> QED BY <1>9, <2>5, <2>6, <2>7, BrokerSteps
<1> QED BY <1>3, <1>4, <1>6, <1>8, <1>9, CallersStay

(***************************************************************************)
(* The counts.                                                             *)
(***************************************************************************)

\* Two threads inside with one manager are the same.
LEMMA OneInManager ==
    ASSUME LockDiscipline, NEW t \in Threads, NEW u \in Threads, Inside(t), Inside(u),
           Manager(t) = Manager(u)
    PROVE  t = u
<1> QED BY DEF LockDiscipline

\* A step that changes neither the lists nor what is to be counted changes nothing.
LEMMA CountedUnchanged ==
    ASSUME UNCHANGED handlers,
           \A u \in Threads :
              /\ Inside(u)' => Inside(u) /\ Manager(u)' = Manager(u)
                               /\ task'[u] = task[u] /\ todo'[u] = todo[u]
              /\ Inside(u) => Inside(u)' \/ todo[u] = {}
    PROVE  /\ \A c \in Channels : CountedFor(c)' = CountedFor(c)
           /\ ChangeMade => ChangeMade'
<1>1. ASSUME NEW m \in Managers, NEW c \in Channels
      PROVE  ToBeCounted(m, c)' <=> ToBeCounted(m, c)
  BY DEF ToBeCounted
<1>2. \A c \in Channels : CountedFor(c)' = CountedFor(c)
  BY <1>1 DEF CountedFor
<1>3. ChangeMade => ChangeMade'
  BY DEF ChangeMade
<1> QED BY <1>2, <1>3

\* A step of a manager empties or begins lists and promises to have that counted.
LEMMA CountManagerStep ==
    ASSUME TypeOK, TasksFit, LockDiscipline, ChangeMade,
           NEW t \in Threads, ManagerStep(t)
    PROVE  /\ \A c \in Channels : CountedFor(c)' = CountedFor(c)
           /\ ChangeMade'
<1> DEFINE m == Manager(t)
<1>0. /\ phase \in [Threads -> {"idle", "manager", "broker", "connector", "callbacks"}]
      /\ task \in [Threads -> Tasks] /\ todo \in [Threads -> SUBSET Channels]
      /\ handlers \in [Managers -> [Channels -> Seq(Subscribers)]]
      /\ NoCaller \notin Threads
  BY NamesAssumption DEF TypeOK
<1>1. PICK left \in [Channels -> Seq(Subscribers)], channels \in SUBSET Channels :
         /\ handlers' = [handlers EXCEPT ![m] = left]
         /\ ToBroker(t, channels)
         /\ Left(t, left, channels)
  BY ManagerSteps
<1>2. /\ phase[t] = "manager" /\ manager_lock[m] = NoCaller
      /\ m \in Managers
      /\ task[t].kind # "destroy" => task[t] \in Calls /\ task[t].channel \in Channels
  BY ManagerSteps, Operands
<1>3. \A u \in Threads \ {t} :
         /\ Inside(u)' <=> Inside(u)
         /\ Manager(u)' = Manager(u) /\ todo'[u] = todo[u] /\ task'[u] = task[u]
  BY OthersStay DEF Inside, Manager
<1>4. /\ \A u \in Threads : Inside(u) => Manager(u) # m
      /\ ~ Inside(t)
  BY <1>0, <1>2 DEF LockDiscipline, Inside
<1>5. /\ handlers'[m] = left
      /\ \A n \in Managers \ {m} : handlers'[n] = handlers[n]
  BY <1>0, <1>1, <1>2
<1>6. /\ channels = {} => ~ Inside(t)'
      /\ channels # {} => /\ Inside(t)' /\ todo'[t] = channels
                          /\ task'[t] = task[t] /\ Manager(t)' = m
  <2>1. channels = {} => phase'[t] = "idle"
    BY <1>0, <1>1 DEF ToBroker, Return
  <2>2. channels # {} => /\ phase'[t] = "broker" /\ todo'[t] = channels
                         /\ task' = task
    BY <1>0, <1>1 DEF ToBroker
  <2> QED BY <2>1, <2>2 DEF Inside, Manager
<1> HIDE DEF m
<1>7. ASSUME NEW n \in Managers, NEW c \in Channels
      PROVE  (handlers'[n][c] # <<>> <=> ToBeCounted(n, c)')
                 <=> (handlers[n][c] # <<>> <=> ToBeCounted(n, c))
  <2>1. CASE n = m
    <3>1. ~ ToBeCounted(n, c)
      BY <1>4, <2>1 DEF ToBeCounted
    <3>2. ToBeCounted(n, c)' <=> c \in channels
      BY <1>3, <1>4, <1>6, <2>1 DEF ToBeCounted
    <3>3. c \in channels <=> ~ (left[c] = <<>> <=> handlers[m][c] = <<>>)
      BY <1>1 DEF Left, m
    <3> QED BY <1>5, <2>1, <3>1, <3>2, <3>3
  <2>2. CASE n # m
    <3>1. ToBeCounted(n, c)' <=> ToBeCounted(n, c)
      BY <1>3, <1>4, <1>6, <2>2 DEF ToBeCounted
    <3> QED BY <1>5, <2>2, <3>1
  <2> QED BY <2>1, <2>2
<1>8. \A c \in Channels : CountedFor(c)' = CountedFor(c)
  BY <1>7 DEF CountedFor
<1>9. ASSUME NEW u \in Threads, Inside(u)'
      PROVE  IF task'[u].kind = "subscribe"
             THEN handlers'[Manager(u)'][task'[u].channel] = <<task'[u].subscriber>>
             ELSE \A c \in todo'[u] : handlers'[Manager(u)'][c] = <<>>
  <2>1. CASE u = t
    <3>1. /\ channels # {} /\ todo'[t] = channels /\ task'[t] = task[t]
          /\ Manager(t)' = m
      BY <1>6, <1>9, <2>1
    <3>2. CASE task[t].kind = "subscribe"
      <4>1. channels = {task[t].channel}
        BY <1>1, <1>2, <3>1, <3>2 DEF Left
      <4>2. left[task[t].channel] = <<task[t].subscriber>>
        BY <1>1, <1>2, <3>2, <4>1 DEF Left
      <4> QED BY <1>5, <2>1, <3>1, <3>2, <4>2
    <3>3. CASE task[t].kind # "subscribe"
      <4>1. \A c \in channels : left[c] = <<>>
        BY <1>1, <3>3 DEF Left
      <4> QED BY <1>5, <2>1, <3>1, <3>3, <4>1
    <3> QED BY <3>2, <3>3
  <2>2. CASE u # t
    <3>1. /\ Inside(u) /\ Manager(u)' = Manager(u) /\ Manager(u) # m
          /\ todo'[u] = todo[u] /\ task'[u] = task[u]
      BY <1>3, <1>4, <1>9, <2>2
    <3>2. Manager(u) \in Managers
      BY <3>1, Operands DEF Inside
    <3>3. handlers'[Manager(u)] = handlers[Manager(u)]
      BY <1>5, <3>1, <3>2
    <3> QED BY <3>1, <3>3 DEF ChangeMade
  <2> QED BY <2>1, <2>2
<1> QED BY <1>8, <1>9 DEF ChangeMade

\* A step of the broker that counts: the change of one manager for one channel.
LEMMA CountBrokerStep ==
    ASSUME TypeOK, TasksFit, LockDiscipline, ChangeMade,
           NEW t \in Threads, BrokerStep(t), phase[t] = "broker"
    PROVE  /\ ChangeMade'
           /\ \E c \in Channels, m \in Managers :
                 /\ \A d \in Channels \ {c} : CountedFor(d)' = CountedFor(d)
                 /\ \/ /\ task[t].kind = "subscribe"
                       /\ m \notin CountedFor(c)
                       /\ CountedFor(c)' = CountedFor(c) \cup {m}
                       /\ count' = [count EXCEPT ![c] = @ + 1]
                    \/ /\ task[t].kind # "subscribe"
                       /\ m \in CountedFor(c)
                       /\ CountedFor(c)' = CountedFor(c) \ {m}
                       /\ count' = [count EXCEPT ![c] = @ - 1]
<1>0. /\ phase \in [Threads -> {"idle", "manager", "broker", "connector", "callbacks"}]
      /\ task \in [Threads -> Tasks] /\ todo \in [Threads -> SUBSET Channels]
  BY DEF TypeOK
<1>1. /\ UNCHANGED handlers
      /\ \E c \in todo[t], kind \in {"subscribe", "unsubscribe"} :
            /\ c \in Channels
            /\ kind = "subscribe" <=> task[t].kind = "subscribe"
            /\ task[t] \in Calls => task[t].channel = c
            /\ count' = [count EXCEPT ![c] = IF kind = "subscribe"
                                             THEN @ + 1 ELSE @ - 1]
            /\ \/ /\ phase' = [phase EXCEPT ![t] = "connector"]
                  /\ todo' = [todo EXCEPT ![t] = @ \ {c}]
                  /\ UNCHANGED task
               \/ ToBroker(t, todo[t] \ {c})
  BY BrokerSteps
<1>2. PICK c \in todo[t] :
         /\ c \in Channels
         /\ task[t] \in Calls => task[t].channel = c
         /\ count' = [count EXCEPT ![c] = IF task[t].kind = "subscribe"
                                          THEN @ + 1 ELSE @ - 1]
         /\ \/ /\ phase' = [phase EXCEPT ![t] = "connector"]
               /\ todo' = [todo EXCEPT ![t] = @ \ {c}]
               /\ UNCHANGED task
            \/ ToBroker(t, todo[t] \ {c})
  BY <1>1
<1> DEFINE m == Manager(t)
<1>3. /\ todo'[t] = todo[t] \ {c}
      /\ Inside(t)' \/ todo'[t] = {}
      /\ Inside(t)' => task'[t] = task[t] /\ Manager(t)' = m
  <2>1. CASE /\ phase' = [phase EXCEPT ![t] = "connector"]
             /\ todo' = [todo EXCEPT ![t] = @ \ {c}]
             /\ UNCHANGED task
    BY <1>0, <2>1 DEF Inside, Manager
  <2>2. CASE ToBroker(t, todo[t] \ {c}) /\ todo[t] \ {c} # {}
    BY <1>0, <2>2 DEF ToBroker, Inside, Manager
  <2>3. CASE ToBroker(t, todo[t] \ {c}) /\ todo[t] \ {c} = {}
    <3>1. phase'[t] = "idle" /\ todo'[t] = {}
      BY <1>0, <2>3 DEF ToBroker, Return
    <3> QED BY <2>3, <3>1 DEF Inside
  <2> QED BY <1>2, <2>1, <2>2, <2>3
<1>4. \A u \in Threads \ {t} :
         /\ Inside(u)' <=> Inside(u)
         /\ Manager(u)' = Manager(u) /\ todo'[u] = todo[u] /\ task'[u] = task[u]
  BY OthersStay DEF Inside, Manager
<1>5. /\ Inside(t) /\ m \in Managers
      /\ task[t].kind = "subscribe" => task[t] \in Calls
  BY Operands DEF Inside
<1>6. \A u \in Threads \ {t} : Inside(u) => Manager(u) # m
  BY <1>5, OneInManager
<1>7. (handlers[m][c] # <<>>) <=> (task[t].kind = "subscribe")
  <2>1. task[t].kind = "subscribe" =>
           handlers[m][c] = <<task[t].subscriber>>
    BY <1>2, <1>5 DEF ChangeMade
  <2>2. <<task[t].subscriber>> # <<>>
    BY SingleElement
  <2> QED BY <1>2, <1>5, <2>1, <2>2 DEF ChangeMade
<1> HIDE DEF m
<1>8. ASSUME NEW n \in Managers, NEW d \in Channels
      PROVE  ToBeCounted(n, d)' <=> ToBeCounted(n, d) /\ ~ (n = m /\ d = c)
  <2>1. CASE n = m
    <3>1. ToBeCounted(n, d) <=> d \in todo[t]
      BY <1>5, <1>6, <2>1 DEF ToBeCounted, m
    <3>2. ToBeCounted(n, d)' <=> d \in todo'[t]
      BY <1>3, <1>4, <1>6, <2>1 DEF ToBeCounted
    <3> QED BY <1>3, <2>1, <3>1, <3>2
  <2>2. CASE n # m
    BY <1>3, <1>4, <1>5, <2>2 DEF ToBeCounted, m
  <2> QED BY <2>1, <2>2
<1>9. ToBeCounted(m, c)
  BY <1>2, <1>5 DEF ToBeCounted, m
<1>10. ASSUME NEW n \in Managers, NEW d \in Channels, n # m \/ d # c
       PROVE  n \in CountedFor(d)' <=> n \in CountedFor(d)
  BY <1>1, <1>8, <1>10 DEF CountedFor
<1>11. /\ m \in CountedFor(c)' <=> task[t].kind = "subscribe"
       /\ m \in CountedFor(c) <=> task[t].kind # "subscribe"
  BY <1>1, <1>2, <1>5, <1>7, <1>8, <1>9 DEF CountedFor
<1>12. \A d \in Channels : /\ CountedFor(d) \subseteq Managers
                           /\ CountedFor(d)' \subseteq Managers
  BY DEF CountedFor
<1>13. \A d \in Channels \ {c} : CountedFor(d)' = CountedFor(d)
  BY <1>10, <1>12
<1>14. task[t].kind = "subscribe" => CountedFor(c)' = CountedFor(c) \cup {m}
  BY <1>2, <1>5, <1>10, <1>11, <1>12
<1>15. task[t].kind # "subscribe" => CountedFor(c)' = CountedFor(c) \ {m}
  BY <1>2, <1>5, <1>10, <1>11, <1>12
<1>16. ChangeMade'
  BY <1>1, <1>3, <1>4, <1>5 DEF ChangeMade, m
<1> QED BY <1>2, <1>5, <1>11, <1>13, <1>14, <1>15, <1>16

\* Every step keeps the broker's counts in agreement with the lists of the managers,
\* so no count goes below zero.
LEMMA NextCount ==
    ASSUME TypeOK, TasksFit, LockDiscipline, ChangeMade, CountIsOfManagers, [Next]_vars
    PROVE  ChangeMade' /\ CountIsOfManagers' /\ count' \in [Channels -> Nat]
<1>0. /\ phase \in [Threads -> {"idle", "manager", "broker", "connector", "callbacks"}]
      /\ task \in [Threads -> Tasks] /\ todo \in [Threads -> SUBSET Channels]
      /\ count \in [Channels -> Nat]
  BY DEF TypeOK
<1>1. ASSUME UNCHANGED count, ChangeMade',
             \A c \in Channels : CountedFor(c)' = CountedFor(c)
      PROVE  ChangeMade' /\ CountIsOfManagers' /\ count' \in [Channels -> Nat]
  BY <1>0, <1>1 DEF CountIsOfManagers
<1>2. ASSUME NEW t \in Threads, ObjectStep(t)
      PROVE  ChangeMade' /\ CountIsOfManagers' /\ count' \in [Channels -> Nat]
  <2>1. UNCHANGED <<handlers, count>>
    BY <1>2 DEF ObjectStep, Open, Close, Enter, EnterDestructor, RegisterCallback,
                RemoveCallback
  <2>2. /\ phase[t] \in {"idle", "callbacks"}
        /\ phase'[t] \in {"idle", "callbacks", "manager"}
    BY <1>0, <1>2 DEF ObjectStep, Open, Close, Enter, EnterDestructor, RegisterCallback,
                      RemoveCallback, Begin, Busy
  <2>3. ~ Inside(t) /\ ~ Inside(t)'
    BY <2>2 DEF Inside
  <2>4. \A u \in Threads \ {t} :
           /\ Inside(u)' <=> Inside(u)
           /\ Manager(u)' = Manager(u) /\ todo'[u] = todo[u] /\ task'[u] = task[u]
    BY <1>2, OthersStay DEF Inside, Manager
  <2> QED BY <1>1, <2>1, <2>3, <2>4, CountedUnchanged
<1>3. ASSUME NEW t \in Threads, ManagerStep(t)
      PROVE  ChangeMade' /\ CountIsOfManagers' /\ count' \in [Channels -> Nat]
  BY <1>1, <1>3, CountManagerStep, ManagerSteps
<1>4. ASSUME NEW t \in Threads, BrokerStep(t), phase[t] = "broker"
      PROVE  ChangeMade' /\ CountIsOfManagers' /\ count' \in [Channels -> Nat]
  <2>1. PICK c \in Channels, m \in Managers :
           /\ \A d \in Channels \ {c} : CountedFor(d)' = CountedFor(d)
           /\ \/ /\ task[t].kind = "subscribe"
                 /\ m \notin CountedFor(c)
                 /\ CountedFor(c)' = CountedFor(c) \cup {m}
                 /\ count' = [count EXCEPT ![c] = @ + 1]
              \/ /\ task[t].kind # "subscribe"
                 /\ m \in CountedFor(c)
                 /\ CountedFor(c)' = CountedFor(c) \ {m}
                 /\ count' = [count EXCEPT ![c] = @ - 1]
    BY <1>4, CountBrokerStep
  <2>2. ChangeMade'
    BY <1>4, CountBrokerStep
  <2>3. \A d \in Channels : /\ IsFiniteSet(CountedFor(d))
                            /\ count[d] = Cardinality(CountedFor(d))
    BY DEF CountIsOfManagers
  <2>4. /\ IsFiniteSet(CountedFor(c)')
        /\ Cardinality(CountedFor(c)') = count'[c]
    <3>1. CASE task[t].kind = "subscribe"
      <4>1. /\ IsFiniteSet(CountedFor(c) \cup {m})
            /\ Cardinality(CountedFor(c) \cup {m}) = Cardinality(CountedFor(c)) + 1
        BY <2>1, <2>3, <3>1, FS_AddElement
      <4> QED BY <1>0, <2>1, <2>3, <3>1, <4>1
    <3>2. CASE task[t].kind # "subscribe"
      <4>1. /\ IsFiniteSet(CountedFor(c) \ {m})
            /\ Cardinality(CountedFor(c) \ {m}) = Cardinality(CountedFor(c)) - 1
        BY <2>1, <2>3, <3>2, FS_RemoveElement
      <4> QED BY <1>0, <2>1, <2>3, <3>2, <4>1
    <3> QED BY <3>1, <3>2
  <2>5. /\ count' \in [Channels -> Int]
        /\ \A d \in Channels \ {c} : count'[d] = count[d]
    BY <1>0, <2>1
  <2>6. \A d \in Channels : /\ IsFiniteSet(CountedFor(d)')
                            /\ count'[d] = Cardinality(CountedFor(d)')
    BY <2>1, <2>3, <2>4, <2>5
  <2>7. \A d \in Channels : count'[d] \in Nat
    BY <2>6, FS_CardinalityType
  <2> QED BY <2>2, <2>5, <2>6, <2>7 DEF CountIsOfManagers
<1>5. ASSUME NEW t \in Threads, BrokerStep(t), phase[t] # "broker"
      PROVE  ChangeMade' /\ CountIsOfManagers' /\ count' \in [Channels -> Nat]
  <2>1. UNCHANGED <<handlers, count>> /\ phase[t] = "connector"
    BY <1>5, BrokerSteps
  <2>2. \A u \in Threads \ {t} :
           /\ Inside(u)' <=> Inside(u)
           /\ Manager(u)' = Manager(u) /\ todo'[u] = todo[u] /\ task'[u] = task[u]
    BY <1>5, OthersStay DEF Inside, Manager
  <2>3. Inside(t) /\ (task[t].kind # "destroy" => todo[t] = {})
    <3>1. task[t].kind # "destroy" => task[t] \in Calls
      BY <2>1, Operands
    <3> QED BY <2>1, <3>1 DEF Inside, TasksFit
  <2>4. /\ Inside(t)' => Manager(t)' = Manager(t) /\ task'[t] = task[t]
                         /\ todo'[t] = todo[t]
        /\ Inside(t)' \/ todo[t] = {}
    <3>1. CASE Return(t) /\ task[t].kind # "destroy"
      <4>1. phase'[t] = "idle"
        BY <1>0, <3>1 DEF Return
      <4> QED BY <2>3, <3>1, <4>1 DEF Inside
    <3>2. CASE ToBroker(t, todo[t]) /\ todo[t] = {}
      <4>1. phase'[t] = "idle"
        BY <1>0, <3>2 DEF ToBroker, Return
      <4> QED BY <3>2, <4>1 DEF Inside
    <3>3. CASE ToBroker(t, todo[t]) /\ todo[t] # {}
      BY <1>0, <3>3 DEF ToBroker, Inside, Manager
    <3>4. CASE UNCHANGED <<phase, task, todo>>
      BY <2>3, <3>4 DEF Inside, Manager
    <3> QED BY <1>5, <3>1, <3>2, <3>3, <3>4, BrokerSteps
  <2> QED BY <1>1, <2>1, <2>2, <2>3, <2>4, CountedUnchanged
<1>6. ASSUME UNCHANGED thread_vars
      PROVE  ChangeMade' /\ CountIsOfManagers' /\ count' \in [Channels -> Nat]
  <2>1. \A u \in Threads :
           /\ Inside(u)' <=> Inside(u)
           /\ Manager(u)' = Manager(u) /\ todo'[u] = todo[u] /\ task'[u] = task[u]
    BY <1>6 DEF Inside, Manager, thread_vars
  <2> QED BY <1>1, <1>6, <2>1, CountedUnchanged DEF thread_vars
<1> QED BY <1>2, <1>3, <1>4, <1>5, <1>6, ThreadsUndisturbed

\* Every variable keeps its type.
LEMMA NextType ==
    ASSUME TypeOK, TasksFit, LockDiscipline, ChangeMade, CountIsOfManagers,
           RegisteredExist, EventsNumbered, P!QuietIInv, FailuresCounted, [Next]_vars
    PROVE  TypeOK'
<1>1. Conn!TypeOK'
  BY ConnInv
<1>2. ThreadsTyped'
  BY NextTasks
<1>3. count' \in [Channels -> Nat]
  BY NextCount
<1> QED BY <1>1, <1>2, <1>3, NextUpperType DEF TypeOK, ThreadsTyped

(***************************************************************************)
(* The server.                                                             *)
(***************************************************************************)

\* Only one thread is at the connector.
LEMMA OneAtConnector ==
    ASSUME LockDiscipline, ~ Conn!Over, NEW t \in Threads, NEW u \in Threads,
           phase[t] = "connector", phase[u] = "connector"
    PROVE  t = u
<1> QED BY DEF LockDiscipline, Conn!Over

\* A call that has reached the connector is about a channel whose count is 0 or 1.
LEMMA NextCalls ==
    ASSUME TypeOK, TasksFit, LockDiscipline, CallsCounted, [Next]_vars
    PROVE  CallsCounted'
<1>0. /\ phase \in [Threads -> {"idle", "manager", "broker", "connector", "callbacks"}]
      /\ task \in [Threads -> Tasks] /\ todo \in [Threads -> SUBSET Channels]
      /\ count \in [Channels -> Nat]
      /\ op \in [Threads -> Conn!Commands]
      /\ pc \in [Threads -> Conn!Outside \cup Conn!Holding \cup {"lock"}]
  BY DEF TypeOK, Conn!TypeOK
<1>1. ASSUME UNCHANGED <<count, task>>,
             \A t \in Threads : AtConnector(t)' => AtConnector(t) /\ op'[t] = op[t]
      PROVE  CallsCounted'
  BY <1>1 DEF CallsCounted
<1>2. CASE UNCHANGED <<pc, op, thread_vars>>
  BY <1>1, <1>2 DEF AtConnector, thread_vars
<1>3. ASSUME NEW t \in Threads, Conn!CallerStep(t) \/ Conn!NotifyFails(t),
             UNCHANGED thread_vars
      PROVE  CallsCounted'
  <2>1. \A u \in Threads : AtConnector(u)' => AtConnector(u) /\ op'[u] = op[u]
    BY <1>3, CallerSteps DEF AtConnector
  <2> QED BY <1>1, <1>3, <2>1 DEF thread_vars
<1>4. ASSUME NEW t \in Threads, ObjectStep(t) \/ ManagerStep(t) PROVE CallsCounted'
  <2>1. UNCHANGED <<pc, op, count>>
    <3>1. ObjectStep(t) => UNCHANGED <<conn_vars, count>>
      BY DEF ObjectStep, Open, Close, Enter, EnterDestructor, RegisterCallback,
             RemoveCallback
    <3> QED BY <1>4, <3>1, ManagerSteps DEF conn_vars
  <2>2. phase[t] # "connector"
    BY <1>0, <1>4, ManagerSteps
    DEF ObjectStep, Open, Close, Enter, EnterDestructor, RegisterCallback,
        RemoveCallback, Begin, Busy
  <2>3. ~ AtConnector(t)
    BY <2>2 DEF LockDiscipline
  <2>4. ASSUME NEW u \in Threads, AtConnector(u)'
        PROVE  AtConnector(u) /\ task'[u] = task[u]
    <3>1. AtConnector(u) /\ u # t
      BY <2>1, <2>3, <2>4 DEF AtConnector
    <3> QED BY <1>4, <3>1, OthersStay
  <2> QED BY <2>1, <2>4 DEF CallsCounted
<1>5. ASSUME NEW t \in Threads, BrokerStep(t), ~ Conn!Over PROVE CallsCounted'
  <2>1. /\ phase[t] \in {"broker", "connector"}
        /\ phase[t] = "broker" => broker_lock = NoCaller
        /\ phase[t] = "connector" => ~ AtConnector(t)
    BY <1>5, BrokerSteps DEF AtConnector
  <2>2. ASSUME NEW u \in Threads PROVE ~ AtConnector(u)
    <3>1. AtConnector(u) => phase[u] = "connector" /\ broker_lock = u
      BY <1>5 DEF LockDiscipline, Conn!Over
    <3> QED BY <2>1, <3>1, NamesAssumption, OneAtConnector, <1>5
  <2>3. ASSUME UNCHANGED pc PROVE CallsCounted'
    BY <2>2, <2>3 DEF CallsCounted, AtConnector
  <2>4. ASSUME NEW c \in Channels, NEW kind \in {"subscribe", "unsubscribe"},
               kind = "subscribe" <=> task[t].kind = "subscribe",
               task[t] \in Calls => task[t].channel = c,
               count' = [count EXCEPT ![c] = IF kind = "subscribe"
                                             THEN @ + 1 ELSE @ - 1],
               ReachesConnector(kind, count[c]),
               Conn!Call(t, kind, c), UNCHANGED task
        PROVE  CallsCounted'
    <3>1. /\ op'[t].channel = c /\ op'[t].kind = kind
          /\ \A u \in Threads \ {t} : pc'[u] = pc[u]
      BY <1>0, <2>4 DEF Conn!Call
    <3>2. IF kind = "subscribe" THEN count'[c] = 1 ELSE count'[c] = 0
      BY <1>0, <2>4 DEF ReachesConnector
    <3>3. \A u \in Threads : AtConnector(u)' => u = t
      BY <2>2, <3>1 DEF AtConnector
    <3>4. task[t].kind = "subscribe" => task[t].channel = c
      BY <2>1, <2>4, Operands
    <3> QED BY <2>4, <3>1, <3>2, <3>3, <3>4 DEF CallsCounted
  <2>5. UNCHANGED conn_vars => UNCHANGED pc
    BY DEF conn_vars
  <2>6. \/ UNCHANGED pc
        \/ \E c \in Channels, kind \in {"subscribe", "unsubscribe"} :
              /\ kind = "subscribe" <=> task[t].kind = "subscribe"
              /\ task[t] \in Calls => task[t].channel = c
              /\ count' = [count EXCEPT ![c] = IF kind = "subscribe"
                                               THEN @ + 1 ELSE @ - 1]
              /\ ReachesConnector(kind, count[c])
              /\ Conn!Call(t, kind, c) /\ UNCHANGED task
    <3>1. CASE phase[t] = "connector"
      BY <1>5, <2>5, <3>1, BrokerSteps
    <3>2. CASE phase[t] = "broker"
      <4>1. PICK c \in todo[t], kind \in {"subscribe", "unsubscribe"} :
               /\ c \in Channels
               /\ kind = "subscribe" <=> task[t].kind = "subscribe"
               /\ task[t] \in Calls => task[t].channel = c
               /\ count' = [count EXCEPT ![c] = IF kind = "subscribe"
                                                THEN @ + 1 ELSE @ - 1]
               /\ \/ /\ ReachesConnector(kind, count[c])
                     /\ Conn!Call(t, kind, c)
                     /\ UNCHANGED task
                  \/ UNCHANGED conn_vars
        BY <1>5, <3>2, BrokerSteps
      <4> QED BY <2>5, <4>1
    <3> QED BY <2>1, <3>1, <3>2
  <2> QED BY <2>3, <2>4, <2>6
<1> QED BY <1>2, <1>3, <1>4, <1>5, CallersStay

\* When the broker is being destroyed, no manager lists anybody and every count is 0.
LEMMA NothingLeft ==
    ASSUME TypeOK, TasksFit, ListedExist, InterfacesLast, BrokerLast, CountIsOfManagers,
           owner # "ready", NEW c \in Channels
    PROVE  count[c] = 0 /\ \A m \in Managers : handlers[m][c] = <<>>
<1>1. ASSUME NEW m \in Managers, handlers[m][c] # <<>> PROVE FALSE
  <2>1. handlers[m][c] \in Seq(Subscribers)
    BY DEF TypeOK
  <2>2. PICK s \in Subscribers : Contains(handlers[m][c], s)
    BY <1>1, <2>1 DEF Contains
  <2> QED BY <2>2 DEF ListedExist, InterfacesLast, BrokerLast
<1>2. \A m \in Managers : ~ ToBeCounted(m, c)
  BY DEF BrokerLast, ToBeCounted, Inside
<1>3. CountedFor(c) = {}
  BY <1>1, <1>2 DEF CountedFor
<1> QED BY <1>1, <1>3, FS_EmptySet DEF CountIsOfManagers

\* A command is in the buffer of the connection or on its way to the server.
Sent == output # <<>> \/ wire # <<>>

\* The other steps of the connector leave the server alone and send nothing.
LEMMA ServerSteps ==
    ASSUME TypeOK, [Next]_vars
    PROVE  \/ Conn!ServerExecutes /\ UpperUnchanged
           \/ Conn!Join /\ UpperUnchanged
           \/ Conn!OwnerNotifyFails
           \/ \E t \in Threads :
                 /\ Conn!CallerStep(t) \/ Conn!NotifyFails(t)
                 /\ UNCHANGED <<object_vars, thread_vars>>
           \/ ~ Conn!Over /\ \E t \in Threads : BrokerStep(t)
           \/ /\ UNCHANGED <<server_channels, pc, op, count, failures>>
              /\ Sent' <=> Sent
<1> DEFINE Same == /\ UNCHANGED <<server_channels, pc, op, failures>>
                   /\ Sent' <=> Sent
<1>1. UNCHANGED conn_vars => Same
  BY DEF conn_vars, Sent
<1>2. ASSUME Conn!WriteCommand PROVE Same
  <2>1. /\ output # <<>> /\ wire' = Append(wire, Head(output))
        /\ UNCHANGED <<server_channels, pc, op, failures>>
    BY <1>2 DEF Conn!WriteCommand, Conn!WorkerUnchanged, Conn!counters
  <2>2. wire \in Seq(Conn!Commands) /\ Head(output) \in Conn!Commands
    BY <2>1 DEF TypeOK, Conn!TypeOK
  <2>3. wire' # <<>>
    BY <2>1, <2>2
  <2> QED BY <2>1, <2>3 DEF Sent
<1>3. ASSUME \/ Conn!WorkerLoop \/ Conn!BlockInRead \/ Conn!ReceiveTechnical
             \/ Conn!ReceiveEvent \/ Conn!ReceiveMeta \/ Conn!ReceiveMetaThrows
             \/ Conn!ConsumeReturns \/ Conn!CallbackReturns
      PROVE  Same
  BY <1>3 DEF Conn!WorkerLoop, Conn!BlockInRead, Conn!ReceiveTechnical,
              Conn!ReceiveEvent, Conn!ReceiveMeta, Conn!ReceiveMetaThrows,
              Conn!ConsumeReturns, Conn!CallbackReturns, Conn!Receives,
              Conn!WorkerUnchanged, Conn!counters, Sent
<1>4. ASSUME Conn!HandshakeNotify \/ Conn!Constructed \/ Conn!Stop \/ Conn!Wake PROVE Same
  BY <1>4 DEF Conn!HandshakeNotify, Conn!Constructed, Conn!Stop, Conn!Wake,
              Conn!OwnerUnchanged, Conn!connection, Sent
<1>5. ASSUME NEW c \in Channels, Conn!Publish(c) PROVE Same
  BY <1>5 DEF Conn!Publish, Sent
<1> HIDE DEF Same
<1>6. ASSUME ConnAlone, UpperUnchanged
      PROVE  \/ Conn!ServerExecutes \/ Conn!Join \/ Conn!OwnerNotifyFails
             \/ \E t \in Threads : Conn!CallerStep(t) \/ Conn!NotifyFails(t)
             \/ Same
  BY <1>2, <1>3, <1>4, <1>6 DEF ConnAlone, Conn!OwnerStep
<1>7. UpperUnchanged => UNCHANGED <<object_vars, thread_vars, count>>
  BY DEF UpperUnchanged, thread_vars
<1>8. ASSUME DispatchStep PROVE Same /\ UNCHANGED count
  BY <1>1, <1>3, <1>8 DEF DispatchStep, BeginDispatch, OnMessage, EndDispatch,
                          thread_vars
<1>9. ASSUME NEW t \in Threads, ObjectStep(t) \/ ManagerStep(t)
      PROVE  Same /\ UNCHANGED count
  <2>1. ObjectStep(t) => UNCHANGED <<conn_vars, count>>
    BY DEF ObjectStep, Open, Close, Enter, EnterDestructor, RegisterCallback,
           RemoveCallback
  <2>2. ManagerStep(t) => UNCHANGED <<conn_vars, count>>
    BY DEF ManagerStep, AddMessageHandler, RemoveMessageHandler,
           RemoveFromAllChannels, HasManager
  <2> QED BY <1>1, <1>9, <2>1, <2>2
<1>10. ASSUME NEW s \in Subscribers, CreateSubscriber(s) PROVE Same /\ UNCHANGED count
  BY <1>1, <1>10 DEF CreateSubscriber, thread_vars
<1>11. ASSUME NEW c \in Channels, Publish(c) PROVE Same /\ UNCHANGED count
  BY <1>5, <1>11 DEF Publish, thread_vars
<1>12. ASSUME StopBroker PROVE Same /\ UNCHANGED count
  BY <1>4, <1>7, <1>12 DEF StopBroker
<1>13. ASSUME UNCHANGED vars PROVE Same /\ UNCHANGED count
  BY <1>1, <1>13 DEF vars, thread_vars
<1>14. \/ Conn!ServerExecutes /\ UpperUnchanged
       \/ Conn!Join /\ UpperUnchanged
       \/ Conn!OwnerNotifyFails
       \/ \E t \in Threads :
             /\ Conn!CallerStep(t) \/ Conn!NotifyFails(t)
             /\ UNCHANGED <<object_vars, thread_vars>>
       \/ ~ Conn!Over /\ \E t \in Threads : BrokerStep(t)
       \/ Same /\ UNCHANGED count
  BY <1>6, <1>7, <1>8, <1>9, <1>10, <1>11, <1>12, <1>13, Steps
<1> QED BY <1>14 DEF Same

\* Failures are counted, never forgotten.
LEMMA FailuresStay ==
    ASSUME TypeOK, TasksFit, [Next]_vars, failures' = 0 PROVE failures = 0
<1>1. CASE [Conn!Next]_Conn!vars
  <2>1. [P!Next]_P!vars /\ P!TypeOK
    BY <1>1, SameStep, SameType DEF TypeOK
  <2> QED BY <2>1, ConnAssumptions, P!NoFailureBefore
<1>2. ASSUME NEW t \in Threads, EndsProcess(t) PROVE failures = 0
  BY <1>2 DEF EndsProcess, ConnectorThrows
<1> QED BY <1>1, <1>2, ConnSteps

\* Every step keeps the server's channels in agreement with the counts.
LEMMA NextServer ==
    ASSUME TypeOK, TasksFit, LockDiscipline, CallsCounted, ServerIsOfCounts,
           P!QuietIInv, P!QuietIInv', ListedExist, InterfacesLast, BrokerLast,
           CountIsOfManagers, count' \in [Channels -> Nat], [Next]_vars
    PROVE  ServerIsOfCounts'
<1>0. /\ count \in [Channels -> Nat]
      /\ op \in [Threads -> Conn!Commands]
      /\ pc \in [Threads -> Conn!Outside \cup Conn!Holding \cup {"lock"}]
      /\ Technical \notin Channels
  BY NamesAssumption DEF TypeOK, Conn!TypeOK
<1>1. SUFFICES ASSUME failures' = 0, failures = 0, NEW c \in Channels
               PROVE  c \in server_channels' <=> ~ (count'[c] # 0 <=> Ordered(c)')
  BY FailuresStay DEF ServerIsOfCounts
<1>2. c \in server_channels <=> ~ (count[c] # 0 <=> Ordered(c))
  BY <1>1 DEF ServerIsOfCounts
<1>3. /\ P!CommandInv /\ P!CommandInv' /\ P!LockDiscipline /\ P!HandshakeIsTechnical
  BY <1>1 DEF P!QuietIInv, P!IInv, P!QuietInv
<1>4. Ordered(c) <=> \E t \in Threads : /\ AtConnector(t) /\ op[t].channel = c
                                        /\ pc[t] \in P!Waits => Sent
  BY DEF Ordered, Sent
<1>5. owner # "ready" => \A t \in Threads : ~ AtConnector(t)
  BY <1>0, <1>3 DEF P!LockDiscipline, P!Outside, AtConnector
<1>6. CASE /\ UNCHANGED <<server_channels, pc, op, count, failures>>
           /\ Sent' <=> Sent
  <2>1. Ordered(c)' <=> Ordered(c)
    BY <1>6 DEF Ordered, Sent, AtConnector
  <2> QED BY <1>2, <1>6, <2>1
<1>7. CASE Conn!Join /\ UpperUnchanged
  <2>1. /\ owner = "joining" /\ server_channels' = {} /\ UNCHANGED <<pc, count>>
    BY <1>7 DEF Conn!Join, Conn!OwnerUnchanged, UpperUnchanged, thread_vars
  <2>2. ~ Ordered(c)'
    BY <1>5, <2>1 DEF Ordered, AtConnector
  <2>3. count[c] = 0
    BY <2>1, NothingLeft
  <2> QED BY <2>1, <2>2, <2>3
<1>8. ASSUME NEW t \in Threads, Conn!CallerStep(t) \/ Conn!NotifyFails(t),
             UNCHANGED thread_vars
      PROVE  c \in server_channels' <=> ~ (count'[c] # 0 <=> Ordered(c)')
  <2>1. /\ AtConnector(t)
        /\ \A u \in Threads \ {t} : pc'[u] = pc[u] /\ op'[u] = op[u]
        /\ AtConnector(t)' => op'[t] = op[t]
        /\ UNCHANGED <<wire, server_channels, owner>>
        /\ \/ pc'[t] = "refused"
           \/ pc[t] \in {"lock", "check"} /\ AtConnector(t)'
              /\ pc'[t] \notin P!Waits /\ UNCHANGED output
           \/ pc[t] = "append" /\ pc'[t] = "notify"
              /\ output' = Append(output, op[t])
           \/ pc[t] \in {"notify", "spin"} /\ pc'[t] \in P!Waits
              /\ UNCHANGED output
           \/ pc[t] = "reset" /\ pc'[t] = "idle" /\ UNCHANGED output
    BY <1>1, <1>8, CallerSteps
  <2>2. pc'[t] # "refused"
    BY <1>3 DEF P!CommandInv, P!SubscriptionsMutexed
  <2>3. phase[t] = "connector"
    BY <2>1 DEF LockDiscipline
  <2>4. ~ Conn!Over
    <3>1. worker # "terminated"
      BY <1>3 DEF P!CommandInv, P!SubscriptionsMutexed
    <3>2. owner = "ready"
      BY <1>5, <2>1
    <3> QED BY <3>1, <3>2 DEF Conn!Over
  <2>5. \A u \in Threads \ {t} : ~ AtConnector(u) /\ ~ AtConnector(u)'
    BY <2>1, <2>3, <2>4, OneAtConnector DEF LockDiscipline, AtConnector
  <2>6. Ordered(c) <=> op[t].channel = c /\ (pc[t] \in P!Waits => Sent)
    BY <1>4, <2>1, <2>5
  <2>7. Ordered(c)' <=> /\ AtConnector(t)' /\ op'[t].channel = c
                        /\ pc'[t] \in P!Waits => Sent'
    BY <2>5 DEF Ordered, Sent
  <2>8. UNCHANGED count
    BY <1>8 DEF thread_vars
  <2>9. Ordered(c)' <=> Ordered(c)
    <3>1. CASE /\ pc[t] \in {"lock", "check"} /\ AtConnector(t)'
               /\ pc'[t] \notin P!Waits
      BY <2>1, <2>6, <2>7, <3>1 DEF P!Waits
    <3>2. CASE /\ pc[t] = "append" /\ pc'[t] = "notify"
               /\ output' = Append(output, op[t])
      <4>1. output \in Seq(Conn!Commands) /\ op[t] \in Conn!Commands
        BY <1>0 DEF TypeOK, Conn!TypeOK
      <4>2. output' # <<>>
        BY <3>2, <4>1
      <4> QED BY <2>1, <2>6, <2>7, <3>2, <4>2 DEF P!Waits, Sent, AtConnector
    <3>3. CASE /\ pc[t] \in {"notify", "spin"} /\ pc'[t] \in P!Waits
               /\ UNCHANGED output
      <4>1. AtConnector(t)'
        BY <3>3 DEF P!Waits, AtConnector
      <4> QED BY <2>1, <2>6, <2>7, <3>3, <4>1 DEF P!Waits, Sent
    <3>4. CASE pc[t] = "reset" /\ pc'[t] = "idle"
      <4>1. m_subscription_status_changed
        BY <1>3, <3>4 DEF P!CommandInv, P!WaitersOwnIt
      <4>2. ~ Sent
        BY <1>3, <3>4, <4>1 DEF P!CommandInv, P!Stage, P!Awaited, P!Buffered, P!Written,
                                P!Answered, P!Signalled, P!Nothing, Sent
      <4>3. ~ AtConnector(t)'
        BY <3>4 DEF AtConnector
      <4> QED BY <2>6, <2>7, <3>4, <4>2, <4>3 DEF P!Waits
    <3> QED BY <2>1, <2>2, <3>1, <3>2, <3>3, <3>4
  <2> QED BY <1>2, <2>1, <2>8, <2>9
<1>9. CASE Conn!ServerExecutes /\ UpperUnchanged
  <2> DEFINE command == Head(wire)
  <2>1. /\ wire # <<>>
        /\ server_channels' = IF command.kind = "subscribe"
                              THEN server_channels \cup {command.channel}
                              ELSE server_channels \ {command.channel}
        /\ wire' = Tail(wire)
        /\ UNCHANGED <<output, pc, op, owner, count>>
    BY <1>9 DEF Conn!ServerExecutes, UpperUnchanged, thread_vars
  <2>2. P!Awaited /\ P!Written
    BY <1>3, <2>1 DEF P!CommandInv, P!Stage, P!Buffered, P!Written, P!Answered,
                      P!Signalled, P!Nothing
  <2>3. Sent /\ ~ Sent'
    <3>1. output = <<>> /\ Len(wire) = 1 /\ wire \in Seq(Conn!Commands)
      BY <2>2 DEF P!Written, TypeOK, Conn!TypeOK
    <3>2. wire' = <<>>
      BY <2>1, <3>1
    <3> QED BY <2>1, <3>1, <3>2 DEF Sent
  <2>4. CASE owner = "handshake"
    <3>1. command.channel = Technical
      BY <1>3, <2>1, <2>4 DEF P!HandshakeIsTechnical
    <3>2. ~ Ordered(c) /\ ~ Ordered(c)'
      BY <1>5, <2>1, <2>4 DEF Ordered, AtConnector
    <3> QED BY <1>0, <1>2, <2>1, <3>1, <3>2
  <2>5. ASSUME NEW t \in Threads, pc[t] \in {"notify", "spin", "reset"}
        PROVE  c \in server_channels' <=> ~ (count'[c] # 0 <=> Ordered(c)')
    <3>1. command = op[t]
      BY <1>3, <2>1, <2>5 DEF P!CommandInv, P!WaitersOwnIt, P!OwnCommand
    <3>2. AtConnector(t) /\ phase[t] = "connector"
      BY <2>5 DEF AtConnector, LockDiscipline
    <3>3. ~ Conn!Over
      <4>1. worker # "terminated"
        BY <1>3 DEF P!CommandInv, P!SubscriptionsMutexed
      <4>2. owner = "ready"
        BY <1>5, <3>2
      <4> QED BY <4>1, <4>2 DEF Conn!Over
    <3>4. \A u \in Threads \ {t} : ~ AtConnector(u) /\ ~ AtConnector(u)'
      BY <2>1, <3>2, <3>3, OneAtConnector DEF LockDiscipline, AtConnector
    <3>5. Ordered(c) <=> op[t].channel = c
      BY <1>4, <2>3, <3>2, <3>4
    <3>6. ~ Ordered(c)'
      <4>1. pc'[t] \in P!Waits
        BY <2>1, <2>5 DEF P!Waits
      <4> QED BY <2>3, <3>4, <4>1 DEF Ordered, Sent
    <3>7. IF op[t].kind = "subscribe" THEN count[op[t].channel] = 1
                                      ELSE count[op[t].channel] = 0
      BY <3>2 DEF CallsCounted
    <3> QED BY <1>0, <1>2, <2>1, <3>1, <3>5, <3>6, <3>7
  <2> QED BY <2>2, <2>4, <2>5 DEF P!Awaited
<1>10. ASSUME NEW t \in Threads, BrokerStep(t), ~ Conn!Over
       PROVE  c \in server_channels' <=> ~ (count'[c] # 0 <=> Ordered(c)')
  <2>1. /\ phase[t] \in {"broker", "connector"}
        /\ phase[t] = "broker" => broker_lock = NoCaller
        /\ phase[t] = "connector" => ~ AtConnector(t)
    BY <1>10, BrokerSteps DEF AtConnector
  <2>2. ASSUME NEW u \in Threads PROVE ~ AtConnector(u)
    <3>1. AtConnector(u) => phase[u] = "connector" /\ broker_lock = u
      BY <1>10 DEF LockDiscipline, Conn!Over
    <3> QED BY <2>1, <3>1, NamesAssumption, OneAtConnector, <1>10
  <2>3. ~ Ordered(c)
    BY <2>2 DEF Ordered
  <2>4. CASE phase[t] = "connector"
    <3>1. UNCHANGED <<count, server_channels, pc>>
      BY <1>10, <2>4, BrokerSteps DEF conn_vars
    <3>2. ~ Ordered(c)'
      BY <2>2, <3>1 DEF Ordered, AtConnector
    <3> QED BY <1>2, <2>3, <3>1, <3>2
  <2>5. CASE phase[t] = "broker"
    <3>1. PICK d \in todo[t], kind \in {"subscribe", "unsubscribe"} :
             /\ d \in Channels
             /\ count' = [count EXCEPT ![d] = IF kind = "subscribe"
                                              THEN @ + 1 ELSE @ - 1]
             /\ \/ /\ ReachesConnector(kind, count[d])
                   /\ Conn!Call(t, kind, d)
                \/ ~ ReachesConnector(kind, count[d]) /\ UNCHANGED conn_vars
      BY <1>10, <2>5, BrokerSteps
    <3>2. /\ count'[d] = IF kind = "subscribe" THEN count[d] + 1 ELSE count[d] - 1
          /\ d # c => count'[c] = count[c]
          /\ count[d] \in Nat /\ count'[d] \in Nat
      BY <1>0, <3>1
    <3>3. CASE ~ ReachesConnector(kind, count[d]) /\ UNCHANGED conn_vars
      <4>1. ~ Ordered(c)' /\ UNCHANGED server_channels
        BY <2>2, <3>3 DEF Ordered, AtConnector, conn_vars
      <4>2. count'[d] # 0 <=> count[d] # 0
        BY <3>2, <3>3 DEF ReachesConnector
      <4> QED BY <1>2, <2>3, <3>2, <4>1, <4>2
    <3>4. CASE ReachesConnector(kind, count[d]) /\ Conn!Call(t, kind, d)
      <4>1. /\ pc'[t] = "lock" /\ op'[t].channel = d
            /\ \A u \in Threads \ {t} : pc'[u] = pc[u]
            /\ UNCHANGED server_channels
        BY <1>0, <3>4 DEF Conn!Call, Conn!connection
      <4>2. Ordered(c)' <=> c = d
        BY <2>2, <4>1 DEF Ordered, AtConnector, P!Waits
      <4>3. count'[d] # 0 <=> ~ (count[d] # 0)
        BY <3>2, <3>4 DEF ReachesConnector
      <4> QED BY <1>2, <2>3, <3>2, <4>1, <4>2, <4>3
    <3> QED BY <3>1, <3>3, <3>4
  <2> QED BY <2>1, <2>4, <2>5
<1>11. ~ Conn!OwnerNotifyFails
  BY <1>1 DEF Conn!OwnerNotifyFails
<1> QED BY <1>6, <1>7, <1>8, <1>9, <1>10, <1>11, ServerSteps

\* A wake-up that throws is counted.
LEMMA NextFailures ==
    ASSUME TypeOK, TasksFit, FailuresCounted, [Next]_vars
    PROVE  FailuresCounted'
<1>0. pc \in [Threads -> Conn!Outside \cup Conn!Holding \cup {"lock"}]
  BY DEF TypeOK, Conn!TypeOK
<1>1. SUFFICES ASSUME NEW t \in Threads, pc'[t] = "failed", failures' = 0
               PROVE  FALSE
  BY DEF FailuresCounted
<1>2. failures = 0
  BY <1>1, FailuresStay
<1>3. pc[t] # "failed"
  BY <1>2 DEF FailuresCounted
<1>4. ASSUME NEW u \in Threads, Conn!CallerStep(u) \/ Conn!NotifyFails(u) PROVE FALSE
  BY <1>1, <1>3, <1>4, CallerSteps
<1>5. ASSUME NEW u \in Threads, ObjectStep(u) \/ ManagerStep(u) \/ BrokerStep(u)
      PROVE  FALSE
  <2>1. ASSUME ObjectStep(u) PROVE UNCHANGED pc
    BY <2>1 DEF ObjectStep, Open, Close, Enter, EnterDestructor, RegisterCallback,
                RemoveCallback, conn_vars
  <2>2. ASSUME ManagerStep(u) PROVE UNCHANGED pc
    BY <2>2, ManagerSteps DEF conn_vars
  <2>3. ASSUME BrokerStep(u)
        PROVE  UNCHANGED pc \/ \E kind, c : Conn!Call(u, kind, c)
    BY <2>3 DEF BrokerStep, CountChannel, ConnectorReturns, ConnectorThrows, conn_vars
  <2>4. ASSUME NEW kind, NEW c, Conn!Call(u, kind, c) PROVE FALSE
    BY <1>0, <1>1, <1>3, <2>4 DEF Conn!Call
  <2> QED BY <1>1, <1>3, <1>5, <2>1, <2>2, <2>3, <2>4
<1> QED BY <1>1, <1>3, <1>4, <1>5, CallersStay

(***************************************************************************)
(* The objects.                                                            *)
(***************************************************************************)

\* A thread that has a manager or the broker at work goes on inside, or its call
\* returns.
LEMMA GoesOn ==
    ASSUME TypeOK, TasksFit, NEW t \in Threads, ManagerStep(t) \/ BrokerStep(t)
    PROVE  /\ phase[t] \in {"manager", "broker", "connector"}
           /\ UNCHANGED <<registered, interface, dispatch_vars>>
           /\ \/ UNCHANGED <<task, subscriber>> /\ phase'[t] \in {"broker", "connector"}
              \/ Return(t)
<1>0. phase \in [Threads -> {"idle", "manager", "broker", "connector", "callbacks"}]
  BY DEF TypeOK
<1>1. ASSUME NEW channels, ToBroker(t, channels)
      PROVE  \/ UNCHANGED <<task, subscriber>> /\ phase'[t] \in {"broker", "connector"}
             \/ Return(t)
  BY <1>0, <1>1 DEF ToBroker
<1>2. CASE ManagerStep(t)
  <2>1. /\ phase[t] = "manager" /\ UNCHANGED <<registered, interface, dispatch_vars>>
        /\ \E channels : ToBroker(t, channels)
    BY <1>2, ManagerSteps
  <2> QED BY <1>1, <2>1
<1>3. CASE BrokerStep(t)
  <2>1. /\ phase[t] \in {"broker", "connector"}
        /\ UNCHANGED <<registered, interface, dispatch_vars>>
    BY <1>3, BrokerSteps
  <2>2. \/ \E channels : ToBroker(t, channels)
        \/ Return(t)
        \/ phase[t] = "connector" /\ UNCHANGED <<phase, task, subscriber>>
        \/ phase' = [phase EXCEPT ![t] = "connector"] /\ UNCHANGED <<task, subscriber>>
    BY <1>3 DEF BrokerStep, CountChannel, ConnectorReturns, ConnectorThrows
  <2> QED BY <1>0, <1>1, <2>1, <2>2
<1> QED BY <1>2, <1>3

\* What a call that returns leaves: its thread has no task, its subscriber is
\* destroyed if that was the task.
LEMMA Returns ==
    ASSUME TypeOK, TasksFit, NEW t \in Threads, Return(t),
           phase[t] \in {"manager", "broker", "connector"}
    PROVE  /\ phase'[t] = "idle" /\ task'[t] = NoTask
           /\ task[t].subscriber \in Subscribers
           /\ UsesSubscriber(t, task[t].subscriber)
           /\ \A s \in Subscribers :
                 subscriber'[s] = IF /\ task[t].kind = "destroy"
                                     /\ s = task[t].subscriber
                                  THEN "destroyed" ELSE subscriber[s]
<1>1. /\ phase \in [Threads -> {"idle", "manager", "broker", "connector", "callbacks"}]
      /\ task \in [Threads -> Tasks]
      /\ subscriber \in [Subscribers -> {"absent", "present", "destroyed"}]
  BY DEF TypeOK
<1>2. /\ task[t].subscriber \in Subscribers
      /\ task[t].kind \in {"subscribe", "unsubscribe", "destroy"}
  BY Operands
<1> QED BY <1>1, <1>2 DEF Return, UsesSubscriber

\* The other steps leave the threads and the subscribers alone, but for the one that
\* makes a subscriber.
LEMMA TasksStay ==
    ASSUME TypeOK, TasksFit, [Next]_vars
    PROVE  \/ UNCHANGED <<thread_vars, subscriber>>
           \/ UNCHANGED <<thread_vars, registered, interface>>
              /\ \E s \in Subscribers : CreateSubscriber(s)
           \/ /\ ~ Conn!Over
              /\ \E t \in Threads : ObjectStep(t) \/ ManagerStep(t) \/ BrokerStep(t)
<1>1. CASE UNCHANGED vars
  BY <1>1 DEF vars, object_vars
<1>2. CASE (ConnAlone /\ UpperUnchanged) \/ StopBroker
  BY <1>2 DEF UpperUnchanged, StopBroker, object_vars
<1>3. CASE DispatchStep
  BY <1>3 DEF DispatchStep, BeginDispatch, OnMessage, EndDispatch, object_vars
<1>4. ASSUME NEW s \in Subscribers, CreateSubscriber(s)
      PROVE  UNCHANGED <<thread_vars, registered, interface>>
  BY <1>4 DEF CreateSubscriber
<1>5. ASSUME NEW c \in Channels, Publish(c) PROVE UNCHANGED <<thread_vars, subscriber>>
  BY <1>5 DEF Publish, object_vars
<1> QED BY <1>1, <1>2, <1>3, <1>4, <1>5, Steps

\* What a thread that takes a step of its own has to do afterwards.
LEMMA ObjectSteps ==
    ASSUME TypeOK, TasksFit, NEW t \in Threads, ObjectStep(t)
    PROVE  /\ UNCHANGED subscriber
           /\ phase[t] \in {"idle", "callbacks"}
           /\ phase'[t] \in {"idle", "callbacks", "manager"}
           /\ \/ \E m \in Managers :
                    /\ owner = "ready" /\ interface[m] = "absent"
                    /\ \A u \in Threads : ~ UsesInterface(u, m)
                    /\ task'[t] = [kind |-> "open", interface |-> m]
                    /\ UNCHANGED <<registered, interface>>
              \/ \E m \in Managers :
                    /\ interface[m] = "present"
                    /\ \A s \in Subscribers : ManagerOf[s] = m => subscriber[s] # "present"
                    /\ \A u \in Threads : ~ UsesInterface(u, m)
                    /\ task'[t] = [kind |-> "close", interface |-> m]
                    /\ UNCHANGED <<registered, interface>>
              \/ \E s \in Subscribers :
                    /\ subscriber[s] = "present"
                    /\ \A u \in Threads : ~ UsesSubscriber(u, s)
                    /\ task'[t] = [kind |-> "destroy", subscriber |-> s]
                    /\ UNCHANGED <<registered, interface>>
              \/ \E s \in Subscribers, kind \in {"subscribe", "unsubscribe"},
                    c \in Channels :
                    /\ subscriber[s] = "present"
                    /\ \A u \in Threads : UsesSubscriber(u, s) => task[u].kind # "destroy"
                    /\ task'[t] = [kind |-> kind, subscriber |-> s, channel |-> c]
                    /\ UNCHANGED <<registered, interface>>
              \/ RegisterCallback(t) /\ task'[t] = NoTask
              \/ RemoveCallback(t) /\ task'[t] = NoTask
<1>0. /\ phase \in [Threads -> {"idle", "manager", "broker", "connector", "callbacks"}]
      /\ task \in [Threads -> Tasks]
  BY DEF TypeOK
<1>1. ASSUME NEW m \in Managers, Open(t, m)
      PROVE  /\ UNCHANGED object_vars /\ phase[t] = "idle" /\ phase'[t] = "callbacks"
             /\ owner = "ready" /\ interface[m] = "absent"
             /\ \A u \in Threads : ~ UsesInterface(u, m)
             /\ task'[t] = [kind |-> "open", interface |-> m]
  BY <1>0, <1>1 DEF Open, Begin, Busy
<1>2. ASSUME NEW m \in Managers, Close(t, m)
      PROVE  /\ UNCHANGED object_vars /\ phase[t] = "idle" /\ phase'[t] = "callbacks"
             /\ interface[m] = "present"
             /\ \A s \in Subscribers : ManagerOf[s] = m => subscriber[s] # "present"
             /\ \A u \in Threads : ~ UsesInterface(u, m)
             /\ task'[t] = [kind |-> "close", interface |-> m]
  BY <1>0, <1>2 DEF Close, Begin, Busy
<1>3. ASSUME NEW s \in Subscribers, EnterDestructor(t, s)
      PROVE  /\ UNCHANGED object_vars /\ phase[t] = "idle" /\ phase'[t] = "manager"
             /\ subscriber[s] = "present"
             /\ \A u \in Threads : ~ UsesSubscriber(u, s)
             /\ task'[t] = [kind |-> "destroy", subscriber |-> s]
  BY <1>0, <1>3 DEF EnterDestructor, Begin, Busy
<1>4. ASSUME NEW s \in Subscribers, NEW kind \in Conn!Kinds, NEW c \in Channels,
             Enter(t, kind, s, c)
      PROVE  /\ UNCHANGED object_vars /\ phase[t] = "idle" /\ phase'[t] = "manager"
             /\ subscriber[s] = "present"
             /\ \A u \in Threads : UsesSubscriber(u, s) => task[u].kind # "destroy"
             /\ task'[t] = [kind |-> kind, subscriber |-> s, channel |-> c]
             /\ kind \in {"subscribe", "unsubscribe"}
  BY <1>0, <1>4 DEF Enter, Begin, Busy, Conn!Kinds
<1>5. ASSUME RegisterCallback(t) \/ RemoveCallback(t)
      PROVE  /\ UNCHANGED subscriber /\ phase[t] = "callbacks" /\ phase'[t] = "idle"
             /\ task'[t] = NoTask
  BY <1>0, <1>5 DEF RegisterCallback, RemoveCallback
<1>6. UNCHANGED object_vars => UNCHANGED <<subscriber, registered, interface>>
  BY DEF object_vars
<1>7. CASE \E m \in Managers : Open(t, m)
  BY <1>1, <1>6, <1>7
<1>8. CASE \E m \in Managers : Close(t, m)
  BY <1>2, <1>6, <1>8
<1>9. CASE \E s \in Subscribers : EnterDestructor(t, s)
  BY <1>3, <1>6, <1>9
<1>10. CASE \E s \in Subscribers, kind \in Conn!Kinds, c \in Channels :
                 Enter(t, kind, s, c)
  <2>1. PICK s \in Subscribers, kind \in Conn!Kinds, c \in Channels :
           Enter(t, kind, s, c)
    BY <1>10
  <2>2. /\ UNCHANGED object_vars /\ phase[t] = "idle" /\ phase'[t] = "manager"
        /\ subscriber[s] = "present"
        /\ \A u \in Threads : UsesSubscriber(u, s) => task[u].kind # "destroy"
        /\ task'[t] = [kind |-> kind, subscriber |-> s, channel |-> c]
        /\ kind \in {"subscribe", "unsubscribe"}
    BY <1>4, <2>1
  <2> QED BY <1>6, <2>2
<1>11. CASE RegisterCallback(t) \/ RemoveCallback(t)
  BY <1>5, <1>11
<1> QED BY <1>7, <1>8, <1>9, <1>10, <1>11 DEF ObjectStep

\* Whoever uses a subscriber has one.
LEMMA NextUsers ==
    ASSUME TypeOK, TasksFit, UsersExist, [Next]_vars
    PROVE  UsersExist'
<1>0. subscriber \in [Subscribers -> {"absent", "present", "destroyed"}]
  BY DEF TypeOK
<1>1. CASE UNCHANGED <<thread_vars, subscriber>>
  BY <1>1 DEF UsersExist, UsesSubscriber, thread_vars
<1>2. ASSUME NEW x \in Subscribers, CreateSubscriber(x), UNCHANGED thread_vars
      PROVE  UsersExist'
  <2>1. \A s \in Subscribers : subscriber[s] = "present" => subscriber'[s] = "present"
    BY <1>0, <1>2 DEF CreateSubscriber
  <2> QED BY <1>2, <2>1 DEF UsersExist, UsesSubscriber, thread_vars
<1>3. ASSUME NEW t \in Threads, ObjectStep(t) PROVE UsersExist'
  <2>1. /\ UNCHANGED subscriber
        /\ \A u \in Threads \ {t} : task'[u] = task[u]
    BY <1>3, ObjectSteps, OthersStay
  <2>2. \A u \in Threads \ {t}, s \in Subscribers :
           UsesSubscriber(u, s)' <=> UsesSubscriber(u, s)
    BY <2>1 DEF UsesSubscriber
  <2>3. ASSUME NEW x \in Subscribers, subscriber[x] = "present",
               \A u \in Threads : ~ UsesSubscriber(u, x),
               task'[t] = [kind |-> "destroy", subscriber |-> x]
        PROVE  UsersExist'
    <3>1. \A s \in Subscribers : UsesSubscriber(t, s)' => s = x
      BY <2>3 DEF UsesSubscriber
    <3> QED BY <2>1, <2>2, <2>3, <3>1 DEF UsersExist
  <2>4. ASSUME NEW x \in Subscribers, NEW kind \in {"subscribe", "unsubscribe"},
               NEW c \in Channels, subscriber[x] = "present",
               \A u \in Threads : UsesSubscriber(u, x) => task[u].kind # "destroy",
               task'[t] = [kind |-> kind, subscriber |-> x, channel |-> c]
        PROVE  UsersExist'
    <3>1. /\ \A s \in Subscribers : UsesSubscriber(t, s)' => s = x
          /\ task'[t].kind # "destroy"
      BY <2>4 DEF UsesSubscriber
    <3> QED BY <2>1, <2>2, <2>4, <3>1 DEF UsersExist
  <2>5. ASSUME \A s \in Subscribers : ~ UsesSubscriber(t, s)' PROVE UsersExist'
    BY <2>1, <2>2, <2>5 DEF UsersExist
  <2>6. ASSUME task'[t].kind \in {"open", "close", "none"}
        PROVE  \A s \in Subscribers : ~ UsesSubscriber(t, s)'
    BY <2>6 DEF UsesSubscriber
  <2>7. \/ task'[t].kind \in {"open", "close", "none"}
        \/ \E x \in Subscribers :
              /\ subscriber[x] = "present"
              /\ \A u \in Threads : ~ UsesSubscriber(u, x)
              /\ task'[t] = [kind |-> "destroy", subscriber |-> x]
        \/ \E x \in Subscribers, kind \in {"subscribe", "unsubscribe"}, c \in Channels :
              /\ subscriber[x] = "present"
              /\ \A u \in Threads : UsesSubscriber(u, x) => task[u].kind # "destroy"
              /\ task'[t] = [kind |-> kind, subscriber |-> x, channel |-> c]
    <3> DEFINE Destroys == \E x \in Subscribers :
                  /\ subscriber[x] = "present"
                  /\ \A u \in Threads : ~ UsesSubscriber(u, x)
                  /\ task'[t] = [kind |-> "destroy", subscriber |-> x]
               Calling == \E x \in Subscribers, kind \in {"subscribe", "unsubscribe"},
                             c \in Channels :
                  /\ subscriber[x] = "present"
                  /\ \A u \in Threads : UsesSubscriber(u, x) => task[u].kind # "destroy"
                  /\ task'[t] = [kind |-> kind, subscriber |-> x, channel |-> c]
    <3>1. \/ \E m : task'[t] = [kind |-> "open", interface |-> m]
          \/ \E m : task'[t] = [kind |-> "close", interface |-> m]
          \/ task'[t] = NoTask \/ Destroys \/ Calling
      BY <1>3, ObjectSteps
    <3> HIDE DEF Destroys, Calling
    <3>2. \/ task'[t].kind \in {"open", "close", "none"}
          \/ Destroys \/ Calling
      <4>1. /\ \A m : [kind |-> "open", interface |-> m].kind = "open"
            /\ \A m : [kind |-> "close", interface |-> m].kind = "close"
            /\ NoTask.kind = "none"
        BY DEF NoTask
      <4>2. ASSUME NEW kind, NEW m, task'[t] = [kind |-> kind, interface |-> m]
            PROVE  task'[t].kind = kind
        BY <4>2
      <4> QED BY <3>1, <4>1, <4>2
    <3> QED BY <3>2 DEF Destroys, Calling
  <2> QED BY <2>3, <2>4, <2>5, <2>6, <2>7
<1>4. ASSUME NEW t \in Threads, ManagerStep(t) \/ BrokerStep(t) PROVE UsersExist'
  <2>1. \A u \in Threads \ {t} : task'[u] = task[u]
    BY <1>4, OthersStay
  <2>2. \A u \in Threads \ {t}, s \in Subscribers :
           UsesSubscriber(u, s)' <=> UsesSubscriber(u, s)
    BY <2>1 DEF UsesSubscriber
  <2>3. CASE UNCHANGED <<task, subscriber>>
    BY <2>3 DEF UsersExist, UsesSubscriber
  <2>4. CASE Return(t)
    <3>1. /\ task'[t] = NoTask
          /\ task[t].subscriber \in Subscribers
          /\ UsesSubscriber(t, task[t].subscriber)
          /\ \A s \in Subscribers :
                subscriber'[s] = IF /\ task[t].kind = "destroy"
                                    /\ s = task[t].subscriber
                                 THEN "destroyed" ELSE subscriber[s]
      BY <1>4, <2>4, GoesOn, Returns
    <3>2. \A s \in Subscribers : ~ UsesSubscriber(t, s)'
      BY <3>1 DEF UsesSubscriber, NoTask
    <3> QED BY <2>1, <2>2, <3>1, <3>2 DEF UsersExist
  <2> QED BY <1>4, <2>3, <2>4, GoesOn
<1> QED BY <1>1, <1>2, <1>3, <1>4, TasksStay

\* The lists of the managers name subscribers that exist.
LEMMA NextListed ==
    ASSUME TypeOK, TasksFit, LockDiscipline, UsersExist, ListedExist, [Next]_vars
    PROVE  ListedExist'
<1>0. /\ subscriber \in [Subscribers -> {"absent", "present", "destroyed"}]
      /\ phase \in [Threads -> {"idle", "manager", "broker", "connector", "callbacks"}]
      /\ handlers \in [Managers -> [Channels -> Seq(Subscribers)]]
  BY DEF TypeOK
<1>1. ASSUME UNCHANGED handlers,
             \A s \in Subscribers : subscriber[s] = "present" => subscriber'[s] = "present",
             \A t \in Threads : Inside(t)' /\ task'[t].kind = "destroy" =>
                                   Inside(t) /\ task'[t] = task[t]
      PROVE  ListedExist'
  BY <1>1 DEF ListedExist
<1>2. CASE UNCHANGED <<thread_vars, subscriber>>
  BY <1>1, <1>2 DEF thread_vars, Inside
<1>3. ASSUME NEW x \in Subscribers, CreateSubscriber(x), UNCHANGED thread_vars
      PROVE  ListedExist'
  <2>1. \A s \in Subscribers : subscriber[s] = "present" => subscriber'[s] = "present"
    BY <1>0, <1>3 DEF CreateSubscriber
  <2> QED BY <1>1, <1>3, <2>1 DEF thread_vars, Inside
<1>4. ASSUME NEW t \in Threads, ObjectStep(t) PROVE ListedExist'
  <2>1. /\ UNCHANGED subscriber /\ ~ Inside(t)'
        /\ \A u \in Threads \ {t} : task'[u] = task[u] /\ (Inside(u)' <=> Inside(u))
    BY <1>4, ObjectSteps, OthersStay DEF Inside
  <2>2. UNCHANGED handlers
    BY <1>4 DEF ObjectStep, Open, Close, Enter, EnterDestructor, RegisterCallback,
                RemoveCallback
  <2> QED BY <1>1, <2>1, <2>2
<1>5. ASSUME NEW t \in Threads, BrokerStep(t) PROVE ListedExist'
  <2>1. /\ UNCHANGED handlers /\ Inside(t)
        /\ \A u \in Threads \ {t} : task'[u] = task[u] /\ (Inside(u)' <=> Inside(u))
    BY <1>5, BrokerSteps, OthersStay DEF Inside
  <2>2. CASE UNCHANGED <<task, subscriber>>
    BY <1>1, <2>1, <2>2
  <2>3. CASE Return(t)
    <3>1. /\ ~ Inside(t)'
          /\ \A s \in Subscribers :
                subscriber'[s] = IF /\ task[t].kind = "destroy"
                                    /\ s = task[t].subscriber
                                 THEN "destroyed" ELSE subscriber[s]
      BY <1>5, <2>3, GoesOn, Returns DEF Inside
    <3>2. ASSUME NEW m \in Managers, NEW c \in Channels, NEW s \in Subscribers,
                 Contains(handlers'[m][c], s)
          PROVE  /\ ManagerOf[s] = m
                 /\ subscriber'[s] = "present"
                 /\ \A u \in Threads : Inside(u)' /\ task'[u].kind = "destroy"
                                           => task'[u].subscriber # s
      <4>1. Contains(handlers[m][c], s)
        BY <2>1, <3>2
      <4> QED BY <2>1, <3>1, <4>1 DEF ListedExist
    <3>3. \A m \in Managers, c \in Channels, s \in Subscribers :
             Contains(handlers[m][c], s)' <=> Contains(handlers'[m][c], s)
      BY DEF Contains
    <3> QED BY <3>2, <3>3 DEF ListedExist
  <2> QED BY <1>5, <2>2, <2>3, GoesOn
<1>6. ASSUME NEW t \in Threads, ManagerStep(t) PROVE ListedExist'
  <2> DEFINE n == Manager(t)
             x == task[t].subscriber
  <2>1. PICK left \in [Channels -> Seq(Subscribers)], channels \in SUBSET Channels :
           /\ handlers' = [handlers EXCEPT ![n] = left]
           /\ ToBroker(t, channels)
           /\ Left(t, left, channels)
    BY <1>6, ManagerSteps
  <2>2. /\ phase[t] = "manager" /\ manager_lock[n] = NoCaller
        /\ n \in Managers /\ n = ManagerOf[x] /\ x \in Subscribers
        /\ task[t].kind \in {"subscribe", "unsubscribe", "destroy"}
        /\ UsesSubscriber(t, x)
    BY <1>6, ManagerSteps, Operands DEF Manager, UsesSubscriber
  <2> HIDE DEF n, x
  <2>3. /\ handlers'[n] = left
        /\ \A m \in Managers \ {n} : handlers'[m] = handlers[m]
    BY <1>0, <2>1, <2>2
  <2>4. \A u \in Threads \ {t} : task'[u] = task[u] /\ (Inside(u)' <=> Inside(u))
    BY <1>6, OthersStay DEF Inside
  <2>5. /\ Inside(t)' => task'[t] = task[t]
        /\ \A s \in Subscribers :
              ~ (task[t].kind = "destroy" /\ s = x) => subscriber'[s] = subscriber[s]
    <3>1. CASE Return(t)
      BY <1>6, <3>1, GoesOn, Returns DEF Inside, x
    <3>2. CASE UNCHANGED <<task, subscriber>>
      BY <3>2
    <3> QED BY <1>6, <3>1, <3>2, GoesOn
  <2>6. ASSUME NEW m \in Managers, NEW c \in Channels, NEW s \in Subscribers,
               Contains(handlers'[m][c], s)
        PROVE  /\ ManagerOf[s] = m
               /\ subscriber'[s] = "present"
               /\ \A u \in Threads : Inside(u)' /\ task'[u].kind = "destroy"
                                         => task'[u].subscriber # s
    <3>1. CASE Contains(handlers[m][c], s) /\ ~ (task[t].kind = "destroy" /\ s = x)
      <4>1. /\ ManagerOf[s] = m /\ subscriber[s] = "present"
            /\ \A u \in Threads : Inside(u) /\ task[u].kind = "destroy"
                                      => task[u].subscriber # s
        BY <3>1 DEF ListedExist
      <4> QED BY <2>4, <2>5, <3>1, <4>1 DEF x
    <3>2. CASE ~ Contains(handlers[m][c], s) \/ (task[t].kind = "destroy" /\ s = x)
      <4>1. m = n
        BY <2>2, <2>3, <2>6, <3>2 DEF ListedExist
      <4>2. Contains(left[c], s)
        BY <2>3, <2>6, <4>1
      <4>3. task[t].kind = "subscribe" /\ s = x
        <5>1. CASE task[t].kind = "subscribe"
          <6>1. Contains(left[c], s) <=> Contains(handlers[n][c], s)
                                         \/ (c = task[t].channel /\ s = x)
            BY <2>1, <5>1 DEF Left, n, x
          <6> QED BY <3>2, <4>1, <4>2, <5>1, <6>1
        <5>2. CASE task[t].kind # "subscribe"
          <6>1. Contains(left[c], s) <=> Contains(handlers[n][c], s)
                                         /\ ~ (Ends(t, c) /\ s = x)
            BY <2>1, <5>2 DEF Left, n, x
          <6> QED BY <3>2, <4>1, <4>2, <6>1 DEF Ends
        <5> QED BY <5>1, <5>2
      <4>4. /\ subscriber[x] = "present"
            /\ \A u \in Threads : UsesSubscriber(u, x) => task[u].kind # "destroy"
        BY <2>2, <4>3 DEF UsersExist
      <4>5. subscriber'[s] = "present"
        BY <2>5, <4>3, <4>4
      <4>6. ASSUME NEW u \in Threads, Inside(u)', task'[u].kind = "destroy",
                   task'[u].subscriber = s
            PROVE  FALSE
        BY <2>4, <2>5, <4>3, <4>4, <4>6 DEF UsesSubscriber
      <4> QED BY <2>2, <4>1, <4>3, <4>5, <4>6
    <3> QED BY <3>1, <3>2
  <2>7. \A m \in Managers, c \in Channels, s \in Subscribers :
           Contains(handlers[m][c], s)' <=> Contains(handlers'[m][c], s)
    BY DEF Contains
  <2> QED BY <2>6, <2>7 DEF ListedExist
<1> QED BY <1>2, <1>3, <1>4, <1>5, <1>6, TasksStay

\* What the two ends of an interface's life do.
LEMMA CallbackSteps ==
    ASSUME TypeOK, TasksFit, NEW t \in Threads, RegisterCallback(t) \/ RemoveCallback(t)
    PROVE  /\ ~ dispatching /\ UNCHANGED <<conn_vars, dispatch_vars, subscriber>>
           /\ task[t].interface \in Managers /\ task'[t] = NoTask
           /\ UsesInterface(t, task[t].interface)
           /\ \/ /\ task[t].kind = "open"
                 /\ registered' = Append(registered, task[t].interface)
                 /\ \A m \in Managers :
                       interface'[m] = IF m = task[t].interface THEN "present"
                                                                ELSE interface[m]
              \/ /\ task[t].kind = "close"
                 /\ registered' = RemoveAll(registered, task[t].interface)
                 /\ \A m \in Managers :
                       interface'[m] = IF m = task[t].interface THEN "destroyed"
                                                                ELSE interface[m]
           /\ registered \in Seq(Managers)
           /\ \A x : /\ Contains(Append(registered, task[t].interface), x) <=>
                           Contains(registered, x) \/ x = task[t].interface
                     /\ Contains(RemoveAll(registered, task[t].interface), x) <=>
                           x # task[t].interface /\ Contains(registered, x)
<1>1. /\ interface \in [Managers -> {"absent", "present", "destroyed"}]
      /\ task \in [Threads -> Tasks] /\ registered \in Seq(Managers)
  BY DEF TypeOK
<1>2. task[t].interface \in Managers
  BY Operands DEF RegisterCallback, RemoveCallback
<1>3. \A x : /\ Contains(Append(registered, task[t].interface), x) <=>
                   Contains(registered, x) \/ x = task[t].interface
             /\ Contains(RemoveAll(registered, task[t].interface), x) <=>
                   x # task[t].interface /\ Contains(registered, x)
  BY <1>1, <1>2, AppendElements, RemoveAllElements
<1> QED BY <1>1, <1>2, <1>3 DEF RegisterCallback, RemoveCallback, CallbackListFree,
                                UsesInterface

\* Interfaces outlive their subscribers.
LEMMA NextInterfacesLast ==
    ASSUME TypeOK, TasksFit, InterfacesLast, UsersExist, [Next]_vars
    PROVE  InterfacesLast'
<1>0. /\ subscriber \in [Subscribers -> {"absent", "present", "destroyed"}]
      /\ ManagerOf \in [Subscribers -> Managers]
  BY ManagerOfAssumption DEF TypeOK
<1>1. ASSUME UNCHANGED interface,
             \A s \in Subscribers : subscriber'[s] = "present" => subscriber[s] = "present",
             \A t \in Threads : task'[t].kind = "close" => task'[t] = task[t]
      PROVE  InterfacesLast'
  BY <1>1 DEF InterfacesLast
<1>2. CASE UNCHANGED <<thread_vars, subscriber>>
  <2>1. CASE UNCHANGED <<registered, interface>>
    BY <1>1, <1>2, <2>1 DEF thread_vars
  <2>2. ASSUME NEW t \in Threads, RegisterCallback(t) \/ RemoveCallback(t) PROVE FALSE
    <3>1. phase[t] = "callbacks" /\ phase' = [phase EXCEPT ![t] = "idle"]
      BY <2>2 DEF RegisterCallback, RemoveCallback
    <3>2. phase'[t] # phase[t]
      BY <3>1 DEF TypeOK
    <3> QED BY <1>2, <3>2 DEF thread_vars
  <2> QED BY <2>1, <2>2, InterfaceSteps
<1>3. ASSUME NEW x \in Subscribers, CreateSubscriber(x),
             UNCHANGED <<thread_vars, interface>>
      PROVE  InterfacesLast'
  <2>1. /\ interface[ManagerOf[x]] = "present"
        /\ \A t \in Threads : ~ UsesInterface(t, ManagerOf[x])
        /\ \A s \in Subscribers \ {x} : subscriber'[s] = subscriber[s]
    BY <1>0, <1>3 DEF CreateSubscriber
  <2>2. UNCHANGED task
    BY <1>3 DEF thread_vars
  <2>3. \A s \in Subscribers :
           subscriber'[s] = "present" => interface[ManagerOf[s]] = "present"
    BY <2>1 DEF InterfacesLast
  <2>4. ASSUME NEW t \in Threads, task[t].kind = "close", NEW s \in Subscribers,
               ManagerOf[s] = task[t].interface
        PROVE  subscriber'[s] # "present"
    <3>1. s # x
      BY <2>1, <2>4 DEF UsesInterface
    <3> QED BY <2>1, <2>4, <3>1 DEF InterfacesLast
  <2> QED BY <1>3, <2>2, <2>3, <2>4 DEF InterfacesLast
<1>4. ASSUME NEW t \in Threads, ObjectStep(t) PROVE InterfacesLast'
  <2>1. /\ UNCHANGED subscriber
        /\ \A u \in Threads \ {t} : task'[u] = task[u]
    BY <1>4, ObjectSteps, OthersStay
  <2>2. CASE RegisterCallback(t) \/ RemoveCallback(t)
    <3>1. /\ task'[t].kind # "close"
          /\ task[t].interface \in Managers
          /\ \/ \A m \in Managers :
                   interface'[m] = IF m = task[t].interface THEN "present"
                                                            ELSE interface[m]
             \/ /\ task[t].kind = "close"
                /\ \A m \in Managers :
                      interface'[m] = IF m = task[t].interface THEN "destroyed"
                                                               ELSE interface[m]
      BY <2>2, CallbackSteps DEF NoTask
    <3> QED BY <1>0, <2>1, <3>1 DEF InterfacesLast
  <2>3. ASSUME NEW m \in Managers, UNCHANGED interface,
               \A s \in Subscribers : ManagerOf[s] = m => subscriber[s] # "present",
               task'[t] = [kind |-> "close", interface |-> m]
        PROVE  InterfacesLast'
    BY <2>1, <2>3 DEF InterfacesLast
  <2>4. ASSUME task'[t].kind # "close", UNCHANGED interface PROVE InterfacesLast'
    BY <2>1, <2>4 DEF InterfacesLast
  <2>5. UNCHANGED interface \/ RegisterCallback(t) \/ RemoveCallback(t)
    BY <1>4, InterfaceSteps, ObjectSteps
  <2>6. \/ \E m : task'[t] = [kind |-> "open", interface |-> m]
        \/ \E s : task'[t] = [kind |-> "destroy", subscriber |-> s]
        \/ \E s, c, kind : /\ task'[t] = [kind |-> kind, subscriber |-> s, channel |-> c]
                          /\ kind \in {"subscribe", "unsubscribe"}
        \/ RegisterCallback(t) \/ RemoveCallback(t)
        \/ \E m \in Managers :
              /\ \A s \in Subscribers : ManagerOf[s] = m => subscriber[s] # "present"
              /\ task'[t] = [kind |-> "close", interface |-> m]
    BY <1>4, ObjectSteps
  <2>7. ASSUME NEW m, task'[t] = [kind |-> "open", interface |-> m]
        PROVE  task'[t].kind # "close"
    BY <2>7
  <2>8. ASSUME NEW s, task'[t] = [kind |-> "destroy", subscriber |-> s]
        PROVE  task'[t].kind # "close"
    BY <2>8
  <2>9. ASSUME NEW s, NEW c, NEW kind \in {"subscribe", "unsubscribe"},
               task'[t] = [kind |-> kind, subscriber |-> s, channel |-> c]
        PROVE  task'[t].kind # "close"
    BY <2>9
  <2>10. CASE ~ RegisterCallback(t) /\ ~ RemoveCallback(t)
    <3>1. CASE \E m \in Managers :
                 /\ \A s \in Subscribers : ManagerOf[s] = m => subscriber[s] # "present"
                 /\ task'[t] = [kind |-> "close", interface |-> m]
      BY <2>3, <2>5, <2>10, <3>1
    <3>2. CASE \E m : task'[t] = [kind |-> "open", interface |-> m]
      BY <2>4, <2>5, <2>7, <2>10, <3>2
    <3>3. CASE \E s : task'[t] = [kind |-> "destroy", subscriber |-> s]
      BY <2>4, <2>5, <2>8, <2>10, <3>3
    <3>4. CASE \E s, c, kind :
                 /\ task'[t] = [kind |-> kind, subscriber |-> s, channel |-> c]
                 /\ kind \in {"subscribe", "unsubscribe"}
      BY <2>4, <2>5, <2>9, <2>10, <3>4
    <3> QED BY <2>6, <2>10, <3>1, <3>2, <3>3, <3>4
  <2> QED BY <2>2, <2>10
<1>5. ASSUME NEW t \in Threads, ManagerStep(t) \/ BrokerStep(t) PROVE InterfacesLast'
  <2>1. /\ UNCHANGED interface
        /\ \A u \in Threads \ {t} : task'[u] = task[u]
    BY <1>5, OthersStay, GoesOn
  <2>2. CASE UNCHANGED <<task, subscriber>>
    BY <1>1, <2>1, <2>2
  <2>3. CASE Return(t)
    <3>1. /\ task'[t] = NoTask
          /\ \A s \in Subscribers :
                subscriber'[s] = "present" => subscriber[s] = "present"
      BY <1>5, <2>3, GoesOn, Returns
    <3> QED BY <1>1, <2>1, <3>1 DEF NoTask
  <2> QED BY <1>5, <2>2, <2>3, GoesOn
<1> QED BY <1>2, <1>3, <1>4, <1>5, TasksStay

\* What the owner's thread does: only the destructors leave the constructed broker,
\* and what it does before and after touches no interface and no call.
LEMMA OwnerSteps ==
    ASSUME TypeOK, TasksFit, [Next]_vars
    PROVE  \/ UNCHANGED owner
           \/ owner' = "ready"
           \/ owner # "ready" /\ UNCHANGED <<object_vars, thread_vars>>
           \/ StopBroker
<1>1. UNCHANGED vars => UNCHANGED owner
  BY DEF vars, conn_vars
<1>2. ASSUME NEW t \in Threads, Conn!CallerStep(t) \/ Conn!NotifyFails(t)
      PROVE  UNCHANGED owner
  BY <1>2 DEF Conn!CallerStep, Conn!NotifyFails, Conn!Lock, Conn!CheckPasses,
              Conn!CheckThrows, Conn!AppendCommand, Conn!Notify, Conn!Spin, Conn!Reset,
              Conn!CallerUnchanged
<1>3. ASSUME \/ Conn!ServerExecutes \/ Conn!WorkerLoop \/ Conn!WriteCommand
             \/ Conn!BlockInRead \/ Conn!ReceiveTechnical \/ Conn!ReceiveEvent
             \/ Conn!ReceiveMeta \/ Conn!ReceiveMetaThrows \/ Conn!ConsumeReturns
      PROVE  UNCHANGED owner
  BY <1>3 DEF Conn!ServerExecutes, Conn!WorkerLoop, Conn!WriteCommand, Conn!BlockInRead,
              Conn!ReceiveTechnical, Conn!ReceiveEvent, Conn!ReceiveMeta,
              Conn!ReceiveMetaThrows, Conn!ConsumeReturns, Conn!Receives,
              Conn!WorkerUnchanged
<1>4. ASSUME Conn!OwnerStep \/ Conn!OwnerNotifyFails
      PROVE  \/ UNCHANGED owner \/ owner' = "ready"
             \/ owner # "ready"
  BY <1>4 DEF Conn!OwnerStep, Conn!OwnerNotifyFails, Conn!HandshakeNotify, Conn!Constructed, Conn!Wake,
              Conn!Join, Conn!OwnerUnchanged
<1>5. CASE ConnAlone /\ UpperUnchanged
  BY <1>2, <1>3, <1>4, <1>5 DEF ConnAlone, UpperUnchanged
<1>6. CASE DispatchStep
  BY <1>6 DEF DispatchStep, BeginDispatch, OnMessage, EndDispatch, conn_vars,
              Conn!CallbackReturns, Conn!WorkerUnchanged
<1>7. ASSUME NEW s \in Subscribers, CreateSubscriber(s) PROVE UNCHANGED owner
  BY <1>7 DEF CreateSubscriber, conn_vars
<1>8. ASSUME NEW c \in Channels, Publish(c) PROVE UNCHANGED owner
  BY <1>8 DEF Publish, Conn!Publish
<1>9. ASSUME NEW t \in Threads, ObjectStep(t) \/ ManagerStep(t) PROVE UNCHANGED owner
  <2>1. ObjectStep(t) => UNCHANGED conn_vars
    BY DEF ObjectStep, Open, Close, Enter, EnterDestructor, RegisterCallback,
           RemoveCallback
  <2> QED BY <1>9, <2>1, ManagerSteps DEF conn_vars
<1>10. ASSUME NEW t \in Threads, BrokerStep(t) PROVE UNCHANGED owner
  <2>1. \A kind, c : Conn!Call(t, kind, c) => UNCHANGED owner
    BY DEF Conn!Call, Conn!CallerUnchanged
  <2> QED BY <1>10, <2>1 DEF BrokerStep, CountChannel, ConnectorReturns,
                             ConnectorThrows, conn_vars
<1> QED BY <1>1, <1>5, <1>6, <1>7, <1>8, <1>9, <1>10, Steps

\* The broker goes last.
LEMMA NextBrokerLast ==
    ASSUME TypeOK, TasksFit, InterfacesLast, BrokerLast, [Next]_vars
    PROVE  BrokerLast'
<1>1. SUFFICES ASSUME owner' # "ready"
               PROVE  /\ \A t \in Threads : phase'[t] = "idle"
                      /\ \A m \in Managers : interface'[m] # "present"
  BY DEF BrokerLast
<1>2. CASE StopBroker
  BY <1>2 DEF StopBroker, UpperUnchanged, Busy, object_vars, thread_vars
<1>3. CASE owner # "ready"
  <2>0. /\ \A t \in Threads : phase[t] = "idle"
        /\ \A m \in Managers : interface[m] # "present"
    BY <1>3 DEF BrokerLast
  <2>1. ASSUME NEW t \in Threads, ObjectStep(t) PROVE FALSE
    <3>1. \A s \in Subscribers : subscriber[s] # "present"
      BY <2>0, ManagerOfAssumption DEF InterfacesLast
    <3>2. ~ RegisterCallback(t) /\ ~ RemoveCallback(t)
      BY <2>0 DEF RegisterCallback, RemoveCallback
    <3> QED BY <1>3, <2>0, <2>1, <3>1, <3>2, ObjectSteps
  <2>2. ASSUME NEW t \in Threads, ManagerStep(t) \/ BrokerStep(t) PROVE FALSE
    BY <2>0, <2>2, GoesOn
  <2>3. UNCHANGED phase
    BY <2>1, <2>2, ThreadsUndisturbed DEF thread_vars
  <2>4. ASSUME NEW t \in Threads PROVE ~ RegisterCallback(t) /\ ~ RemoveCallback(t)
    BY <2>0 DEF RegisterCallback, RemoveCallback
  <2>5. UNCHANGED interface
    BY <2>4, InterfaceSteps
  <2> QED BY <2>0, <2>3, <2>5
<1> QED BY <1>1, <1>2, <1>3, OwnerSteps

\* The worker calls interfaces that exist, and only in its callback.
LEMMA NextRegistered ==
    ASSUME TypeOK, TasksFit, RegisteredExist, [Next]_vars
    PROVE  RegisteredExist'
<1>0. registered \in Seq(Managers) /\ to_call \in Seq(Managers)
  BY DEF TypeOK
<1>1. dispatching' => worker' \in {"callback", "terminated"}
  <2>1. SUFFICES ASSUME dispatching' PROVE worker' \in {"callback", "terminated"}
    OBVIOUS
  <2>2. CASE BeginDispatch
    BY <2>2 DEF BeginDispatch, conn_vars
  <2>3. CASE OnMessage
    BY <2>3 DEF OnMessage, RegisteredExist, conn_vars
  <2>4. ~ EndDispatch
    BY <2>1 DEF EndDispatch
  <2>5. CASE UNCHANGED dispatch_vars
    <3>1. dispatching /\ worker \in {"callback", "terminated"}
      BY <2>1, <2>5 DEF RegisteredExist, dispatch_vars
    <3>2. CASE UNCHANGED vars
      BY <3>1, <3>2 DEF vars, conn_vars
    <3>3. CASE ~ Conn!Over /\ ConnAlone
      <4>1. worker = "callback"
        BY <3>1, <3>3 DEF Conn!Over
      <4>2. \A t \in Threads :
               Conn!CallerStep(t) \/ Conn!NotifyFails(t) => UNCHANGED worker
        BY DEF Conn!CallerStep, Conn!NotifyFails, Conn!Lock, Conn!CheckPasses,
               Conn!CheckThrows, Conn!AppendCommand, Conn!Notify, Conn!Spin,
               Conn!Reset, Conn!CallerUnchanged
      <4>3. Conn!OwnerStep \/ Conn!OwnerNotifyFails => UNCHANGED worker
        BY DEF Conn!OwnerStep, Conn!OwnerNotifyFails, Conn!HandshakeNotify,
               Conn!Constructed, Conn!Wake, Conn!Join, Conn!OwnerUnchanged
      <4>4. Conn!ServerExecutes => UNCHANGED worker
        BY DEF Conn!ServerExecutes
      <4>5. ~ \/ Conn!WorkerLoop \/ Conn!WriteCommand
              \/ Conn!BlockInRead \/ Conn!ReceiveTechnical \/ Conn!ReceiveEvent
              \/ Conn!ReceiveMeta \/ Conn!ReceiveMetaThrows \/ Conn!ConsumeReturns
        BY <4>1 DEF Conn!WorkerLoop, Conn!WriteCommand, Conn!BlockInRead,
                    Conn!ReceiveTechnical, Conn!ReceiveEvent, Conn!ReceiveMeta,
                    Conn!ReceiveMetaThrows, Conn!ConsumeReturns, Conn!Receives
      <4> QED BY <3>1, <3>3, <4>2, <4>3, <4>4, <4>5 DEF ConnAlone
    <3>4. CASE StopBroker
      BY <3>1, <3>4 DEF StopBroker, Conn!Stop, Conn!OwnerUnchanged
    <3>5. CASE DispatchStep
      BY <2>2, <2>3, <2>4, <3>5 DEF DispatchStep
    <3>6. ASSUME NEW s \in Subscribers, CreateSubscriber(s) PROVE UNCHANGED worker
      BY <3>6 DEF CreateSubscriber, conn_vars
    <3>7. ASSUME NEW c \in Channels, Publish(c) PROVE UNCHANGED worker
      BY <3>7 DEF Publish, Conn!Publish
    <3>8. ASSUME NEW t \in Threads, ObjectStep(t) \/ ManagerStep(t) PROVE UNCHANGED worker
      <4>1. ObjectStep(t) => UNCHANGED conn_vars
        BY DEF ObjectStep, Open, Close, Enter, EnterDestructor, RegisterCallback,
               RemoveCallback
      <4> QED BY <3>8, <4>1, ManagerSteps DEF conn_vars
    <3>9. ASSUME NEW t \in Threads, BrokerStep(t)
          PROVE  UNCHANGED worker \/ worker' = "terminated"
      <4>1. \A kind, c : Conn!Call(t, kind, c) => UNCHANGED worker
        BY DEF Conn!Call, Conn!CallerUnchanged
      <4> QED BY <3>9, <4>1 DEF BrokerStep, CountChannel, ConnectorReturns,
                                ConnectorThrows, conn_vars
    <3> QED BY <3>1, <3>2, <3>3, <3>4, <3>5, <3>6, <3>7, <3>8, <3>9, Steps
  <2> QED BY <2>2, <2>3, <2>4, <2>5, WorkerSteps DEF DispatchStep
<1>2. ~ dispatching' => to_call' = <<>>
  BY WorkerSteps DEF dispatch_vars, DispatchStep, BeginDispatch, OnMessage, EndDispatch,
                     RegisteredExist
<1>3. ASSUME NEW m \in Managers
      PROVE  /\ Contains(registered, m) \/ Contains(to_call, m) => interface[m] = "present"
             /\ Contains(to_call', m) => Contains(to_call, m) \/ Contains(registered, m)
  <2>1. CASE BeginDispatch \/ EndDispatch \/ UNCHANGED dispatch_vars
    BY <2>1 DEF BeginDispatch, EndDispatch, dispatch_vars, RegisteredExist,
                CallbacksToCall
  <2>2. CASE OnMessage
    <3>1. to_call # <<>> /\ to_call' = Tail(to_call)
      BY <2>2 DEF OnMessage
    <3>2. Contains(to_call, m) <=> m = Head(to_call) \/ Contains(Tail(to_call), m)
      BY <1>0, <3>1, HeadAndTailElements
    <3> QED BY <3>1, <3>2 DEF RegisteredExist
  <2> QED BY <2>1, <2>2, WorkerSteps DEF DispatchStep
<1>4. ASSUME NEW m \in Managers, Contains(registered', m) \/ Contains(to_call', m)
      PROVE  interface'[m] = "present"
  <2>1. CASE UNCHANGED <<registered, interface>>
    BY <1>3, <1>4, <2>1
  <2>2. ASSUME NEW t \in Threads, RegisterCallback(t) \/ RemoveCallback(t)
        PROVE  interface'[m] = "present"
    <3>1. ~ dispatching /\ to_call' = to_call
      BY <2>2, CallbackSteps DEF dispatch_vars
    <3>2. ~ Contains(to_call', m)
      BY <3>1 DEF RegisteredExist, Contains
    <3>3. Contains(registered', m)
      BY <1>4, <3>2
    <3>4. CASE /\ task[t].kind = "open"
               /\ registered' = Append(registered, task[t].interface)
               /\ interface'[m] = IF m = task[t].interface THEN "present"
                                                           ELSE interface[m]
      <4>1. Contains(registered, m) \/ m = task[t].interface
        BY <2>2, <3>3, <3>4, CallbackSteps
      <4> QED BY <1>3, <3>4, <4>1
    <3>5. CASE /\ registered' = RemoveAll(registered, task[t].interface)
               /\ interface'[m] = IF m = task[t].interface THEN "destroyed"
                                                           ELSE interface[m]
      <4>1. Contains(registered, m) /\ m # task[t].interface
        BY <2>2, <3>3, <3>5, CallbackSteps
      <4> QED BY <1>3, <3>5, <4>1
    <3> QED BY <2>2, <3>4, <3>5, CallbackSteps
  <2> QED BY <2>1, <2>2, InterfaceSteps
<1>5. \A m \in Managers : /\ Contains(registered, m)' <=> Contains(registered', m)
                          /\ Contains(to_call, m)' <=> Contains(to_call', m)
  BY DEF Contains
<1> QED BY <1>1, <1>2, <1>4, <1>5 DEF RegisteredExist

(***************************************************************************)
(* The invariant holds.                                                    *)
(***************************************************************************)

\* Nothing has been asked of anybody yet.
LEMMA InitInv == Init => IInv
<1>1. SUFFICES ASSUME Init PROVE IInv
  OBVIOUS
<1>2. P!Init
  BY <1>1, SameInit DEF Init
<1>3. P!QuietIInv
  BY <1>2, ConnAssumptions, P!InitInv, P!InitQuiet DEF P!QuietIInv
<1>4. P!TypeOK
  BY <1>3 DEF P!QuietIInv, P!IInv
<1>5. TypeOK
  <2>1. /\ <<>> \in Seq(Subscribers) /\ <<>> \in Seq(Managers)
        /\ <<>> \in Seq(1 .. MaxEvents)
    OBVIOUS
  <2>2. Conn!TypeOK
    BY <1>4, SameType
  <2>3. NoTask \in Tasks
    BY DEF Tasks, NoTask
  <2>4. 0 \in 0 .. MaxOperations
    BY BoundsAssumption
  <2> QED BY <1>1, <2>1, <2>2, <2>3, <2>4 DEF Init, TypeOK
<1>6. /\ \A t \in Threads : phase[t] = "idle" /\ task[t] = NoTask /\ todo[t] = {}
      /\ \A t \in Threads : pc[t] = "idle" /\ ~ Inside(t) /\ ~ AtConnector(t)
      /\ \A t \in Threads : NoTask \notin Calls /\ task[t].kind = "none"
      /\ \A m \in Managers, c \in Channels : handlers[m][c] = <<>>
      /\ \A c \in Channels : count[c] = 0
      /\ server_channels = {} /\ owner = "handshake"
      /\ replies = <<>> /\ current = Conn!NoMessage /\ ~ dispatching
      /\ registered = <<>> /\ to_call = <<>>
      /\ \A s \in Subscribers : subscriber[s] = "absent"
      /\ \A m \in Managers : interface[m] = "absent"
  BY <1>1 DEF Init, Conn!Init, Inside, AtConnector, NoTask, Calls
<1>7. TasksFit /\ LockDiscipline /\ ChangeMade /\ CallsCounted /\ FailuresCounted
  BY <1>6 DEF TasksFit, LockDiscipline, ChangeMade, CallsCounted, FailuresCounted
<1>8. CountIsOfManagers
  <2>1. \A c \in Channels : CountedFor(c) = {}
    BY <1>6 DEF CountedFor, ToBeCounted
  <2> QED BY <1>6, <2>1, FS_EmptySet DEF CountIsOfManagers
<1>9. ServerIsOfCounts
  BY <1>6 DEF ServerIsOfCounts, Ordered
<1>10. RegisteredExist
  BY <1>6 DEF RegisteredExist, Contains
<1>11. UsersExist /\ InterfacesLast /\ BrokerLast
  BY <1>6 DEF UsersExist, UsesSubscriber, InterfacesLast, BrokerLast
<1>12. ListedExist
  BY <1>6 DEF ListedExist, Contains
<1>13. EventsNumbered
  BY <1>6, ConnAssumptions DEF EventsNumbered, Conn!Events, Conn!NoMessage, Conn!Message
<1> QED BY <1>3, <1>5, <1>7, <1>8, <1>9, <1>10, <1>11, <1>12, <1>13 DEF IInv

\* The invariant is inductive.
LEMMA NextInv == IInv /\ [Next]_vars => IInv'
<1>1. SUFFICES ASSUME IInv, [Next]_vars PROVE IInv'
  OBVIOUS
<1>2. P!QuietIInv'
  BY <1>1, ConnInv DEF IInv
<1>3. TypeOK' /\ TasksFit' /\ LockDiscipline'
  BY <1>1, NextType, NextTasks, NextLock DEF IInv
<1>4. ChangeMade' /\ CountIsOfManagers' /\ count' \in [Channels -> Nat]
  BY <1>1, NextCount DEF IInv
<1>5. CallsCounted'
  BY <1>1, NextCalls DEF IInv
<1>6. ServerIsOfCounts'
  BY <1>1, <1>2, <1>4, NextServer DEF IInv
<1>7. FailuresCounted' /\ RegisteredExist' /\ EventsNumbered'
  BY <1>1, NextFailures, NextRegistered, NextNumbered DEF IInv
<1>8. UsersExist' /\ ListedExist'
  BY <1>1, NextUsers, NextListed DEF IInv
<1>9. InterfacesLast' /\ BrokerLast'
  BY <1>1, NextInterfacesLast, NextBrokerLast DEF IInv
<1> QED BY <1>2, <1>3, <1>4, <1>5, <1>6, <1>7, <1>8, <1>9 DEF IInv

LEMMA Invariance == Spec => []IInv
<1> QED BY InitInv, NextInv, PTL DEF Spec

(***************************************************************************)
(* The theorems.                                                           *)
(***************************************************************************)

\* Every variable has its type; a count never goes below zero, where it would wrap
\* around.
THEOREM TypeCorrect == Spec => []TypeOK
<1> QED BY Invariance, PTL DEF IInv

\* The lists the worker walks name subscribers that exist, though their destructors
\* run in other threads.
THEOREM HandlersAlwaysExist == Spec => []HandlersExist
<1>1. ASSUME IInv PROVE HandlersExist
  <2>1. \A m \in Managers, c \in Channels : handlers[m][c] \in Seq(Subscribers)
    BY <1>1 DEF IInv, TypeOK
  <2>2. ASSUME NEW m \in Managers, NEW c \in Channels, NEW i \in DOMAIN handlers[m][c]
        PROVE  /\ handlers[m][c][i] \in Subscribers
               /\ Contains(handlers[m][c], handlers[m][c][i])
    <3>1. handlers[m][c] \in Seq(Subscribers)
      BY <2>1
    <3> QED BY <3>1 DEF Contains
  <2> QED BY <1>1, <2>2 DEF IInv, ListedExist, HandlersExist
<1> QED BY <1>1, Invariance, PTL

\* So do the callbacks of the broker, and those the worker took on its round.
THEOREM CallbacksAlwaysExist == Spec => []CallbacksExist
<1>1. IInv => CallbacksExist
  BY DEF IInv, RegisteredExist, CallbacksExist
<1> QED BY <1>1, Invariance, PTL

\* A manager whose lock is free has nobody inside, so the broker has counted the
\* channels it lists and no others.
LEMMA AtRestCounted ==
    ASSUME IInv, NEW m \in Managers, ManagerAtRest(m), NEW c \in Channels
    PROVE  m \in CountedFor(c) <=> handlers[m][c] # <<>>
<1>1. ASSUME NEW t \in Threads, Inside(t), Manager(t) = m PROVE FALSE
  BY <1>1, NamesAssumption DEF IInv, LockDiscipline, ManagerAtRest
<1> QED BY <1>1 DEF CountedFor, ToBeCounted

\* With no call in progress the reference count of a channel is the number of
\* interfaces that list a handler for it, after any calls, exceptions included.
THEOREM CountsAgree == Spec => []CountIsNumberOfManagers
<1>1. ASSUME IInv, AllAtRest, NEW c \in Channels
      PROVE  count[c] = Cardinality({m \in Managers : handlers[m][c] # <<>>})
  <2>1. \A m \in Managers : m \in CountedFor(c) <=> handlers[m][c] # <<>>
    BY <1>1, AtRestCounted DEF AllAtRest
  <2>2. CountedFor(c) = {m \in Managers : handlers[m][c] # <<>>}
    BY <2>1 DEF CountedFor
  <2> QED BY <1>1, <2>2 DEF IInv, CountIsOfManagers
<1>2. IInv => CountIsNumberOfManagers
  BY <1>1 DEF CountIsNumberOfManagers
<1> QED BY <1>2, Invariance, PTL

\* Two that differ are two.
LEMMA TwoElements ==
    ASSUME NEW a, NEW b, a # b
    PROVE  Cardinality({a, b}) = 2
<1>1. Cardinality({a}) = 1 /\ IsFiniteSet({a})
  BY FS_Singleton
<1>2. {a, b} = {a} \cup {b} /\ b \notin {a}
  OBVIOUS
<1>3. Cardinality({a} \cup {b}) = Cardinality({a}) + 1
  BY <1>1, <1>2, FS_AddElement
<1>4. Cardinality({a} \cup {b}) = 2
  BY <1>1, <1>3
<1> QED BY <1>2, <1>4

\* Unless a wake-up failed, the server sends every channel a manager lists a handler
\* for, but for one that a thread of this manager is about to subscribe to.
LEMMA Served ==
    ASSUME IInv, failures = 0, NEW m \in Managers, NEW c \in Channels,
           handlers[m][c] # <<>>,
           \A t \in Threads : Inside(t) /\ Manager(t) = m /\ task[t].kind = "subscribe"
                                  => task[t].channel # c
    PROVE  c \in server_channels
<1>1. ASSUME NEW t \in Threads, Inside(t), task[t].kind = "subscribe"
      PROVE  /\ task[t] \in Calls /\ task[t].channel \in Channels
             /\ todo[t] \subseteq {task[t].channel}
             /\ handlers[Manager(t)][task[t].channel] = <<task[t].subscriber>>
             /\ Manager(t) \in Managers /\ manager_lock[Manager(t)] = t
  <2>1. task[t] \in Calls /\ task[t].channel \in Channels /\ Manager(t) \in Managers
    BY <1>1, Operands DEF IInv, Inside
  <2> QED BY <1>1, <2>1 DEF IInv, TasksFit, ChangeMade, LockDiscipline
<1>2. ~ ToBeCounted(m, c)
  <2>1. SUFFICES ASSUME NEW t \in Threads, Inside(t), Manager(t) = m, c \in todo[t]
                 PROVE  FALSE
    BY DEF ToBeCounted
  <2>2. CASE task[t].kind = "subscribe"
    BY <1>1, <2>1, <2>2
  <2>3. CASE task[t].kind # "subscribe"
    BY <2>1, <2>3 DEF IInv, ChangeMade
  <2> QED BY <2>2, <2>3
<1>3. /\ m \in CountedFor(c) /\ IsFiniteSet(CountedFor(c))
      /\ count[c] = Cardinality(CountedFor(c))
  BY <1>2 DEF CountedFor, IInv, CountIsOfManagers
<1>4. count[c] # 0
  BY <1>3, FS_EmptySet
<1>5. SUFFICES ASSUME NEW t \in Threads, AtConnector(t), op[t].channel = c
               PROVE  FALSE
  BY <1>4 DEF IInv, ServerIsOfCounts, Ordered
<1> DEFINE n == Manager(t)
<1>6. /\ Inside(t) /\ phase[t] = "connector"
      /\ task[t].kind = "subscribe" /\ task[t].channel = c /\ count[c] = 1
  BY <1>4, <1>5 DEF IInv, LockDiscipline, CallsCounted, Inside
<1>7. /\ n \in Managers /\ n # m /\ handlers[n][c] # <<>>
      /\ manager_lock[n] = t /\ todo[t] = {}
  <2>1. task[t] \in Calls /\ handlers[n][c] = <<task[t].subscriber>>
    BY <1>1, <1>6
  <2>2. handlers[n][c] # <<>>
    BY <2>1, SingleElement
  <2> QED BY <1>1, <1>6, <2>1, <2>2 DEF IInv, TasksFit
<1>8. ~ ToBeCounted(n, c)
  <2>1. SUFFICES ASSUME NEW u \in Threads, Inside(u), Manager(u) = n, c \in todo[u]
                 PROVE  FALSE
    BY DEF ToBeCounted
  <2>2. u = t
    BY <1>7, <2>1 DEF IInv, LockDiscipline
  <2> QED BY <1>7, <2>1, <2>2
<1>9. {m, n} \subseteq CountedFor(c)
  BY <1>3, <1>7, <1>8 DEF CountedFor
<1> HIDE DEF n
<1>10. Cardinality({m, n}) = 2
  BY <1>7, TwoElements
<1>11. Cardinality({m, n}) <= Cardinality(CountedFor(c))
  BY <1>3, <1>9, FS_Subset
<1> QED BY <1>3, <1>6, <1>10, <1>11

\* Unless a wake-up failed, an interface that nobody is changing lists handlers only
\* for channels the server sends, and with no call in progress no other channel is
\* sent: the count kept the subscription, whoever came first and whoever left last.
THEOREM HandledIsServed == Spec => []ServedWhileHandled
<1>1. ASSUME IInv, failures = 0, NEW c \in Channels,
             NEW m \in Managers, ManagerAtRest(m), handlers[m][c] # <<>>
      PROVE  c \in server_channels
  <2>1. \A t \in Threads : Inside(t) => Manager(t) # m
    BY <1>1, NamesAssumption DEF IInv, LockDiscipline, ManagerAtRest
  <2> QED BY <1>1, <2>1, Served
<1>2. ASSUME IInv, failures = 0, NEW c \in Channels, AllAtRest, c \in server_channels
      PROVE  \E m \in Managers : handlers[m][c] # <<>>
  <2>1. \A t \in Threads : ~ Inside(t)
    <3>1. SUFFICES ASSUME NEW t \in Threads, Inside(t) PROVE FALSE
      OBVIOUS
    <3>2. manager_lock[Manager(t)] = t /\ task[t] \in Calls \cup Destructions
      BY <1>2, <3>1 DEF IInv, LockDiscipline, TasksFit, Inside
    <3>3. Manager(t) \in Managers
      BY <3>2, ManagerOfAssumption DEF Manager, Calls, Destructions
    <3> QED BY <1>2, <3>2, <3>3, NamesAssumption DEF AllAtRest, ManagerAtRest
  <2>2. ~ Ordered(c)
    BY <1>2, <2>1 DEF IInv, LockDiscipline, Ordered, Inside
  <2>3. count[c] # 0 /\ count[c] = Cardinality(CountedFor(c))
    BY <1>2, <2>2 DEF IInv, ServerIsOfCounts, CountIsOfManagers
  <2>4. CountedFor(c) # {}
    BY <2>3, FS_EmptySet
  <2>5. PICK m \in Managers : m \in CountedFor(c)
    BY <2>4 DEF CountedFor
  <2> QED BY <1>2, <2>5, AtRestCounted DEF AllAtRest
<1>3. IInv => ServedWhileHandled
  BY <1>1, <1>2 DEF ServedWhileHandled
<1> QED BY <1>3, Invariance, PTL

\* Unless a wake-up failed, the worker is not in its callback and has no event left
\* when the broker stops it, its locks and callback lists being gone by then.
THEOREM StoppedBrokerNotCalled == Spec => []DestroyedBrokerNotCalled
<1>1. ASSUME IInv, failures = 0, owner \in {"stopping", "joining"}
      PROVE  /\ worker # "callback"
             /\ \A i \in DOMAIN replies : replies[i] \notin Conn!Events
  <2>1. \A c \in Channels : count[c] = 0
    BY <1>1, NothingLeft DEF IInv
  <2>2. \A t \in Threads : ~ AtConnector(t)
    BY <1>1 DEF IInv, LockDiscipline, BrokerLast
  <2>3. \A c \in Channels : c \notin server_channels
    BY <1>1, <2>1, <2>2 DEF IInv, ServerIsOfCounts, Ordered
  <2>4. P!QuietInv /\ P!TypeOK
    BY <1>1 DEF IInv, P!QuietIInv, P!IInv
  <2>5. ASSUME NEW c \in Channels, P!MetaFor(c) PROVE FALSE
    BY <2>2, <2>4, <2>5 DEF P!QuietInv, P!MetasAwaited, P!MetaFor, P!Waits, AtConnector
  <2>6. ASSUME NEW i \in DOMAIN replies, replies[i] \in Conn!Events PROVE FALSE
    <3>1. replies[i].channel \in Channels \ server_channels
      BY <2>3, <2>6 DEF Conn!Events
    <3> QED BY <2>4, <2>5, <3>1 DEF P!QuietInv, P!EventsBeforeMeta, P!MetaFor
  <2>7. worker # "callback"
    <3>1. worker = "callback" => current \in Conn!Events
      BY <1>1 DEF IInv, TypeOK, Conn!TypeOK
    <3>2. worker = "callback" => current.channel \in Channels \ server_channels
      BY <2>3, <3>1 DEF Conn!Events
    <3> QED BY <2>4, <2>5, <3>2 DEF P!QuietInv, P!CallbackBeforeMeta
  <2> QED BY <2>6, <2>7
<1>2. IInv => DestroyedBrokerNotCalled
  BY <1>1 DEF DestroyedBrokerNotCalled
<1> QED BY <1>2, Invariance, PTL

(***************************************************************************)
(* EventSystem implements EventBus: what the order of events needs.        *)
(***************************************************************************)

\* A manager lists a subscriber once for a channel.
ListedOnce == \A m \in Managers, c \in Channels : Unique(handlers[m][c])

\* An interface is registered once, as long as it exists, and called once in a round.
RegisteredOnce ==
    /\ Unique(registered) /\ Unique(to_call)
    /\ \A m \in Managers : interface[m] = "present" => Contains(registered, m)

\* It is opened and closed by one thread, and not opened again.
OpenedOnce ==
    \A t \in Threads, m \in Managers : UsesInterface(t, m) =>
        /\ task[t].kind = "open" => interface[m] = "absent"
        /\ \A u \in Threads : UsesInterface(u, m) => u = t

EventAt(i) == replies[i] \in Conn!Events

\* Events arrive in the order of publication, ...
RepliesInOrder ==
    /\ \A i \in DOMAIN replies : EventAt(i) => replies[i].id <= published
    /\ \A i, j \in DOMAIN replies :
          i < j /\ EventAt(i) /\ EventAt(j) => replies[i].id < replies[j].id

\* ... the one in the callback before those still to be read, ...
CurrentComesFirst ==
    /\ worker \notin {"callback", "terminated"} => current = Conn!NoMessage
    /\ current \in Conn!Events =>
          /\ current.id <= published
          /\ \A i \in DOMAIN replies : EventAt(i) => current.id < replies[i].id

\* ... and after those a subscriber was given, unless it is the last of them and the
\* worker has been to its manager.
ReceivedBefore ==
    \A s \in Subscribers : \A k \in DOMAIN received[s] :
        /\ received[s][k] <= published
        /\ \A i \in DOMAIN replies : EventAt(i) => received[s][k] < replies[i].id
        /\ current \in Conn!Events =>
              \/ received[s][k] < current.id
              \/ /\ received[s][k] = current.id /\ dispatching
                 /\ ~ Contains(to_call, ManagerOf[s])

\* An event is owed to a listed subscriber that nobody takes out, and it is still to
\* be read or the worker has still to come to the subscriber's manager with it.
OwedOnItsWay ==
    failures = 0 =>
        \A s \in Subscribers, c \in Channels, n \in 1 .. MaxEvents :
            <<s, c, n>> \in owed =>
                /\ Contains(handlers[ManagerOf[s]][c], s)
                /\ \A t \in Threads : UsesSubscriber(t, s) => ~ Ends(t, c)
                /\ \/ Contains(replies, Conn!Message(c, n))
                   \/ /\ current = Conn!Message(c, n)
                      /\ dispatching => Contains(to_call, ManagerOf[s])

BusInv ==
    /\ IInv
    /\ ListedOnce
    /\ RegisteredOnce
    /\ OpenedOnce
    /\ RepliesInOrder
    /\ CurrentComesFirst
    /\ ReceivedBefore
    /\ OwedOnItsWay

LEMMA NextListedOnce ==
    ASSUME TypeOK, TasksFit, ListedOnce, [Next]_vars
    PROVE  ListedOnce'
<1>0. handlers \in [Managers -> [Channels -> Seq(Subscribers)]]
  BY DEF TypeOK
<1>1. CASE UNCHANGED handlers
  BY <1>1 DEF ListedOnce, Unique
<1>2. ASSUME NEW t \in Threads, ManagerStep(t) PROVE ListedOnce'
  <2>1. PICK left \in [Channels -> Seq(Subscribers)], channels \in SUBSET Channels :
           /\ handlers' = [handlers EXCEPT ![Manager(t)] = left]
           /\ Left(t, left, channels)
    BY <1>2, ManagerSteps
  <2>2. Manager(t) \in Managers
    BY <1>2, ManagerSteps, Operands
  <2>3. ASSUME NEW m \in Managers, NEW c \in Channels PROVE Unique(handlers'[m][c])
    <3>1. CASE m = Manager(t)
      <4>1. Unique(handlers[m][c]) => Unique(left[c])
        BY <2>1, <3>1 DEF Left
      <4>2. handlers'[m][c] = left[c]
        BY <1>0, <2>1, <2>2, <3>1
      <4> QED BY <4>1, <4>2 DEF ListedOnce
    <3>2. CASE m # Manager(t)
      <4>1. handlers'[m][c] = handlers[m][c]
        BY <1>0, <2>1, <2>2, <3>2
      <4> QED BY <4>1 DEF ListedOnce
    <3> QED BY <3>1, <3>2
  <2>4. \A m \in Managers, c \in Channels :
           Unique(handlers[m][c])' <=> Unique(handlers'[m][c])
    BY DEF Unique
  <2> QED BY <2>3, <2>4 DEF ListedOnce
<1> QED BY <1>1, <1>2, HandlerSteps

LEMMA NextRegisteredOnce ==
    ASSUME TypeOK, TasksFit, RegisteredExist, RegisteredOnce, OpenedOnce, [Next]_vars
    PROVE  RegisteredOnce'
<1>0. registered \in Seq(Managers) /\ to_call \in Seq(Managers)
  BY DEF TypeOK
<1>1. Unique(to_call')
  <2>1. CASE UNCHANGED dispatch_vars
    BY <2>1 DEF dispatch_vars, RegisteredOnce
  <2>2. CASE BeginDispatch \/ EndDispatch
    BY <2>2 DEF BeginDispatch, EndDispatch, CallbacksToCall, RegisteredOnce
  <2>3. CASE OnMessage
    <3>1. to_call # <<>> /\ to_call' = Tail(to_call)
      BY <2>3 DEF OnMessage
    <3>2. \A i \in DOMAIN to_call' :
             i + 1 \in DOMAIN to_call /\ to_call'[i] = to_call[i + 1]
      BY <1>0, <3>1
    <3>3. \A i \in DOMAIN to_call' : i \in Nat
      BY <1>0, <3>1
    <3> QED BY SMTT(30), <3>2, <3>3 DEF RegisteredOnce, Unique
  <2> QED BY <2>1, <2>2, <2>3, WorkerSteps DEF DispatchStep
<1>2. /\ Unique(registered')
      /\ \A m \in Managers : interface'[m] = "present" => Contains(registered', m)
  <2>1. CASE UNCHANGED <<registered, interface>>
    BY <2>1 DEF RegisteredOnce
  <2>2. ASSUME NEW t \in Threads, RegisterCallback(t) \/ RemoveCallback(t)
        PROVE  /\ Unique(registered')
               /\ \A m \in Managers : interface'[m] = "present" => Contains(registered', m)
    <3> DEFINE n == task[t].interface
    <3>1. n \in Managers /\ UsesInterface(t, n)
      BY <2>2, CallbackSteps
    <3>2. CASE /\ task[t].kind = "open"
               /\ registered' = Append(registered, n)
               /\ \A m \in Managers :
                     interface'[m] = IF m = n THEN "present" ELSE interface[m]
      <4>1. ~ Contains(registered, n)
        BY <3>1, <3>2 DEF OpenedOnce, RegisteredExist
      <4>2. Unique(registered')
        BY <1>0, <3>1, <3>2, <4>1, AppendUnique DEF RegisteredOnce
      <4>3. \A m \in Managers :
               Contains(registered', m) <=> Contains(registered, m) \/ m = n
        BY <2>2, <3>2, CallbackSteps
      <4> QED BY <3>2, <4>2, <4>3 DEF RegisteredOnce
    <3>3. CASE /\ registered' = RemoveAll(registered, n)
               /\ \A m \in Managers :
                     interface'[m] = IF m = n THEN "destroyed" ELSE interface[m]
      <4>1. Unique(registered')
        BY <1>0, <3>3, RemoveAllUnique DEF RegisteredOnce
      <4>2. \A m \in Managers :
               Contains(registered', m) <=> m # n /\ Contains(registered, m)
        BY <2>2, <3>3, CallbackSteps
      <4> QED BY <3>3, <4>1, <4>2 DEF RegisteredOnce
    <3> QED BY <2>2, <3>2, <3>3, CallbackSteps
  <2> QED BY <2>1, <2>2, InterfaceSteps
<1>3. /\ Unique(registered)' <=> Unique(registered')
      /\ Unique(to_call)' <=> Unique(to_call')
      /\ \A m \in Managers : Contains(registered, m)' <=> Contains(registered', m)
  BY DEF Unique, Contains
<1> QED BY <1>1, <1>2, <1>3 DEF RegisteredOnce

LEMMA NextOpenedOnce ==
    ASSUME TypeOK, TasksFit, OpenedOnce, [Next]_vars
    PROVE  OpenedOnce'
<1>1. CASE UNCHANGED <<thread_vars, interface>>
  BY <1>1 DEF thread_vars, OpenedOnce, UsesInterface
<1>2. ASSUME NEW t \in Threads, ManagerStep(t) \/ BrokerStep(t) PROVE OpenedOnce'
  <2>1. /\ UNCHANGED interface
        /\ \A u \in Threads \ {t} : task'[u] = task[u]
        /\ task'[t] = task[t] \/ task'[t] = NoTask
    BY <1>2, GoesOn, Returns, OthersStay
  <2> QED BY <2>1 DEF OpenedOnce, UsesInterface, NoTask
<1>3. ASSUME NEW t \in Threads, ObjectStep(t) PROVE OpenedOnce'
  <2>0. \A u \in Threads \ {t} : task'[u] = task[u]
    BY <1>3, OthersStay
  <2>1. CASE RegisterCallback(t) \/ RemoveCallback(t)
    <3>1. /\ task[t].interface \in Managers /\ task'[t] = NoTask
          /\ UsesInterface(t, task[t].interface)
          /\ \A m \in Managers \ {task[t].interface} : interface'[m] = interface[m]
      BY <2>1, CallbackSteps
    <3>2. ASSUME NEW u \in Threads, NEW m \in Managers, UsesInterface(u, m)'
          PROVE  UsesInterface(u, m) /\ u # t /\ task'[u] = task[u]
      BY <2>0, <3>1, <3>2 DEF UsesInterface, NoTask
    <3>3. ASSUME NEW u \in Threads, NEW m \in Managers, UsesInterface(u, m)'
          PROVE  interface'[m] = interface[m]
      BY <3>1, <3>2, <3>3 DEF OpenedOnce
    <3> QED BY <3>2, <3>3 DEF OpenedOnce
  <2>2. ASSUME NEW m \in Managers, NEW kind \in {"open", "close"}, UNCHANGED interface,
               kind = "open" => interface[m] = "absent",
               \A u \in Threads : ~ UsesInterface(u, m),
               task'[t] = [kind |-> kind, interface |-> m]
        PROVE  OpenedOnce'
    <3>1. /\ task'[t].kind = kind /\ task'[t].interface = m
      BY <2>2
    <3>2. \A n \in Managers : UsesInterface(t, n)' => n = m
      BY <3>1 DEF UsesInterface
    <3>3. \A u \in Threads \ {t}, n \in Managers :
             UsesInterface(u, n)' <=> UsesInterface(u, n)
      BY <2>0 DEF UsesInterface
    <3> QED BY <2>0, <2>2, <3>1, <3>2, <3>3 DEF OpenedOnce
  <2>3. ASSUME UNCHANGED interface, task'[t].kind \notin {"open", "close"}
        PROVE  OpenedOnce'
    BY <2>0, <2>3 DEF OpenedOnce, UsesInterface
  <2>5. CASE \E m \in Managers :
               /\ owner = "ready" /\ interface[m] = "absent"
               /\ \A u \in Threads : ~ UsesInterface(u, m)
               /\ task'[t] = [kind |-> "open", interface |-> m]
               /\ UNCHANGED <<registered, interface>>
    BY <2>2, <2>5
  <2>6. CASE \E m \in Managers :
               /\ interface[m] = "present"
               /\ \A s \in Subscribers : ManagerOf[s] = m => subscriber[s] # "present"
               /\ \A u \in Threads : ~ UsesInterface(u, m)
               /\ task'[t] = [kind |-> "close", interface |-> m]
               /\ UNCHANGED <<registered, interface>>
    BY <2>2, <2>6
  <2>7. CASE /\ UNCHANGED <<registered, interface>>
             /\ \E s : \/ task'[t] = [kind |-> "destroy", subscriber |-> s]
                       \/ \E kind \in {"subscribe", "unsubscribe"} : \E c :
                             task'[t] = [kind |-> kind, subscriber |-> s, channel |-> c]
    <3>1. ASSUME NEW s, task'[t] = [kind |-> "destroy", subscriber |-> s]
          PROVE  task'[t].kind \notin {"open", "close"}
      BY <3>1
    <3>2. ASSUME NEW s, NEW c, NEW kind \in {"subscribe", "unsubscribe"},
                 task'[t] = [kind |-> kind, subscriber |-> s, channel |-> c]
          PROVE  task'[t].kind \notin {"open", "close"}
      BY <3>2
    <3> QED BY <2>3, <2>7, <3>1, <3>2
  <2> QED BY <1>3, <2>1, <2>5, <2>6, <2>7, ObjectSteps
<1>4. ASSUME NEW t \in Threads, RegisterCallback(t) \/ RemoveCallback(t)
      PROVE  OpenedOnce'
  BY <1>3, <1>4 DEF ObjectStep
<1> QED BY <1>1, <1>2, <1>3, <1>4, TasksStay, InterfaceSteps

\* Every reply has a number.
LEMMA RepliesNumbered ==
    ASSUME TypeOK
    PROVE  /\ replies \in Seq(Conn!Replies)
           /\ \A i \in DOMAIN replies : replies[i].id \in Nat /\ i \in Nat
           /\ current \in Conn!Events => current.id \in Nat
<1>1. replies \in Seq(Conn!Replies)
  BY DEF TypeOK, Conn!TypeOK
<1>2. \A r \in Conn!Replies : r.id \in Nat
  BY ConnAssumptions DEF Conn!Replies
<1>3. \A i \in DOMAIN replies : replies[i] \in Conn!Replies /\ i \in Nat
  BY <1>1
<1>4. Conn!Events \subseteq Conn!Replies
  BY DEF Conn!Events
<1> QED BY <1>1, <1>2, <1>3, <1>4

\* Where the events to be read come from: they move up by one when the worker reads,
\* and one that is published comes last.
LEMMA EventsMove ==
    ASSUME TypeOK, TasksFit, [Next]_vars
    PROVE  /\ published \in Nat /\ published' \in Nat /\ published <= published'
           /\ \E k \in {0, 1} :
                 /\ \A i \in DOMAIN replies' : replies'[i] \in Conn!Events =>
                       \/ i + k \in DOMAIN replies /\ replies'[i] = replies[i + k]
                       \/ /\ k = 0 /\ i = Len(replies) + 1
                          /\ replies'[i].id = published + 1
                          /\ published' = published + 1
                 /\ \/ current' = current \/ current' \notin Conn!Events
                    \/ /\ k = 1 /\ 1 \in DOMAIN replies /\ current' = replies[1]
                       /\ current' \in Conn!Events
                       /\ worker \in {"consume", "read"}
<1>0. replies \in Seq(Conn!Replies) /\ published \in Nat
  BY ConnAssumptions DEF TypeOK, Conn!TypeOK
<1> DEFINE Moved(k) == \A i \in DOMAIN replies' : replies'[i] \in Conn!Events =>
                          \/ i + k \in DOMAIN replies /\ replies'[i] = replies[i + k]
                          \/ /\ k = 0 /\ i = Len(replies) + 1
                             /\ replies'[i].id = published + 1
                             /\ published' = published + 1
<1>1. CASE UNCHANGED <<replies, current, published>>
  <2>1. Moved(0)
    BY <1>0, <1>1
  <2> QED BY <1>0, <1>1, <2>1
<1>2. ASSUME NEW r \in Conn!Replies \ Conn!Events, replies' = Append(replies, r),
             UNCHANGED <<current, published>>
      PROVE  Moved(0)
  <2>1. /\ \A i \in DOMAIN replies : replies'[i] = replies[i]
        /\ replies'[Len(replies) + 1] = r
        /\ DOMAIN replies' = (DOMAIN replies) \cup {Len(replies) + 1}
        /\ DOMAIN replies \subseteq Nat
    BY <1>0, <1>2
  <2> QED BY <1>2, <2>1
<1>3. ASSUME NEW c \in Channels, Conn!Publish(c)
      PROVE  Moved(0) /\ UNCHANGED current /\ published' = published + 1
  <2>1. /\ UNCHANGED current /\ published' = published + 1
        /\ UNCHANGED replies \/ replies' = Append(replies, Conn!Message(c, published + 1))
    BY <1>3 DEF Conn!Publish, Conn!Deliver
  <2>2. CASE UNCHANGED replies
    BY <1>0, <2>1, <2>2
  <2>3. CASE replies' = Append(replies, Conn!Message(c, published + 1))
    <3>1. /\ \A i \in DOMAIN replies : replies'[i] = replies[i]
          /\ replies'[Len(replies) + 1] = Conn!Message(c, published + 1)
          /\ DOMAIN replies' = (DOMAIN replies) \cup {Len(replies) + 1}
          /\ DOMAIN replies \subseteq Nat
      BY <1>0, <2>3
    <3>2. Conn!Message(c, published + 1).id = published + 1
      BY DEF Conn!Message
    <3> QED BY <2>1, <3>1, <3>2
  <2> QED BY <2>1, <2>2, <2>3
<1>4. ASSUME replies # <<>>, replies' = Tail(replies), UNCHANGED published
      PROVE  Moved(1) /\ 1 \in DOMAIN replies /\ Head(replies) = replies[1]
  <2>1. /\ 1 \in DOMAIN replies /\ Head(replies) = replies[1]
        /\ \A i \in DOMAIN replies' : i + 1 \in DOMAIN replies
                                      /\ replies'[i] = replies[i + 1]
    BY <1>0, <1>4
  <2> QED BY <2>1
<1>5. ASSUME Conn!CallbackReturns
      PROVE  Moved(0) /\ UNCHANGED published /\ current' \notin Conn!Events
  <2>1. /\ UNCHANGED <<replies, published>> /\ current' = Conn!NoMessage
    BY <1>5 DEF Conn!CallbackReturns, Conn!WorkerUnchanged, Conn!counters
  <2>2. Conn!NoMessage \notin Conn!Events
    BY ConnAssumptions DEF Conn!NoMessage, Conn!Message, Conn!Events
  <2> QED BY <1>0, <2>1, <2>2
<1>6. ASSUME replies' = <<>> PROVE Moved(0)
  BY <1>6
<1> HIDE DEF Moved
<1>7. CASE \E r \in Conn!Replies \ Conn!Events : /\ replies' = Append(replies, r)
                                                /\ UNCHANGED <<current, published>>
  <2>1. Moved(0)
    BY <1>2, <1>7
  <2> QED BY <1>0, <1>7, <2>1 DEF Moved
<1>8. CASE \E c \in Channels : Conn!Publish(c)
  <2>1. Moved(0) /\ UNCHANGED current /\ published' = published + 1
    BY <1>3, <1>8
  <2> QED BY <1>0, <2>1 DEF Moved
<1>9. CASE /\ replies # <<>> /\ replies' = Tail(replies) /\ UNCHANGED published
           /\ \/ UNCHANGED current
              \/ /\ Head(replies) \in Conn!Events /\ worker \in {"consume", "read"}
                 /\ current' = Head(replies)
  <2>1. Moved(1) /\ 1 \in DOMAIN replies /\ Head(replies) = replies[1]
    BY <1>4, <1>9
  <2> QED BY <1>0, <1>9, <2>1 DEF Moved
<1>10. CASE Conn!CallbackReturns
  <2>1. Moved(0) /\ UNCHANGED published /\ current' \notin Conn!Events
    BY <1>5, <1>10
  <2> QED BY <1>0, <2>1 DEF Moved
<1>11. CASE replies' = <<>> /\ UNCHANGED <<current, published>>
  <2>1. Moved(0)
    BY <1>6, <1>11
  <2> QED BY <1>0, <1>11, <2>1 DEF Moved
<1> QED BY <1>1, <1>7, <1>8, <1>9, <1>10, <1>11, NextReplies

\* The event that moves into the callback is the first one.
LEMMA NextRepliesInOrder ==
    ASSUME TypeOK, TypeOK', TasksFit, RepliesInOrder, [Next]_vars
    PROVE  RepliesInOrder'
<1>0. /\ replies \in Seq(Conn!Replies)
      /\ \A i \in DOMAIN replies : replies[i].id \in Nat /\ i \in Nat
  BY RepliesNumbered
<1>1. Conn!Events' = Conn!Events
  BY DEF Conn!Events, Conn!Replies
<1>2. PICK k \in {0, 1} :
         \A i \in DOMAIN replies' : replies'[i] \in Conn!Events =>
            \/ i + k \in DOMAIN replies /\ replies'[i] = replies[i + k]
            \/ /\ k = 0 /\ i = Len(replies) + 1
               /\ replies'[i].id = published + 1
               /\ published' = published + 1
  BY EventsMove
<1>3. published \in Nat /\ published' \in Nat /\ published <= published'
  BY EventsMove
<1>4. ASSUME NEW i \in DOMAIN replies', replies'[i] \in Conn!Events
      PROVE  replies'[i].id <= published'
  BY <1>0, <1>2, <1>3, <1>4 DEF RepliesInOrder, EventAt
<1>5. ASSUME NEW i \in DOMAIN replies', NEW j \in DOMAIN replies', i < j,
             replies'[i] \in Conn!Events, replies'[j] \in Conn!Events
      PROVE  replies'[i].id < replies'[j].id
  <2>0. DOMAIN replies' \subseteq Nat /\ DOMAIN replies = 1 .. Len(replies)
        /\ Len(replies) \in Nat
    <3>1. Conn!TypeOK'
      BY DEF TypeOK
    <3> QED BY <1>0, <3>1 DEF Conn!TypeOK
  <2>1. CASE i + k \in DOMAIN replies /\ replies'[i] = replies[i + k]
    <3>1. CASE j + k \in DOMAIN replies /\ replies'[j] = replies[j + k]
      <4>1. i + k < j + k
        BY <1>5, <2>0
      <4> QED BY <1>5, <2>1, <3>1, <4>1 DEF RepliesInOrder, EventAt
    <3>2. CASE replies'[j].id = published + 1
      BY <1>0, <1>3, <1>5, <2>1, <3>2 DEF RepliesInOrder, EventAt
    <3> QED BY <1>2, <1>5, <3>1, <3>2
  <2>2. CASE k = 0 /\ i = Len(replies) + 1
    BY <1>2, <1>5, <2>0, <2>2
  <2> QED BY <1>2, <1>5, <2>1, <2>2
<1> QED BY <1>1, <1>4, <1>5 DEF RepliesInOrder, EventAt

\* Outside its callback the worker has no event.
LEMMA NextCallback ==
    ASSUME TypeOK, TasksFit, CurrentComesFirst, [Next]_vars,
           worker' \notin {"callback", "terminated"}
    PROVE  current' = Conn!NoMessage
<1>1. ASSUME NEW t \in Threads, EndsProcess(t) PROVE FALSE
  BY <1>1 DEF EndsProcess, ConnectorThrows
<1>2. ASSUME UNCHANGED <<worker, current>> PROVE current' = Conn!NoMessage
  BY <1>2 DEF CurrentComesFirst
<1>3. ASSUME NEW t \in Threads, Conn!CallerStep(t) \/ Conn!NotifyFails(t)
      PROVE  UNCHANGED <<worker, current>>
  BY <1>3 DEF Conn!CallerStep, Conn!NotifyFails, Conn!Lock, Conn!CheckPasses,
              Conn!CheckThrows, Conn!AppendCommand, Conn!Notify, Conn!Spin, Conn!Reset,
              Conn!CallerUnchanged
<1>4. ASSUME \/ Conn!ServerExecutes \/ Conn!OwnerStep \/ Conn!OwnerNotifyFails
             \/ Conn!Stop
             \/ \E c \in Channels : Conn!Publish(c)
             \/ \E t \in Threads, kind \in Conn!Kinds, c \in Channels :
                   Conn!Call(t, kind, c)
             \/ UNCHANGED Conn!vars
      PROVE  UNCHANGED <<worker, current>>
  BY <1>4 DEF Conn!ServerExecutes, Conn!OwnerStep, Conn!OwnerNotifyFails, Conn!Stop,
              Conn!HandshakeNotify, Conn!Constructed, Conn!Wake, Conn!Join,
              Conn!OwnerUnchanged, Conn!Publish, Conn!Call, Conn!CallerUnchanged,
              Conn!vars
<1>5. ASSUME \/ Conn!WorkerLoop \/ Conn!WriteCommand \/ Conn!BlockInRead
             \/ Conn!ReceiveTechnical \/ Conn!ReceiveMeta \/ Conn!ConsumeReturns
      PROVE  worker \notin {"callback", "terminated"} /\ UNCHANGED current
  BY <1>5 DEF Conn!WorkerLoop, Conn!WriteCommand, Conn!BlockInRead, Conn!Receives,
              Conn!ReceiveTechnical, Conn!ReceiveMeta, Conn!ConsumeReturns,
              Conn!WorkerUnchanged
<1>6. ~ Conn!ReceiveEvent /\ ~ Conn!ReceiveMetaThrows
  BY DEF Conn!ReceiveEvent, Conn!ReceiveMetaThrows
<1>7. Conn!CallbackReturns => current' = Conn!NoMessage
  BY DEF Conn!CallbackReturns
<1>8. CASE [Conn!Next]_Conn!vars
  BY <1>2, <1>3, <1>4, <1>5, <1>6, <1>7, <1>8
  DEF Conn!Next, Conn!Finished, Conn!WorkerStep, CurrentComesFirst
<1> QED BY <1>1, <1>8, ConnSteps

LEMMA NextCurrentComesFirst ==
    ASSUME TypeOK, TypeOK', TasksFit, RepliesInOrder, CurrentComesFirst, [Next]_vars
    PROVE  CurrentComesFirst'
<1>0. /\ \A i \in DOMAIN replies : replies[i].id \in Nat /\ i \in Nat
      /\ current \in Conn!Events => current.id \in Nat
      /\ replies \in Seq(Conn!Replies)
  BY RepliesNumbered
<1>1. Conn!Events' = Conn!Events /\ Conn!NoMessage' = Conn!NoMessage
  BY DEF Conn!Events, Conn!Replies, Conn!NoMessage, Conn!Message
<1>2. PICK k \in {0, 1} :
         /\ \A i \in DOMAIN replies' : replies'[i] \in Conn!Events =>
               \/ i + k \in DOMAIN replies /\ replies'[i] = replies[i + k]
               \/ /\ k = 0 /\ i = Len(replies) + 1
                  /\ replies'[i].id = published + 1
                  /\ published' = published + 1
         /\ \/ current' = current \/ current' \notin Conn!Events
            \/ /\ k = 1 /\ 1 \in DOMAIN replies /\ current' = replies[1]
               /\ current' \in Conn!Events
               /\ worker \in {"consume", "read"}
  BY EventsMove
<1>3. published \in Nat /\ published' \in Nat /\ published <= published'
  BY EventsMove
<1>4. ASSUME current' \in Conn!Events PROVE current'.id <= published'
  BY <1>0, <1>2, <1>3, <1>4 DEF RepliesInOrder, CurrentComesFirst, EventAt
<1>5. ASSUME current' \in Conn!Events, NEW i \in DOMAIN replies',
             replies'[i] \in Conn!Events
      PROVE  current'.id < replies'[i].id
  <2>0. i \in Nat \ {0}
    <3>1. Conn!TypeOK'
      BY DEF TypeOK
    <3> QED BY <3>1 DEF Conn!TypeOK
  <2>1. CASE current' = current
    BY <1>0, <1>2, <1>3, <1>5, <2>1 DEF CurrentComesFirst, EventAt
  <2>2. CASE k = 1 /\ 1 \in DOMAIN replies /\ current' = replies[1]
    <3>1. i + 1 \in DOMAIN replies /\ replies'[i] = replies[i + 1]
      BY <1>2, <1>5, <2>2
    <3>2. 1 < i + 1
      BY <2>0
    <3> QED BY <1>5, <2>2, <3>1, <3>2 DEF RepliesInOrder, EventAt
  <2> QED BY <1>2, <1>5, <2>1, <2>2
<1> QED BY <1>1, <1>4, <1>5, NextCallback DEF CurrentComesFirst, EventAt

\* An event is given once to each subscriber the manager lists for its channel.
LEMMA Deliveries ==
    ASSUME TypeOK, RegisteredExist, EventsNumbered, ListedOnce, ~ Conn!Over, OnMessage
    PROVE  /\ dispatching /\ worker = "callback" /\ to_call # <<>>
           /\ Head(to_call) \in Managers /\ to_call' = Tail(to_call)
           /\ current \in Conn!Events /\ current.channel \in Channels
           /\ current.id \in 1 .. MaxEvents
           /\ UNCHANGED <<conn_vars, dispatching, object_vars, thread_vars>>
           /\ owed' = {o \in owed :
                         ~ (/\ o[3] = current.id
                            /\ Contains(handlers[Head(to_call)][current.channel], o[1]))}
           /\ received' = [s \in Subscribers |->
                             IF Contains(handlers[Head(to_call)][current.channel], s)
                             THEN Append(received[s], current.id) ELSE received[s]]
<1> DEFINE called == Called(Head(to_call), current.channel)
<1>1. /\ dispatching /\ to_call # <<>> /\ to_call' = Tail(to_call)
      /\ UNCHANGED <<conn_vars, dispatching, object_vars, thread_vars>>
      /\ received' = [s \in Subscribers |-> received[s] \o
                          [i \in 1 .. Times(called, s) |-> current.id]]
      /\ owed' = {o \in owed : ~ (o[3] = current.id /\ Contains(called, o[1]))}
  BY DEF OnMessage
<1>2. /\ worker = "callback"
      /\ current \in Conn!Events /\ current.channel \in Channels
      /\ current.id \in 1 .. MaxEvents
  BY <1>1, CallbackGiven
<1>3. Head(to_call) \in Managers
  <2>1. to_call \in Seq(Managers)
    BY DEF TypeOK
  <2> QED BY <1>1, <2>1
<1>4. /\ called = handlers[Head(to_call)][current.channel]
      /\ called \in Seq(Subscribers) /\ Unique(called)
  BY <1>2, <1>3 DEF Called, TypeOK, ListedOnce
<1> HIDE DEF called
<1>5. ASSUME NEW s \in Subscribers
      PROVE  received[s] \o [i \in 1 .. Times(called, s) |-> current.id]
                 = IF Contains(called, s) THEN Append(received[s], current.id)
                                          ELSE received[s]
  <2>1. Times(called, s) = IF Contains(called, s) THEN 1 ELSE 0
    BY <1>4, Places DEF Times
  <2>2. received[s] \in Seq(1 .. MaxEvents)
    BY DEF TypeOK
  <2>3. ASSUME NEW list \in Seq(1 .. MaxEvents), NEW e \in 1 .. MaxEvents
        PROVE  /\ list \o [i \in 1 .. 1 |-> e] = Append(list, e)
               /\ list \o [i \in 1 .. 0 |-> e] = list
    <3>1. [i \in 1 .. 1 |-> e] = <<e>> /\ [i \in 1 .. 0 |-> e] = <<>>
      OBVIOUS
    <3>2. list \o <<e>> = Append(list, e) /\ list \o <<>> = list
      OBVIOUS
    <3> QED BY <3>1, <3>2
  <2> QED BY <1>2, <2>1, <2>2, <2>3
<1>6. received' = [s \in Subscribers |-> IF Contains(called, s)
                                         THEN Append(received[s], current.id)
                                         ELSE received[s]]
  BY <1>1, <1>5
<1> QED BY <1>1, <1>2, <1>3, <1>4, <1>6

\* Outside of it nobody is given anything.
LEMMA OnlyOnMessageGives ==
    ASSUME TypeOK, TasksFit, [Next]_vars
    PROVE  UNCHANGED received \/ (~ Conn!Over /\ OnMessage)
<1> QED BY WorkerSteps DEF DispatchStep, BeginDispatch, EndDispatch, dispatch_vars

LEMMA NextReceivedBefore ==
    ASSUME TypeOK, TypeOK', TasksFit, RegisteredExist, EventsNumbered, ListedExist,
           ListedOnce, RegisteredOnce, RepliesInOrder, CurrentComesFirst,
           ReceivedBefore, [Next]_vars
    PROVE  ReceivedBefore'
<1>0. /\ \A i \in DOMAIN replies : replies[i].id \in Nat /\ i \in Nat
      /\ current \in Conn!Events => current.id \in Nat
      /\ \A i \in DOMAIN replies' : replies'[i].id \in Nat
      /\ received \in [Subscribers -> Seq(1 .. MaxEvents)]
  <2>1. \A i \in DOMAIN replies' : replies'[i].id \in Nat
    <3>1. replies' \in Seq(Conn!Replies)
      <4>1. Conn!Replies' = Conn!Replies
        BY DEF Conn!Replies
      <4> QED BY <4>1 DEF TypeOK, Conn!TypeOK
    <3>2. \A i \in DOMAIN replies' : replies'[i] \in Conn!Replies
      BY <3>1
    <3> QED BY <3>2, ConnAssumptions DEF Conn!Replies
  <2> QED BY <2>1, RepliesNumbered DEF TypeOK
<1>1. Conn!Events' = Conn!Events
  BY DEF Conn!Events, Conn!Replies
<1>2. PICK k \in {0, 1} :
         /\ \A i \in DOMAIN replies' : replies'[i] \in Conn!Events =>
               \/ i + k \in DOMAIN replies /\ replies'[i] = replies[i + k]
               \/ /\ k = 0 /\ i = Len(replies) + 1
                  /\ replies'[i].id = published + 1
                  /\ published' = published + 1
         /\ \/ current' = current \/ current' \notin Conn!Events
            \/ /\ k = 1 /\ 1 \in DOMAIN replies /\ current' = replies[1]
               /\ current' \in Conn!Events
               /\ worker \in {"consume", "read"}
  BY EventsMove
<1>3. published \in Nat /\ published' \in Nat /\ published <= published'
  BY EventsMove
<1>4. ASSUME NEW s \in Subscribers, NEW n \in 1 .. MaxEvents,
             n <= published,
             \A i \in DOMAIN replies : EventAt(i) => n < replies[i].id,
             current \in Conn!Events =>
                 \/ n < current.id
                 \/ n = current.id /\ dispatching /\ ~ Contains(to_call, ManagerOf[s])
      PROVE  /\ n <= published'
             /\ \A i \in DOMAIN replies' : replies'[i] \in Conn!Events
                                               => n < replies'[i].id
             /\ current' \in Conn!Events =>
                   \/ n < current'.id
                   \/ /\ n = current'.id /\ dispatching'
                      /\ ~ Contains(to_call', ManagerOf[s])
  <2>0. n \in Nat
    BY <1>4, BoundsAssumption
  <2>1. \A i \in DOMAIN replies' : replies'[i] \in Conn!Events => n < replies'[i].id
    BY <1>0, <1>2, <1>3, <1>4, <2>0 DEF EventAt
  <2>2. ASSUME current' \in Conn!Events, ~ n < current'.id
        PROVE  n = current'.id /\ dispatching' /\ ~ Contains(to_call', ManagerOf[s])
    <3>1. current' = current
      BY <1>0, <1>2, <1>4, <2>0, <2>2 DEF EventAt
    <3>2. n = current.id /\ dispatching /\ ~ Contains(to_call, ManagerOf[s])
      BY <1>4, <2>2, <3>1
    <3>3. ~ BeginDispatch
      BY <3>2 DEF BeginDispatch
    <3>4. ~ EndDispatch
      <4>1. Conn!NoMessage \notin Conn!Events
        BY ConnAssumptions DEF Conn!NoMessage, Conn!Message, Conn!Events
      <4> QED BY <2>2, <4>1 DEF EndDispatch, Conn!CallbackReturns
    <3>5. CASE OnMessage
      <4>1. to_call # <<>> /\ to_call' = Tail(to_call) /\ dispatching' = dispatching
        BY <3>5 DEF OnMessage
      <4>2. to_call \in Seq(Managers)
        BY DEF TypeOK
      <4>3. ~ Contains(to_call', ManagerOf[s])
        BY <3>2, <4>1, <4>2, HeadAndTailElements
      <4> QED BY <3>1, <3>2, <4>1, <4>3
    <3>6. CASE UNCHANGED dispatch_vars
      BY <3>1, <3>2, <3>6 DEF dispatch_vars
    <3> QED BY <3>3, <3>4, <3>5, <3>6, WorkerSteps DEF DispatchStep
  <2> QED BY <1>3, <1>4, <2>0, <2>1, <2>2
<1>5. ASSUME NEW s \in Subscribers, NEW k2 \in DOMAIN received'[s]
      PROVE  /\ received'[s][k2] <= published'
             /\ \A i \in DOMAIN replies' : replies'[i] \in Conn!Events
                                               => received'[s][k2] < replies'[i].id
             /\ current' \in Conn!Events =>
                   \/ received'[s][k2] < current'.id
                   \/ /\ received'[s][k2] = current'.id /\ dispatching'
                      /\ ~ Contains(to_call', ManagerOf[s])
  <2>1. CASE k2 \in DOMAIN received[s] /\ received'[s][k2] = received[s][k2]
    <3>0. received[s] \in Seq(1 .. MaxEvents)
      BY <1>0
    <3>1. received[s][k2] \in 1 .. MaxEvents
      <4>1. \A S : \A list \in Seq(S) : \A i \in DOMAIN list : list[i] \in S
        OBVIOUS
      <4> QED BY <2>1, <3>0, <4>1
    <3> QED BY <1>4, <2>1, <3>1 DEF ReceivedBefore
  <2>2. CASE ~ (k2 \in DOMAIN received[s] /\ received'[s][k2] = received[s][k2])
    <3>1. ~ Conn!Over /\ OnMessage
      BY <1>5, <2>2, OnlyOnMessageGives
    <3> DEFINE called == handlers[Head(to_call)][current.channel]
    <3>2. /\ dispatching /\ to_call # <<>> /\ Head(to_call) \in Managers
          /\ to_call' = Tail(to_call) /\ UNCHANGED <<conn_vars, dispatching>>
          /\ current \in Conn!Events /\ current.id \in 1 .. MaxEvents
          /\ current.channel \in Channels
          /\ received'[s] = IF Contains(called, s) THEN Append(received[s], current.id)
                                                   ELSE received[s]
      BY <3>1, Deliveries
    <3>3. Contains(called, s) /\ received'[s][k2] = current.id
      <4>1. received[s] \in Seq(1 .. MaxEvents)
        BY <1>0
      <4>2. Contains(called, s)
        BY <1>5, <2>2, <3>2
      <4>3. /\ \A i \in DOMAIN received[s] : received'[s][i] = received[s][i]
            /\ received'[s][Len(received[s]) + 1] = current.id
            /\ DOMAIN received'[s] = (DOMAIN received[s]) \cup {Len(received[s]) + 1}
        BY <3>2, <4>1, <4>2
      <4> QED BY <1>5, <2>2, <4>2, <4>3
    <3>4. ManagerOf[s] = Head(to_call)
      BY <3>2, <3>3 DEF ListedExist
    <3>5. ~ Contains(to_call', ManagerOf[s])
      <4>1. to_call \in Seq(Managers) /\ Unique(to_call)
        BY DEF TypeOK, RegisteredOnce
      <4>2. /\ \A i \in 1 .. Len(Tail(to_call)) : /\ Tail(to_call)[i] = to_call[i + 1]
                                                  /\ i + 1 \in 1 .. Len(to_call)
                                                  /\ i + 1 # 1
            /\ Head(to_call) = to_call[1] /\ 1 \in 1 .. Len(to_call)
        BY <3>2, <4>1
      <4> QED BY <3>2, <3>4, <4>1, <4>2 DEF Contains, Unique
    <3>6. UNCHANGED <<replies, current, published>>
      BY <3>2 DEF conn_vars
    <3> QED BY <3>2, <3>3, <3>5, <3>6 DEF CurrentComesFirst, EventAt
  <2> QED BY <2>1, <2>2
<1>6. \A m \in Managers : Contains(to_call, m)' <=> Contains(to_call', m)
  BY DEF Contains
<1>7. \A s \in Subscribers : ManagerOf[s] \in Managers
  BY ManagerOfAssumption
<1> QED BY <1>1, <1>5, <1>6, <1>7 DEF ReceivedBefore, EventAt

\* The server sends whatever somebody is subscribed to.
LEMMA SubscribersServed ==
    ASSUME IInv, failures = 0, NEW c \in Channels, NEW s \in SubscribedTo(c)
    PROVE  c \in server_channels
<1> DEFINE m == ManagerOf[s]
<1>1. /\ s \in Subscribers /\ m \in Managers /\ Contains(handlers[m][c], s)
      /\ \A t \in Threads : UsesSubscriber(t, s) =>
            task[t].kind # "destroy" /\ task[t].channel # c
  BY ManagerOfAssumption DEF SubscribedTo
<1>2. handlers[m][c] # <<>>
  <2>1. handlers[m][c] \in Seq(Subscribers)
    BY <1>1 DEF IInv, TypeOK
  <2> QED BY <1>1, <2>1, EmptyList
<1>3. ASSUME NEW t \in Threads, Inside(t), Manager(t) = m, task[t].kind = "subscribe",
             task[t].channel = c
      PROVE  FALSE
  <2>1. handlers[m][c] = <<task[t].subscriber>>
    BY <1>3 DEF IInv, ChangeMade
  <2>2. s = task[t].subscriber
    BY <1>1, <2>1, SingleElement
  <2> QED BY <1>1, <1>3, <2>2 DEF UsesSubscriber
<1> QED BY <1>1, <1>2, <1>3, Served

\* An event that is still to be read stays there until the worker is given it or the
\* connection is closed.
LEMMA EventsStay ==
    ASSUME TypeOK, TasksFit, [Next]_vars, NEW e \in Conn!Events, Contains(replies, e)
    PROVE  \/ Contains(replies', e)
           \/ current' = e /\ worker \in {"consume", "read"}
           \/ owner = "joining"
<1>0. replies \in Seq(Conn!Replies)
  BY RepliesNumbered
<1>1. ASSUME NEW r, r \in Conn!Replies, replies' = Append(replies, r)
      PROVE  Contains(replies', e)
  BY <1>0, <1>1, AppendElements
<1>2. ASSUME replies # <<>>, replies' = Tail(replies)
      PROVE  Contains(replies', e) \/ e = Head(replies)
  BY <1>0, <1>2, HeadAndTailElements
<1>3. UNCHANGED replies => Contains(replies', e)
  OBVIOUS
<1>4. ASSUME NEW c \in Channels, Conn!Publish(c) PROVE Contains(replies', e)
  <2>1. \/ UNCHANGED replies
        \/ replies' = Append(replies, Conn!Message(c, published + 1))
    BY <1>4 DEF Conn!Publish, Conn!Deliver
  <2>2. Conn!Message(c, published + 1) \in Conn!Replies
    <3>1. published \in Nat /\ published < MaxEvents
      BY <1>4, EventsMove DEF Conn!Publish
    <3> QED BY <3>1, BoundsAssumption DEF Conn!Message, Conn!Replies
  <2> QED BY <1>1, <1>3, <2>1, <2>2
<1>5. Conn!CallbackReturns => Contains(replies', e)
  BY <1>3 DEF Conn!CallbackReturns
<1> QED BY <1>1, <1>2, <1>3, <1>4, <1>5, NextReplies

\* What is owed changes when an event is published, given, or no longer wanted.
LEMMA OwedSteps ==
    ASSUME TypeOK, TasksFit, [Next]_vars
    PROVE  \/ owed' \subseteq owed
           \/ \E c \in Channels : Publish(c) /\ ~ Conn!Over
<1>1. CASE UNCHANGED vars
  BY <1>1 DEF vars
<1>2. CASE (ConnAlone /\ UpperUnchanged) \/ StopBroker
  BY <1>2 DEF UpperUnchanged, StopBroker
<1>3. CASE DispatchStep
  BY <1>3 DEF DispatchStep, BeginDispatch, OnMessage, EndDispatch
<1>4. ASSUME NEW s \in Subscribers, CreateSubscriber(s) PROVE UNCHANGED owed
  BY <1>4 DEF CreateSubscriber
<1>5. ASSUME NEW t \in Threads, ObjectStep(t) PROVE owed' \subseteq owed
  BY <1>5 DEF ObjectStep, Open, Close, Enter, EnterDestructor, RegisterCallback,
              RemoveCallback
<1>6. ASSUME NEW t \in Threads, ManagerStep(t) \/ BrokerStep(t) PROVE UNCHANGED owed
  BY <1>6, ManagerSteps, BrokerSteps
<1> QED BY <1>1, <1>2, <1>3, <1>4, <1>5, <1>6, Steps

\* A handler that is owed an event stays listed, ...
LEMMA OwedStaysListed ==
    ASSUME TypeOK, TasksFit, [Next]_vars, NEW s \in Subscribers, NEW c \in Channels,
           Contains(handlers[ManagerOf[s]][c], s),
           \A t \in Threads : UsesSubscriber(t, s) => ~ Ends(t, c)
    PROVE  Contains(handlers'[ManagerOf[s]][c], s)
<1>1. CASE UNCHANGED handlers
  BY <1>1
<1>2. ASSUME NEW t \in Threads, ManagerStep(t)
      PROVE  Contains(handlers'[ManagerOf[s]][c], s)
  <2>1. PICK left \in [Channels -> Seq(Subscribers)], channels \in SUBSET Channels :
           /\ handlers' = [handlers EXCEPT ![Manager(t)] = left]
           /\ Left(t, left, channels)
    BY <1>2, ManagerSteps
  <2>2. /\ Manager(t) \in Managers /\ ManagerOf[s] \in Managers
        /\ task[t].kind \in {"subscribe", "unsubscribe", "destroy"}
    BY <1>2, ManagerSteps, Operands, ManagerOfAssumption
  <2>3. handlers \in [Managers -> [Channels -> Seq(Subscribers)]]
    BY DEF TypeOK
  <2>4. CASE ManagerOf[s] # Manager(t)
    BY <2>1, <2>2, <2>3, <2>4
  <2>5. CASE ManagerOf[s] = Manager(t)
    <3>1. handlers'[ManagerOf[s]] = left
      BY <2>1, <2>2, <2>3, <2>5
    <3>2. CASE task[t].kind = "subscribe"
      <4>1. \A y : Contains(left[c], y) <=> \/ Contains(handlers[Manager(t)][c], y)
                                            \/ c = task[t].channel
                                               /\ y = task[t].subscriber
        BY <2>1, <3>2 DEF Left
      <4> QED BY <2>5, <3>1, <4>1
    <3>3. CASE task[t].kind # "subscribe"
      <4>1. \A y : Contains(left[c], y) <=>
                      /\ Contains(handlers[Manager(t)][c], y)
                      /\ ~ (Ends(t, c) /\ y = task[t].subscriber)
        BY <2>1, <3>3 DEF Left
      <4>2. s = task[t].subscriber => UsesSubscriber(t, s)
        BY <2>2 DEF UsesSubscriber
      <4> QED BY <2>5, <3>1, <4>1, <4>2
    <3> QED BY <3>2, <3>3
  <2> QED BY <2>4, <2>5
<1> QED BY <1>1, <1>2, HandlerSteps

\* ... and nobody begins to take it out as long as it is owed one.
LEMMA OwedStaysWanted ==
    ASSUME TypeOK, TasksFit, [Next]_vars, NEW s \in Subscribers, NEW c \in Channels,
           NEW n, <<s, c, n>> \in owed',
           \A t \in Threads : UsesSubscriber(t, s) => ~ Ends(t, c)
    PROVE  \A t \in Threads : UsesSubscriber(t, s)' => ~ Ends(t, c)'
<1>1. ASSUME UNCHANGED task
      PROVE  \A t \in Threads : UsesSubscriber(t, s)' => ~ Ends(t, c)'
  BY <1>1 DEF UsesSubscriber, Ends
<1>2. ASSUME NEW t \in Threads, \A u \in Threads \ {t} : task'[u] = task[u],
             UsesSubscriber(t, s)' => ~ Ends(t, c)'
      PROVE  \A u \in Threads : UsesSubscriber(u, s)' => ~ Ends(u, c)'
  <2>1. ASSUME NEW u \in Threads \ {t}
        PROVE  UsesSubscriber(u, s)' => ~ Ends(u, c)'
    BY <1>2 DEF UsesSubscriber, Ends
  <2> QED BY <1>2, <2>1
<1>3. ASSUME NEW t \in Threads, ManagerStep(t) \/ BrokerStep(t)
      PROVE  UsesSubscriber(t, s)' => ~ Ends(t, c)'
  <2>1. task'[t] = task[t] \/ task'[t] = NoTask
    BY <1>3, GoesOn, Returns
  <2> QED BY <2>1 DEF UsesSubscriber, Ends, NoTask
<1>4. ASSUME NEW t \in Threads, ObjectStep(t)
      PROVE  UsesSubscriber(t, s)' => ~ Ends(t, c)'
  <2>0. task \in [Threads -> Tasks]
    BY DEF TypeOK
  <2>1. ASSUME task'[t].kind \notin {"subscribe", "unsubscribe", "destroy"}
        PROVE  ~ UsesSubscriber(t, s)'
    BY <2>1 DEF UsesSubscriber
  <2>2. CASE \E m \in Managers : Open(t, m) \/ Close(t, m)
    <3>1. \E m \in Managers, kind \in {"open", "close"} :
             task'[t] = [kind |-> kind, interface |-> m]
      BY <2>0, <2>2 DEF Open, Close, Begin
    <3> QED BY <2>1, <3>1
  <2>3. CASE RegisterCallback(t) \/ RemoveCallback(t)
    <3>1. task'[t] = NoTask
      BY <2>3, CallbackSteps
    <3> QED BY <2>1, <3>1 DEF NoTask
  <2>4. ASSUME NEW x \in Subscribers, EnterDestructor(t, x)
        PROVE  ~ UsesSubscriber(t, s)'
    <3>1. /\ task'[t] = [kind |-> "destroy", subscriber |-> x]
          /\ owed' = {o \in owed : o[1] # x}
      BY <2>0, <2>4 DEF EnterDestructor, Begin
    <3>2. task'[t].subscriber = x
      BY <3>1
    <3> QED BY <3>1, <3>2 DEF UsesSubscriber
  <2>5. ASSUME NEW x \in Subscribers, NEW kind \in Conn!Kinds, NEW d \in Channels,
               Enter(t, kind, x, d)
        PROVE  UsesSubscriber(t, s)' => ~ Ends(t, c)'
    <3>1. /\ task'[t] = [kind |-> kind, subscriber |-> x, channel |-> d]
          /\ owed' = IF kind = "subscribe" THEN owed
                     ELSE {o \in owed : ~ (o[1] = x /\ o[2] = d)}
          /\ kind \in {"subscribe", "unsubscribe"}
      BY <2>0, <2>5 DEF Enter, Begin, Conn!Kinds
    <3>2. task'[t].kind = kind /\ task'[t].subscriber = x /\ task'[t].channel = d
      BY <3>1
    <3> QED BY <3>1, <3>2 DEF UsesSubscriber, Ends
  <2> QED BY <1>4, <2>2, <2>3, <2>4, <2>5 DEF ObjectStep
<1>5. CASE UNCHANGED thread_vars
  BY <1>1, <1>5 DEF thread_vars
<1>6. ASSUME NEW t \in Threads, ObjectStep(t) \/ ManagerStep(t) \/ BrokerStep(t)
      PROVE  \A u \in Threads : UsesSubscriber(u, s)' => ~ Ends(u, c)'
  <2>1. \A u \in Threads \ {t} : task'[u] = task[u]
    BY <1>6, OthersStay
  <2> QED BY <1>2, <1>3, <1>4, <1>6, <2>1
<1> QED BY <1>5, <1>6, TasksStay DEF thread_vars

\* The event in the callback stays there until the round of the worker ends.
LEMMA CurrentStays ==
    ASSUME TypeOK, TasksFit, [Next]_vars, worker \in {"callback", "terminated"}
    PROVE  UNCHANGED current \/ (~ Conn!Over /\ EndDispatch)
<1>1. ASSUME UNCHANGED conn_vars PROVE UNCHANGED current
  BY <1>1 DEF conn_vars
<1>2. UNCHANGED vars => UNCHANGED conn_vars
  BY DEF vars
<1>3. ASSUME ~ Conn!Over, ConnAlone PROVE UNCHANGED current
  <2>1. worker = "callback"
    BY <1>3 DEF Conn!Over
  <2>2. \A t \in Threads :
           Conn!CallerStep(t) \/ Conn!NotifyFails(t) => UNCHANGED current
    BY DEF Conn!CallerStep, Conn!NotifyFails, Conn!Lock, Conn!CheckPasses,
           Conn!CheckThrows, Conn!AppendCommand, Conn!Notify, Conn!Spin,
           Conn!Reset, Conn!CallerUnchanged
  <2>3. Conn!OwnerStep \/ Conn!OwnerNotifyFails \/ Conn!ServerExecutes =>
            UNCHANGED current
    BY DEF Conn!OwnerStep, Conn!OwnerNotifyFails, Conn!HandshakeNotify, Conn!Constructed, Conn!Wake,
           Conn!Join, Conn!OwnerUnchanged, Conn!ServerExecutes
  <2>4. ~ \/ Conn!WorkerLoop \/ Conn!WriteCommand
          \/ Conn!BlockInRead \/ Conn!ReceiveTechnical \/ Conn!ReceiveEvent
          \/ Conn!ReceiveMeta \/ Conn!ReceiveMetaThrows \/ Conn!ConsumeReturns
    BY <2>1 DEF Conn!WorkerLoop, Conn!WriteCommand, Conn!BlockInRead,
                Conn!ReceiveTechnical, Conn!ReceiveEvent, Conn!ReceiveMeta,
                Conn!ReceiveMetaThrows, Conn!ConsumeReturns, Conn!Receives
  <2> QED BY <1>3, <2>2, <2>3, <2>4 DEF ConnAlone
<1>4. CASE StopBroker
  BY <1>4 DEF StopBroker, Conn!Stop, Conn!OwnerUnchanged
<1>5. DispatchStep => UNCHANGED conn_vars \/ EndDispatch
  BY DEF DispatchStep, BeginDispatch, OnMessage
<1>6. ASSUME NEW s \in Subscribers, CreateSubscriber(s) PROVE UNCHANGED conn_vars
  BY <1>6 DEF CreateSubscriber
<1>7. ASSUME NEW c \in Channels, Publish(c) PROVE UNCHANGED current
  BY <1>7 DEF Publish, Conn!Publish
<1>8. ASSUME NEW t \in Threads, ObjectStep(t) \/ ManagerStep(t) PROVE UNCHANGED conn_vars
  <2>1. ObjectStep(t) => UNCHANGED conn_vars
    BY DEF ObjectStep, Open, Close, Enter, EnterDestructor, RegisterCallback,
           RemoveCallback
  <2> QED BY <1>8, <2>1, ManagerSteps
<1>9. ASSUME NEW t \in Threads, BrokerStep(t) PROVE UNCHANGED current
  <2>1. \A kind, c : Conn!Call(t, kind, c) => UNCHANGED current
    BY DEF Conn!Call, Conn!CallerUnchanged
  <2> QED BY <1>9, <2>1 DEF BrokerStep, CountChannel, ConnectorReturns,
                            ConnectorThrows, conn_vars
<1> QED BY <1>1, <1>2, <1>3, <1>4, <1>5, <1>6, <1>7, <1>8, <1>9, Steps

\* An event that is owed comes nearer to its subscriber.
LEMMA OwedStaysOnItsWay ==
    ASSUME IInv, RegisteredOnce, CurrentComesFirst, [Next]_vars,
           NEW s \in Subscribers, NEW c \in Channels, NEW n \in 1 .. MaxEvents,
           <<s, c, n>> \in owed, <<s, c, n>> \in owed',
           Contains(handlers[ManagerOf[s]][c], s),
           \/ Contains(replies, Conn!Message(c, n))
           \/ /\ current = Conn!Message(c, n)
              /\ dispatching => Contains(to_call, ManagerOf[s])
    PROVE  \/ Contains(replies', Conn!Message(c, n))
           \/ /\ current' = Conn!Message(c, n)
              /\ dispatching' => Contains(to_call', ManagerOf[s])
<1> DEFINE e == Conn!Message(c, n)
           m == ManagerOf[s]
<1>0. /\ e \in Conn!Events /\ e # Conn!NoMessage
      /\ e.channel = c /\ e.id = n
      /\ m \in Managers /\ to_call \in Seq(Managers)
      /\ TypeOK /\ TasksFit
  <2>1. c # Technical /\ MaxEvents \in Nat
    BY ConnAssumptions
  <2>2. e.type = "message" /\ e.channel = c /\ e.id = n /\ e \in Conn!Replies
    BY <2>1 DEF Conn!Message, Conn!Replies
  <2>3. e # Conn!NoMessage
    BY <2>1, <2>2 DEF Conn!Message, Conn!NoMessage
  <2>4. /\ m \in Managers /\ to_call \in Seq(Managers)
        /\ TypeOK /\ TasksFit
    BY ManagerOfAssumption DEF IInv, TypeOK
  <2> QED BY <2>2, <2>3, <2>4 DEF Conn!Events
<1> HIDE DEF e, m
<1>1. CASE Contains(replies, e)
  <2>1. CASE Contains(replies', e)
    BY <2>1 DEF e
  <2>2. CASE current' = e /\ worker \in {"consume", "read"}
    <3>1. ~ dispatching
      BY <2>2 DEF IInv, RegisteredExist
    <3>2. ~ dispatching'
      BY <1>0, <2>2, <3>1, WorkerSteps
      DEF DispatchStep, BeginDispatch, OnMessage, EndDispatch, dispatch_vars
    <3> QED BY <2>2, <3>2 DEF e
  <2>3. owner # "joining"
    <3>1. SUFFICES ASSUME owner = "joining" PROVE FALSE
      OBVIOUS
    <3>2. handlers[m][c] = <<>>
      BY <1>0, <3>1, NothingLeft DEF IInv
    <3> QED BY <3>2 DEF Contains, m
  <2> QED BY <1>0, <1>1, <2>1, <2>2, <2>3, EventsStay
<1>2. CASE current = e /\ (dispatching => Contains(to_call, m))
  <2>1. worker \in {"callback", "terminated"}
    BY <1>0, <1>2 DEF CurrentComesFirst
  <2>2. ~ EndDispatch
    BY <1>2 DEF EndDispatch, Contains
  <2>3. current' = e
    BY <1>0, <1>2, <2>1, <2>2, CurrentStays
  <2>4. CASE UNCHANGED dispatch_vars
    BY <1>2, <2>3, <2>4 DEF dispatch_vars, e, m
  <2>5. CASE BeginDispatch
    <3>1. subscriber[s] = "present"
      BY <1>0 DEF IInv, ListedExist, m
    <3>2. interface[m] = "present"
      BY <3>1 DEF IInv, InterfacesLast, m
    <3>3. Contains(registered, m)
      BY <1>0, <3>2 DEF RegisteredOnce
    <3> QED BY <2>3, <2>5, <3>3 DEF BeginDispatch, CallbacksToCall, e, m
  <2>6. CASE OnMessage
    <3>1. /\ dispatching /\ to_call # <<>> /\ to_call' = Tail(to_call)
          /\ owed' = {o \in owed : ~ /\ o[3] = current.id
                                     /\ Contains(Called(Head(to_call), current.channel),
                                                 o[1])}
      BY <2>6 DEF OnMessage
    <3>2. Head(to_call) # m
      <4>1. SUFFICES ASSUME Head(to_call) = m PROVE FALSE
        OBVIOUS
      <4>2. Contains(Called(Head(to_call), current.channel), s)
        BY <1>0, <1>2, <4>1 DEF Called, m
      <4> QED BY <1>0, <1>2, <3>1, <4>2
    <3>3. Contains(to_call', m)
      BY <1>0, <1>2, <3>1, <3>2, HeadAndTailElements
    <3> QED BY <2>3, <3>3 DEF e, m
  <2> QED BY <1>0, <2>2, <2>4, <2>5, <2>6, WorkerSteps DEF DispatchStep
<1> QED BY <1>1, <1>2 DEF e, m

LEMMA NextOwedOnItsWay ==
    ASSUME IInv, RegisteredOnce, CurrentComesFirst, OwedOnItsWay, [Next]_vars
    PROVE  OwedOnItsWay'
<1>0. TypeOK /\ TasksFit
  BY DEF IInv
<1>1. SUFFICES ASSUME failures' = 0, NEW s \in Subscribers, NEW c \in Channels,
                      NEW n \in 1 .. MaxEvents, <<s, c, n>> \in owed'
               PROVE  /\ Contains(handlers'[ManagerOf[s]][c], s)
                      /\ \A t \in Threads : UsesSubscriber(t, s)' => ~ Ends(t, c)'
                      /\ \/ Contains(replies', Conn!Message(c, n))
                         \/ /\ current' = Conn!Message(c, n)
                            /\ dispatching' => Contains(to_call', ManagerOf[s])
  <2>1. /\ \A m \in Managers, c \in Channels, s \in Subscribers :
              Contains(handlers[m][c], s)' <=> Contains(handlers'[m][c], s)
        /\ \A m \in Managers : Contains(to_call, m)' <=> Contains(to_call', m)
        /\ \A e \in Conn!Replies : Contains(replies, e)' <=> Contains(replies', e)
    BY DEF Contains
  <2>2. \A s \in Subscribers, c \in Channels, n \in 1 .. MaxEvents :
           /\ Conn!Message(c, n) \in Conn!Replies
           /\ Conn!Message(c, n)' = Conn!Message(c, n)
           /\ ManagerOf[s] \in Managers
    BY ManagerOfAssumption, BoundsAssumption DEF Conn!Message, Conn!Replies
  <2> QED BY <2>1, <2>2 DEF OwedOnItsWay
<1>2. failures = 0
  BY <1>0, <1>1, FailuresStay
<1>3. CASE <<s, c, n>> \in owed
  <2>1. /\ Contains(handlers[ManagerOf[s]][c], s)
        /\ \A t \in Threads : UsesSubscriber(t, s) => ~ Ends(t, c)
        /\ \/ Contains(replies, Conn!Message(c, n))
           \/ /\ current = Conn!Message(c, n)
              /\ dispatching => Contains(to_call, ManagerOf[s])
    BY <1>2, <1>3 DEF OwedOnItsWay
  <2>2. Contains(handlers'[ManagerOf[s]][c], s)
    BY <1>0, <2>1, OwedStaysListed
  <2>3. \A t \in Threads : UsesSubscriber(t, s)' => ~ Ends(t, c)'
    BY <1>0, <1>1, <2>1, OwedStaysWanted
  <2> QED BY <1>1, <1>3, <2>1, <2>2, <2>3, OwedStaysOnItsWay
<1>4. CASE <<s, c, n>> \notin owed
  <2>1. PICK d \in Channels : Publish(d)
    BY <1>0, <1>1, <1>4, OwedSteps
  <2>2. /\ UNCHANGED <<handlers, task, server_channels>>
        /\ replies' = IF d \in server_channels
                      THEN Append(replies, Conn!Message(d, published + 1)) ELSE replies
        /\ owed' = owed \cup {<<x, d, published + 1>> : x \in SubscribedTo(d)}
    BY <2>1 DEF Publish, Conn!Publish, Conn!Deliver, thread_vars
  <2>3. s \in SubscribedTo(d) /\ c = d /\ n = published + 1
    BY <1>1, <1>4, <2>2
  <2>4. /\ Contains(handlers[ManagerOf[s]][c], s)
        /\ \A t \in Threads : UsesSubscriber(t, s) =>
              task[t].kind # "destroy" /\ task[t].channel # c
    BY <2>3 DEF SubscribedTo
  <2>5. c \in server_channels
    BY <1>2, <2>3, SubscribersServed
  <2>6. Conn!Message(c, n) \in Conn!Replies /\ replies \in Seq(Conn!Replies)
    BY <1>0, RepliesNumbered, BoundsAssumption DEF Conn!Message, Conn!Replies
  <2>7. Contains(replies', Conn!Message(c, n))
    BY <2>2, <2>3, <2>5, <2>6, AppendElements
  <2> QED BY <2>2, <2>4, <2>7 DEF UsesSubscriber, Ends
<1> QED BY <1>3, <1>4

LEMMA InitBusInv == Init => BusInv
<1>1. SUFFICES ASSUME Init PROVE BusInv
  OBVIOUS
<1>2. IInv
  BY <1>1, InitInv
<1>3. /\ \A m \in Managers, c \in Channels : handlers[m][c] = <<>>
      /\ registered = <<>> /\ to_call = <<>>
      /\ \A m \in Managers : interface[m] = "absent"
      /\ \A t \in Threads : task[t].kind = "none"
      /\ replies = <<>> /\ current = Conn!NoMessage
      /\ \A s \in Subscribers : received[s] = <<>>
      /\ owed = {}
  BY <1>1 DEF Init, Conn!Init, NoTask
<1>4. ListedOnce /\ RegisteredOnce /\ OpenedOnce
  BY <1>3 DEF ListedOnce, RegisteredOnce, OpenedOnce, UsesInterface, Unique
<1>5. Conn!NoMessage \notin Conn!Events
  BY ConnAssumptions DEF Conn!NoMessage, Conn!Message, Conn!Events
<1>6. RepliesInOrder /\ CurrentComesFirst /\ ReceivedBefore /\ OwedOnItsWay
  BY <1>3, <1>5 DEF RepliesInOrder, CurrentComesFirst, ReceivedBefore, OwedOnItsWay
<1> QED BY <1>2, <1>4, <1>6 DEF BusInv

LEMMA NextBusInv == BusInv /\ [Next]_vars => BusInv'
<1>1. SUFFICES ASSUME BusInv, [Next]_vars PROVE BusInv'
  OBVIOUS
<1>2. /\ IInv /\ IInv' /\ TypeOK /\ TypeOK' /\ TasksFit
      /\ RegisteredExist /\ EventsNumbered /\ ListedExist
  BY <1>1, NextInv DEF BusInv, IInv
<1>3. ListedOnce' /\ RegisteredOnce' /\ OpenedOnce'
  BY <1>1, <1>2, NextListedOnce, NextRegisteredOnce, NextOpenedOnce DEF BusInv
<1>4. RepliesInOrder' /\ CurrentComesFirst'
  BY <1>1, <1>2, NextRepliesInOrder, NextCurrentComesFirst DEF BusInv
<1>5. ReceivedBefore'
  BY <1>1, <1>2, NextReceivedBefore DEF BusInv
<1>6. OwedOnItsWay'
  BY <1>1, <1>2, NextOwedOnItsWay DEF BusInv
<1> QED BY <1>2, <1>3, <1>4, <1>5, <1>6 DEF BusInv

LEMMA BusInvariance == Spec => []BusInv
<1> QED BY InitBusInv, NextBusInv, PTL DEF Spec

(***************************************************************************)
(* EventSystem implements EventBus: the steps.                             *)
(***************************************************************************)

\* The call of thread t is about the subscription of s to c.
Concerns(t, s, c) ==
    UsesSubscriber(t, s) /\ (task[t].kind = "destroy" \/ task[t].channel = c)

LEMMA StatusIs ==
    ASSUME NEW s \in Subscribers, NEW c \in Channels
    PROVE  /\ BusStatus(s, c) =
                 IF InCall(s, c) THEN "changing"
                 ELSE IF ~ Contains(handlers[ManagerOf[s]][c], s) THEN "none"
                 ELSE IF failures = 0 THEN "subscribed" ELSE "changing"
           /\ BusStatus(s, c)' =
                 IF InCall(s, c)' THEN "changing"
                 ELSE IF ~ Contains(handlers'[ManagerOf[s]][c], s) THEN "none"
                 ELSE IF failures' = 0 THEN "subscribed" ELSE "changing"
<1>1. s \in SubscribedTo(c) <=>
         Contains(handlers[ManagerOf[s]][c], s) /\ ~ InCall(s, c)
  BY DEF SubscribedTo, InCall
<1>2. (s \in SubscribedTo(c))' <=>
         Contains(handlers'[ManagerOf[s]][c], s) /\ ~ InCall(s, c)'
  BY DEF SubscribedTo, InCall, Contains
<1>3. Contains(handlers[ManagerOf[s]][c], s)' <=> Contains(handlers'[ManagerOf[s]][c], s)
  BY DEF Contains
<1> QED BY <1>1, <1>2, <1>3 DEF BusStatus

LEMMA StatusesAre ==
    /\ Statuses = [s \in Subscribers |-> [c \in Channels |-> BusStatus(s, c)]]
    /\ Statuses' = [s \in Subscribers |-> [c \in Channels |-> BusStatus(s, c)']]
    /\ \A s \in Subscribers, c \in Channels :
          /\ Statuses[s][c] = BusStatus(s, c) /\ Statuses'[s][c] = BusStatus(s, c)'
          /\ Statuses[s][c] \in Bus!Statuses /\ Statuses'[s][c] \in Bus!Statuses
<1>1. /\ Statuses = [s \in Subscribers |-> [c \in Channels |-> BusStatus(s, c)]]
      /\ Statuses' = [s \in Subscribers |-> [c \in Channels |-> BusStatus(s, c)']]
  BY DEF Statuses
<1>2. \A s \in Subscribers, c \in Channels :
         BusStatus(s, c) \in Bus!Statuses /\ BusStatus(s, c)' \in Bus!Statuses
  BY StatusIs DEF Bus!Statuses
<1> QED BY <1>1, <1>2

\* The status of a subscription depends on its manager's list and on the calls about it.
LEMMA SameStatus ==
    ASSUME failures' = failures, NEW s \in Subscribers, NEW c \in Channels,
           InCall(s, c)' <=> InCall(s, c),
           Contains(handlers'[ManagerOf[s]][c], s) <=>
               Contains(handlers[ManagerOf[s]][c], s)
    PROVE  BusStatus(s, c)' = BusStatus(s, c)
<1> QED BY StatusIs

LEMMA SameStatuses ==
    ASSUME UNCHANGED <<failures, task, handlers>>
    PROVE  UNCHANGED Statuses
<1>1. \A s \in Subscribers, c \in Channels : BusStatus(s, c)' = BusStatus(s, c)
  <2>1. \A s \in Subscribers, c \in Channels : InCall(s, c)' <=> InCall(s, c)
    BY DEF InCall, UsesSubscriber
  <2> QED BY <2>1, SameStatus
<1> QED BY <1>1, StatusesAre

LEMMA SamePending ==
    ASSUME UNCHANGED <<replies, current>>
    PROVE  UNCHANGED Pending
<1>1. \A e \in Conn!Events : Contains(replies, e)' <=> Contains(replies, e)
  BY DEF Contains
<1>2. Conn!Events' = Conn!Events
  BY DEF Conn!Events, Conn!Replies
<1>3. BusEvents' = BusEvents
  BY <1>1, <1>2 DEF BusEvents
<1> QED BY <1>3 DEF Pending

\* In the beginning nothing is subscribed, pending or promised.
LEMMA InitBus == Init => Bus!Init
<1>1. SUFFICES ASSUME Init PROVE Bus!Init
  OBVIOUS
<1>2. /\ \A m \in Managers, c \in Channels : handlers[m][c] = <<>>
      /\ \A t \in Threads : task[t].kind = "none"
      /\ replies = <<>> /\ current = Conn!NoMessage
      /\ received = [s \in Subscribers |-> <<>>]
      /\ owed = {} /\ published = 0
  BY <1>1 DEF Init, Conn!Init, NoTask
<1>3. ASSUME NEW s \in Subscribers, NEW c \in Channels PROVE BusStatus(s, c) = "none"
  <2>1. ~ InCall(s, c)
    BY <1>2 DEF InCall, UsesSubscriber
  <2>2. ~ Contains(handlers[ManagerOf[s]][c], s)
    BY <1>2, ManagerOfAssumption DEF Contains
  <2> QED BY <2>1, <2>2, StatusIs
<1>4. BusEvents = {}
  <2>1. Conn!NoMessage \notin Conn!Events
    BY ConnAssumptions DEF Conn!NoMessage, Conn!Message, Conn!Events
  <2>2. \A e : ~ Contains(replies, e)
    BY <1>2 DEF Contains
  <2> QED BY <1>2, <2>1, <2>2 DEF BusEvents
<1>5. Pending = {}
  BY <1>4 DEF Pending
<1>6. Statuses = [s \in Subscribers |-> [c \in Channels |-> "none"]]
  BY <1>3, StatusesAre
<1>7. Promised = {}
  BY <1>2 DEF Promised
<1> QED BY <1>2, <1>5, <1>6, <1>7 DEF Bus!Init

\* What the process has been sent and not dealt with yet.
LEMMA PendingIs ==
    /\ \A e : e \in BusEvents <=>
                 e \in Conn!Events /\ (e = current \/ \E i \in DOMAIN replies : replies[i] = e)
    /\ \A e : (e \in BusEvents)' <=>
                 e \in Conn!Events
                 /\ (e = current' \/ \E i \in DOMAIN replies' : replies'[i] = e)
    /\ Pending = {<<r.channel, r.id>> : r \in BusEvents}
    /\ Pending' = {<<r.channel, r.id>> : r \in BusEvents'}
<1>1. Conn!Events' = Conn!Events
  BY DEF Conn!Events, Conn!Replies
<1> QED BY <1>1 DEF BusEvents, Contains, Pending

\* The event that the worker has been through with is pending no more.
LEMMA PutAsidePending ==
    ASSUME TypeOK, CurrentComesFirst, current \in Conn!Events, Conn!CallbackReturns
    PROVE  Pending' = Pending \ {<<current.channel, current.id>>}
<1>1. /\ \A i \in DOMAIN replies : replies[i].id \in Nat
      /\ current.id \in Nat /\ Conn!NoMessage \notin Conn!Events
  BY RepliesNumbered, ConnAssumptions
  DEF Conn!NoMessage, Conn!Message, Conn!Events
<1>2. UNCHANGED replies /\ current' = Conn!NoMessage
  BY DEF Conn!CallbackReturns
<1>3. \A i \in DOMAIN replies : replies[i] \in Conn!Events => replies[i].id # current.id
  BY <1>1 DEF CurrentComesFirst, EventAt
<1>4. BusEvents' = BusEvents \ {current}
  BY <1>1, <1>2, <1>3, PendingIs
<1>5. current \in BusEvents /\ \A e \in BusEvents : e # current => e.id # current.id
  BY <1>3, PendingIs
<1>6. \A e \in BusEvents : <<e.channel, e.id>> = <<current.channel, current.id>>
                              <=> e = current
  BY <1>5
<1> QED BY <1>4, <1>5, <1>6, PendingIs

\* Otherwise only an event that is published or a connection that is closed changes
\* what is pending.
LEMMA PendingSteps ==
    ASSUME TypeOK, TasksFit, CurrentComesFirst, RepliesInOrder, [Next]_vars
    PROVE  \/ UNCHANGED Pending
           \/ \E c \in Channels : Conn!Publish(c)
           \/ Conn!CallbackReturns
           \/ Conn!Join
<1>0. /\ replies \in Seq(Conn!Replies)
      /\ \A i \in DOMAIN replies : replies[i].id \in Nat /\ i \in Nat
      /\ current \in Conn!Events => current.id \in Nat
      /\ Conn!NoMessage \notin Conn!Events
  BY RepliesNumbered, ConnAssumptions
  DEF Conn!NoMessage, Conn!Message, Conn!Events
<1>1. ASSUME \A e \in Conn!Events :
                (e = current' \/ \E i \in DOMAIN replies' : replies'[i] = e) <=>
                (e = current \/ \E i \in DOMAIN replies : replies[i] = e)
      PROVE  UNCHANGED Pending
  <2>1. BusEvents' = BusEvents
    BY <1>1, PendingIs
  <2> QED BY <2>1, PendingIs
<1>2. CASE UNCHANGED <<replies, current, published>>
  BY <1>2, SamePending
<1>3. ASSUME NEW r \in Conn!Replies \ Conn!Events, replies' = Append(replies, r),
             UNCHANGED current
      PROVE  UNCHANGED Pending
  <2>1. /\ \A i \in DOMAIN replies : replies'[i] = replies[i]
        /\ replies'[Len(replies) + 1] = r
        /\ DOMAIN replies' = (DOMAIN replies) \cup {Len(replies) + 1}
    BY <1>0, <1>3
  <2> QED BY <1>1, <1>3, <2>1
<1>4. ASSUME replies # <<>>, replies' = Tail(replies),
             \/ Head(replies) \notin Conn!Events /\ UNCHANGED current
             \/ current' = Head(replies) /\ current \notin Conn!Events
      PROVE  UNCHANGED Pending
  <2>1. /\ 1 \in DOMAIN replies /\ Head(replies) = replies[1]
        /\ \A i \in DOMAIN replies' : i + 1 \in DOMAIN replies
                                      /\ replies'[i] = replies[i + 1]
        /\ \A i \in DOMAIN replies : i # 1 =>
              i - 1 \in DOMAIN replies' /\ replies[i] = replies'[i - 1]
    BY <1>0, <1>4
  <2> QED BY <1>1, <1>4, <2>1
<1>6. CASE /\ replies # <<>> /\ Head(replies) \in Conn!Events
           /\ worker \in {"consume", "read"}
           /\ replies' = Tail(replies) /\ current' = Head(replies)
           /\ UNCHANGED published
  <2>1. current \notin Conn!Events
    BY <1>0, <1>6 DEF CurrentComesFirst
  <2> QED BY <1>4, <1>6, <2>1
<1> QED BY <1>2, <1>3, <1>4, <1>6, NextReplies

\* What is owed to a subscriber is for a channel it is listed for, and not older than
\* the event the worker is at.
LEMMA PromisedAre ==
    ASSUME TypeOK, OwedOnItsWay, CurrentComesFirst, NEW o \in Promised
    PROVE  \E s \in Subscribers, c \in Channels, n \in 1 .. MaxEvents :
              /\ o = <<s, c, n>> /\ o \in owed
              /\ Contains(handlers[ManagerOf[s]][c], s)
              /\ current \in Conn!Events /\ current.id = n =>
                    /\ current.channel = c
                    /\ dispatching => Contains(to_call, ManagerOf[s])
<1>1. failures = 0 /\ o \in owed
  BY DEF Promised
<1>2. PICK s \in Subscribers, c \in Channels, n \in 1 .. MaxEvents : o = <<s, c, n>>
  BY <1>1 DEF TypeOK
<1>3. /\ Contains(handlers[ManagerOf[s]][c], s)
      /\ \/ Contains(replies, Conn!Message(c, n))
         \/ /\ current = Conn!Message(c, n)
            /\ dispatching => Contains(to_call, ManagerOf[s])
  BY <1>1, <1>2 DEF OwedOnItsWay
<1>4. Conn!Message(c, n).id = n /\ Conn!Message(c, n).channel = c
  BY DEF Conn!Message
<1>5. ASSUME Contains(replies, Conn!Message(c, n)), current \in Conn!Events,
             current.id = n
      PROVE  FALSE
  <2>1. PICK i \in DOMAIN replies : replies[i] = Conn!Message(c, n)
    BY <1>5 DEF Contains
  <2>2. Conn!Message(c, n) \in Conn!Events
    BY ConnAssumptions DEF Conn!Message, Conn!Events, Conn!Replies
  <2>3. n < n
    BY <1>4, <1>5, <2>1, <2>2 DEF CurrentComesFirst, EventAt
  <2> QED BY <2>3, BoundsAssumption
<1> QED BY <1>1, <1>2, <1>3, <1>4, <1>5

\* A step of the connector alone is none of the bus, unless a wake-up fails or the
\* connection is closed.
LEMMA ConnectorStep ==
    ASSUME BusInv, ~ Conn!Over, ConnAlone, UpperUnchanged, [Next]_vars
    PROVE  [Bus!Next]_Bus!vars
<1>0. /\ TypeOK /\ TasksFit /\ CurrentComesFirst /\ RepliesInOrder /\ OwedOnItsWay
      /\ RegisteredExist /\ EventsNumbered
  BY DEF BusInv, IInv
<1>1. UNCHANGED <<handlers, task, owed, received, dispatching>>
  BY DEF UpperUnchanged, thread_vars, dispatch_vars
<1>2. UNCHANGED published
  <2>1. Conn!ServerExecutes => UNCHANGED published
    BY DEF Conn!ServerExecutes, Conn!counters
  <2>2. ASSUME \/ Conn!WorkerLoop \/ Conn!WriteCommand \/ Conn!BlockInRead
               \/ Conn!ReceiveTechnical \/ Conn!ReceiveEvent \/ Conn!ReceiveMeta
               \/ Conn!ReceiveMetaThrows \/ Conn!ConsumeReturns
        PROVE  UNCHANGED published
    BY <2>2 DEF Conn!WorkerLoop, Conn!WriteCommand, Conn!BlockInRead, Conn!Receives,
           Conn!ReceiveTechnical, Conn!ReceiveEvent, Conn!ReceiveMeta,
           Conn!ReceiveMetaThrows, Conn!ConsumeReturns, Conn!WorkerUnchanged,
           Conn!counters
  <2>3. Conn!OwnerStep \/ Conn!OwnerNotifyFails => UNCHANGED published
    BY DEF Conn!OwnerStep, Conn!OwnerNotifyFails, Conn!HandshakeNotify,
           Conn!Constructed, Conn!Wake, Conn!Join, Conn!OwnerUnchanged
  <2>4. \A t \in Threads :
           Conn!CallerStep(t) \/ Conn!NotifyFails(t) => UNCHANGED published
    BY DEF Conn!CallerStep, Conn!NotifyFails, Conn!Lock, Conn!CheckPasses,
           Conn!CheckThrows, Conn!AppendCommand, Conn!Notify, Conn!Spin, Conn!Reset,
           Conn!CallerUnchanged
  <2> QED BY <2>1, <2>2, <2>3, <2>4 DEF ConnAlone
<1>3. ~ \E c \in Channels : Conn!Publish(c)
  <2>1. published \in Nat
    BY <1>0, EventsMove
  <2> QED BY <1>2, <2>1 DEF Conn!Publish
<1>4. ~ Conn!CallbackReturns
  <2>1. SUFFICES ASSUME Conn!CallbackReturns PROVE FALSE
    OBVIOUS
  <2>2. worker = "callback" /\ current' = Conn!NoMessage
    BY <2>1 DEF Conn!CallbackReturns
  <2>3. current \in Conn!Events
    BY <1>0, <2>2, CallbackGiven
  <2>4. Conn!NoMessage \notin Conn!Events
    BY ConnAssumptions DEF Conn!NoMessage, Conn!Message, Conn!Events
  <2>5. EndDispatch
    BY <1>0, <2>2, <2>3, <2>4, CurrentStays
  <2> QED BY <1>1, <2>5 DEF EndDispatch
<1>5. CASE Conn!Join
  <2>1. /\ owner = "joining" /\ worker = "exited"
        /\ replies' = <<>> /\ UNCHANGED <<current, failures>>
    BY <1>5 DEF Conn!Join, Conn!OwnerUnchanged
  <2>2. current' \notin Conn!Events
    BY <1>0, <2>1, ConnAssumptions
    DEF CurrentComesFirst, Conn!NoMessage, Conn!Message, Conn!Events
  <2>3. Pending' = {}
    <3>1. BusEvents' = {}
      BY <2>1, <2>2, PendingIs
    <3> QED BY <3>1, PendingIs
  <2>4. Promised = {}
    <3>1. SUFFICES ASSUME NEW o \in Promised PROVE FALSE
      OBVIOUS
    <3>2. PICK s \in Subscribers, c \in Channels : Contains(handlers[ManagerOf[s]][c], s)
      BY <1>0, PromisedAre
    <3>3. handlers[ManagerOf[s]][c] = <<>>
      BY <2>1, NothingLeft, ManagerOfAssumption DEF BusInv, IInv
    <3> QED BY <3>2, <3>3 DEF Contains
  <2>5. UNCHANGED <<Statuses, Promised, received, published>>
    BY <1>1, <1>2, <2>1, SameStatuses DEF Promised
  <2>6. Bus!Shutdown
    BY <2>3, <2>4, <2>5 DEF Bus!Shutdown
  <2> QED BY <2>6 DEF Bus!Next
<1>6. CASE ~ Conn!Join
  <2>1. UNCHANGED Pending
    BY <1>0, <1>3, <1>4, <1>6, PendingSteps
  <2>2. CASE UNCHANGED failures
    <3>1. UNCHANGED <<Statuses, Promised, received, published>>
      BY <1>1, <1>2, <2>2, SameStatuses DEF Promised
    <3> QED BY <2>1, <3>1 DEF Bus!vars
  <2>3. CASE failures' # failures
    <3>1. failures' # 0
      BY <1>0, <2>3, FailuresStay
    <3>2. ASSUME NEW s \in Subscribers, NEW c \in Channels
          PROVE  BusStatus(s, c)' = IF BusStatus(s, c) = "none" THEN "none" ELSE "changing"
      <4>1. InCall(s, c)' <=> InCall(s, c)
        BY <1>1 DEF InCall, UsesSubscriber
      <4> QED BY <1>1, <3>1, <4>1, StatusIs
    <3>3. CASE failures = 0
      <4>1. Promised' = {}
        BY <3>1 DEF Promised
      <4>2. Statuses' = [s \in Subscribers |-> [c \in Channels |->
                            IF Statuses[s][c] = "none" THEN "none" ELSE "changing"]]
        BY <3>2, StatusesAre
      <4>3. Bus!Fail
        BY <1>1, <1>2, <2>1, <4>1, <4>2 DEF Bus!Fail
      <4> QED BY <4>3 DEF Bus!Next
    <3>4. CASE failures # 0
      <4>1. UNCHANGED Promised
        BY <3>1, <3>4 DEF Promised
      <4>2. UNCHANGED Statuses
        <5>1. \A s \in Subscribers, c \in Channels : BusStatus(s, c)' = BusStatus(s, c)
          BY <3>2, <3>4, StatusIs
        <5> QED BY <5>1, StatusesAre
      <4> QED BY <1>1, <1>2, <2>1, <4>1, <4>2 DEF Bus!vars
    <3> QED BY <3>3, <3>4
  <2> QED BY <2>2, <2>3
<1> QED BY <1>5, <1>6

\* A step of a thread inside its call changes the status of nothing else.
LEMMA OthersStatus ==
    ASSUME TypeOK, TasksFit, NEW t \in Threads, ManagerStep(t) \/ BrokerStep(t),
           NEW s \in Subscribers, NEW c \in Channels, ~ Concerns(t, s, c)
    PROVE  /\ InCall(s, c)' <=> InCall(s, c)
           /\ Contains(handlers'[ManagerOf[s]][c], s) <=>
                 Contains(handlers[ManagerOf[s]][c], s)
<1>1. InCall(s, c)' <=> InCall(s, c)
  <2>1. task'[t] = task[t] \/ task'[t] = NoTask
    BY GoesOn, Returns
  <2>2. ~ Concerns(t, s, c)'
    BY <2>1 DEF Concerns, UsesSubscriber, NoTask
  <2>3. \A u \in Threads \ {t} : Concerns(u, s, c)' <=> Concerns(u, s, c)
    BY OthersStay DEF Concerns, UsesSubscriber
  <2> QED BY <2>2, <2>3 DEF InCall, Concerns
<1>2. CASE BrokerStep(t)
  BY <1>1, <1>2, BrokerSteps
<1>3. CASE ManagerStep(t)
  <2>1. PICK left \in [Channels -> Seq(Subscribers)], channels \in SUBSET Channels :
           /\ handlers' = [handlers EXCEPT ![Manager(t)] = left]
           /\ Left(t, left, channels)
    BY <1>3, ManagerSteps
  <2>2. /\ Manager(t) \in Managers /\ ManagerOf[s] \in Managers
        /\ task[t].kind \in {"subscribe", "unsubscribe", "destroy"}
    BY <1>3, ManagerSteps, Operands, ManagerOfAssumption
  <2>3. handlers \in [Managers -> [Channels -> Seq(Subscribers)]]
    BY DEF TypeOK
  <2>4. CASE ManagerOf[s] # Manager(t)
    BY <1>1, <2>1, <2>2, <2>3, <2>4
  <2>5. CASE ManagerOf[s] = Manager(t)
    <3>1. handlers'[ManagerOf[s]] = left
      BY <2>1, <2>2, <2>3, <2>5
    <3>2. s = task[t].subscriber => task[t].kind # "destroy" /\ task[t].channel # c
      BY <2>2 DEF Concerns, UsesSubscriber
    <3>3. CASE task[t].kind = "subscribe"
      <4>1. \A y : Contains(left[c], y) <=> \/ Contains(handlers[Manager(t)][c], y)
                                            \/ c = task[t].channel
                                               /\ y = task[t].subscriber
        BY <2>1, <3>3 DEF Left
      <4> QED BY <1>1, <2>5, <3>1, <3>2, <4>1
    <3>4. CASE task[t].kind # "subscribe"
      <4>1. \A y : Contains(left[c], y) <=>
                      /\ Contains(handlers[Manager(t)][c], y)
                      /\ ~ (Ends(t, c) /\ y = task[t].subscriber)
        BY <2>1, <3>4 DEF Left
      <4>2. s = task[t].subscriber => ~ Ends(t, c)
        BY <3>2 DEF Ends
      <4> QED BY <1>1, <2>5, <3>1, <4>1, <4>2
    <3> QED BY <3>3, <3>4
  <2> QED BY <2>4, <2>5
<1> QED BY <1>2, <1>3

\* A thread inside its call changes the status of what the call is about.
LEMMA CallStep ==
    ASSUME BusInv, BusInv', ~ Conn!Over, [Next]_vars,
           NEW t \in Threads, ManagerStep(t) \/ BrokerStep(t)
    PROVE  [Bus!Next]_Bus!vars
<1>0. /\ TypeOK /\ TasksFit /\ TypeOK' /\ OwedOnItsWay' /\ CurrentComesFirst'
  BY DEF BusInv, IInv
<1>. PICK s \in Subscribers : s = task[t].subscriber
  BY <1>0, GoesOn, Operands
<1> DEFINE settled == [c \in Channels |-> BusStatus(s, c)']
<1>1. /\ s = task[t].subscriber /\ UNCHANGED <<owed, received>>
      /\ task[t].kind \in {"subscribe", "unsubscribe", "destroy"}
  BY <1>0, GoesOn, Operands, ManagerSteps, BrokerSteps DEF dispatch_vars
<1>2. UNCHANGED <<replies, current, published, failures>>
  <2>1. CASE ManagerStep(t)
    BY <1>0, <2>1, ManagerSteps DEF conn_vars
  <2>2. \A kind, c : Conn!Call(t, kind, c)
                         => UNCHANGED <<replies, current, published, failures>>
    BY DEF Conn!Call, Conn!CallerUnchanged, Conn!connection
  <2>3. CASE BrokerStep(t)
    BY <2>2, <2>3 DEF BrokerStep, CountChannel, ConnectorReturns, ConnectorThrows,
                      conn_vars
  <2> QED BY <2>1, <2>3
<1>3. UNCHANGED <<Pending, Promised, received, published>>
  BY <1>1, <1>2, SamePending DEF Promised
<1>4. ASSUME NEW x \in Subscribers, NEW c \in Channels, ~ Concerns(t, x, c)
      PROVE  BusStatus(x, c)' = BusStatus(x, c)
  BY <1>0, <1>2, <1>4, OthersStatus, SameStatus
<1>5. ASSUME NEW c \in Channels, BusStatus(s, c)' # BusStatus(s, c)
      PROVE  BusStatus(s, c) = "changing"
  BY <1>1, <1>4, <1>5, StatusIs DEF Concerns, InCall
<1>6. Statuses' = [Statuses EXCEPT ![s] = settled]
  <2>1. \A x \in Subscribers, c \in Channels :
           x # s => BusStatus(x, c)' = BusStatus(x, c)
    BY <1>4 DEF Concerns, UsesSubscriber
  <2>2. \A x \in Subscribers : x # s =>
           [c \in Channels |-> BusStatus(x, c)'] = [c \in Channels |-> BusStatus(x, c)]
    BY <2>1
  <2> QED BY <1>1, <2>2, StatusesAre
<1>7. ASSUME NEW c \in Channels, settled[c] = "none", NEW o \in Promised,
             o[1] = s, o[2] = c
      PROVE  FALSE
  <2>1. failures' = 0 /\ o \in owed'
    BY <1>1, <1>2 DEF Promised
  <2>2. PICK x \in Subscribers, d \in Channels, n \in 1 .. MaxEvents : o = <<x, d, n>>
    BY <1>0, <2>1 DEF TypeOK
  <2>3. x = s /\ d = c
    BY <1>7, <2>2
  <2>4. Contains(handlers[ManagerOf[x]][d], x)'
    BY <1>0, <2>1, <2>2 DEF OwedOnItsWay
  <2>5. Contains(handlers'[ManagerOf[x]][d], x)
    BY <2>4 DEF Contains
  <2>6. BusStatus(x, d)' # "none"
    BY <2>5, StatusIs
  <2> QED BY <1>7, <2>3, <2>6
<1>8. settled \in [Channels -> Bus!Statuses]
  BY <1>1, StatusesAre
<1>9. \A c \in Channels : /\ settled[c] = BusStatus(s, c)'
                          /\ Statuses[s][c] = BusStatus(s, c)
  BY <1>1, StatusesAre
<1> HIDE DEF settled
<1>10. Bus!Settle(s, settled)
  BY <1>3, <1>5, <1>6, <1>7, <1>9 DEF Bus!Settle
<1> QED BY <1>1, <1>8, <1>10 DEF Bus!Next

\* A call is entered: the subscriber expects nothing from what it ends.
LEMMA EntryStep ==
    ASSUME BusInv, ~ Conn!Over, [Next]_vars, NEW t \in Threads, ObjectStep(t)
    PROVE  [Bus!Next]_Bus!vars
<1>0. TypeOK /\ TasksFit /\ task \in [Threads -> Tasks]
  BY DEF BusInv, IInv, TypeOK
<1>1. UNCHANGED <<replies, current, published, failures, received, handlers>>
  BY DEF ObjectStep, Open, Close, Enter, EnterDestructor, RegisterCallback,
         RemoveCallback, conn_vars, dispatch_vars
<1>2. UNCHANGED <<Pending, received, published>>
  BY <1>1, SamePending
<1>3. \A u \in Threads \ {t} : task'[u] = task[u]
  BY <1>0, OthersStay
<1>4. ASSUME NEW s \in Subscribers, NEW c \in Channels,
             ~ Concerns(t, s, c), ~ Concerns(t, s, c)'
      PROVE  BusStatus(s, c)' = BusStatus(s, c)
  <2>1. \A u \in Threads \ {t} : Concerns(u, s, c)' <=> Concerns(u, s, c)
    BY <1>3 DEF Concerns, UsesSubscriber
  <2>2. InCall(s, c)' <=> InCall(s, c)
    BY <1>4, <2>1 DEF InCall, Concerns
  <2> QED BY <1>1, <2>2, SameStatus
<1>5. ASSUME NEW s \in Subscribers, NEW c \in Channels, Concerns(t, s, c)'
      PROVE  BusStatus(s, c)' = "changing"
  BY <1>5, StatusIs DEF Concerns, InCall
<1>6. \A s \in Subscribers, c \in Channels : ~ Concerns(t, s, c)
  <2>1. task[t].kind \notin {"subscribe", "unsubscribe", "destroy"}
    BY <1>0, ObjectSteps, Operands DEF TasksFit, NoTask
  <2> QED BY <2>1 DEF Concerns, UsesSubscriber
<1>7. ASSUME UNCHANGED owed,
             \A s \in Subscribers, c \in Channels : ~ Concerns(t, s, c)'
      PROVE  UNCHANGED Bus!vars
  <2>1. UNCHANGED Statuses
    BY <1>4, <1>6, <1>7, StatusesAre
  <2>2. UNCHANGED Promised
    BY <1>1, <1>7 DEF Promised
  <2> QED BY <1>2, <2>1, <2>2 DEF Bus!vars
<1>8. CASE \E m \in Managers : Open(t, m) \/ Close(t, m)
  <2>1. PICK m \in Managers, kind \in {"open", "close"} :
           task'[t] = [kind |-> kind, interface |-> m]
    BY <1>0, <1>8 DEF Open, Close, Begin
  <2>2. task'[t].kind = kind
    BY <2>1
  <2>3. UNCHANGED owed
    BY <1>8 DEF Open, Close
  <2> QED BY <1>7, <2>2, <2>3 DEF Concerns, UsesSubscriber
<1>9. CASE RegisterCallback(t) \/ RemoveCallback(t)
  <2>1. task'[t] = NoTask
    BY <1>0, <1>9, CallbackSteps
  <2>2. UNCHANGED owed
    BY <1>9 DEF RegisterCallback, RemoveCallback
  <2> QED BY <1>7, <2>1, <2>2 DEF Concerns, UsesSubscriber, NoTask
<1>10. ASSUME NEW s \in Subscribers, EnterDestructor(t, s) PROVE Bus!Next
  <2>1. /\ task'[t] = [kind |-> "destroy", subscriber |-> s]
        /\ owed' = {o \in owed : o[1] # s}
    BY <1>0, <1>10 DEF EnterDestructor, Begin
  <2>2. task'[t].kind = "destroy" /\ task'[t].subscriber = s
    BY <2>1
  <2>3. \A x \in Subscribers, c \in Channels : Concerns(t, x, c)' <=> x = s
    BY <2>2 DEF Concerns, UsesSubscriber
  <2>4. \A x \in Subscribers, c \in Channels :
           BusStatus(x, c)' = IF x = s THEN "changing" ELSE BusStatus(x, c)
    BY <1>4, <1>5, <1>6, <2>3
  <2>5. Statuses' = [Statuses EXCEPT ![s] =
                        [c \in Channels |-> IF c \in Channels THEN "changing" ELSE @[c]]]
    BY <2>4, StatusesAre
  <2>6. Promised' = {o \in Promised : ~ (o[1] = s /\ o[2] \in Channels)}
    BY <1>0, <1>1, <2>1 DEF Promised, TypeOK
  <2>7. Bus!StartEnding(s, Channels)
    BY <1>2, <2>5, <2>6 DEF Bus!StartEnding
  <2> QED BY <2>7 DEF Bus!Next
<1>11. ASSUME NEW s \in Subscribers, NEW kind \in Conn!Kinds, NEW c \in Channels,
              Enter(t, kind, s, c)
       PROVE  Bus!Next
  <2>1. /\ task'[t] = [kind |-> kind, subscriber |-> s, channel |-> c]
        /\ owed' = IF kind = "subscribe" THEN owed
                   ELSE {o \in owed : ~ (o[1] = s /\ o[2] = c)}
        /\ kind \in {"subscribe", "unsubscribe"}
    BY <1>0, <1>11 DEF Enter, Begin, Conn!Kinds
  <2>2. task'[t].kind = kind /\ task'[t].subscriber = s /\ task'[t].channel = c
    BY <2>1
  <2>3. \A x \in Subscribers, d \in Channels :
           Concerns(t, x, d)' <=> x = s /\ d = c
    BY <2>1, <2>2 DEF Concerns, UsesSubscriber
  <2>4. \A x \in Subscribers, d \in Channels :
           BusStatus(x, d)' = IF x = s /\ d = c THEN "changing" ELSE BusStatus(x, d)
    BY <1>4, <1>5, <1>6, <2>3
  <2>5. CASE kind = "subscribe"
    <3>1. [Statuses EXCEPT ![s][c] = "changing"] =
             [x \in Subscribers |-> [d \in Channels |->
                 IF x = s /\ d = c THEN "changing" ELSE BusStatus(x, d)]]
      BY StatusesAre
    <3>2. Statuses' = [Statuses EXCEPT ![s][c] = "changing"]
      BY <2>4, <3>1, StatusesAre
    <3>3. UNCHANGED Promised
      BY <1>1, <2>1, <2>5 DEF Promised
    <3>4. Bus!StartSubscribing(s, c)
      BY <1>2, <3>2, <3>3 DEF Bus!StartSubscribing
    <3> QED BY <3>4 DEF Bus!Next
  <2>6. CASE kind # "subscribe"
    <3>1. Statuses' = [Statuses EXCEPT ![s] =
                          [d \in Channels |-> IF d \in {c} THEN "changing" ELSE @[d]]]
      <4>1. \A d \in Channels :
               (IF d \in {c} THEN "changing" ELSE Statuses[s][d]) = BusStatus(s, d)'
        BY <2>4, StatusesAre
      <4>2. [d \in Channels |-> IF d \in {c} THEN "changing" ELSE Statuses[s][d]]
                = [d \in Channels |-> BusStatus(s, d)']
        BY <4>1
      <4>3. \A x \in Subscribers : x # s =>
               [d \in Channels |-> BusStatus(x, d)'] = [d \in Channels |-> BusStatus(x, d)]
        BY <2>4
      <4> QED BY <4>2, <4>3, StatusesAre
    <3>2. Promised' = {o \in Promised : ~ (o[1] = s /\ o[2] \in {c})}
      BY <1>1, <2>1, <2>6 DEF Promised
    <3>3. Bus!StartEnding(s, {c})
      BY <1>2, <3>1, <3>2 DEF Bus!StartEnding
    <3> QED BY <3>3 DEF Bus!Next
  <2> QED BY <2>5, <2>6
<1> QED BY <1>8, <1>9, <1>10, <1>11 DEF ObjectStep

\* The worker gives the oldest event to the subscribers a manager lists, and puts it
\* aside after the last manager.
LEMMA DispatchingStep ==
    ASSUME BusInv, ~ Conn!Over, [Next]_vars, DispatchStep
    PROVE  [Bus!Next]_Bus!vars
<1>0. /\ TypeOK /\ TasksFit /\ CurrentComesFirst /\ RepliesInOrder /\ OwedOnItsWay
      /\ RegisteredExist /\ EventsNumbered /\ ListedOnce /\ ListedExist
      /\ ReceivedBefore
  BY DEF BusInv, IInv
<1>1. UNCHANGED <<published, failures, handlers, task>>
  BY DEF DispatchStep, BeginDispatch, OnMessage, EndDispatch, conn_vars, thread_vars,
         Conn!CallbackReturns, Conn!WorkerUnchanged, Conn!counters
<1>2. UNCHANGED <<Statuses, published>>
  BY <1>1, SameStatuses
<1>3. CASE BeginDispatch
  <2>1. UNCHANGED <<Pending, Promised, received>>
    BY <1>1, <1>3, SamePending DEF BeginDispatch, conn_vars, Promised
  <2> QED BY <1>2, <2>1 DEF Bus!vars
<1> DEFINE e == <<current.channel, current.id>>
<1>4. ASSUME dispatching
      PROVE  /\ current \in Conn!Events /\ e \in Pending /\ Bus!Oldest(e)
             /\ current.id \in Nat
  <2>1. current \in Conn!Events
    BY <1>0, <1>4, CallbackGiven
  <2>2. current \in BusEvents
    BY <2>1, PendingIs
  <2>3. /\ current.id \in Nat
        /\ \A i \in DOMAIN replies : replies[i].id \in Nat
    BY <1>0, <2>1, RepliesNumbered
  <2>4. ASSUME NEW r \in BusEvents PROVE current.id <= r.id
    <3>1. r = current \/ \E i \in DOMAIN replies : replies[i] = r
      BY PendingIs
    <3>2. r \in Conn!Events
      BY PendingIs
    <3> QED BY <1>0, <2>1, <2>3, <3>1, <3>2 DEF CurrentComesFirst, EventAt
  <2>5. e \in Pending
    BY <2>2, PendingIs
  <2>6. \A f \in Pending : e[2] <= f[2]
    BY <2>4, PendingIs
  <2> QED BY <2>1, <2>3, <2>5, <2>6 DEF Bus!Oldest
<1>5. CASE OnMessage
  <2> DEFINE m == Head(to_call)
             given == {s \in Subscribers : Contains(handlers[m][current.channel], s)}
  <2>1. /\ dispatching /\ to_call # <<>> /\ m \in Managers
        /\ current.channel \in Channels
        /\ UNCHANGED conn_vars
        /\ owed' = {o \in owed : ~ /\ o[3] = current.id
                                   /\ Contains(handlers[m][current.channel], o[1])}
        /\ received' = [s \in Subscribers |->
                          IF Contains(handlers[m][current.channel], s)
                          THEN Append(received[s], current.id) ELSE received[s]]
    BY <1>0, <1>5, Deliveries
  <2>2. UNCHANGED Pending
    BY <2>1, SamePending DEF conn_vars
  <2>3. ASSUME NEW s \in given
        PROVE  Statuses[s][e[1]] # "none" /\ ~ Bus!HasReceived(s, e[2])
    <3>1. ManagerOf[s] = m /\ Contains(to_call, m)
      <4>1. to_call \in Seq(Managers)
        BY <1>0 DEF TypeOK
      <4> QED BY <1>0, <2>1, <4>1, HeadAndTailElements DEF ListedExist
    <3>2. Statuses[s][e[1]] # "none"
      BY <2>1, <3>1, StatusIs, StatusesAre
    <3>3. \A k \in DOMAIN received[s] : received[s][k] # current.id
      <4>1. SUFFICES ASSUME NEW k \in DOMAIN received[s], received[s][k] = current.id
                     PROVE  FALSE
        OBVIOUS
      <4>2. \/ received[s][k] < current.id
            \/ ~ Contains(to_call, ManagerOf[s])
        BY <1>0, <1>4, <2>1 DEF ReceivedBefore
      <4> QED BY <1>4, <2>1, <3>1, <4>1, <4>2
    <3> QED BY <3>2, <3>3 DEF Bus!HasReceived
  <2>4. received' = [s \in Subscribers |-> IF s \in given THEN Append(received[s], e[2])
                                                          ELSE received[s]]
    BY <2>1
  <2>5. Promised' = {o \in Promised : ~ (o[1] \in given /\ o[2] = e[1] /\ o[3] = e[2])}
    <3>1. CASE failures # 0
      BY <1>1, <3>1 DEF Promised
    <3>2. CASE failures = 0
      <4>1. ASSUME NEW o \in owed
            PROVE  /\ o[1] \in given <=> Contains(handlers[m][current.channel], o[1])
                   /\ o[3] = current.id => o[2] = current.channel
        <5>1. o \in Promised
          BY <3>2, <4>1 DEF Promised
        <5>2. PICK s \in Subscribers, c \in Channels, n \in 1 .. MaxEvents :
                 /\ o = <<s, c, n>>
                 /\ current \in Conn!Events /\ current.id = n => current.channel = c
          BY <1>0, <5>1, PromisedAre
        <5> QED BY <1>4, <2>1, <5>2
      <4>2. Promised = owed /\ Promised' = owed'
        BY <1>1, <3>2 DEF Promised
      <4>3. \A o \in owed :
               (o[3] = current.id /\ Contains(handlers[m][current.channel], o[1])) <=>
                   (o[1] \in given /\ o[2] = e[1] /\ o[3] = e[2])
        BY <4>1
      <4> QED BY <2>1, <4>2, <4>3
    <3> QED BY <3>1, <3>2
  <2>6. e \in Pending /\ Bus!Oldest(e) /\ given \in SUBSET Subscribers
    BY <1>4, <2>1
  <2> HIDE DEF e, given, m
  <2>7. Bus!Deliver(e, given)
    BY <1>2, <2>2, <2>3, <2>4, <2>5, <2>6 DEF Bus!Deliver
  <2> QED BY <2>6, <2>7 DEF Bus!Next
<1>6. CASE EndDispatch
  <2>1. /\ dispatching /\ to_call = <<>> /\ Conn!CallbackReturns
        /\ UNCHANGED <<received, owed>>
    BY <1>6 DEF EndDispatch
  <2>2. current \in Conn!Events /\ e \in Pending /\ Bus!Oldest(e)
    BY <1>4, <2>1
  <2>3. Pending' = Pending \ {e}
    BY <1>0, <2>1, <2>2, PutAsidePending
  <2>4. \A o \in Promised : ~ (o[2] = e[1] /\ o[3] = e[2])
    <3>1. SUFFICES ASSUME NEW o \in Promised, o[2] = e[1], o[3] = e[2] PROVE FALSE
      OBVIOUS
    <3>2. PICK s \in Subscribers, c \in Channels, n \in 1 .. MaxEvents :
             /\ o = <<s, c, n>>
             /\ current \in Conn!Events /\ current.id = n =>
                   (dispatching => Contains(to_call, ManagerOf[s]))
      BY <1>0, PromisedAre
    <3> QED BY <2>1, <2>2, <3>1, <3>2 DEF Contains
  <2>5. UNCHANGED <<Promised, received>>
    BY <1>1, <2>1 DEF Promised
  <2> HIDE DEF e
  <2>6. Bus!PutAside(e)
    BY <1>2, <2>2, <2>3, <2>4, <2>5 DEF Bus!PutAside
  <2> QED BY <2>2, <2>6 DEF Bus!Next
<1> QED BY <1>3, <1>5, <1>6 DEF DispatchStep

\* Whoever is subscribed when an event is published is promised it, and an event that
\* is not sent to the process is promised to nobody.
LEMMA PublishingStep ==
    ASSUME BusInv, [Next]_vars, NEW c \in Channels, Publish(c)
    PROVE  Bus!Publish(c)
<1>1. /\ UNCHANGED <<failures, task, handlers, received, current>>
      /\ published' = published + 1
      /\ replies' = IF c \in server_channels
                    THEN Append(replies, Conn!Message(c, published + 1)) ELSE replies
      /\ owed' = owed \cup {<<s, c, published + 1>> : s \in SubscribedTo(c)}
  BY DEF Publish, Conn!Publish, Conn!Deliver, thread_vars, dispatch_vars
<1>2. /\ replies \in Seq(Conn!Replies) /\ published \in Nat /\ published < MaxEvents
      /\ IInv
  BY RepliesNumbered, EventsMove DEF BusInv, IInv, Publish, Conn!Publish
<1>3. UNCHANGED <<Statuses, received>>
  BY <1>1, SameStatuses
<1>4. Bus!SubscribedTo(c) = IF failures = 0 THEN SubscribedTo(c) ELSE {}
  <2>1. \A s \in Subscribers : Statuses[s][c] = "subscribed" <=>
                                   failures = 0 /\ s \in SubscribedTo(c)
    BY StatusesAre DEF BusStatus
  <2> QED BY <2>1 DEF Bus!SubscribedTo, SubscribedTo
<1>5. Promised' = Promised \cup {<<s, c, published + 1>> : s \in Bus!SubscribedTo(c)}
  BY <1>1, <1>4 DEF Promised
<1>6. CASE c \in server_channels
  <2> DEFINE e == Conn!Message(c, published + 1)
  <2>1. e \in Conn!Events /\ e.channel = c /\ e.id = published + 1
    BY <1>2, ConnAssumptions DEF Conn!Message, Conn!Events, Conn!Replies
  <2>2. /\ \A i \in DOMAIN replies : replies'[i] = replies[i]
        /\ replies'[Len(replies) + 1] = e
        /\ DOMAIN replies' = (DOMAIN replies) \cup {Len(replies) + 1}
    BY <1>1, <1>2, <1>6
  <2> HIDE DEF e
  <2>3. BusEvents' = BusEvents \cup {e}
    BY <1>1, <2>1, <2>2, PendingIs
  <2>4. Pending' = Pending \cup {<<c, published + 1>>}
    BY <2>1, <2>3, PendingIs
  <2> QED BY <1>1, <1>3, <1>5, <2>4 DEF Bus!Publish
<1>7. CASE c \notin server_channels
  <2>1. Bus!SubscribedTo(c) = {}
    BY <1>2, <1>4, <1>7, SubscribersServed
  <2>2. UNCHANGED Pending
    BY <1>1, <1>7, SamePending
  <2> QED BY <1>1, <1>3, <1>5, <2>1, <2>2 DEF Bus!Publish
<1> QED BY <1>6, <1>7

\* Every step is one of the bus, or changes nothing there.
LEMMA BusStep ==
    ASSUME BusInv, BusInv', [Next]_vars
    PROVE  [Bus!Next]_Bus!vars
<1>1. ASSUME UNCHANGED <<replies, current, failures, task, handlers, owed, received,
                         published>>
      PROVE  UNCHANGED Bus!vars
  BY <1>1, SameStatuses, SamePending DEF Bus!vars, Promised
<1>2. CASE UNCHANGED vars
  BY <1>1, <1>2 DEF vars, conn_vars, thread_vars, dispatch_vars
<1>3. CASE StopBroker
  BY <1>1, <1>3 DEF StopBroker, Conn!Stop, Conn!OwnerUnchanged, Conn!connection,
                    UpperUnchanged, thread_vars, dispatch_vars
<1>4. ASSUME NEW s \in Subscribers, CreateSubscriber(s) PROVE UNCHANGED Bus!vars
  BY <1>1, <1>4 DEF CreateSubscriber, conn_vars, thread_vars, dispatch_vars
<1>5. ASSUME NEW c \in Channels, Publish(c) PROVE Bus!Next
  BY <1>5, PublishingStep DEF Bus!Next
<1> QED BY <1>2, <1>3, <1>4, <1>5, ConnectorStep, CallStep, EntryStep, DispatchingStep,
           Steps

\* The connector, the broker, the managers and their subscribers together keep what
\* the bus promises: an event is given to everyone entitled to it before the next one,
\* once, in the order of publication, whatever subscriptions, interfaces and
\* exceptions come in between.
THEOREM ImplementsTheEventBus == Spec => ImplementsEventBus
<1>1. BusInv /\ BusInv' /\ [Next]_vars => [Bus!Next]_Bus!vars
  BY BusStep
<1> QED BY <1>1, InitBus, BusInvariance, PTL DEF Spec, ImplementsEventBus, Bus!Spec

\* The theorems about the bus hold of the whole system.
BP == INSTANCE EventBusProofs WITH status <- Statuses, pending <- Pending,
                                   owed <- Promised

LEMMA SameBus == Bus!Spec => BP!Spec
<1>1. Bus!Init => BP!Init
  BY DEF Bus!Init, BP!Init
<1>2. [Bus!Next]_Bus!vars => [BP!Next]_BP!vars
  BY DEF Bus!Statuses, BP!Statuses, Bus!vars, BP!vars, Bus!StartSubscribing,
         BP!StartSubscribing, Bus!StartEnding, BP!StartEnding, Bus!Settle, BP!Settle,
         Bus!SubscribedTo, BP!SubscribedTo, Bus!Publish, BP!Publish, Bus!Oldest,
         BP!Oldest, Bus!HasReceived, BP!HasReceived, Bus!Deliver, BP!Deliver,
         Bus!PutAside, BP!PutAside, Bus!Fail, BP!Fail, Bus!Shutdown, BP!Shutdown,
         Bus!Next, BP!Next
<1> QED BY <1>1, <1>2, PTL DEF Bus!Spec, BP!Spec

\* A subscriber is given every event at most once and in the order of publication,
\* across its channels and however often it was subscribed.
THEOREM EventsComeOnceInOrder == Spec => []Bus!OnceInOrder
<1>1. BP!OnceInOrder <=> Bus!OnceInOrder
  BY DEF BP!OnceInOrder, Bus!OnceInOrder
<1> QED BY <1>1, ImplementsTheEventBus, SameBus, BP!DeliveredOnceInOrder, PTL
        DEF ImplementsEventBus

\* What a subscriber is owed is still to be dealt with, and was not given to it before.
THEOREM OwedEventsArePending == Spec => []Bus!OwedIsPending
<1>1. BP!OwedIsPending <=> Bus!OwedIsPending
  BY DEF BP!OwedIsPending, Bus!OwedIsPending, BP!HasReceived, Bus!HasReceived
<1> QED BY <1>1, ImplementsTheEventBus, SameBus, BP!NothingOwedIsLost, PTL
        DEF ImplementsEventBus

(***************************************************************************)
(* Only the circular wait blocks.                                          *)
(***************************************************************************)

\* Who holds a lock is on the way on which it is taken.
HoldersInside ==
    /\ \A m \in Managers, u \in Threads : manager_lock[m] = u =>
          Inside(u) /\ Manager(u) = m
    /\ \A u \in Threads : broker_lock = u => phase[u] = "connector"

\* Who goes to the broker has a channel to take there.
SomethingToDo == \A t \in Threads : phase[t] = "broker" => todo[t] # {}

\* The channels for which the connector was called, and the calls of subscribe that
\* may have it called.
Reached == {c \in Channels : count[c] # 0}
Coming == {t \in Threads : phase[t] \in {"manager", "broker"} /\ task[t].kind = "subscribe"}

\* A call of subscribe calls the connector at most once, and so does what ends it.
CallsBounded ==
    /\ IsFiniteSet(Reached) /\ IsFiniteSet(Coming)
    /\ calls + Cardinality(Reached) + 2 * Cardinality(Coming) <= 2 * operations

WaitIInv ==
    /\ IInv
    /\ P!WakeIInv
    /\ HoldersInside
    /\ SomethingToDo
    /\ CallsBounded

\* Where a step takes thread t, and which locks it takes or releases.
LEMMA PlaceSteps ==
    ASSUME TypeOK, TasksFit, NEW t \in Threads,
           ObjectStep(t) \/ ManagerStep(t) \/ BrokerStep(t)
    PROVE  \/ /\ phase[t] \in {"idle", "callbacks"}
              /\ phase'[t] \in {"idle", "callbacks", "manager"}
              /\ UNCHANGED <<manager_lock, broker_lock>>
           \/ /\ phase[t] \in {"manager", "broker", "connector"}
              /\ \/ phase[t] # "connector" /\ UNCHANGED broker_lock
                 \/ phase[t] = "connector" /\ broker_lock' = NoCaller
              /\ \/ Return(t)
                 \/ /\ phase'[t] = "broker" /\ task'[t] = task[t] /\ todo'[t] # {}
                    /\ manager_lock' = [manager_lock EXCEPT ![Manager(t)] = t]
           \/ /\ phase[t] = "broker" /\ phase'[t] = "connector" /\ broker_lock' = t
              /\ task'[t] = task[t] /\ UNCHANGED manager_lock
           \/ /\ phase[t] = "connector" /\ broker_lock' = NoCaller
              /\ UNCHANGED <<manager_lock, phase, task, todo>>
<1>0. /\ phase \in [Threads -> {"idle", "manager", "broker", "connector", "callbacks"}]
      /\ todo \in [Threads -> SUBSET Channels]
  BY DEF TypeOK
<1>1. ASSUME NEW channels, ToBroker(t, channels)
      PROVE  \/ Return(t)
             \/ /\ phase'[t] = "broker" /\ task'[t] = task[t] /\ todo'[t] # {}
                /\ manager_lock' = [manager_lock EXCEPT ![Manager(t)] = t]
  BY <1>0, <1>1 DEF ToBroker
<1>2. CASE ObjectStep(t)
  <2>1. UNCHANGED <<manager_lock, broker_lock>>
    BY <1>2 DEF ObjectStep, Open, Close, Enter, EnterDestructor, RegisterCallback,
                RemoveCallback
  <2>2. /\ phase[t] \in {"idle", "callbacks"}
        /\ phase'[t] \in {"idle", "callbacks", "manager"}
    BY <1>2, ObjectSteps
  <2> QED BY <2>1, <2>2
<1>3. CASE ManagerStep(t)
  <2>1. /\ phase[t] = "manager" /\ UNCHANGED broker_lock
        /\ \E channels : ToBroker(t, channels)
    BY <1>3, ManagerSteps
  <2> QED BY <1>1, <2>1
<1>4. CASE BrokerStep(t) /\ phase[t] = "broker"
  <2>1. \/ /\ UNCHANGED broker_lock /\ \E channels : ToBroker(t, channels)
        \/ /\ phase' = [phase EXCEPT ![t] = "connector"] /\ broker_lock' = t
           /\ UNCHANGED <<manager_lock, task>>
    BY <1>4, BrokerSteps
  <2> QED BY <1>0, <1>1, <1>4, <2>1
<1>5. CASE BrokerStep(t) /\ phase[t] # "broker"
  <2>1. /\ phase[t] = "connector" /\ broker_lock' = NoCaller
        /\ \/ \E channels : ToBroker(t, channels)
           \/ Return(t)
           \/ UNCHANGED <<manager_lock, phase, task, todo>>
    BY <1>5, BrokerSteps
  <2> QED BY <1>1, <2>1
<1> QED BY <1>2, <1>3, <1>4, <1>5

LEMMA NextHolders ==
    ASSUME TypeOK, TasksFit, HoldersInside, [Next]_vars
    PROVE  HoldersInside'
<1>0. /\ manager_lock \in [Managers -> Threads \cup {NoCaller}]
      /\ phase \in [Threads -> {"idle", "manager", "broker", "connector", "callbacks"}]
      /\ \A u \in Threads : u # NoCaller
  BY NamesAssumption DEF TypeOK
<1>1. ASSUME NEW t \in Threads, ObjectStep(t) \/ ManagerStep(t) \/ BrokerStep(t)
      PROVE  HoldersInside'
  <2>1. \A u \in Threads \ {t} : /\ Inside(u)' <=> Inside(u)
                                 /\ phase'[u] = phase[u] /\ Manager(u)' = Manager(u)
    BY <1>1, OthersStay DEF Manager, Inside
  <2>2. phase[t] \in {"manager", "broker", "connector"} => Manager(t) \in Managers
    BY Operands
  <2>3. ASSUME NEW m \in Managers, NEW u \in Threads, manager_lock'[m] = u
        PROVE  Inside(u)' /\ Manager(u)' = m
    <3>1. CASE phase[t] \in {"idle", "callbacks"} /\ UNCHANGED manager_lock
      <4>1. u # t /\ Inside(u) /\ Manager(u) = m
        BY <1>0, <2>3, <3>1 DEF HoldersInside, Inside
      <4> QED BY <2>1, <4>1
    <3>2. CASE /\ phase[t] \in {"manager", "broker", "connector"}
               /\ phase'[t] = "broker" /\ task'[t] = task[t]
               /\ manager_lock' = [manager_lock EXCEPT ![Manager(t)] = t]
      <4>1. CASE m = Manager(t)
        <5>1. u = t
          BY <1>0, <2>2, <2>3, <3>2, <4>1
        <5> QED BY <3>2, <4>1, <5>1 DEF Manager, Inside
      <4>2. CASE m # Manager(t)
        <5>1. manager_lock[m] = u
          BY <1>0, <2>3, <3>2, <4>2
        <5>2. Inside(u) /\ Manager(u) = m /\ u # t
          BY <4>2, <5>1 DEF HoldersInside
        <5> QED BY <2>1, <5>2
      <4> QED BY <4>1, <4>2
    <3>3. CASE phase[t] \in {"manager", "broker", "connector"} /\ Return(t)
      <4>1. m # Manager(t) /\ manager_lock[m] = u
        BY <1>0, <2>2, <2>3, <3>3 DEF Return
      <4>2. Inside(u) /\ Manager(u) = m /\ u # t
        BY <4>1 DEF HoldersInside
      <4> QED BY <2>1, <4>2
    <3>4. CASE /\ phase[t] = "broker" /\ phase'[t] = "connector" /\ task'[t] = task[t]
               /\ UNCHANGED manager_lock
      <4>1. Inside(u) /\ Manager(u) = m
        BY <2>3, <3>4 DEF HoldersInside
      <4> QED BY <2>1, <3>4, <4>1 DEF Manager, Inside
    <3>5. CASE UNCHANGED <<manager_lock, phase, task>>
      BY <2>3, <3>5 DEF HoldersInside, Manager, Inside
    <3> QED BY <1>1, <3>1, <3>2, <3>3, <3>4, <3>5, PlaceSteps
  <2>4. ASSUME NEW u \in Threads, broker_lock' = u PROVE phase'[u] = "connector"
    <3>1. \/ phase[t] # "connector" /\ UNCHANGED broker_lock
          \/ phase'[t] = "connector" /\ broker_lock' = t
      BY <1>0, <1>1, <2>4, PlaceSteps
    <3> QED BY <2>1, <2>4, <3>1 DEF HoldersInside
  <2> QED BY <2>3, <2>4 DEF HoldersInside
<1>2. ASSUME UNCHANGED thread_vars PROVE HoldersInside'
  BY <1>2 DEF HoldersInside, thread_vars, Manager, Inside
<1> QED BY <1>1, <1>2, ThreadsUndisturbed

LEMMA NextSomethingToDo ==
    ASSUME TypeOK, TasksFit, SomethingToDo, [Next]_vars
    PROVE  SomethingToDo'
<1>1. ASSUME NEW t \in Threads, ObjectStep(t) \/ ManagerStep(t) \/ BrokerStep(t)
      PROVE  SomethingToDo'
  <2>1. phase'[t] = "broker" => todo'[t] # {}
    <3>1. Return(t) => phase'[t] # "broker"
      BY DEF Return, TypeOK
    <3> QED BY <1>1, <3>1, PlaceSteps
  <2> QED BY <1>1, <2>1, OthersStay DEF SomethingToDo
<1>2. ASSUME UNCHANGED thread_vars PROVE SomethingToDo'
  BY <1>2 DEF SomethingToDo, thread_vars
<1> QED BY <1>1, <1>2, ThreadsUndisturbed

\* The connector's own invariant about what wakes its worker.
LEMMA ConnWake ==
    ASSUME TypeOK, TasksFit, P!WakeIInv, [Next]_vars
    PROVE  P!WakeIInv'
<1>1. CASE [Conn!Next]_Conn!vars
  <2>1. [P!Next]_P!vars
    BY <1>1, SameStep
  <2> QED BY <2>1, ConnAssumptions, P!NextWake
<1>2. ASSUME NEW t \in Threads, EndsProcess(t) PROVE P!WakeIInv'
  <2>1. /\ UNCHANGED <<output, wire, replies, server_channels,
                       m_subscription_status_changed, m_subscriber_thread_alive,
                       m_is_running, m_subscription_lock, current, pc, op, owner, calls,
                       published, wakeups, failures>>
        /\ worker' = "terminated"
    BY <1>2 DEF EndsProcess, ConnectorThrows
  <2>2. P!TypeOK' /\ P!LockDiscipline'
    BY <2>1 DEF P!WakeIInv, P!TypeOK, P!LockDiscipline
  <2>3. P!WakeInv'
    BY <2>1 DEF P!WakeIInv, P!WakeInv, P!TechnicalStays, P!Allowed, P!TechnicalKnown,
                P!LoopRuns, P!ConfirmationComes, P!OwnerIsHeard, P!Metas
  <2> QED BY <2>2, <2>3 DEF P!WakeIInv
<1> QED BY <1>1, <1>2, ConnSteps

\* Which calls are on their way to the connector, and how many it can have had, as
\* a step of thread t changes it.
LEMMA ComingSteps ==
    ASSUME TypeOK, TasksFit, LockDiscipline, ChangeMade, CountIsOfManagers, [Next]_vars,
           NEW t \in Threads, ObjectStep(t) \/ ManagerStep(t) \/ BrokerStep(t)
    PROVE  /\ Coming \ {t} = Coming' \ {t}
           /\ \/ /\ UNCHANGED <<calls, count, operations>>
                 /\ t \in Coming' => t \in Coming
              \/ /\ UNCHANGED <<calls, count>>
                 /\ operations' = operations + 1 /\ t \notin Coming
              \/ /\ UNCHANGED operations /\ calls' \in {calls, calls + 1}
                 /\ t \in Coming /\ t \notin Coming'
                 /\ \E c \in Channels : Reached' = Reached \cup {c}
              \/ /\ UNCHANGED operations
                 /\ t \notin Coming /\ t \notin Coming'
                 /\ \/ UNCHANGED calls /\ Reached' = Reached
                    \/ /\ calls' = calls + 1
                       /\ \E c \in Reached : Reached' = Reached \ {c}
<1>0. /\ phase \in [Threads -> {"idle", "manager", "broker", "connector", "callbacks"}]
      /\ task \in [Threads -> Tasks] /\ count \in [Channels -> Nat]
      /\ count' \in [Channels -> Nat]
  BY NextCount DEF TypeOK
<1>1. Coming \ {t} = Coming' \ {t}
  BY OthersStay DEF Coming
<1>2. Return(t) => t \notin Coming'
  BY <1>0 DEF Return, Coming
<1>3. CASE ObjectStep(t)
  <2>1. t \notin Coming
    BY <1>0, <1>3, ObjectSteps DEF Coming
  <2>2. ASSUME NEW m \in Managers, Open(t, m) \/ Close(t, m)
        PROVE  UNCHANGED <<calls, count, operations>> /\ t \notin Coming'
    <3>1. UNCHANGED <<calls, count, operations>> /\ phase' = [phase EXCEPT ![t] = "callbacks"]
      BY <2>2 DEF Open, Close, Begin, conn_vars
    <3> QED BY <1>0, <3>1 DEF Coming
  <2>3. ASSUME NEW s \in Subscribers, EnterDestructor(t, s)
        PROVE  UNCHANGED <<calls, count, operations>> /\ t \notin Coming'
    <3>1. /\ UNCHANGED <<calls, count, operations>>
          /\ task' = [task EXCEPT ![t] = [kind |-> "destroy", subscriber |-> s]]
      BY <2>3 DEF EnterDestructor, Begin, conn_vars
    <3> QED BY <1>0, <3>1 DEF Coming
  <2>4. ASSUME NEW s \in Subscribers, NEW kind \in Conn!Kinds, NEW c \in Channels,
               Enter(t, kind, s, c)
        PROVE  UNCHANGED <<calls, count>> /\ operations' = operations + 1
    BY <2>4 DEF Enter, conn_vars
  <2>5. ASSUME RegisterCallback(t) \/ RemoveCallback(t)
        PROVE  UNCHANGED <<calls, count, operations>> /\ t \notin Coming'
    <3>1. UNCHANGED <<calls, count, operations>> /\ phase' = [phase EXCEPT ![t] = "idle"]
      BY <2>5 DEF RegisterCallback, RemoveCallback, conn_vars
    <3> QED BY <1>0, <3>1 DEF Coming
  <2> QED BY <1>1, <1>3, <2>1, <2>2, <2>3, <2>4, <2>5 DEF ObjectStep
<1>4. CASE ManagerStep(t)
  <2>1. /\ phase[t] = "manager" /\ UNCHANGED <<conn_vars, count, operations>>
        /\ \E channels : ToBroker(t, channels)
    BY <1>4, ManagerSteps
  <2>2. t \in Coming' => t \in Coming
    BY <1>0, <1>2, <2>1 DEF ToBroker, Coming
  <2> QED BY <1>1, <2>1, <2>2 DEF conn_vars
<1>5. CASE BrokerStep(t) /\ phase[t] = "connector"
  <2>1. /\ UNCHANGED operations
        /\ \/ ToBroker(t, todo[t]) /\ UNCHANGED <<conn_vars, count>>
           \/ Return(t) /\ UNCHANGED <<conn_vars, count>>
           \/ UNCHANGED <<calls, count, phase, task>>
    BY <1>5, BrokerSteps
  <2>2. task[t].kind = "subscribe" => todo[t] = {}
    <3>1. task[t].kind = "subscribe" => task[t] \in Calls
      BY <1>5, Operands
    <3> QED BY <1>5, <3>1 DEF TasksFit
  <2>3. ToBroker(t, todo[t]) => t \notin Coming'
    BY <1>2, <2>2 DEF ToBroker, Coming
  <2>4. UNCHANGED <<phase, task>> => (t \in Coming' <=> t \in Coming)
    BY DEF Coming
  <2> QED BY <1>1, <1>2, <2>1, <2>3, <2>4 DEF conn_vars
<1>6. CASE BrokerStep(t) /\ phase[t] # "connector"
  <2>1. phase[t] = "broker" /\ UNCHANGED operations
    BY <1>6, BrokerSteps
  <2>2. PICK c \in todo[t], kind \in {"subscribe", "unsubscribe"} :
           /\ c \in Channels
           /\ kind = "subscribe" <=> task[t].kind = "subscribe"
           /\ task[t] \in Calls => todo[t] = {c}
           /\ count' = [count EXCEPT ![c] = IF kind = "subscribe" THEN @ + 1 ELSE @ - 1]
           /\ \/ /\ ReachesConnector(kind, count[c])
                 /\ Conn!Call(t, kind, c)
                 /\ phase' = [phase EXCEPT ![t] = "connector"]
                 /\ UNCHANGED task
              \/ /\ ~ ReachesConnector(kind, count[c])
                 /\ ToBroker(t, todo[t] \ {c})
                 /\ UNCHANGED conn_vars
    BY <1>6, <2>1, BrokerSteps
  <2>3. \/ ReachesConnector(kind, count[c]) /\ calls' = calls + 1
        \/ ~ ReachesConnector(kind, count[c]) /\ UNCHANGED calls
    BY <2>2 DEF Conn!Call, conn_vars
  <2>4. CASE kind = "subscribe"
    <3>1. count'[c] # 0 /\ \A d \in Channels \ {c} : count'[d] = count[d]
      BY <1>0, <2>2, <2>4
    <3>2. Reached' = Reached \cup {c}
      BY <2>2, <3>1 DEF Reached
    <3>3. t \in Coming
      BY <2>1, <2>2, <2>4 DEF Coming
    <3>4. todo[t] \ {c} = {}
      BY <2>1, <2>2, <2>4, Operands
    <3>5. t \notin Coming'
      BY <1>0, <1>2, <2>2, <3>4 DEF ToBroker, Coming
    <3> QED BY <1>1, <2>1, <2>2, <2>3, <3>2, <3>3, <3>5
  <2>5. CASE kind # "subscribe"
    <3>1. /\ count'[c] = count[c] - 1 /\ count[c] \in Nat /\ count'[c] \in Nat
          /\ \A d \in Channels \ {c} : count'[d] = count[d]
      BY <1>0, <2>2, <2>5
    <3>2. ReachesConnector(kind, count[c]) <=> count[c] = 1
      BY <2>5 DEF ReachesConnector
    <3>3. t \notin Coming
      BY <2>2, <2>5 DEF Coming
    <3>4. t \notin Coming'
      <4>1. task'[t] = task[t] \/ Return(t)
        BY <2>2 DEF ToBroker
      <4> QED BY <1>2, <2>2, <2>5, <4>1 DEF Coming
    <3>5. CASE count[c] = 1
      <4>1. c \in Reached /\ Reached' = Reached \ {c}
        BY <2>2, <3>1, <3>5 DEF Reached
      <4> QED BY <1>1, <2>1, <2>3, <3>2, <3>3, <3>4, <3>5, <4>1
    <3>6. CASE count[c] # 1
      <4>1. count[c] # 0 /\ count'[c] # 0
        BY <3>1, <3>6
      <4>2. Reached' = Reached
        BY <3>1, <4>1 DEF Reached
      <4> QED BY <1>1, <2>1, <2>3, <3>2, <3>3, <3>4, <3>6, <4>2
    <3> QED BY <3>5, <3>6
  <2> QED BY <2>4, <2>5
<1> QED BY <1>3, <1>4, <1>5, <1>6

LEMMA NextBounded ==
    ASSUME TypeOK, TasksFit, LockDiscipline, ChangeMade, CountIsOfManagers,
           CallsBounded, [Next]_vars
    PROVE  CallsBounded'
<1>0. calls \in Nat /\ operations \in Nat
  BY BoundsAssumption DEF TypeOK, Conn!TypeOK
<1> DEFINE R == Cardinality(Reached)
           C == Cardinality(Coming)
<1>1. /\ IsFiniteSet(Reached) /\ IsFiniteSet(Coming) /\ R \in Nat /\ C \in Nat
      /\ calls + R + 2 * C <= 2 * operations
  BY FS_CardinalityType DEF CallsBounded
<1>2. ASSUME NEW t \in Threads, ObjectStep(t) \/ ManagerStep(t) \/ BrokerStep(t)
      PROVE  CallsBounded'
  <2>0. \/ Coming' = Coming
        \/ t \in Coming /\ t \notin Coming' /\ Coming' = Coming \ {t}
        \/ t \notin Coming /\ t \in Coming' /\ Coming' = Coming \cup {t}
    BY <1>2, ComingSteps
  <2>1. /\ IsFiniteSet(Coming')
        /\ \/ Coming' = Coming /\ C' = C
           \/ t \in Coming /\ t \notin Coming' /\ C' = C - 1
           \/ t \notin Coming /\ t \in Coming' /\ C' = C + 1
    <3>1. IsFiniteSet(Coming \ {t}) /\ (t \in Coming => Cardinality(Coming \ {t}) = C - 1)
      BY <1>1, FS_RemoveElement
    <3>2. /\ IsFiniteSet(Coming \cup {t})
          /\ t \notin Coming => Cardinality(Coming \cup {t}) = C + 1
      BY <1>1, FS_AddElement
    <3> QED BY <1>1, <2>0, <3>1, <3>2
  <2>2. ASSUME count' = count \/ Reached' = Reached
        PROVE  IsFiniteSet(Reached') /\ R' = R
    BY <1>1, <2>2 DEF Reached
  <2>3. ASSUME NEW c \in Channels, Reached' = Reached \cup {c}
        PROVE  IsFiniteSet(Reached') /\ R' \in {R, R + 1}
    <3>1. c \in Reached => Reached' = Reached
      BY <2>3
    <3> QED BY <1>1, <2>3, <3>1, FS_AddElement
  <2>4. ASSUME NEW c \in Reached, Reached' = Reached \ {c}
        PROVE  IsFiniteSet(Reached') /\ R' = R - 1
    BY <1>1, <2>4, FS_RemoveElement
  <2>5. CASE UNCHANGED <<calls, count, operations>> /\ (t \in Coming' => t \in Coming)
    <3>1. IsFiniteSet(Reached') /\ R' = R
      BY <2>2, <2>5
    <3> QED BY <1>0, <1>1, <2>1, <2>5, <3>1 DEF CallsBounded
  <2>6. CASE UNCHANGED <<calls, count>> /\ operations' = operations + 1 /\ t \notin Coming
    <3>1. IsFiniteSet(Reached') /\ R' = R
      BY <2>2, <2>6
    <3> QED BY <1>0, <1>1, <2>1, <2>6, <3>1 DEF CallsBounded
  <2>7. CASE /\ UNCHANGED operations /\ calls' \in {calls, calls + 1}
             /\ t \in Coming /\ t \notin Coming'
             /\ \E c \in Channels : Reached' = Reached \cup {c}
    <3>1. IsFiniteSet(Reached') /\ R' \in {R, R + 1}
      BY <2>3, <2>7
    <3>2. C' = C - 1
      BY <2>1, <2>7
    <3> QED BY <1>0, <1>1, <2>1, <2>7, <3>1, <3>2 DEF CallsBounded
  <2>8. CASE /\ UNCHANGED <<operations, calls>> /\ t \notin Coming /\ t \notin Coming'
             /\ Reached' = Reached
    <3>1. IsFiniteSet(Reached') /\ R' = R
      BY <2>2, <2>8
    <3> QED BY <1>0, <1>1, <2>1, <2>8, <3>1 DEF CallsBounded
  <2>9. CASE /\ UNCHANGED operations /\ t \notin Coming /\ t \notin Coming'
             /\ calls' = calls + 1 /\ \E c \in Reached : Reached' = Reached \ {c}
    <3>1. IsFiniteSet(Reached') /\ R' = R - 1
      BY <2>4, <2>9
    <3> QED BY <1>0, <1>1, <2>1, <2>9, <3>1 DEF CallsBounded
  <2> QED BY <1>2, <2>5, <2>6, <2>7, <2>8, <2>9, ComingSteps
<1>3. ASSUME UNCHANGED <<thread_vars, calls>> PROVE CallsBounded'
  BY <1>3 DEF CallsBounded, Reached, Coming, thread_vars
<1>4. ASSUME ~ \E t \in Threads : ObjectStep(t) \/ ManagerStep(t) \/ BrokerStep(t)
      PROVE  UNCHANGED calls
  <2> USE DEF Conn!WorkerUnchanged, Conn!OwnerUnchanged, Conn!counters, conn_vars
  <2>1. ASSUME NEW t \in Threads, Conn!CallerStep(t) \/ Conn!NotifyFails(t)
        PROVE  UNCHANGED calls
    BY <2>1 DEF Conn!CallerStep, Conn!Lock, Conn!CheckPasses, Conn!CheckThrows,
                Conn!AppendCommand, Conn!Notify, Conn!Spin, Conn!Reset, Conn!NotifyFails
  <2>2. ConnAlone => UNCHANGED calls
    BY <2>1 DEF ConnAlone, Conn!ServerExecutes, Conn!WorkerLoop, Conn!WriteCommand,
           Conn!BlockInRead, Conn!Receives, Conn!ReceiveTechnical, Conn!ReceiveEvent,
           Conn!ReceiveMeta, Conn!ReceiveMetaThrows, Conn!ConsumeReturns, Conn!OwnerStep,
           Conn!HandshakeNotify, Conn!Constructed, Conn!Wake, Conn!Join,
           Conn!OwnerNotifyFails
  <2>3. StopBroker => UNCHANGED calls
    BY DEF StopBroker, Conn!Stop
  <2>4. DispatchStep => UNCHANGED calls
    BY DEF DispatchStep, BeginDispatch, OnMessage, EndDispatch, Conn!CallbackReturns
  <2>5. ASSUME NEW s \in Subscribers, CreateSubscriber(s) PROVE UNCHANGED calls
    BY <2>5 DEF CreateSubscriber
  <2>6. ASSUME NEW c \in Channels, Publish(c) PROVE UNCHANGED calls
    BY <2>6 DEF Publish, Conn!Publish
  <2>7. UNCHANGED vars => UNCHANGED calls
    BY DEF vars
  <2> QED BY <1>4, <2>2, <2>3, <2>4, <2>5, <2>6, <2>7, Steps
<1> QED BY <1>2, <1>3, <1>4, ThreadsUndisturbed

LEMMA WaitInvariance == Spec => []WaitIInv
<1>1. Init => WaitIInv
  <2>1. SUFFICES ASSUME Init
                 PROVE  P!WakeIInv /\ HoldersInside /\ SomethingToDo /\ CallsBounded
    BY InitInv DEF WaitIInv
  <2>2. P!WakeIInv
    BY <2>1, SameInit, ConnAssumptions, P!InitWake DEF Init
  <2>3. HoldersInside /\ SomethingToDo
    BY <2>1, NamesAssumption DEF Init, HoldersInside, SomethingToDo
  <2>4. Reached = {} /\ Coming = {} /\ calls = 0 /\ operations = 0
    BY <2>1 DEF Init, Conn!Init, Reached, Coming
  <2> QED BY <2>2, <2>3, <2>4, FS_EmptySet DEF CallsBounded
<1>2. WaitIInv /\ [Next]_vars => WaitIInv'
  <2>1. SUFFICES ASSUME WaitIInv, [Next]_vars PROVE WaitIInv'
    OBVIOUS
  <2>2. IInv'
    BY <2>1, NextInv DEF WaitIInv
  <2>3. P!WakeIInv' /\ HoldersInside' /\ SomethingToDo'
    BY <2>1, ConnWake, NextHolders, NextSomethingToDo DEF WaitIInv, IInv
  <2>4. CallsBounded'
    BY <2>1, NextBounded DEF WaitIInv, IInv
  <2> QED BY <2>2, <2>3, <2>4 DEF WaitIInv
<1> QED BY <1>1, <1>2, PTL DEF Spec

\* A thread or a worker that cannot go on waits for one that is deeper inside the locks
\* or for an answer that is on its way, so that a circle of waiting has the worker and
\* a thread that spins in it.
THEOREM OnlyTheCircleBlocks == Spec => []OnlyCircularWaitBlocks
<1>1. ASSUME WaitIInv, ~ Conn!Over PROVE OnlyCircularWaitBlocks
  <2>0. /\ phase \in [Threads -> {"idle", "manager", "broker", "connector", "callbacks"}]
        /\ manager_lock \in [Managers -> Threads \cup {NoCaller}]
        /\ broker_lock \in Threads \cup {NoCaller}
        /\ m_subscription_lock \in Threads \cup {NoCaller}
        /\ count \in [Channels -> Nat] /\ todo \in [Threads -> SUBSET Channels]
        /\ pc \in [Threads -> Conn!Outside \cup Conn!Holding \cup {"lock"}]
        /\ worker \in {"top", "consume", "read", "callback", "consumed", "exited"}
        /\ NoCaller \notin Threads
    BY <1>1, NamesAssumption DEF WaitIInv, IInv, TypeOK, Conn!TypeOK, Conn!Over
  <2>1. ASSUME NEW u \in Threads, WorkerWaitsFor(u) PROVE Inside(u)
    <3>1. to_call # <<>> /\ to_call \in Seq(Managers)
      BY <1>1, <2>1 DEF WaitIInv, IInv, TypeOK, WorkerWaitsFor
    <3>2. Head(to_call) \in Managers
      BY <3>1
    <3> QED BY <1>1, <2>1, <3>2 DEF WaitIInv, HoldersInside, WorkerWaitsFor
  <2>2. ASSUME NEW u \in Threads, Inside(u) PROVE Depth(u) > 1
    BY <2>2 DEF Inside, Depth
  <2>3. ASSUME NEW t \in Threads, phase[t] = "callbacks"
        PROVE  \/ CanGo(t) \/ WorkerCanGo
               \/ \E u \in Threads : WaitsFor(t, u) /\ Depth(u) > Depth(t)
    <3>1. dispatching => worker = "callback"
      BY <1>1 DEF WaitIInv, IInv, RegisteredExist, Conn!Over
    <3> QED BY <2>1, <2>2, <2>3, <3>1 DEF CanGo, WorkerCanGo, WaitsFor, Inside, Depth
  <2>4. ASSUME NEW t \in Threads, phase[t] = "manager"
        PROVE  CanGo(t) \/ \E u \in Threads : WaitsFor(t, u) /\ Depth(u) > Depth(t)
    <3>1. Manager(t) \in Managers
      BY <1>1, <2>4, Operands DEF WaitIInv, IInv
    <3>2. CASE manager_lock[Manager(t)] = NoCaller
      BY <2>4, <3>2 DEF CanGo
    <3>3. CASE manager_lock[Manager(t)] \in Threads
      <4>1. PICK u \in Threads : manager_lock[Manager(t)] = u
        BY <3>3
      <4>2. Inside(u)
        BY <1>1, <3>1, <4>1 DEF WaitIInv, HoldersInside
      <4> QED BY <2>4, <4>1, <4>2 DEF WaitsFor, Depth, Inside
    <3> QED BY <2>0, <3>1, <3>2, <3>3
  <2>5. ASSUME NEW t \in Threads, phase[t] = "broker"
        PROVE  CanGo(t) \/ \E u \in Threads : WaitsFor(t, u) /\ Depth(u) > Depth(t)
    <3>1. CASE broker_lock = NoCaller
      <4>1. owner = "ready"
        BY <1>1, <2>5 DEF WaitIInv, IInv, BrokerLast
      <4>2. pc[t] \in Conn!Outside
        BY <1>1, <2>0, <2>5
        DEF WaitIInv, IInv, LockDiscipline, AtConnector, Conn!Holding
      <4>3. /\ IsFiniteSet(Reached) /\ IsFiniteSet(Coming)
            /\ calls + Cardinality(Reached) + 2 * Cardinality(Coming) <= 2 * operations
            /\ calls \in Nat /\ operations \in 0 .. MaxOperations
            /\ Cardinality(Reached) \in Nat /\ Cardinality(Coming) \in Nat
        BY <1>1, BoundsAssumption, FS_CardinalityType
        DEF WaitIInv, CallsBounded, IInv, TypeOK, Conn!TypeOK
      <4>4. PICK c \in todo[t] : c \in Channels
        BY <1>1, <2>0, <2>5 DEF WaitIInv, SomethingToDo
      <4>5. CASE task[t].kind = "subscribe"
        <5>1. Cardinality(Coming) # 0
          <6>1. t \in Coming
            BY <2>5, <4>5 DEF Coming
          <6> QED BY <4>3, <6>1, FS_EmptySet
        <5>2. calls < 2 * MaxOperations
          BY <4>3, <5>1, BoundsAssumption
        <5> QED BY <2>5, <3>1, <4>1, <4>2, <4>4, <5>2 DEF CanGo
      <4>6. CASE task[t].kind # "subscribe"
        <5>1. ASSUME count[c] = 1 PROVE calls < 2 * MaxOperations
          <6>1. c \in Reached
            BY <4>4, <5>1 DEF Reached
          <6>2. Cardinality(Reached) # 0
            BY <4>3, <6>1, FS_EmptySet
          <6> QED BY <4>3, <6>2, BoundsAssumption
        <5> QED BY <2>5, <3>1, <4>1, <4>2, <4>4, <4>6, <5>1 DEF CanGo, ReachesConnector
      <4> QED BY <4>5, <4>6
    <3>2. CASE broker_lock \in Threads
      BY <1>1, <2>5, <3>2 DEF WaitIInv, HoldersInside, WaitsFor, Depth
    <3> QED BY <2>0, <3>1, <3>2
  <2>6. ASSUME NEW t \in Threads, phase[t] = "connector", ~ Spins(t) PROVE CanGo(t)
    <3>1. ASSUME pc[t] = "lock" PROVE m_subscription_lock = NoCaller
      <4>1. SUFFICES ASSUME NEW u \in Threads, m_subscription_lock = u PROVE FALSE
        BY <2>0
      <4>2. pc[u] \in Conn!Holding
        BY <1>1, <4>1 DEF WaitIInv, P!WakeIInv, P!LockDiscipline, P!Holding, Conn!Holding
      <4>3. phase[u] = "connector"
        BY <1>1, <4>2 DEF WaitIInv, IInv, LockDiscipline, AtConnector, Conn!Holding
      <4>4. u = t
        BY <1>1, <2>6, <4>3, OneAtConnector DEF WaitIInv, IInv
      <4> QED BY <3>1, <4>2, <4>4 DEF Conn!Holding
    <3> QED BY <2>6, <3>1 DEF CanGo
  <2>7. ASSUME NEW t \in Threads, phase[t] = "connector", Spins(t)
        PROVE  WorkerCanGo \/ wire # <<>> \/ CircularWait
    <3>1. worker # "exited" /\ (worker = "read" => replies # <<>> \/ wire # <<>>)
      <4>1. P!NoWakeupLost
        BY <1>1, ConnAssumptions, P!WakeHeard DEF WaitIInv
      <4> QED BY <2>7, <4>1 DEF P!NoWakeupLost, Spins
    <3>2. ASSUME NEW u \in Threads, WorkerWaitsFor(u) PROVE CircularWait
      <4>1. Inside(u)
        BY <2>1, <3>2
      <4>2. broker_lock = t
        BY <1>1, <2>7 DEF WaitIInv, IInv, LockDiscipline, Conn!Over
      <4>3. phase[u] = "connector" => u = t
        BY <1>1, <2>7, OneAtConnector DEF WaitIInv, IInv
      <4> QED BY <2>0, <2>7, <3>2, <4>1, <4>2, <4>3
              DEF CircularWait, WorkerWaitsFor, Inside
    <3> QED BY <2>0, <3>1, <3>2 DEF WorkerCanGo
  <2>8. ASSUME NEW t \in Threads, Busy(t)
        PROVE  \/ CanGo(t)
               \/ \E u \in Threads : WaitsFor(t, u) /\ Depth(u) > Depth(t)
               \/ phase[t] = "callbacks" /\ WorkerCanGo
               \/ Spins(t) /\ (WorkerCanGo \/ wire # <<>> \/ CircularWait)
    BY <2>0, <2>3, <2>4, <2>5, <2>6, <2>7, <2>8 DEF Busy
  <2> QED BY <2>1, <2>2, <2>8 DEF OnlyCircularWaitBlocks
<1>2. WaitIInv => OnlyCircularWaitBlocks
  BY <1>1 DEF OnlyCircularWaitBlocks
<1> QED BY <1>2, WaitInvariance, PTL

\* Taken together: as long as a call is in progress, a thread, the worker or the server
\* can go on, or the circular wait has occurred.  Following whoever a thread waits for
\* leads there in at most three steps, since each is deeper inside the locks.
THEOREM SomebodyCanGo ==
    Spec => [](~ Conn!Over /\ (\E t \in Threads : Busy(t)) =>
                   \/ \E t \in Threads : CanGo(t)
                   \/ WorkerCanGo \/ wire # <<>> \/ CircularWait)
<1> DEFINE Goes == \/ \E t \in Threads : CanGo(t)
                   \/ WorkerCanGo \/ wire # <<>> \/ CircularWait
<1>1. ASSUME OnlyCircularWaitBlocks, ~ Conn!Over, NEW t \in Threads, Busy(t)
      PROVE  Goes
  <2>1. ASSUME NEW u \in Threads, Busy(u), ~ Goes
        PROVE  \E v \in Threads : Depth(v) > Depth(u)
    BY <1>1, <2>1 DEF OnlyCircularWaitBlocks
  <2>2. \A u \in Threads : /\ Depth(u) \in 0 .. 3
                           /\ Depth(u) > 0 => Busy(u)
    BY DEF Depth, Busy
  <2> HIDE DEF Goes
  <2>3. SUFFICES ASSUME ~ Goes PROVE FALSE
    OBVIOUS
  <2>4. ASSUME NEW u \in Threads, Busy(u)
        PROVE  \E v \in Threads : Busy(v) /\ Depth(v) > Depth(u)
    <3>1. PICK v \in Threads : Depth(v) > Depth(u)
      BY <2>1, <2>3, <2>4
    <3> QED BY <2>2, <3>1
  <2>5. PICK u \in Threads : Busy(u) /\ Depth(u) > 0
    <3>1. PICK u \in Threads : Busy(u) /\ Depth(u) > Depth(t)
      BY <1>1, <2>4
    <3> QED BY <2>2, <3>1
  <2>6. PICK v \in Threads : Busy(v) /\ Depth(v) > Depth(u)
    BY <2>4, <2>5
  <2>7. PICK w \in Threads : Busy(w) /\ Depth(w) > Depth(v)
    BY <2>4, <2>6
  <2>8. PICK x \in Threads : Busy(x) /\ Depth(x) > Depth(w)
    BY <2>4, <2>7
  <2> QED BY <2>2, <2>5, <2>6, <2>7, <2>8
<1>2. OnlyCircularWaitBlocks => (~ Conn!Over /\ (\E t \in Threads : Busy(t)) => Goes)
  BY <1>1
<1> QED BY <1>2, OnlyTheCircleBlocks, PTL
=============================================================================
