# oregano: specifications

oregano is a C++ library for events (publish/subscribe) and transactions
(request/response) over a message broker, Redis at present. These TLA+ modules
model its concurrent core, TLC checks them on small instances, and TLAPS proves
theorems about all of them, for any number of threads, channels, calls, queues, requests
and consumers: each type invariant, each safety invariant and action property, the
absence of deadlock but for one circular wait, and both refinements. Liveness stays
with TLC (section 4).

## 1. The system

| Component | State | Operations | Talks to |
|---|---|---|---|
| `RedisBrokerConnector`, publish/subscribe half | two connections (`m_redis` for synchronous commands, `m_redis_subscriber` for subscriptions), `m_subscription_status_changed`, `m_subscriber_thread_alive`, `m_is_running`, `m_subscription_lock`, `m_redis_action_lock`, the subscriber worker thread | constructor, `subscribe`, `unsubscribe`, `publish`, destructor | redis++ / the server; calls `MessageBroker`'s callback on the worker |
| `RedisBrokerConnector`, queue half | `m_redis_queue`, `m_queue_subscriptions`, `m_queue_subscriptions_changed`, `m_queue_subscription_lock`, the queue worker | `listen`, `stop_listening`, `send_request` | the same, through `BRPOP` |
| `MessageBroker` | reference counts per channel and per queue, lists of event and transaction callbacks, four locks | `subscribe`, `unsubscribe`, `listen`, `stop_listening`, `register_*`, `remove_*`, `publish`, `send_request` | owns the connector |
| `MessageHandlerManager` | `m_channel_subscriptions`: the handlers of each channel, one lock; `Type::Event` or `Type::Transaction` | `add_message_handler`, `remove_message_handler` (one channel, all channels), `on_message` | the broker below, `IMessageHandler`s above |
| `EventInterface`, `Subscriber`, `Publisher` | a manager, a callback id; a subscriber's callback | construction, destruction, `subscribe`, `unsubscribe`, `publish` | manager, broker |
| `TransactionInterface`, `RequestSender`, `RequestHandler` | an event interface of its own, a unique response channel, the registry of open promises with its lock | `send_request`, `listen`, `stop_listening`, `on_message` | both halves of the broker |
| `ResponsePromise` | `m_timeout_mutex` used as a gate, `m_response`, `m_result_read`, `m_then_applied`, `m_then_thread` | `await`, `then`, `on_response`, destructor | the registry |
| Configuration, factory, wrapper | getters and setters | construction | nothing that depends on state or order |

What makes it hard:

* **A confirmation is one bit.** `subscribe` appends a command to a buffer that only
  the worker writes out, wakes the worker by publishing on a technical channel, and
  spins on a flag the worker sets for *any* confirmation. Whose confirmation it was
  follows only from the protocol.
* **Callbacks run on the thread everybody waits for.** The worker that confirms
  subscriptions also walks the callback lists, under the locks that the callers of
  `subscribe` hold while they wait for it.
* **Layered reference counts**, per handler, per interface and per process, changed
  under different locks and not rolled back when a call below throws.
* **Nobody waits for the queue worker.** `listen` and `stop_listening` change a list,
  push a token and return; the worker finds out when its blocking pop next returns, and
  may meanwhile be on its way to a handler with a request.
* **Destruction order**: the connector is the first member of the broker, so its
  worker outlives the broker's locks and lists; a promise may be destroyed while its
  response arrives.
* **A deadline** that races with the response, and flags of a promise that are checked
  and set at different moments.
* **Other processes.** A request leaves the queue before it is answered, so a consumer
  that crashes loses it; a push may throw and still have been executed; a response may
  come when its promise, or its interface, is being destroyed.

What correctness means, per component: the connector's calls return, in time and on
their own confirmation, and an unsubscribed channel is silent; the broker and the
managers keep a channel subscribed exactly while someone handles it, call nobody who
was destroyed, deliver once and in order, and do not deadlock; every request pushed on
a queue somebody listens on is popped, and offered to the handler that listens; a promise gives an
answer only if there is one, ends by the deadline, and survives its destruction; a request
is processed at most once, and its promise gives its own answer or none.
`PROJECT.json` lists the single hazards, each at its line.

## 2. Modules

```
EventConnector            publish/subscribe half of RedisBrokerConnector (run as it is)
  EventConnectorProofs    theorems about EventConnector
EventBus                  abstract: what the event half promises to its subscribers
  EventBusProofs          theorems about EventBus
EventSystem               EventInterface, Subscriber, Publisher, MessageHandlerManager (Event),
                          MessageBroker (event half), over INSTANCE EventConnector;
                          implements EventBus
  EventSystemMC           constants and symmetry for TLC
  EventSystemProofs       theorems about EventSystem, the refinement among them
QueueConnector            queue half of RedisBrokerConnector (run as it is)
  QueueConnectorProofs    theorems about QueueConnector
QueueSystem               TransactionInterface, RequestHandler, MessageHandlerManager (Transaction),
                          MessageBroker (transaction half), over INSTANCE QueueConnector
  QueueSystemMC           constants and symmetry for TLC
  QueueSystemProofs       theorems about QueueSystem
Lists                     std::list::remove, for QueueConnector, QueueSystem and EventSystem
  ListsProofs             what they return
ResponsePromise           one request and its promise (its .cfg files run the module itself)
  ResponsePromiseProofs   theorems about ResponsePromise
Transactions              abstract: what becomes of a request
TransactionSystem         RequestSender, TransactionInterface, RequestHandler, promises, queue
                          and consumers together; implements Transactions
  TransactionSystemMC     constants for TLC
  TransactionProofs       theorems about TransactionSystem, the refinement among them
```

A definition whose name starts with `Faulty_` is not part of the model. It is the
definition that follows it with a plausible bug (a dropped guard, a missing reset, an
off-by-one), and `PROJECT.json` says which property notices when it is put in its place.

### EventConnector

`pc[u]` and `op[u]` say where each caller is in `subscribe` or `unsubscribe` and what
it asked for; `owner` is the thread that constructs and destroys the connector;
`worker` is the subscriber worker. The two calls are the same code but for the command
they append (lines 136-148 and 150-162), so they share their actions:

| Code (`RedisBrokerConnector.cpp`) | Action |
|---|---|
| lock, line 138/152 | `Lock` |
| check and throw, 139/153 | `CheckPasses`, `CheckThrows` |
| append the command, 142/156 | `AppendCommand` |
| wake-up, 143/157, which may throw | `Notify`, `NotifyFails` |
| spin, 145/159 | `Spin` |
| clear the flag and unlock, 147/161 | `Reset` |
| `consume()` in the worker's loop, 61-63 | `WorkerLoop`, `WriteCommand`, `BlockInRead`, `Receive...`, `ConsumeReturns` |
| `on_message`, 39-47 / `on_meta`, 49-57 | `ReceiveTechnical`, `ReceiveEvent`, `CallbackReturns` / `ReceiveMeta`, `ReceiveMetaThrows` |
| handshake, 92-99 | `HandshakeNotify`, `Constructed` |
| destructor, 102-118 | `Stop`, `Wake`, `Join` |
| a wake-up of the two that throws, 93/109 | `OwnerNotifyFails`: the process ends |

The connection and the server are external and modelled from how the code uses them:
`output` (buffered in hiredis), `wire` (sent), `replies` (sent by the server, unread),
`server_channels`. redis++'s `subscribe` only appends; `consume` writes the buffer and
then blocks in the read; a reply that is already buffered by the reader is returned
without writing. `PUBLISH` is synchronous, one step at the server, and is queued for the
subscriber connection only if the server has the channel at that moment.
`m_redis_action_lock` is not a variable: it encloses a single synchronous command and no
other lock, so it is the atomicity of `Deliver`. An exception in the worker is not
caught anywhere, so it ends the process (`worker = "terminated"`). The queue half's part
of the constructor and destructor (lines 95-97, 110, 114-116) shares only
`m_is_running`, which it reads, and is in `QueueConnector`.

### EventSystem

It shares EventConnector's variables, takes its steps through `INSTANCE`, and adds the
layers above: `handlers` (the managers' `m_channel_subscriptions`), `manager_lock`,
`count` and `broker_lock` (the broker's reference counts), `registered`, `dispatching`
and `to_call` (the list of event callbacks and its lock). `task[t]`, `phase[t]` and
`todo[t]` say what thread `t` was asked and how deep it is. A critical section that
takes no further lock and waits for nobody is one step; one that calls down holds its
lock across the steps below it, as in the code. `received` and `owed` are history
variables for delivery: an event is owed to a subscriber whose subscription has
returned and whose `unsubscribe` or destructor has not been called when it is published.

What the application must do itself is a guard of the entering actions: it does not use
an object while it is being destroyed and destroys interfaces after their subscribers
and the broker after its interfaces. Callbacks of the application return and do not
call back into the library.

### EventBus

What the layers of `EventSystem` come to for a subscriber: events are dealt with one
after the other, in the order of publication; one may be given to any subscriber with a
call in progress on its channel, must be given to each that has a settled subscription,
and is put aside only when nobody is owed it any more. `EventSystem` implements it
(`ImplementsEventBus`). Under the mapping a subscription is "subscribed" from the return
of `subscribe` to the call of `unsubscribe` or of the destructor, and "changing" as long
as a call about it is in progress or the handler is listed; an event is pending from its
place among the unread replies until the worker's callback has returned. A call that
threw is `Fail`: nobody is entitled to anything afterwards, and who is given an event
still gets it once and in order. EventBus promises nothing about time, since an event
may wait for ever (finding 2); `DeliveredUnlessCircularWait` says when it does not.

### QueueConnector

A queue is a Redis list, `pending[q]`; the list of the technical channel holds only
tokens, so it is their number. `queues` is the worker's copy of `m_queue_subscriptions`.
`listen` and `stop_listening` are the same code but for the change of the list (lines
170-176 and 178-184) and share their actions:

| Code (`RedisBrokerConnector.cpp`) | Action |
|---|---|
| lock, list and flag, 172-174/180-182 | `Update` |
| token and unlock, 175/183, which may throw | `Notify`, `NotifyFails` |
| loop test, 74 / lists taken over, 75-81 | `WorkerLoop` / `LoadQueues` |
| `brpop`, 82 | `Pop`, `Block`; a push serves a pop that is blocked |
| flag and dispatch, 83-88 | `Popped`, `CallbackReturns` |
| handshake, 95-97 | `HandshakeNotify`, `Constructed` |
| destructor, 108, 110, 114-116 | `Stop`, `Wake`, `Join` |
| a token of the two that throws, 96/110 | `OwnerNotifyFails`: the process ends |
| `send_request`, 164-168 | `SendRequest` |

`BRPOP` takes from the first list of the command that is not empty. The technical channel
is the first, listed by the constructor, and this order is what `StoppedIsNotPopped`
depends on: a token is taken before any request, and the lists are loaded again after it.
A blocked pop is answered by the server with the pushed element itself, in the same
step.

### QueueSystem

Built over `QueueConnector` as `EventSystem` is over `EventConnector`, with one handler
per queue in a manager (`handlers[m][q]`), `count` at the broker, and a second listener
that is refused after it was listed and counted (`ListenRefused`). `RefusedForAReason` says what
this cannot come to: a queue that everybody has stopped listening to and that refuses the next
listener all the same. The application
destroys interfaces after their handlers and the broker after its interfaces. It may
destroy a handler that listens, as the tests of the repository do, or one whose `listen`
threw: `RequestHandler` has no destructor that would stop it, so the manager goes on
listing it. `CalledObjectsExist` says that there is no other way for the worker to come
upon something destroyed, but for `ConstructorThrows`: the constructor of
`TransactionInterface` registers its callback (line 33) before the subscription of the
response channel, which may throw (line 51), and then no destructor removes it. A handler
that throws, or a call into one that is gone, may end the process
(`OnMessageEndsProcess`): nothing on the queue worker catches. The request's deadline
(`RequestHandler.cpp:34`) is a choice in `HandleRequest`. History variables: `listening`
and `refused` record how each `listen` ended, `given` who processed which request,
`owed` who has still to be called with it.

### ResponsePromise

`life` follows the promise from `send_request` to the end of its destructor, `pc[r]` a
reader in `await` or `then`, `worker` the subscriber worker inside the response
lambda, whose lock it holds until `on_response` has returned. `expired` is the clock
against `m_valid_until`: it may become true at any moment. A response is its number, 0
is the empty `m_response`. Only one thread may destroy the promise, and not during a
call of `await` or `then`; whether threads may call both at the same time is what the
runs ask, so it is not restricted. Unlocking a `timed_mutex` that is not locked is
undefined; the implementations leave it unlocked and so does `Unlock`.

### TransactionSystem

The whole way of a request, with several requests, promises and processes. What the
modules above say in detail is coarse here: a channel delivers in order to who is
subscribed, a queue is popped in order, one handler per consumer listens, `await` is one
step. What is added is what they leave out:

| Code | Action |
|---|---|
| `RequestSender::send_request`: promise made (43-47), registered (49), pushed (51) | `SendRequest`, `Register`, `Push` |
| the push throws, the promise is destroyed by the unwinding | `PushThrows`, then `Unregister` |
| `await` that ends, and the promise given up unread | `TakeAnswer`, `TimeOut`, `Drop` |
| `~ResponsePromise` through the sender's callback (`TransactionInterface.cpp` 68-72) | `Unregister` |
| the response lambda (38-49): parsed, found under the lock, `on_response`, the lock released; then the manager's (`MessageHandlerManager.cpp` 114) | `TakeResponse`, `FindPromise`, `OnResponse`, `LambdaReturns`; `OnMessageReturns` |
| construction (51) and destruction, member by member (`TransactionInterface.h` 25-33) | `Open`, `Close`, `Leave`, `ServerUnsubscribes`, `Left` |
| `RequestHandler::on_message` (27-50): popped, too late, callback, answer | `Pop`, `Discard`, `Process`, `Respond` |
| the consumer's process ends, and is started again | `Crash`, `Restart` |

`lambda[i]` is where the worker of interface `i` is; in "called" and "returning" it holds
`m_on_response_callbacks_lock` (`RegistryFree`), and whenever it is not "idle" the lock
of the manager of the interface's own response subscriber. `Close` destroys registry and
lock; a worker that comes to them afterwards does something undefined: as if they were
empty and free, or the end of the process (`TouchDestroyed`). `Leave` takes the manager's
lock, so a response that the worker cannot be given until then keeps `Left`, and with it
the destructor, from ever coming. Both can happen only while a response is still under
way. `ClosesInPeace` says that none is when every request was answered; after a timeout
nothing in the code excludes it.

What the model assumes: the application destroys promises before their senders' interface
(`SendersGone`); a restarted consumer listens again on the same queue. The deadline is taken
from the sender's clock, and compared by the consumer with its own (`RequestHandler.cpp:34`).
A consumer in the constant `Ahead` may find any request too late; a clock may be behind, if
only by the fraction of a millisecond that neither counts, so `Process` has no guard about
the deadline.

`Transactions` is what the README of the library promises: a request is processed at most
once, its sender gets its own answer or none, and what was given up stays given up. The
mapping (`T` at the end of `TransactionSystem`) makes a request "pending" when it is
pushed; a push that throws is a request that failed for its sender and may be processed
all the same.

## 3. Runs

| Run | Instance | Shows |
|---|---|---|
| `event_connector` | 2 threads, 2 channels, 2 calls, 2 events, 1 handshake wake-up, 1 failing wake-up | one command in flight; no wake-up lost; nobody refused, nothing terminated unless a wake-up failed; a call returns when its own command is applied; silence after `unsubscribe`; constructor, calls and destructor end; events that were sent are handled |
| `event_connector_assertion` | 2 threads, 2 channels, 3 calls, 1 event, 1 failing wake-up | **violation**: finding 1 |
| `event_system_interfaces` | 2 threads, 2 interfaces with a subscriber each, 1 channel, 4 calls, 1 event, 1 failing wake-up | the broker's count is the number of interfaces that list a handler, also after exceptions, and keeps the channel subscribed; callbacks outlive no interface; no event reaches a destroyed broker; who waits for whom, and that the only circle is the one below |
| `event_system_subscribers` | 2 threads, 2 subscribers of one interface, 1 channel, 3 calls, 2 events, 1 failing wake-up | no destroyed subscriber is listed; the layers implement `EventBus`: each event once, in order, to everybody it was promised to, before the next |
| `event_system_live` | 2 threads, 1 subscriber, 2 channels, 3 calls, 1 event | the circle again, through two channels of one interface; calls return and events are delivered unless the circular wait occurs |
| `event_system_delivery` | as before, 2 calls | **violation**: finding 2 |
| `queue_connector` | 2 threads, 2 queues, 3 calls, 2 requests, 1 handshake token, 1 failing token | the worker never blocks on old lists; nothing is popped from a queue after `stop_listening`; no queue is overlooked; one token wakes the worker for the handshake and the destructor, which ends |
| `queue_system` | 2 threads, 2 interfaces with a handler each, 1 queue, 3 listens, 1 request, 1 failing token | managers, broker and connector agree on who listens, also after refusals and failures; a listen is refused only for another's entry; the worker calls nothing that is gone but for the two cases above; a request is lost to a handler only by its own end; no call is stuck |
| `queue_system_consumer` | as before, 2 listens, no failure | **violation**: finding 4 |
| `response_promise` | 2 threads, 3 uses, 2 responses | an answer has a message; no call after destruction; no thread outlives the promise; a single use is safe; awaits, an open gate and the destructor end |
| `response_promise_then` | 1 thread, 2 uses | **violation**: finding 3 |
| `transaction_system` | 1 interface, 2 requests, 2 consumers, the clock of one ahead, 1 crash, 1 failing push | the worker calls no promise that is gone; an interface whose requests were answered closes in peace; the system implements `Transactions`; awaits and such an interface's destructor end |

Why the bounds are enough. Two callers are the fewest that can contend for
`m_subscription_lock`, and the flag's history is forgotten by every `Reset`: a second call
meets what the first left behind, and a third, in `event_connector_assertion`, what a failed one and a successful
one did. The safety properties of `event_connector` are proved for any number of calls, so its
run spends the states on liveness. Two channels tell a
confirmation of one's own from another's, and allow the other form of the circular wait (an
event of a channel already subscribed, a subscription of another). One event suffices
for everything but order, which gets two. Two interfaces and two subscribers are the
fewest for which "first" and "last" differ in the reference count and in the handler
list. `event_system_interfaces` spends its states on four calls and a failure with one channel,
which the circular wait needs only one of when the call is an `unsubscribe`;
`event_system_live` has the second channel. Threads, channels, subscribers of one interface and interfaces with their
subscribers are interchangeable; the safety runs of `EventSystem` and `QueueSystem` use that symmetry, the runs with
liveness properties do not. `EventSystem` needs no handshake wake-up: the confirmation
of the technical channel alone ends the handshake, and `EventConnector`'s own
run covers the rest of it.

For the queues one handshake token is enough, because a token waits in its list while a
published wake-up does not. Two queues give `BRPOP` an order to follow. In `QueueSystem`
the third `listen` is the first that can come after a refusal and a partial stop; calls
of `stop_listening` are not counted, so no handler is kept alive by a bound. The refusal and
the counts do not distinguish queues, which are independent above the connector, so one
is enough there. A bounded number of requests hides that a busy queue starves those
listed after it (`PROJECT.json`, hazards).

Two requests of one interface are the fewest that share a registry, a response channel
and a queue, and that a response could be given to the wrong one of. Two consumers can
both pop, and one of them goes on when the other has crashed; a consumer that comes back
works as before, so a second crash adds nothing. Interfaces share only the queue and
the consumers; the safety properties are proved for any number of them, so one is enough
for the run.

Deadlock is checked in the runs of `EventConnector`, `QueueConnector`, `QueueSystem` and
`ResponsePromise`, where `Finished` stutters after the end of the story. `NobodyIsStuck` of `QueueSystem`
says more than the absence of a deadlock, which a new request alone would avoid: each
thread that is in a call can go on (`CanGo`), or waits for one that is deeper inside the
locks (`WaitsFor`, `Depth`), or for a worker that can go on or waits for such a thread. The runs of
`EventSystem` say `CHECK_DEADLOCK FALSE` because the program really may stop: two threads
and the worker can wait for each other. `OnlyCircularWaitBlocks` says the same of the
event layers with two additions: a caller that spins has a worker that can go on or a
server that owes it an answer, or is in the circular wait. The requests have no such
wait, because no caller waits for the queue worker. `CanGo` and `WorkerCanGo` state the
guards of the steps that a thread and the worker have there. `transaction_system` says
`CHECK_DEADLOCK FALSE` too: a program that has lost its consumers, given up its requests
or met a late response in a destructor has nothing more to do or cannot do it, and
`CallsEnd` says what must come to an end.

**The circular wait.** A thread in `add_message_handler` or `remove_message_handler` holds
its manager's lock down to the spin of the connector. If the worker reads an event of a
channel of that manager before the confirmation, `on_message` waits for the manager's
lock and the thread for the worker. `CircularWait` also covers the thread that holds the
manager's lock behind the broker's lock while the holder of the latter spins.

**Fairness.** The scheduler lets each thread that can take a step take one, the server
executes what it was sent, and deadlines pass: weak fairness of each thread's own steps
(`WorkerStep`, `CallerStep(u)`, `OwnerStep`, ...), of `ServerExecutes` and, in `ResponsePromise`, of `Expire`.
In `TransactionSystem` no deadline need pass and no crashed consumer need come back, which makes `CallsEnd` say
that an answer arrives by itself.
Nothing is assumed of requests, publications, responses, failures or destruction. A
mutex need not be strongly fair in these instances, because a thread that waits for one
is only overtaken as often as the bounds allow further calls.

### Findings

1. **The assertion that subscriptions are mutexed can fire though they are.** When the
   wake-up's `PUBLISH` throws (line 143 or 157), the command stays buffered and is
   executed later; its confirmation sets the flag for nobody. The next caller is refused
   at line 140 or 154, or a later call returns on the wrong confirmation, or `on_meta`
   throws on the worker and ends the process.
2. **Delivery to all subscribers** (README.md:11) fails through the circular wait.
3. **A second `then` is not refused** (IResponsePromise.h:42): `m_then_applied` is never set, so the
   thread of the first is overwritten while joinable, which ends the process.
4. **A refused listener listens** (MessageBroker.cpp:90, README.md:123). The exception "Only one message handler
   should listen a given command channel!" leaves the handler listed in its manager and
   counted at the broker, and the worker offers a request to every manager: both
   handlers answer it. When the accepted one stops, the queue is still listened on, and
   `listen` is refused until the refused handler stops as well.

## 4. Proofs

Every theorem holds for all values of the constants under the assumptions of the module it is
about: the technical channel is no application channel and `NoCaller` no thread
(`NamesAssumption`); a subscriber, a handler, a request belongs to one interface
(`ManagerOfAssumption`, `HandlersAssumption`, `SendersAssumption`); the bounds are naturals
(`BoundsAssumption`, `FaultsAssumption`). The bounds are parameters, so nothing depends on
their values. No theorem uses fairness. Each inductive invariant was an invariant of a TLC run
before it was proved.

`TypeCorrect`, in the proofs of every model but the two abstract ones, is its type invariant. The runs of
`EventSystem` and `QueueSystem` check it too, with those of the connectors in it; the other runs leave it to the
proofs. The other theorems:

| Module | Theorems |
|---|---|
| `EventConnectorProofs` | `CommandsMutexed`, `NeverRefused`, `CallsTakeEffect`, `UnsubscribesAreQuiet`, `NoWakeupIsLost` |
| `EventSystemProofs` | `HandledIsServed`, `CountsAgree`, `HandlersAlwaysExist`, `CallbacksAlwaysExist`, `StoppedBrokerNotCalled`; `OnlyTheCircleBlocks`, `SomebodyCanGo`; `ImplementsTheEventBus` and, through it, `EventsComeOnceInOrder`, `OwedEventsArePending` |
| `EventBusProofs` | `DeliveredOnceInOrder`, `NothingOwedIsLost` |
| `QueueConnectorProofs` | `NeverSleepsOnOldLists`, `NothingPoppedAfterStop`, `TokenIsEnough` |
| `QueueSystemProofs` | `BooksInAgreement`, `RefusalsHaveReasons`, `CalledExist`, `OnlyStoppingLoses`; `NoCircleOfWaiting`, `SomebodyCanGo` |
| `ResponsePromiseProofs` | one for each safety property of its run |
| `TransactionProofs` | `OnlyPromisesAreCalled`, `AnsweredClosesInPeace`, `ImplementsTheTransactions` |

### The publish/subscribe connector

`OneCommandInFlight` alone is not inductive, because it does not say who may append a
command. `IInv` adds three things. `LockDiscipline`: the holder of
`m_subscription_lock` is the one caller between its check and its reset, and nobody is in
a call while the connector is made or destroyed. `HandshakeBegins`: until the technical
subscription is confirmed the worker has read nothing and the confirmation is the first
thing it will read, which is why the handshake cannot end with the confirmation still to
come. `WaitersOwnIt`: the command in flight is the one of the caller that waits, or the
server has applied it. Types and lock discipline hold always, the rest only while no
wake-up has failed (`failures = 0`), and `event_connector_assertion` shows that it is
lost then. `Stage` names the five stages a command goes through; each action is shown to
move it to the next or to leave it. For `UnsubscribesAreQuiet`, `QuietInv` adds that a message
of a channel the server no longer has is followed by the confirmation that ended the
subscription, and that the confirmation of an application channel still unread belongs to a
caller that waits. `QuietIInv` is all of it.

`NoWakeupIsLost` needs only the types and `LockDiscipline` of this, and holds after failed wake-ups too. Its invariant,
`WakeInv`, follows the wake-up from the other side. `TechnicalStays` and `TechnicalKnown`:
the server knows the technical channel once the worker has read anything, and nobody ever
unsubscribes it, so that from then on a wake-up is a reply. `LoopRuns`: only the destructor
ends the loop. `ConfirmationComes`: what a caller spins for is in the buffer, at the
server or unread; and if it is in the buffer while the caller spins and the worker is
blocked, there is a reply to wake the worker, because the command was appended before the wake-up was published.
`OwnerIsHeard`: the same for the handshake and the destructor.

### The event layers

`EventSystem` is built over the connector's actions, and its proofs over the connector's:
`P == INSTANCE EventConnectorProofs` makes `P!QuietIInv` a part of `IInv`, and a step of
`EventSystem` preserves it because it makes a step of the connector or none
(`SameStep`). What is added says how the layers' states fit, thread by thread
and lock by lock:

* `TasksFit`, `LockDiscipline`, `ChangeMade`: what a thread was asked fits the depth it has
  reached; inside, it holds its manager's lock, and in the connector the broker's; and its
  change of the handler list, made on the way down, still stands when it comes back, which
  nobody else could have undone without the lock.
* `CountIsOfManagers`: the broker's count of a channel is the number of managers that handle
  it, each counted the other way round as long as one of its threads has still to reach the
  broker (`ToBeCounted`). The property `CountIsNumberOfManagers` speaks of quiet moments only and is
  not inductive. `CallsCounted` says which call reaches the connector: one whose
  count went to one, or to zero.
* `ServerIsOfCounts`: the server has a channel exactly if its count is not zero, with what is
  ordered and not executed yet again taken the other way round. With the above this is
  `ServedWhileHandled`, across four layers. It is lost when a wake-up throws.
* `RegisteredExist`, `UsersExist`, `ListedExist`, `InterfacesLast`, `BrokerLast`: who exists
  and for how long. `UsersExist` includes that a destructor runs alone, which the application
  ensures; the rest follows from the order in which the code takes things out of its lists
  before it destroys them.

`DestroyedBrokerNotCalled` needs nearly all of them: a broker that is being destroyed has no interface
left, so no manager handles anything, so every count is zero, so the server has no channel;
and by `QuietInv` an event still unread would be followed by a confirmation for which some
caller waits, but there is none.

For the refinement `BusInv` adds what order needs: nobody is listed, registered or called
twice in a round (`ListedOnce`, `RegisteredOnce`, `OpenedOnce`); unread events are in order, the one in
the callback comes before them and after what was received, unless the worker has already been to
that manager with it (`RepliesInOrder`, `CurrentComesFirst`, `ReceivedBefore`); and what is
owed is still unread, or in the callback with its manager still to be called (`OwedOnItsWay`).
`BusStep` then maps each step:

| `EventSystem` | `EventBus` |
|---|---|
| `Enter` | `StartSubscribing`, or `StartEnding` of its channel |
| `EnterDestructor` | `StartEnding` of all its channels |
| a step inside a call that lists, takes out or returns | `Settle` |
| `Publish` | `Publish`; nothing becomes pending if the server does not have the channel |
| `OnMessage` | `Deliver` to the subscribers its manager lists |
| `EndDispatch` | `PutAside` |
| `NotifyFails`, `OwnerNotifyFails` | `Fail` |
| `Join` | `Shutdown` |
| everything else | a stutter |

`EventBusProofs` proves `OnceInOrder` and `OwedIsPending` of the bus for any subscribers and
channels. Order alone is not inductive; the invariant adds that nothing received or pending is
younger than the last event published, that nothing received is younger than anything pending,
and that the number of an event tells which it is. `EventSystemProofs` takes both over through
the instance `BP`, so that they hold of the code's four layers.

### The queues

`QueueConnectorProofs`: the worker must never sleep on lists that are old. Its `IInv` says
that the flag tells of a change (`FlagTellsChanges`), that the technical list is the first of
the command (`TechnicalFirst`), and why this is enough: a worker that finds no token in its
`BRPOP` has the current lists, but for one call that has yet to push its token
(`ListsWithoutToken`). `NothingPoppedAfterStop`, an action property, follows, since a request is popped only if
there was no token before it. For `TokenIsEnough` the invariant follows the one token of the
handshake and of the destructor: it stays in its list until a `BRPOP` takes it, unlike a
wake-up that is published to nobody.

`QueueSystemProofs` has the same shape as the event layers, with differences of substance.
`TasksFit`, `LockDiscipline`, `ChangeMade` and `CountIsOfManagers` correspond, but a refused
listener stays listed and counted, and the three agree even so. `ListIsOfCounts` ties the
count to the connector's list, in which a queue occurs once at most (`BooksAgree` counts its
places): the list has a queue if its count is not zero, the other way round while a call is
at the lock. `ListedJustified` says why a handler is
listed (its `listen` returned, was refused or is in progress), which is the whole of the case that
`CalledObjectsExist` admits. `RegisteredExist`, `UsersExist`, `ChangesAlone` and
`InterfacesLast` are about lifetimes as above. `RefusalsHaveReasons`, an action property, puts
`CountIsOfManagers` and `ListedJustified` together at the step that refuses: the count is more
than this thread's own entry, so another manager has one, or a thread that took its entry
away has still to lower the count. `EmptyHands` and `OwedOnItsWay` follow a request from its queue
through the worker to the interface that lists the handler. Only the types of the
connector's proof are used here, because the count is tied to the list that the calls
change at once and not to the worker's copy of it.

`ListsProofs`: what `RemoveAll` (`std::list::remove`, and `erase(std::remove_if(...))`) and `Append` do to
membership and to uniqueness. The three models use `RemoveAll`, a recursive function, where
`SelectSeq` would be shorter, since nothing can be proved about the latter here. The
induction over the places of a list takes the least element of the set of places where the claim fails
(`Smallest`, `Induction`), which needs no operator as a parameter.

### Who waits for whom

`OnlyTheCircleBlocks` and `NoCircleOfWaiting` are proved from the same additions to the `IInv`
of their modules (`WaitIInv`):

* `HoldersInside`: who holds a lock is on the way on which it is taken, hence deeper inside than
  who waits for it. Managers come before the broker and the broker before the connector, on
  every path through the code; this is what excludes any other circle of locks.
* `BrokerLast` and `ConnectorServes`: nobody is in a call while the connector is made or
  destroyed, so the way into it is open.
* `SomethingToDo`, for events: a thread at the broker has a channel to take there.
* `CallsBounded` and `CallsCounted`: a `subscribe` or `listen` calls the connector at most once, and
  so does what ends it. So twice the bound on those calls, which the models give the connector,
  never holds a thread up. The sets counted are finite though `Threads` need not be.

For the events there is one wait outside the locks, the spin. `WakeIInv` of the connector,
taken through `P`, gives the spinning thread a worker that can go on, a command at the
server, or a worker held up in its callback by a manager's lock, which is `CircularWait`.
`SomebodyCanGo` follows the waiting threads inwards: each depth is greater than the last
and the greatest is 3.

### The requests

`TransactionProofs` assumes that every request has one sending interface. `TypeCorrect` is inductive by itself. `CalledPromisesExist` needs
`Registered`, which adds from where to where a promise is in the registry, and that its
entry stays while the lambda uses it, which is what the lock is for. For `ClosesInPeace` and the refinement `IInv` adds four more parts: `InOnePlace` (a
request is in the queue once, or with one consumer that has not processed it, or nowhere:
why it is processed once), `OwnAnswer` (a response is to a request that was processed,
and a promise is opened by its own), `OneResponse` (there is one response per request, and it
has left the lambda's lock before its promise is gone: why nothing is under way once all are
answered) and `NoSenders` (nobody sends through an interface that is being destroyed).
`ImplementsTheTransactions` shows the mapped initial states to be initial, and each action
a step of `Transactions` or a stutter.

`ResponsePromiseProofs` proves the five safety properties of the run `response_promise`,
for any number of threads, uses and responses. `DestroyedIsNotCalled` rests on
`Registered`: the worker is in the lambda only while the promise has its entry, since the
destructor takes the entry away under the lambda's lock. `AnswersHaveMessages` rests on
`Written`: an open gate, a reader past it and a worker about to open it each imply that
the response is there; it holds also with two responses and readers that lock the gate
again. `CallbackComesFirst` rests on `ThenInv` (once started, the thread past its await
has an outcome or has ended the process) and `OneUseIsSafe` on `SingleInv` (one use has at most one
thread in the promise, and it looked at the flags before it set them).

### Only model-checked

Every liveness property (`CallReturns`, `OwnerReturns`, `SentEventsHandled`, `ReturnsUnlessCircularWait`,
`DeliveredUnlessCircularWait`, `ListenedIsPopped`, `DestructorReturns`, both `CallsEnd`,
`OpenGateAnswers`), because the provers cannot handle fairness here. Every other property of a passing run is a theorem.

## 5. Not modelled

Base64 and JSON framing is lossless on the paths modelled and is left out. Configuration, factory and wrapper
have no behaviour that depends on state or order. Examples and tests are programs on top of the library; they
were read for how it is used. A sender whose promises outlive it, and two
responses to one request across processes (it takes finding 4) are left out of
`TransactionSystem`; `ResponsePromise` has the two responses. The race on hiredis' output buffer
between `consume` and `subscribe` is inside hiredis: the model takes each access as atomic.
The loss of a connection in `consume` or `brpop` ends the process, and callbacks that call back into the
library lock a mutex twice; neither has behaviour to explore after its first step.

The broker's lists and locks die before the connector stops its workers (MessageBroker.h:36-44).
For events `DestroyedBrokerNotCalled` shows that nothing arrives late. For requests
something can: `stop_listening` does not wait for a request already popped. `QueueSystem`
reaches that state; no text of the repository promises the contrary, so it is listed
as a hazard and not as a finding.

## 6. Plan

All components that have a concurrent core are modelled, and the safety properties, the
freedom from deadlock and the refinements of the passing runs are proved. What could still
be added:

1. Liveness from `SomebodyCanGo` and a measure that every step decreases, on paper or with
   a prover that handles fairness: that somebody can always go is the part of it that is proved.
2. Shorter proofs where several lemmas of `EventSystemProofs` and `QueueSystemProofs` argue alike.
