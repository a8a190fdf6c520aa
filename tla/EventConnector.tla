---------------------------- MODULE EventConnector ----------------------------
(***************************************************************************)
(* The publish/subscribe half of RedisBrokerConnector: its constructor's   *)
(* handshake, subscribe and unsubscribe called from any thread, publish,   *)
(* the subscriber worker thread, and the destructor.                       *)
(*                                                                         *)
(* Two connections to the Redis server are involved.  Commands on m_redis  *)
(* (PUBLISH) are synchronous: one atomic step at the server, serialised by *)
(* m_redis_action_lock, which never encloses another lock.  Commands on    *)
(* m_redis_subscriber are asynchronous: redis++ only appends them to the   *)
(* output buffer of the connection, and only the worker's next consume()   *)
(* writes that buffer to the socket.  A worker that is already blocked in  *)
(* the read does not see a new command, so subscribe publishes on the      *)
(* technical channel to wake it up and then spins on a flag that the       *)
(* worker sets when it receives the server's confirmation.                 *)
(*                                                                         *)
(* The connection and the server (output, wire, replies, server_channels)  *)
(* are external code, modelled from how the connector uses them: FIFO in   *)
(* both directions, one confirmation per command.                          *)
(*                                                                         *)
(* A definition whose name starts with Faulty_ is no part of the model: it *)
(* is the definition after it with a plausible bug, to be put in its place *)
(* when one wants to see a property notice.                                *)
(***************************************************************************)
EXTENDS Naturals, Sequences

CONSTANTS
    Callers,      \* application threads that call subscribe and unsubscribe
    Channels,     \* event channels of the application
    Technical,    \* m_technical_channel
    NoCaller,     \* nobody holds m_subscription_lock
    MaxCalls,     \* bound: calls of subscribe and unsubscribe, all threads
    MaxEvents,    \* bound: events published
    MaxWakeups,   \* bound: rounds of the constructor's handshake loop
    MaxFailures   \* bound: exceptions thrown by the PUBLISH of a wake-up

ASSUME NamesAssumption == Technical \notin Channels /\ NoCaller \notin Callers
ASSUME BoundsAssumption ==
    /\ MaxCalls \in Nat /\ MaxEvents \in Nat
    /\ MaxWakeups \in Nat /\ MaxFailures \in Nat

VARIABLES
    output,           \* commands buffered in the subscriber connection
    wire,             \* commands written to the socket, not yet executed
    replies,          \* confirmations and messages sent by the server, unread
    server_channels,  \* channels the server has for the subscriber connection
    m_subscription_status_changed,
    m_subscriber_thread_alive,
    m_is_running,
    m_subscription_lock,
    worker,           \* where the subscriber worker thread is
    current,          \* the message the worker's callback was given
    pc,               \* where each caller is
    op,               \* the call each caller is making
    owner,            \* where the thread that owns the connector is
    calls, published, wakeups, failures     \* counters for the bounds

connection == <<output, wire, replies, server_channels>>
flags == <<m_subscription_status_changed, m_subscriber_thread_alive, m_is_running>>
counters == <<calls, published, wakeups, failures>>
vars == <<connection, flags, m_subscription_lock, worker, current, pc, op, owner,
          counters>>

Kinds == {"subscribe", "unsubscribe"}
Commands == [kind : Kinds, channel : Channels \cup {Technical}]
Meta(c) == [type |-> "meta", channel |-> c, id |-> 0]
Message(c, n) == [type |-> "message", channel |-> c, id |-> n]
Replies == [type : {"meta", "message"}, channel : Channels \cup {Technical},
            id : 0 .. MaxEvents]
Events == {r \in Replies : r.type = "message" /\ r.channel \in Channels}
NoMessage == Message(Technical, 0)
NoCall == [kind |-> "subscribe", channel |-> Technical]

\* A thread outside a call: it never called, its call returned, or an exception
\* of line 140/154 ("refused") or of the wake-up's PUBLISH ("failed") reached it.
Outside == {"idle", "refused", "failed"}
Holding == {"check", "append", "notify", "spin", "reset"}

TypeOK ==
    /\ output \in Seq(Commands)
    /\ wire \in Seq(Commands)
    /\ replies \in Seq(Replies)
    /\ server_channels \subseteq Channels \cup {Technical}
    /\ m_subscription_status_changed \in BOOLEAN
    /\ m_subscriber_thread_alive \in BOOLEAN
    /\ m_is_running \in BOOLEAN
    /\ m_subscription_lock \in Callers \cup {NoCaller}
    /\ worker \in {"top", "consume", "read", "callback", "consumed", "exited",
                   "terminated"}
    /\ current \in Events \cup {NoMessage}
    /\ worker = "callback" => current \in Events
    /\ pc \in [Callers -> Outside \cup Holding \cup {"lock"}]
    /\ op \in [Callers -> Commands]
    /\ owner \in {"handshake", "ready", "stopping", "joining", "destroyed",
                  "terminated"}
    /\ calls \in 0 .. MaxCalls
    /\ published \in 0 .. MaxEvents
    /\ wakeups \in 0 .. MaxWakeups
    /\ failures \in 0 .. MaxFailures

\* The constructor has appended the subscription of the technical channel and
\* started the worker; it is about to enter its handshake loop.
Init ==
    /\ output = <<[kind |-> "subscribe", channel |-> Technical]>>
    /\ wire = <<>>
    /\ replies = <<>>
    /\ server_channels = {}
    /\ m_subscription_status_changed = FALSE
    /\ m_subscriber_thread_alive = FALSE
    /\ m_is_running = TRUE
    /\ m_subscription_lock = NoCaller
    /\ worker = "top"
    /\ current = NoMessage
    /\ pc = [u \in Callers |-> "idle"]
    /\ op = [u \in Callers |-> NoCall]
    /\ owner = "handshake"
    /\ calls = 0 /\ published = 0 /\ wakeups = 0 /\ failures = 0

-----------------------------------------------------------------------------
(* The Redis server (external).                                            *)

\* PUBLISH: the message is queued for the subscriber connection if, at that
\* moment, the server has the channel in the connection's subscriptions.
Deliver(c, n) ==
    replies' = IF c \in server_channels THEN Append(replies, Message(c, n))
                                        ELSE replies

\* notify_event_subscription_change()
Faulty_NotifyNobody == UNCHANGED replies
NotifyEventSubscriptionChange == Deliver(Technical, 0)

\* The server executes the next (UN)SUBSCRIBE it was sent and confirms it.
ServerExecutes ==
    /\ wire # <<>>
    /\ LET command == Head(wire)
       IN  /\ server_channels' = IF command.kind = "subscribe"
                                 THEN server_channels \cup {command.channel}
                                 ELSE server_channels \ {command.channel}
           /\ replies' = Append(replies, Meta(command.channel))
    /\ wire' = Tail(wire)
    /\ UNCHANGED <<output, flags, m_subscription_lock, worker, current, pc, op,
                   owner, counters>>

-----------------------------------------------------------------------------
(* The subscriber worker thread.                                           *)

WorkerUnchanged == UNCHANGED <<m_is_running, m_subscription_lock, server_channels,
                               pc, op, owner, counters>>

\* while (m_is_running)
WorkerLoop ==
    /\ worker = "top"
    /\ worker' = IF m_is_running THEN "consume" ELSE "exited"
    /\ UNCHANGED <<output, wire, replies, m_subscription_status_changed,
                   m_subscriber_thread_alive, current>>
    /\ WorkerUnchanged

\* consume() writes the buffered commands out before it reads.
WriteCommand ==
    /\ worker = "consume"
    /\ output # <<>>
    /\ wire' = Append(wire, Head(output))
    /\ output' = Tail(output)
    /\ UNCHANGED <<worker, replies, m_subscription_status_changed,
                   m_subscriber_thread_alive, current>>
    /\ WorkerUnchanged

\* With an empty buffer it blocks in the read; what is appended from now on
\* stays in the buffer until the read returns.
BlockInRead ==
    /\ worker = "consume"
    /\ output = <<>>
    /\ worker' = "read"
    /\ UNCHANGED <<output, wire, replies, m_subscription_status_changed,
                   m_subscriber_thread_alive, current>>
    /\ WorkerUnchanged

\* A reply arrives.  A worker that has not written yet takes it too: a reply the
\* reader has already buffered is returned without writing the commands out.
Receives(r) ==
    /\ worker \in {"consume", "read"}
    /\ replies # <<>>
    /\ r = Head(replies)
    /\ replies' = Tail(replies)
    /\ UNCHANGED <<output, wire, m_subscriber_thread_alive>>
    /\ WorkerUnchanged

\* on_message: a wake-up is ignored.
Faulty_IsTechnical(r) == r.channel # Technical
IsTechnical(r) == r.channel = Technical

ReceiveTechnical ==
    LET r == Head(replies)
    IN  /\ Receives(r)
        /\ r.type = "message" /\ IsTechnical(r)
        /\ worker' = "consumed"
        /\ UNCHANGED <<m_subscription_status_changed, current>>

\* on_message: an event is passed to m_on_subscribe_callback.
ReceiveEvent ==
    LET r == Head(replies)
    IN  /\ Receives(r)
        /\ r.type = "message" /\ ~IsTechnical(r)
        /\ worker' = "callback"
        /\ current' = r
        /\ UNCHANGED m_subscription_status_changed

CallbackReturns ==
    /\ worker = "callback"
    /\ worker' = "consumed"
    /\ current' = NoMessage
    /\ UNCHANGED <<output, wire, replies, m_subscription_status_changed,
                   m_subscriber_thread_alive>>
    /\ WorkerUnchanged

\* on_meta: a confirmation sets the flag ...
ReceiveMeta ==
    LET r == Head(replies)
    IN  /\ Receives(r)
        /\ r.type = "meta"
        /\ ~m_subscription_status_changed
        /\ m_subscription_status_changed' = TRUE
        /\ worker' = "consumed"
        /\ UNCHANGED current

\* ... and throws if it is set already.  Nothing in the thread catches the
\* exception: the process ends in std::terminate.
ReceiveMetaThrows ==
    LET r == Head(replies)
    IN  /\ Receives(r)
        /\ r.type = "meta"
        /\ m_subscription_status_changed
        /\ worker' = "terminated"
        /\ UNCHANGED <<m_subscription_status_changed, current>>

\* consume() has returned: m_subscriber_thread_alive = true.
Faulty_ConsumeReturns ==
    /\ worker = "consumed"
    /\ worker' = "top"
    /\ UNCHANGED <<output, wire, replies, m_subscription_status_changed,
                   m_subscriber_thread_alive, current>>
    /\ WorkerUnchanged

ConsumeReturns ==
    /\ worker = "consumed"
    /\ worker' = "top"
    /\ m_subscriber_thread_alive' = TRUE
    /\ UNCHANGED <<output, wire, replies, m_subscription_status_changed, current>>
    /\ WorkerUnchanged

-----------------------------------------------------------------------------
(* The application threads.                                                *)

CallerUnchanged == UNCHANGED <<m_subscriber_thread_alive, m_is_running, worker,
                               current, owner, published, wakeups>>

\* subscribe(c) or unsubscribe(c) is entered; only a constructed connector that
\* is not being destroyed may be called.
Call(u, kind, c) ==
    /\ owner = "ready"
    /\ pc[u] \in Outside
    /\ calls < MaxCalls
    /\ calls' = calls + 1
    /\ op' = [op EXCEPT ![u] = [kind |-> kind, channel |-> c]]
    /\ pc' = [pc EXCEPT ![u] = "lock"]
    /\ UNCHANGED <<connection, m_subscription_status_changed,
                   m_subscription_lock, failures>>
    /\ CallerUnchanged

Faulty_LockIsFree == TRUE
LockIsFree == m_subscription_lock = NoCaller

Lock(u) ==
    /\ pc[u] = "lock"
    /\ LockIsFree
    /\ m_subscription_lock' = u
    /\ pc' = [pc EXCEPT ![u] = "check"]
    /\ UNCHANGED <<connection, m_subscription_status_changed, op, calls, failures>>
    /\ CallerUnchanged

\* if (m_subscription_status_changed) throw
CheckPasses(u) ==
    /\ pc[u] = "check"
    /\ ~m_subscription_status_changed
    /\ pc' = [pc EXCEPT ![u] = "append"]
    /\ UNCHANGED <<connection, m_subscription_status_changed,
                   m_subscription_lock, op, calls, failures>>
    /\ CallerUnchanged

CheckThrows(u) ==
    /\ pc[u] = "check"
    /\ m_subscription_status_changed
    /\ m_subscription_lock' = NoCaller
    /\ pc' = [pc EXCEPT ![u] = "refused"]
    /\ op' = [op EXCEPT ![u] = NoCall]
    /\ UNCHANGED <<connection, m_subscription_status_changed, calls, failures>>
    /\ CallerUnchanged

\* m_redis_subscriber->subscribe(p_channel) or ->unsubscribe(p_channel)
AppendCommand(u) ==
    /\ pc[u] = "append"
    /\ output' = Append(output, op[u])
    /\ pc' = [pc EXCEPT ![u] = "notify"]
    /\ UNCHANGED <<wire, replies, server_channels, m_subscription_status_changed,
                   m_subscription_lock, op, calls, failures>>
    /\ CallerUnchanged

\* It wakes the worker up.
Notify(u) ==
    /\ pc[u] = "notify"
    /\ NotifyEventSubscriptionChange
    /\ pc' = [pc EXCEPT ![u] = "spin"]
    /\ UNCHANGED <<output, wire, server_channels, m_subscription_status_changed,
                   m_subscription_lock, op, calls, failures>>
    /\ CallerUnchanged

\* The PUBLISH of the wake-up throws (its connection is lost before or after the
\* server executed it); the guard releases the lock, the command stays appended.
NotifyFails(u) ==
    /\ pc[u] = "notify"
    /\ failures < MaxFailures
    /\ failures' = failures + 1
    /\ NotifyEventSubscriptionChange \/ UNCHANGED replies
    /\ m_subscription_lock' = NoCaller
    /\ pc' = [pc EXCEPT ![u] = "failed"]
    /\ op' = [op EXCEPT ![u] = NoCall]
    /\ UNCHANGED <<output, wire, server_channels, m_subscription_status_changed,
                   calls>>
    /\ CallerUnchanged

\* while (!m_subscription_status_changed) ;
Faulty_Confirmed == TRUE
Confirmed == m_subscription_status_changed

Spin(u) ==
    /\ pc[u] = "spin"
    /\ Confirmed
    /\ pc' = [pc EXCEPT ![u] = "reset"]
    /\ UNCHANGED <<connection, m_subscription_status_changed,
                   m_subscription_lock, op, calls, failures>>
    /\ CallerUnchanged

\* m_subscription_status_changed = false, and the guard releases the lock
Reset(u) ==
    /\ pc[u] = "reset"
    /\ m_subscription_status_changed' = FALSE
    /\ m_subscription_lock' = NoCaller
    /\ pc' = [pc EXCEPT ![u] = "idle"]
    /\ op' = [op EXCEPT ![u] = NoCall]
    /\ UNCHANGED <<connection, calls, failures>>
    /\ CallerUnchanged

\* publish(c, event), from any thread
Publish(c) ==
    /\ owner = "ready"
    /\ published < MaxEvents
    /\ published' = published + 1
    /\ Deliver(c, published + 1)
    /\ UNCHANGED <<output, wire, server_channels, flags, m_subscription_lock,
                   worker, current, pc, op, owner, calls, wakeups, failures>>

-----------------------------------------------------------------------------
(* The thread that constructs and destroys the connector.                  *)

OwnerUnchanged == UNCHANGED <<m_subscriber_thread_alive, m_subscription_lock,
                              worker, current, pc, op, calls, published, failures>>

\* while (!m_subscriber_thread_alive) notify_event_subscription_change();
HandshakeNotify ==
    /\ owner = "handshake"
    /\ ~m_subscriber_thread_alive
    /\ wakeups < MaxWakeups
    /\ wakeups' = wakeups + 1
    /\ NotifyEventSubscriptionChange
    /\ UNCHANGED <<output, wire, server_channels, m_subscription_status_changed,
                   m_is_running, owner>>
    /\ OwnerUnchanged

\* The loop ends; the constructor clears the flag that the confirmation of the
\* technical subscription left set.
Faulty_Constructed ==
    /\ owner = "handshake"
    /\ m_subscriber_thread_alive
    /\ owner' = "ready"
    /\ UNCHANGED <<connection, m_subscription_status_changed, m_is_running, wakeups>>
    /\ OwnerUnchanged

Constructed ==
    /\ owner = "handshake"
    /\ m_subscriber_thread_alive
    /\ owner' = "ready"
    /\ m_subscription_status_changed' = FALSE
    /\ UNCHANGED <<connection, m_is_running, wakeups>>
    /\ OwnerUnchanged

\* ~RedisBrokerConnector(): no call may be in progress.
Stop ==
    /\ owner = "ready"
    /\ \A u \in Callers : pc[u] \in Outside
    /\ owner' = "stopping"
    /\ m_is_running' = FALSE
    /\ UNCHANGED <<connection, m_subscription_status_changed, wakeups>>
    /\ OwnerUnchanged

Wake ==
    /\ owner = "stopping"
    /\ NotifyEventSubscriptionChange
    /\ owner' = "joining"
    /\ UNCHANGED <<output, wire, server_channels, m_subscription_status_changed,
                   m_is_running, wakeups>>
    /\ OwnerUnchanged

\* Their PUBLISH throws.  The constructor's exception destroys two threads that are
\* still joinable, the destructor may not throw at all: the process ends.
OwnerNotifyFails ==
    /\ \/ owner = "handshake" /\ ~m_subscriber_thread_alive
       \/ owner = "stopping"
    /\ failures < MaxFailures
    /\ failures' = failures + 1
    /\ owner' = "terminated"
    /\ UNCHANGED <<connection, flags, m_subscription_lock, worker, current, pc, op,
                   calls, published, wakeups>>

\* m_subscriber_worker.join(); the UNSUBSCRIBE of line 117 is only buffered, and
\* the connection closes with what it still holds.
Join ==
    /\ owner = "joining"
    /\ worker = "exited"
    /\ owner' = "destroyed"
    /\ output' = <<>> /\ wire' = <<>> /\ replies' = <<>>
    /\ server_channels' = {}
    /\ UNCHANGED <<m_subscription_status_changed, m_is_running, wakeups>>
    /\ OwnerUnchanged

-----------------------------------------------------------------------------
WorkerStep ==
    \/ WorkerLoop \/ WriteCommand \/ BlockInRead \/ ReceiveTechnical
    \/ ReceiveEvent \/ CallbackReturns \/ ReceiveMeta \/ ReceiveMetaThrows
    \/ ConsumeReturns

\* What a thread does by itself once it has entered a call.
CallerStep(u) ==
    \/ Lock(u) \/ CheckPasses(u) \/ CheckThrows(u) \/ AppendCommand(u)
    \/ Notify(u) \/ Spin(u) \/ Reset(u)

OwnerStep == HandshakeNotify \/ Constructed \/ Wake \/ Join

\* std::terminate ends every thread, the end of the destructor ends the story.
Over == worker = "terminated" \/ owner \in {"destroyed", "terminated"}
Finished == Over /\ UNCHANGED vars

Next ==
    \/ /\ ~Over
       /\ \/ ServerExecutes
          \/ WorkerStep
          \/ \E u \in Callers :
                \/ CallerStep(u)
                \/ NotifyFails(u)
                \/ \E kind \in Kinds, c \in Channels : Call(u, kind, c)
          \/ \E c \in Channels : Publish(c)
          \/ OwnerStep
          \/ OwnerNotifyFails
          \/ Stop
    \/ Finished

\* The scheduler runs every thread that can take a step, the server answers,
\* and callbacks return.  Nobody is obliged to call, to publish, to fail or to
\* destroy the connector.
Fairness ==
    /\ WF_vars(~Over /\ ServerExecutes)
    /\ WF_vars(~Over /\ WorkerStep)
    /\ WF_vars(~Over /\ OwnerStep)
    /\ \A u \in Callers : WF_vars(~Over /\ CallerStep(u))

Spec == Init /\ [][Next]_vars /\ Fairness

-----------------------------------------------------------------------------
(* Correctness.                                                            *)

\* Neither assertion "subscriptions / unsunscriptions must be mutexed!" ever
\* fires: no caller is refused (lines 140 and 154) and on_meta never throws in
\* the worker (line 53), which would end the process.
SubscriptionsMutexed ==
    /\ \A u \in Callers : pc[u] # "refused"
    /\ worker # "terminated"

\* They hold as long as no wake-up fails.  If they do fire, an earlier wake-up's
\* PUBLISH had thrown out of subscribe or unsubscribe: nothing else makes the
\* flag go stale.
RefusedOnlyAfterFailure == failures = 0 => SubscriptionsMutexed

\* The worker never sleeps through what somebody waits for.  It is not blocked in
\* the read with nothing on its way to it: not while a caller spins on a flag that
\* only the worker sets, although the command may have been appended after the
\* worker wrote the buffer out; not while the handshake waits for it to be alive;
\* and not while the destructor joins it.  This holds after failed wake-ups too.
NoWakeupLost ==
    /\ \A u \in Callers :
          pc[u] = "spin" /\ ~m_subscription_status_changed =>
              /\ worker # "exited"
              /\ worker = "read" => replies # <<>> \/ wire # <<>>
    /\ owner = "handshake" /\ ~m_subscriber_thread_alive /\ worker = "read" =>
          replies # <<>> \/ wire # <<>>
    /\ owner = "joining" /\ worker \in {"consume", "read"} => replies # <<>>

\* Number of the confirmations in the replies that the worker has not read.
Metas == {i \in DOMAIN replies : replies[i].type = "meta"}

\* The stages of a command, from the buffer of the connection to the flag.
Buffered ==
    Len(output) = 1 /\ wire = <<>> /\ Metas = {} /\ ~m_subscription_status_changed
Written ==
    output = <<>> /\ Len(wire) = 1 /\ Metas = {} /\ ~m_subscription_status_changed
Answered ==
    /\ output = <<>> /\ wire = <<>> /\ ~m_subscription_status_changed
    /\ \E i \in DOMAIN replies : Metas = {i}
Signalled ==
    output = <<>> /\ wire = <<>> /\ Metas = {} /\ m_subscription_status_changed
Nothing ==
    output = <<>> /\ wire = <<>> /\ Metas = {} /\ ~m_subscription_status_changed

Awaited == \/ owner = "handshake"
           \/ \E u \in Callers : pc[u] \in {"notify", "spin", "reset"}

Stage == IF Awaited THEN Buffered \/ Written \/ Answered \/ Signalled ELSE Nothing

\* There is at most one command in flight, counted from the buffer to the flag,
\* and there is one exactly while somebody waits for it: the holder of
\* m_subscription_lock behind its append, or the constructor.  This is why one
\* flag is enough to tell whose command was confirmed.
OneCommandInFlight == failures = 0 => Stage

\* subscribe and unsubscribe are synchronous: when one returns, the server has
\* applied its own command, whoever else was waiting, and not merely some other.
CallTakesEffect ==
    [][\A u \in Callers :
          failures = 0 /\ pc[u] = "reset" /\ pc'[u] = "idle" =>
              (op[u].channel \in server_channels) <=> (op[u].kind = "subscribe")]_vars

\* Nobody is in the middle of a call about channel c.
Settled(c) == \A u \in Callers : op[u].channel = c => pc[u] \in Outside \cup {"lock"}

\* After unsubscribe has returned, no callback for that channel is running or can
\* still come: the confirmation is queued behind the last event, so the worker
\* has been through all of them.  Destroying a handler right after relies on it.
UnsubscribedIsQuiet ==
    \A c \in Channels : failures = 0 /\ Settled(c) /\ c \notin server_channels =>
        /\ current.channel # c
        /\ \A i \in DOMAIN replies : replies[i].channel # c

\* An exception has ended the process, after a wake-up that failed (see above) or
\* out of one.
Terminated == worker = "terminated" \/ owner = "terminated"

\* Every call returns, if only with an exception: the wake-up always reaches a
\* worker that is or will be blocked in the read with the command unwritten.
CallReturns == \A u \in Callers : pc[u] \notin Outside ~> pc[u] \in Outside \/ Terminated

\* The constructor's handshake ends, even when its wake-ups come before the server
\* knows the technical channel, and so does the destructor: the worker sees that
\* m_is_running was cleared or is woken after that, it never sleeps through it.
OwnerReturns ==
    owner \notin {"ready", "destroyed"} ~> owner \in {"ready", "destroyed"} \/ Terminated

\* Event number n waits to be read by the worker.
Waiting(n) == \E i \in DOMAIN replies : replies[i].id = n

\* An event the server has sent to the connector reaches the callback, unless
\* the connector is shut down first: subscriptions coming and going around it
\* never lose it.
SentEventsHandled ==
    \A n \in 1 .. MaxEvents :
        Waiting(n) ~> current.id = n \/ ~m_is_running \/ Terminated
=============================================================================
