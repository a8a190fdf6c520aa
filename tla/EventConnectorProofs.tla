------------------------- MODULE EventConnectorProofs -------------------------
(***************************************************************************)
(* Theorems about EventConnector, for any threads, channels and bounds.    *)
(***************************************************************************)
EXTENDS EventConnector, TLAPS

(***************************************************************************)
(* Type correctness.                                                       *)
(***************************************************************************)

\* A message put on a channel leaves the replies well-typed.
LEMMA DeliverType ==
    ASSUME TypeOK, NEW c \in Channels \cup {Technical}, NEW n \in 0 .. MaxEvents,
           Deliver(c, n)
    PROVE  replies' \in Seq(Replies)
<1>1. Message(c, n) \in Replies
  BY DEF Message, Replies
<1>2. CASE c \in server_channels
  BY <1>1, <1>2 DEF TypeOK, Deliver
<1>3. CASE c \notin server_channels
  BY <1>3 DEF TypeOK, Deliver
<1> QED
  BY <1>2, <1>3

\* The connector as its constructor leaves it to the handshake is well-typed.
LEMMA InitType == Init => TypeOK
<1> SUFFICES ASSUME Init
             PROVE  TypeOK
    OBVIOUS
<1>1. NoCall \in Commands
  BY DEF NoCall, Commands, Kinds
<1>2. output \in Seq(Commands)
  BY <1>1 DEF Init, NoCall
<1>3. /\ 0 \in 0 .. MaxCalls /\ 0 \in 0 .. MaxEvents
      /\ 0 \in 0 .. MaxWakeups /\ 0 \in 0 .. MaxFailures
  BY BoundsAssumption
<1>4. /\ pc \in [Callers -> Outside \cup Holding \cup {"lock"}]
      /\ op \in [Callers -> Commands]
  BY <1>1 DEF Init, Outside
<1>5. /\ wire \in Seq(Commands) /\ replies \in Seq(Replies)
      /\ server_channels \subseteq Channels \cup {Technical}
      /\ current \in Events \cup {NoMessage}
  BY DEF Init
<1>6. /\ m_subscription_lock \in Callers \cup {NoCaller}
      /\ m_subscription_status_changed \in BOOLEAN
      /\ m_subscriber_thread_alive \in BOOLEAN /\ m_is_running \in BOOLEAN
      /\ worker = "top" /\ owner = "handshake"
      /\ calls = 0 /\ published = 0 /\ wakeups = 0 /\ failures = 0
  BY DEF Init
<1> QED
  BY <1>2, <1>3, <1>4, <1>5, <1>6 DEF TypeOK

\* The worker thread keeps the types: what it reads came from the server.
LEMMA WorkerType == TypeOK /\ WorkerStep => TypeOK'
<1> SUFFICES ASSUME TypeOK, WorkerStep
             PROVE  TypeOK'
    OBVIOUS
<1>1. CASE WorkerLoop
  BY <1>1 DEF WorkerLoop, WorkerUnchanged, counters, TypeOK
<1>2. CASE WriteCommand
  BY <1>2 DEF WriteCommand, WorkerUnchanged, counters, TypeOK
<1>3. CASE BlockInRead
  BY <1>3 DEF BlockInRead, WorkerUnchanged, counters, TypeOK
<1>4. CASE ReceiveTechnical
  BY <1>4 DEF ReceiveTechnical, Receives, WorkerUnchanged, counters, TypeOK
<1>5. CASE ReceiveEvent
  <2>1. Head(replies) \in Replies
    BY <1>5 DEF ReceiveEvent, Receives, TypeOK
  <2>2. Head(replies) \in Events
    BY <1>5, <2>1 DEF ReceiveEvent, IsTechnical, Events, Replies
  <2> QED
    BY <1>5, <2>2 DEF ReceiveEvent, Receives, WorkerUnchanged, counters, TypeOK
<1>6. CASE CallbackReturns
  BY <1>6 DEF CallbackReturns, WorkerUnchanged, counters, TypeOK
<1>7. CASE ReceiveMeta
  BY <1>7 DEF ReceiveMeta, Receives, WorkerUnchanged, counters, TypeOK
<1>8. CASE ReceiveMetaThrows
  BY <1>8 DEF ReceiveMetaThrows, Receives, WorkerUnchanged, counters, TypeOK
<1>9. CASE ConsumeReturns
  BY <1>9 DEF ConsumeReturns, WorkerUnchanged, counters, TypeOK
<1> QED
  BY <1>1, <1>2, <1>3, <1>4, <1>5, <1>6, <1>7, <1>8, <1>9 DEF WorkerStep

\* Calls of subscribe, unsubscribe and publish keep the types.
LEMMA CallerType ==
    ASSUME TypeOK, NEW u \in Callers,
           \/ CallerStep(u) \/ NotifyFails(u)
           \/ \E kind \in Kinds, c \in Channels : Call(u, kind, c)
    PROVE  TypeOK'
<1> USE DEF CallerUnchanged, connection, Outside, Holding
<1>0. NoCall \in Commands
  BY DEF NoCall, Commands, Kinds
<1>1. CASE Lock(u)
  BY <1>1 DEF Lock, TypeOK
<1>2. CASE CheckPasses(u)
  BY <1>2 DEF CheckPasses, TypeOK
<1>3. CASE CheckThrows(u)
  BY <1>0, <1>3 DEF CheckThrows, TypeOK
<1>4. CASE AppendCommand(u)
  BY <1>4 DEF AppendCommand, TypeOK
<1>5. CASE Notify(u)
  <2>1. replies' \in Seq(Replies)
    BY <1>5, DeliverType, BoundsAssumption DEF Notify, NotifyEventSubscriptionChange
  <2> QED
    BY <1>5, <2>1 DEF Notify, TypeOK
<1>6. CASE Spin(u)
  BY <1>6 DEF Spin, TypeOK
<1>7. CASE Reset(u)
  BY <1>0, <1>7 DEF Reset, TypeOK
<1>8. CASE NotifyFails(u)
  <2>1. replies' \in Seq(Replies)
    <3>1. CASE UNCHANGED replies
      BY <3>1 DEF TypeOK
    <3>2. CASE NotifyEventSubscriptionChange
      BY <3>2, DeliverType, BoundsAssumption DEF NotifyEventSubscriptionChange
    <3> QED
      BY <1>8, <3>1, <3>2 DEF NotifyFails
  <2> QED
    BY <1>0, <1>8, <2>1, BoundsAssumption DEF NotifyFails, TypeOK
<1>9. ASSUME NEW kind \in Kinds, NEW c \in Channels, Call(u, kind, c)
      PROVE  TypeOK'
  <2>1. [kind |-> kind, channel |-> c] \in Commands
    BY DEF Commands
  <2> QED
    BY <1>9, <2>1, BoundsAssumption DEF Call, TypeOK
<1> QED
  BY <1>1, <1>2, <1>3, <1>4, <1>5, <1>6, <1>7, <1>8, <1>9 DEF CallerStep

\* The constructor's handshake and the destructor keep the types.
LEMMA OwnerType == TypeOK /\ (OwnerStep \/ OwnerNotifyFails \/ Stop) => TypeOK'
<1> SUFFICES ASSUME TypeOK, OwnerStep \/ OwnerNotifyFails \/ Stop
             PROVE  TypeOK'
    OBVIOUS
<1> USE DEF OwnerUnchanged, connection
<1>1. NotifyEventSubscriptionChange => replies' \in Seq(Replies)
  BY DeliverType, BoundsAssumption DEF NotifyEventSubscriptionChange
<1>2. CASE HandshakeNotify
  BY <1>1, <1>2, BoundsAssumption DEF HandshakeNotify, TypeOK
<1>3. CASE Constructed
  BY <1>3 DEF Constructed, TypeOK
<1>4. CASE Wake
  BY <1>1, <1>4 DEF Wake, TypeOK
<1>5. CASE Join
  BY <1>5 DEF Join, TypeOK
<1>6. CASE Stop
  BY <1>6 DEF Stop, TypeOK
<1>7. CASE OwnerNotifyFails
  BY <1>7, BoundsAssumption DEF OwnerNotifyFails, flags, TypeOK
<1> QED
  BY <1>2, <1>3, <1>4, <1>5, <1>6, <1>7 DEF OwnerStep

\* So does every step.
LEMMA NextType == TypeOK /\ [Next]_vars => TypeOK'
<1> SUFFICES ASSUME TypeOK, [Next]_vars
             PROVE  TypeOK'
    OBVIOUS
<1>1. CASE ServerExecutes
  <2>1. Head(wire) \in Commands /\ Tail(wire) \in Seq(Commands)
    BY <1>1 DEF ServerExecutes, TypeOK
  <2>2. Meta(Head(wire).channel) \in Replies
    BY <2>1, BoundsAssumption DEF Meta, Replies, Commands
  <2> QED
    BY <1>1, <2>1, <2>2
    DEF ServerExecutes, TypeOK, Commands, flags, counters
<1>2. CASE WorkerStep
  BY <1>2, WorkerType
<1>3. ASSUME NEW u \in Callers,
             \/ CallerStep(u) \/ NotifyFails(u)
             \/ \E kind \in Kinds, c \in Channels : Call(u, kind, c)
      PROVE  TypeOK'
  BY <1>3, CallerType
<1>4. ASSUME NEW c \in Channels, Publish(c)
      PROVE  TypeOK'
  <2>1. published' \in 0 .. MaxEvents /\ published + 1 \in 0 .. MaxEvents
    BY <1>4, BoundsAssumption DEF Publish, TypeOK
  <2>2. replies' \in Seq(Replies)
    BY <1>4, <2>1, DeliverType DEF Publish
  <2> QED
    BY <1>4, <2>1, <2>2 DEF Publish, TypeOK, flags
<1>5. CASE OwnerStep \/ OwnerNotifyFails \/ Stop
  BY <1>5, OwnerType
<1>6. CASE UNCHANGED vars
  BY <1>6 DEF vars, connection, flags, counters, TypeOK
<1> QED
  BY <1>1, <1>2, <1>3, <1>4, <1>5, <1>6 DEF Next, Finished

\* Every variable keeps its type: in particular the worker's callback is only ever
\* given an event of an application channel, never a wake-up.
THEOREM TypeCorrect == Spec => []TypeOK
  BY InitType, NextType, PTL DEF Spec

-----------------------------------------------------------------------------
(***************************************************************************)
(* One command in flight.                                                  *)
(*                                                                         *)
(* OneCommandInFlight is not inductive: it does not say who may append a   *)
(* command.  The strengthening adds the discipline of the lock, what the   *)
(* constructor's handshake relies on, and where the command of the caller  *)
(* that waits is.  Everything but the types and the lock holds only as     *)
(* long as no wake-up has failed.                                          *)
(***************************************************************************)

\* m_subscription_lock is held by the caller between its check and its reset, and
\* nobody is inside a call while the connector is made or destroyed.
LockDiscipline ==
    /\ \A u \in Callers : pc[u] \in Holding <=> m_subscription_lock = u
    /\ owner # "ready" => \A u \in Callers : pc[u] \in Outside

\* Until the technical subscription is confirmed the worker has read nothing, and
\* the confirmation is the first reply it will read.
HandshakeBegins ==
    owner = "handshake" /\ ~m_subscription_status_changed =>
        /\ worker \in {"top", "consume", "read"}
        /\ m_is_running /\ ~m_subscriber_thread_alive
        /\ \/ server_channels = {} /\ replies = <<>>
           \/ replies # <<>> /\ Head(replies).type = "meta"

\* The command of caller u is the one in flight, or the server has applied it.
OwnCommand(u) ==
    /\ output # <<>> => Head(output) = op[u]
    /\ wire # <<>> => Head(wire) = op[u]
    /\ output = <<>> /\ wire = <<>> =>
          (op[u].channel \in server_channels <=> op[u].kind = "subscribe")

WaitersOwnIt ==
    \A u \in Callers :
        /\ pc[u] = "reset" => m_subscription_status_changed
        /\ pc[u] \in {"notify", "spin", "reset"} => OwnCommand(u)

CommandInv == Stage /\ SubscriptionsMutexed /\ HandshakeBegins /\ WaitersOwnIt

IInv == TypeOK /\ LockDiscipline /\ (failures = 0 => CommandInv)

\* A message appended to the replies adds no confirmation ...
LEMMA MetasAfterMessage ==
    ASSUME replies \in Seq(Replies), NEW m \in Replies, m.type = "message",
           replies' = Append(replies, m)
    PROVE  Metas' = Metas
<1>1. DOMAIN replies' = 1 .. Len(replies) + 1 /\ DOMAIN replies = 1 .. Len(replies)
  OBVIOUS
<1>2. \A i \in DOMAIN replies : replies'[i] = replies[i]
  OBVIOUS
<1>3. replies'[Len(replies) + 1].type # "meta"
  OBVIOUS
<1> QED
  BY <1>1, <1>2, <1>3 DEF Metas

\* ... a confirmation appended to them adds one, at their end ...
LEMMA MetasAfterMeta ==
    ASSUME replies \in Seq(Replies), NEW m \in Replies, m.type = "meta",
           replies' = Append(replies, m), Metas = {}
    PROVE  /\ Metas' = {Len(replies) + 1}
           /\ Len(replies) + 1 \in DOMAIN replies'
<1>1. DOMAIN replies' = 1 .. Len(replies) + 1 /\ DOMAIN replies = 1 .. Len(replies)
  OBVIOUS
<1>2. \A i \in DOMAIN replies : replies'[i] = replies[i]
  OBVIOUS
<1>3. replies'[Len(replies) + 1].type = "meta"
  OBVIOUS
<1> QED
  BY <1>1, <1>2, <1>3 DEF Metas

\* ... and reading the first reply shifts the confirmations left.
LEMMA MetasAfterRead ==
    ASSUME replies \in Seq(Replies), replies # <<>>, replies' = Tail(replies)
    PROVE  /\ Metas = {} => Head(replies).type # "meta" /\ Metas' = {}
           /\ \A i \in DOMAIN replies : Metas = {i} =>
                 IF Head(replies).type = "meta" THEN Metas' = {}
                 ELSE i - 1 \in DOMAIN replies' /\ Metas' = {i - 1}
<1>1. /\ DOMAIN replies = 1 .. Len(replies) /\ Len(replies) \in Nat \ {0}
      /\ DOMAIN replies' = 1 .. Len(replies) - 1
  OBVIOUS
<1>2. \A i \in DOMAIN replies' : replies'[i] = replies[i + 1]
  OBVIOUS
<1>3. Head(replies) = replies[1]
  OBVIOUS
<1>4. Metas = {} => Head(replies).type # "meta" /\ Metas' = {}
  BY <1>1, <1>2, <1>3 DEF Metas
<1>5. ASSUME NEW i \in DOMAIN replies, Metas = {i}
      PROVE  IF Head(replies).type = "meta" THEN Metas' = {}
             ELSE i - 1 \in DOMAIN replies' /\ Metas' = {i - 1}
  <2>1. \A j \in DOMAIN replies : replies[j].type = "meta" <=> j = i
    BY <1>5 DEF Metas
  <2>2. CASE Head(replies).type = "meta"
    <3>1. i = 1
      BY <1>1, <1>3, <2>1, <2>2
    <3>2. \A j \in DOMAIN replies' : replies'[j].type # "meta"
      BY <1>1, <1>2, <2>1, <3>1
    <3> QED
      BY <2>2, <3>2 DEF Metas
  <2>3. CASE Head(replies).type # "meta"
    <3>1. i # 1
      BY <1>1, <1>3, <2>1, <2>3
    <3>2. i - 1 \in DOMAIN replies'
      BY <1>1, <3>1
    <3>3. \A j \in DOMAIN replies' : replies'[j].type = "meta" <=> j = i - 1
      BY <1>1, <1>2, <2>1
    <3> QED
      BY <2>3, <3>2, <3>3 DEF Metas
  <2> QED
    BY <2>2, <2>3
<1> QED
  BY <1>4, <1>5

\* A PUBLISH adds no confirmation, and is read after what waits already.
LEMMA DeliverKeepsMetas ==
    ASSUME TypeOK, NEW c \in Channels \cup {Technical}, NEW n \in 0 .. MaxEvents,
           Deliver(c, n)
    PROVE  /\ Metas' = Metas
           /\ replies # <<>> => replies' # <<>> /\ Head(replies') = Head(replies)
           /\ DOMAIN replies \subseteq DOMAIN replies'
           /\ c \notin server_channels => replies' = replies
<1>1. Message(c, n) \in Replies /\ Message(c, n).type = "message"
  BY DEF Message, Replies
<1>2. CASE c \in server_channels
  <2>1. replies' = Append(replies, Message(c, n)) /\ replies \in Seq(Replies)
    BY <1>2 DEF Deliver, TypeOK
  <2>2. Metas' = Metas
    BY <1>1, <2>1, MetasAfterMessage
  <2> QED
    BY <1>1, <1>2, <2>1, <2>2
<1>3. CASE c \notin server_channels
  BY <1>3 DEF Deliver, Metas
<1> QED
  BY <1>2, <1>3

\* The holder of the lock is alone, on a connector that is ready.
LEMMA HolderIsAlone ==
    ASSUME LockDiscipline, NEW u \in Callers, pc[u] \in Holding
    PROVE  /\ owner = "ready"
           /\ \A v \in Callers : v # u => pc[v] \notin Holding
  BY DEF LockDiscipline, Holding, Outside

\* The inductive invariant holds when the handshake begins.
LEMMA InitInv == Init => IInv
<1> SUFFICES ASSUME Init
             PROVE  IInv
    OBVIOUS
<1>1. TypeOK
  BY InitType
<1>2. LockDiscipline
  BY NamesAssumption DEF Init, LockDiscipline, Outside, Holding
<1>3. Stage
  <2>1. Metas = {}
    BY DEF Init, Metas
  <2>2. Buffered
    BY <2>1 DEF Init, Buffered
  <2> QED
    BY <2>2 DEF Init, Stage, Awaited
<1>4. SubscriptionsMutexed /\ HandshakeBegins /\ WaitersOwnIt
  BY DEF Init, SubscriptionsMutexed, HandshakeBegins, WaitersOwnIt
<1> QED
  BY <1>1, <1>2, <1>3, <1>4 DEF IInv, CommandInv

\* Every step keeps the discipline of m_subscription_lock.
LEMMA NextLock == TypeOK /\ LockDiscipline /\ [Next]_vars => LockDiscipline'
<1> SUFFICES ASSUME TypeOK, LockDiscipline, [Next]_vars
             PROVE  LockDiscipline'
    OBVIOUS
<1>1. CASE UNCHANGED <<pc, m_subscription_lock, owner>>
  BY <1>1 DEF LockDiscipline
<1>2. ASSUME NEW u \in Callers,
             \/ CallerStep(u) \/ NotifyFails(u)
             \/ \E kind \in Kinds, c \in Channels : Call(u, kind, c)
      PROVE  LockDiscipline'
  <2> USE DEF CallerUnchanged, Outside, Holding, LockDiscipline
  <2>1. u # NoCaller /\ pc \in [Callers -> Outside \cup Holding \cup {"lock"}]
    BY NamesAssumption DEF TypeOK
  <2>2. CASE Lock(u)
    BY <2>1, <2>2, NamesAssumption DEF Lock, LockIsFree
  <2>3. CASE CheckPasses(u)
    BY <2>1, <2>3 DEF CheckPasses
  <2>4. CASE CheckThrows(u)
    BY <2>1, <2>4, NamesAssumption DEF CheckThrows
  <2>5. CASE AppendCommand(u)
    BY <2>1, <2>5 DEF AppendCommand
  <2>6. CASE Notify(u)
    BY <2>1, <2>6 DEF Notify
  <2>7. CASE Spin(u)
    BY <2>1, <2>7 DEF Spin
  <2>8. CASE Reset(u)
    BY <2>1, <2>8, NamesAssumption DEF Reset
  <2>9. CASE NotifyFails(u)
    BY <2>1, <2>9, NamesAssumption DEF NotifyFails
  <2>10. ASSUME NEW kind \in Kinds, NEW c \in Channels, Call(u, kind, c)
         PROVE  LockDiscipline'
    BY <2>1, <2>10 DEF Call
  <2> QED
    BY <1>2, <2>2, <2>3, <2>4, <2>5, <2>6, <2>7, <2>8, <2>9, <2>10 DEF CallerStep
<1>3. CASE OwnerStep \/ OwnerNotifyFails \/ Stop
  <2> USE DEF OwnerUnchanged, LockDiscipline
  <2>1. CASE HandshakeNotify
    BY <2>1 DEF HandshakeNotify
  <2>2. CASE Constructed
    BY <2>2 DEF Constructed
  <2>3. CASE Wake
    BY <2>3 DEF Wake
  <2>4. CASE Join
    BY <2>4 DEF Join
  <2>5. CASE Stop
    BY <2>5 DEF Stop
  <2>6. CASE OwnerNotifyFails
    BY <2>6 DEF OwnerNotifyFails
  <2> QED
    BY <1>3, <2>1, <2>2, <2>3, <2>4, <2>5, <2>6 DEF OwnerStep
<1>4. CASE ServerExecutes
  BY <1>1, <1>4 DEF ServerExecutes
<1>5. CASE WorkerStep
  <2>1. UNCHANGED <<pc, m_subscription_lock, owner>>
    BY <1>5 DEF WorkerStep, WorkerLoop, WriteCommand, BlockInRead, ReceiveTechnical,
                ReceiveEvent, CallbackReturns, ReceiveMeta, ReceiveMetaThrows,
                ConsumeReturns, Receives, WorkerUnchanged
  <2> QED
    BY <1>1, <2>1
<1>6. ASSUME NEW c \in Channels, Publish(c)
      PROVE  LockDiscipline'
  BY <1>1, <1>6 DEF Publish
<1>7. CASE UNCHANGED vars
  BY <1>1, <1>7 DEF vars
<1> QED
  BY <1>2, <1>3, <1>4, <1>5, <1>6, <1>7 DEF Next, Finished

-----------------------------------------------------------------------------
(* Each step keeps CommandInv.  Failures is 0 throughout, before and after. *)

\* The server executes the one command in flight and confirms it.
LEMMA ServerCommand ==
    ASSUME TypeOK, CommandInv, ServerExecutes
    PROVE  CommandInv'
<1> USE DEF CommandInv
<1>1. Awaited /\ Written
  BY DEF ServerExecutes, Stage, Buffered, Written, Answered, Signalled, Nothing
<1>2. wire = <<Head(wire)>> /\ Head(wire) \in Commands /\ wire' = <<>> /\ output' = <<>>
  BY <1>1 DEF Written, ServerExecutes, TypeOK
<1>3. Meta(Head(wire).channel) \in Replies /\ Meta(Head(wire).channel).type = "meta"
  BY <1>2, BoundsAssumption DEF Meta, Replies, Commands
<1>4. /\ Metas' = {Len(replies) + 1}
      /\ Len(replies) + 1 \in DOMAIN replies'
  BY <1>1, <1>3, MetasAfterMeta DEF ServerExecutes, Written, TypeOK
<1>5. Stage'
  <2>1. Answered'
    BY <1>1, <1>2, <1>4 DEF Answered, Written, ServerExecutes, flags
  <2>2. Awaited'
    BY <1>1 DEF Awaited, ServerExecutes
  <2> QED
    BY <2>1, <2>2 DEF Stage
<1>6. SubscriptionsMutexed'
  BY DEF SubscriptionsMutexed, ServerExecutes
<1>7. HandshakeBegins'
  <2> SUFFICES ASSUME owner = "handshake", ~m_subscription_status_changed
               PROVE  /\ worker \in {"top", "consume", "read"}
                      /\ m_is_running /\ ~m_subscriber_thread_alive
                      /\ replies' # <<>> /\ Head(replies').type = "meta"
    BY DEF ServerExecutes, flags, HandshakeBegins
  <2>1. replies' = Append(replies, Meta(Head(wire).channel)) /\ replies \in Seq(Replies)
    BY DEF ServerExecutes, TypeOK
  <2>2. replies' # <<>> /\ (replies = <<>> => Head(replies').type = "meta")
    BY <1>3, <2>1
  <2>3. replies # <<>> => Head(replies') = Head(replies)
    BY <1>3, <2>1
  <2> QED
    BY <2>2, <2>3 DEF HandshakeBegins
<1>8. WaitersOwnIt'
  <2> SUFFICES ASSUME NEW u \in Callers
               PROVE  /\ pc[u] = "reset" => m_subscription_status_changed
                      /\ pc[u] \in {"notify", "spin", "reset"} => OwnCommand(u)'
    BY DEF WaitersOwnIt, ServerExecutes, flags
  <2>1. pc[u] = "reset" => m_subscription_status_changed
    BY DEF WaitersOwnIt
  <2>2. ASSUME pc[u] \in {"notify", "spin", "reset"}
        PROVE  OwnCommand(u)'
    <3>1. Head(wire) = op[u] /\ op' = op
      BY <1>2, <2>2 DEF WaitersOwnIt, OwnCommand, ServerExecutes
    <3>2. op[u].channel \in server_channels' <=> op[u].kind = "subscribe"
      BY <3>1 DEF ServerExecutes
    <3> QED
      BY <1>2, <3>1, <3>2 DEF OwnCommand
  <2> QED
    BY <2>1, <2>2
<1> QED
  BY <1>5, <1>6, <1>7, <1>8

\* Steps that put a message on a channel, or nothing, and touch no command.
LEMMA MessageCommand ==
    ASSUME TypeOK, CommandInv,
           \/ UNCHANGED replies
           \/ \E c \in Channels \cup {Technical}, n \in 0 .. MaxEvents : Deliver(c, n),
           UNCHANGED <<output, wire, server_channels, m_subscription_status_changed,
                       m_subscriber_thread_alive, m_is_running, worker>>
    PROVE  /\ Buffered' = Buffered /\ Written' = Written /\ Nothing' = Nothing
           /\ Signalled' = Signalled /\ (Answered => Answered')
           /\ owner' = owner => HandshakeBegins'
           /\ \A u \in Callers : OwnCommand(u) /\ op'[u] = op[u] => OwnCommand(u)'
<1>1. /\ Metas' = Metas
      /\ replies # <<>> => replies' # <<>> /\ Head(replies') = Head(replies)
      /\ DOMAIN replies \subseteq DOMAIN replies'
      /\ server_channels = {} => replies' = replies
  <2>1. CASE UNCHANGED replies
    BY <2>1 DEF Metas
  <2>2. ASSUME NEW c \in Channels \cup {Technical}, NEW n \in 0 .. MaxEvents, Deliver(c, n)
        PROVE  <1>1!:
    BY <2>2, DeliverKeepsMetas
  <2> QED
    BY <2>1, <2>2
<1>2. /\ Buffered' = Buffered /\ Written' = Written /\ Nothing' = Nothing
      /\ Signalled' = Signalled /\ (Answered => Answered')
  BY <1>1 DEF Buffered, Written, Answered, Signalled, Nothing
<1>3. owner' = owner => HandshakeBegins'
  BY <1>1 DEF CommandInv, HandshakeBegins
<1>4. \A u \in Callers : OwnCommand(u) /\ op'[u] = op[u] => OwnCommand(u)'
  BY DEF OwnCommand
<1> QED
  BY <1>2, <1>3, <1>4

\* Events that are published touch no command.
LEMMA PublishCommand ==
    ASSUME TypeOK, CommandInv, NEW c \in Channels, Publish(c)
    PROVE  CommandInv'
<1>1. published + 1 \in 0 .. MaxEvents
  BY BoundsAssumption DEF Publish, TypeOK
<1>2. /\ \E d \in Channels \cup {Technical}, n \in 0 .. MaxEvents : Deliver(d, n)
      /\ UNCHANGED <<output, wire, server_channels, m_subscription_status_changed,
                     m_subscriber_thread_alive, m_is_running, worker>>
      /\ UNCHANGED <<pc, op, owner>>
  BY <1>1 DEF Publish, flags
<1>3. Stage'
  BY <1>2, MessageCommand DEF CommandInv, Stage, Awaited
<1>4. SubscriptionsMutexed' /\ HandshakeBegins'
  BY <1>2, MessageCommand DEF CommandInv, SubscriptionsMutexed
<1>5. WaitersOwnIt'
  BY <1>2, MessageCommand DEF CommandInv, WaitersOwnIt
<1> QED
  BY <1>3, <1>4, <1>5 DEF CommandInv

\* The worker writes the command out, and signals its confirmation once.
LEMMA WorkerCommand ==
    ASSUME TypeOK, CommandInv, WorkerStep
    PROVE  CommandInv'
<1> USE DEF CommandInv
<1>0. UNCHANGED <<server_channels, pc, op, owner, m_is_running>> /\ Awaited' = Awaited
  BY DEF WorkerStep, WorkerLoop, WriteCommand, BlockInRead, ReceiveTechnical,
         ReceiveEvent, CallbackReturns, ReceiveMeta, ReceiveMetaThrows, ConsumeReturns,
         Receives, WorkerUnchanged, Awaited
\* Steps that move no command and read nothing.
<1>1. CASE /\ WorkerLoop \/ BlockInRead \/ CallbackReturns \/ ConsumeReturns
  <2>1. UNCHANGED <<output, wire, replies, m_subscription_status_changed>>
    BY <1>1 DEF WorkerLoop, BlockInRead, CallbackReturns, ConsumeReturns
  <2>2. Stage'
    BY <1>0, <2>1 DEF Stage, Buffered, Written, Answered, Signalled, Nothing, Metas
  <2>3. SubscriptionsMutexed'
    BY <1>0, <1>1 DEF SubscriptionsMutexed, WorkerLoop, BlockInRead, CallbackReturns,
                      ConsumeReturns
  <2>4. HandshakeBegins'
    BY <1>0, <1>1, <2>1 DEF HandshakeBegins, WorkerLoop, BlockInRead, CallbackReturns,
                            ConsumeReturns, WorkerUnchanged, TypeOK
  <2>5. WaitersOwnIt'
    BY <1>0, <2>1 DEF WaitersOwnIt, OwnCommand
  <2> QED
    BY <2>2, <2>3, <2>4, <2>5
<1>2. CASE WriteCommand
  <2>1. Awaited /\ Buffered
    BY <1>2 DEF WriteCommand, Stage, Buffered, Written, Answered, Signalled, Nothing
  <2>2. output' = <<>> /\ wire' = <<Head(output)>>
    BY <1>2, <2>1 DEF WriteCommand, Buffered, TypeOK
  <2>3. Written'
    BY <1>2, <2>1, <2>2 DEF WriteCommand, Buffered, Written, Metas
  <2>4. Stage'
    BY <1>0, <2>1, <2>3 DEF Stage
  <2>5. SubscriptionsMutexed' /\ HandshakeBegins'
    BY <1>0, <1>2 DEF WriteCommand, SubscriptionsMutexed, HandshakeBegins
  <2>6. WaitersOwnIt'
    BY <1>0, <1>2, <2>1, <2>2 DEF WriteCommand, WaitersOwnIt, OwnCommand, Buffered
  <2> QED
    BY <2>4, <2>5, <2>6
\* Steps that read a message.
<1>3. CASE ReceiveTechnical \/ ReceiveEvent
  <2>1. /\ replies # <<>> /\ replies' = Tail(replies) /\ Head(replies).type # "meta"
        /\ UNCHANGED <<output, wire, m_subscription_status_changed>>
        /\ worker' # "terminated" /\ replies \in Seq(Replies)
    BY <1>3 DEF ReceiveTechnical, ReceiveEvent, Receives, TypeOK
  <2>2. /\ Metas = {} => Metas' = {}
        /\ \A i \in DOMAIN replies : Metas = {i} =>
              i - 1 \in DOMAIN replies' /\ Metas' = {i - 1}
    BY <2>1, MetasAfterRead
  <2>3. Stage'
    BY <1>0, <2>1, <2>2 DEF Stage, Buffered, Written, Answered, Signalled, Nothing
  <2>4. SubscriptionsMutexed'
    BY <1>0, <2>1 DEF SubscriptionsMutexed
  <2>5. HandshakeBegins'
    BY <1>0, <2>1 DEF HandshakeBegins
  <2>6. WaitersOwnIt'
    BY <1>0, <2>1 DEF WaitersOwnIt, OwnCommand
  <2> QED
    BY <2>3, <2>4, <2>5, <2>6
\* The confirmation is read: it is the only one, and the flag is clear.
<1>4. CASE ReceiveMeta \/ ReceiveMetaThrows
  <2>1. /\ replies # <<>> /\ replies' = Tail(replies) /\ Head(replies).type = "meta"
        /\ UNCHANGED <<output, wire>> /\ replies \in Seq(Replies)
    BY <1>4 DEF ReceiveMeta, ReceiveMetaThrows, Receives, TypeOK
  <2>2. Metas # {}
    BY <2>1 DEF Metas
  <2>3. Awaited /\ Answered
    BY <2>2 DEF Stage, Buffered, Written, Answered, Signalled, Nothing
  <2>4. Metas' = {}
    BY <2>1, <2>3, MetasAfterRead DEF Answered
  <2>5. ReceiveMeta
    BY <1>4, <2>3 DEF ReceiveMetaThrows, Answered
  <2>6. Stage'
    BY <1>0, <2>1, <2>3, <2>4, <2>5 DEF Stage, Answered, Signalled, ReceiveMeta
  <2>7. SubscriptionsMutexed' /\ HandshakeBegins'
    BY <1>0, <2>5 DEF ReceiveMeta, SubscriptionsMutexed, HandshakeBegins
  <2>8. WaitersOwnIt'
    BY <1>0, <2>1, <2>5 DEF WaitersOwnIt, OwnCommand, ReceiveMeta
  <2> QED
    BY <2>6, <2>7, <2>8
<1> QED
  BY <1>1, <1>2, <1>3, <1>4 DEF WorkerStep

\* The handshake ends with its own confirmation signalled; a destructor has none.
LEMMA OwnerCommand ==
    ASSUME TypeOK, LockDiscipline, CommandInv, OwnerStep \/ Stop
    PROVE  CommandInv'
<1> USE DEF CommandInv, OwnerUnchanged
<1>0. 0 \in 0 .. MaxEvents
  BY BoundsAssumption
<1>1. CASE HandshakeNotify
  <2>1. /\ \E d \in Channels \cup {Technical}, n \in 0 .. MaxEvents : Deliver(d, n)
        /\ UNCHANGED <<output, wire, server_channels, m_subscription_status_changed,
                       m_subscriber_thread_alive, m_is_running, worker>>
        /\ UNCHANGED <<pc, op, owner>>
    BY <1>0, <1>1 DEF HandshakeNotify, NotifyEventSubscriptionChange
  <2>2. Stage'
    BY <2>1, MessageCommand DEF Stage, Awaited
  <2>3. SubscriptionsMutexed' /\ HandshakeBegins' /\ WaitersOwnIt'
    BY <2>1, MessageCommand DEF SubscriptionsMutexed, WaitersOwnIt
  <2> QED
    BY <2>2, <2>3
<1>2. CASE Constructed
  <2>1. Signalled /\ ~Awaited'
    <3>1. m_subscription_status_changed /\ Awaited
      BY <1>2 DEF Constructed, HandshakeBegins, Awaited
    <3>2. \A u \in Callers : pc[u] \in Outside
      BY <1>2 DEF Constructed, LockDiscipline
    <3> QED
      BY <1>2, <3>1, <3>2
      DEF Stage, Buffered, Written, Answered, Signalled, Awaited, Constructed, Outside
  <2>2. Nothing'
    BY <1>2, <2>1 DEF Constructed, connection, Signalled, Nothing, Metas
  <2>3. SubscriptionsMutexed' /\ HandshakeBegins'
    BY <1>2 DEF Constructed, SubscriptionsMutexed, HandshakeBegins
  <2>4. WaitersOwnIt'
    BY <1>2, <2>1 DEF Constructed, WaitersOwnIt, Awaited
  <2> QED
    BY <2>1, <2>2, <2>3, <2>4 DEF Stage
<1>3. CASE Stop \/ Wake \/ Join
  <2>1. /\ \A u \in Callers : pc[u] \in Outside
        /\ owner # "handshake" /\ owner' # "handshake"
        /\ UNCHANGED <<pc, worker, m_subscription_status_changed>>
    BY <1>3 DEF Stop, Wake, Join, LockDiscipline
  <2>2. ~Awaited /\ ~Awaited' /\ Nothing
    BY <2>1 DEF Awaited, Outside, Stage
  <2>3. Nothing'
    <3>1. CASE Stop
      BY <2>2, <3>1 DEF Stop, connection, Nothing, Metas
    <3>2. CASE Wake
      <4>1. /\ \E d \in Channels \cup {Technical}, n \in 0 .. MaxEvents : Deliver(d, n)
            /\ UNCHANGED <<output, wire, server_channels,
                           m_subscription_status_changed, m_subscriber_thread_alive, m_is_running,
                           worker>>
        BY <1>0, <3>2 DEF Wake, NotifyEventSubscriptionChange
      <4> QED
        BY <2>2, <4>1, MessageCommand
    <3>3. CASE Join
      BY <2>1, <2>2, <3>3 DEF Join, Nothing, Metas
    <3> QED
      BY <1>3, <3>1, <3>2, <3>3
  <2>4. SubscriptionsMutexed' /\ HandshakeBegins' /\ WaitersOwnIt'
    BY <2>1 DEF SubscriptionsMutexed, HandshakeBegins, WaitersOwnIt, Outside
  <2> QED
    BY <2>2, <2>3, <2>4 DEF Stage
<1> QED
  BY <1>1, <1>2, <1>3 DEF OwnerStep

\* A caller's step, as long as no wake-up fails.
LEMMA CallerCommand ==
    ASSUME TypeOK, LockDiscipline, CommandInv, NEW u \in Callers,
           \/ CallerStep(u)
           \/ \E kind \in Kinds, c \in Channels : Call(u, kind, c)
    PROVE  CommandInv'
<1> USE DEF CommandInv, CallerUnchanged
<1>0. /\ pc \in [Callers -> Outside \cup Holding \cup {"lock"}]
      /\ op \in [Callers -> Commands]
      /\ UNCHANGED <<owner, worker, m_subscriber_thread_alive, m_is_running>>
  BY DEF TypeOK, CallerStep, Lock, CheckPasses, CheckThrows, AppendCommand, Notify,
         Spin, Reset, Call
\* Steps that touch neither a command nor the flag, between two places where
\* nothing of the caller's is in flight.
<1>1. ASSUME UNCHANGED <<connection, m_subscription_status_changed>>,
             pc[u] \notin {"notify", "spin", "reset"},
             pc'[u] \notin {"notify", "spin", "reset", "refused"},
             \A v \in Callers : v # u => pc'[v] = pc[v] /\ op'[v] = op[v]
      PROVE  CommandInv'
  <2>1. Awaited' = Awaited
    BY <1>0, <1>1 DEF Awaited
  <2>2. Stage'
    BY <1>1, <2>1
    DEF connection, Stage, Buffered, Written, Answered, Signalled, Nothing, Metas
  <2>3. SubscriptionsMutexed' /\ HandshakeBegins'
    BY <1>0, <1>1 DEF connection, SubscriptionsMutexed, HandshakeBegins
  <2>4. WaitersOwnIt'
    BY <1>1 DEF connection, WaitersOwnIt, OwnCommand
  <2> QED
    BY <2>2, <2>3, <2>4
<1>2. CASE Lock(u)
  BY <1>0, <1>1, <1>2 DEF Lock
<1>3. CASE CheckPasses(u)
  BY <1>0, <1>1, <1>3 DEF CheckPasses
<1>4. ASSUME NEW kind \in Kinds, NEW c \in Channels, Call(u, kind, c)
      PROVE  CommandInv'
  BY <1>0, <1>1, <1>4 DEF Call, Outside
\* A caller that holds the lock and has nothing in flight finds the flag clear.
<1>5. ASSUME pc[u] \in {"check", "append"}
      PROVE  ~Awaited /\ Nothing /\ owner = "ready"
  <2>1. owner = "ready" /\ \A v \in Callers : v # u => pc[v] \notin Holding
    BY <1>5, HolderIsAlone DEF Holding
  <2>2. ~Awaited
    BY <1>5, <2>1 DEF Awaited, Holding
  <2> QED
    BY <2>1, <2>2 DEF Stage
<1>6. ~CheckThrows(u)
  BY <1>5 DEF CheckThrows, Nothing
<1>7. CASE AppendCommand(u)
  <2>1. ~Awaited /\ Nothing /\ owner = "ready"
    BY <1>5, <1>7 DEF AppendCommand
  <2>2. op[u] \in Commands /\ output' = <<op[u]>>
    BY <1>0, <1>7, <2>1 DEF AppendCommand, Nothing
  <2>3. Buffered'
    BY <1>7, <2>1, <2>2 DEF AppendCommand, Nothing, Buffered, Metas
  <2>4. Awaited'
    BY <1>0, <1>7 DEF AppendCommand, Awaited
  <2>5. SubscriptionsMutexed' /\ HandshakeBegins'
    BY <1>0, <1>7 DEF AppendCommand, SubscriptionsMutexed, HandshakeBegins
  <2>6. WaitersOwnIt'
    <3>1. \A v \in Callers : v # u => pc'[v] \notin {"notify", "spin", "reset"}
      BY <1>0, <1>7, <2>1 DEF AppendCommand, Awaited
    <3>2. OwnCommand(u)'
      BY <1>7, <2>1, <2>2 DEF AppendCommand, OwnCommand, Nothing
    <3>3. pc'[u] = "notify"
      BY <1>0, <1>7 DEF AppendCommand
    <3> QED
      BY <3>1, <3>2, <3>3 DEF WaitersOwnIt
  <2> QED
    BY <2>3, <2>4, <2>5, <2>6 DEF Stage
<1>8. CASE Notify(u)
  <2>1. 0 \in 0 .. MaxEvents
    BY BoundsAssumption
  <2>2. /\ \E d \in Channels \cup {Technical}, n \in 0 .. MaxEvents : Deliver(d, n)
        /\ UNCHANGED <<output, wire, server_channels, m_subscription_status_changed,
                       m_subscriber_thread_alive, m_is_running, worker>>
        /\ UNCHANGED <<op, owner>>
    BY <1>0, <1>8, <2>1 DEF Notify, NotifyEventSubscriptionChange
  <2>3. Awaited /\ Awaited'
    BY <1>0, <1>8 DEF Notify, Awaited
  <2>4. Stage'
    BY <2>2, <2>3, MessageCommand DEF Stage
  <2>5. SubscriptionsMutexed' /\ HandshakeBegins'
    BY <1>0, <1>8, <2>2, MessageCommand DEF Notify, SubscriptionsMutexed
  <2>6. WaitersOwnIt'
    BY <1>0, <1>8, <2>2, MessageCommand DEF Notify, WaitersOwnIt
  <2> QED
    BY <2>4, <2>5, <2>6
<1>9. CASE Spin(u)
  <2>1. UNCHANGED <<connection, m_subscription_status_changed, op>>
    BY <1>9 DEF Spin
  <2>2. Awaited /\ Awaited'
    BY <1>0, <1>9 DEF Spin, Awaited
  <2>3. Stage'
    BY <2>1, <2>2
    DEF connection, Stage, Buffered, Written, Answered, Signalled, Metas
  <2>4. SubscriptionsMutexed' /\ HandshakeBegins'
    BY <1>0, <1>9, <2>1 DEF Spin, connection, SubscriptionsMutexed, HandshakeBegins
  <2>5. WaitersOwnIt'
    BY <1>0, <1>9, <2>1 DEF Spin, Confirmed, connection, WaitersOwnIt, OwnCommand
  <2> QED
    BY <2>3, <2>4, <2>5
<1>10. CASE Reset(u)
  <2>1. Awaited /\ Signalled
    BY <1>0, <1>10 DEF Reset, Awaited, WaitersOwnIt, Stage, Buffered, Written, Answered
  <2>2. ~Awaited' /\ \A v \in Callers : pc'[v] \notin {"notify", "spin", "reset"}
    <3>1. owner = "ready" /\ \A v \in Callers : v # u => pc[v] \notin Holding
      BY <1>10, HolderIsAlone DEF Reset, Holding
    <3> QED
      BY <1>0, <1>10, <3>1 DEF Reset, Awaited, Holding
  <2>3. Nothing'
    BY <1>10, <2>1 DEF Reset, connection, Signalled, Nothing, Metas
  <2>4. SubscriptionsMutexed' /\ HandshakeBegins'
    <3>1. owner = "ready"
      BY <1>10, HolderIsAlone DEF Reset, Holding
    <3> QED
      BY <1>0, <1>10, <3>1 DEF Reset, SubscriptionsMutexed, HandshakeBegins
  <2>5. WaitersOwnIt'
    BY <2>2 DEF WaitersOwnIt
  <2> QED
    BY <2>2, <2>3, <2>4, <2>5 DEF Stage
<1> QED
  BY <1>2, <1>3, <1>4, <1>6, <1>7, <1>8, <1>9, <1>10 DEF CallerStep

\* A step after which no wake-up has failed is not a failure, and none came before.
LEMMA NoFailureBefore ==
    ASSUME TypeOK, [Next]_vars, failures' = 0
    PROVE  failures = 0 /\ ~OwnerNotifyFails /\ \A u \in Callers : ~NotifyFails(u)
<1>1. failures \in Nat
  BY BoundsAssumption DEF TypeOK
<1>2. ~OwnerNotifyFails /\ \A u \in Callers : ~NotifyFails(u)
  BY <1>1 DEF OwnerNotifyFails, NotifyFails
<1>3. failures' = failures
  BY <1>2
  DEF Next, Finished, vars, counters, ServerExecutes, WorkerStep, WorkerLoop,
      WriteCommand, BlockInRead, ReceiveTechnical, ReceiveEvent, CallbackReturns,
      ReceiveMeta, ReceiveMetaThrows, ConsumeReturns, Receives, WorkerUnchanged,
      CallerStep, Lock, CheckPasses, CheckThrows, AppendCommand, Notify, Spin,
      Reset, Call, Publish, OwnerStep, HandshakeNotify, Constructed, Wake, Join,
      Stop, OwnerUnchanged
<1> QED
  BY <1>2, <1>3

\* The invariant is inductive.
LEMMA NextInv == IInv /\ [Next]_vars => IInv'
<1> SUFFICES ASSUME IInv, [Next]_vars
             PROVE  IInv'
    OBVIOUS
<1>1. TypeOK /\ TypeOK' /\ LockDiscipline /\ LockDiscipline'
  BY NextType, NextLock DEF IInv
<1>2. ASSUME failures' = 0
      PROVE  CommandInv'
  <2>1. failures = 0 /\ ~OwnerNotifyFails /\ \A u \in Callers : ~NotifyFails(u)
    BY <1>1, <1>2, NoFailureBefore
  <2>2. CommandInv
    BY <2>1 DEF IInv
  <2>3. CASE UNCHANGED vars
    BY <2>2, <2>3
    DEF vars, connection, flags, CommandInv, Stage, Awaited, Buffered, Written,
        Answered, Signalled, Nothing, Metas, SubscriptionsMutexed, HandshakeBegins,
        WaitersOwnIt, OwnCommand
  <2> QED
    BY <1>1, <2>1, <2>2, <2>3, ServerCommand, WorkerCommand, CallerCommand,
       PublishCommand, OwnerCommand
    DEF Next, Finished
<1> QED
  BY <1>1, <1>2 DEF IInv

\* So it holds in every state of every behaviour.
LEMMA Invariance == Spec => []IInv
  BY InitInv, NextInv, PTL DEF Spec

\* At most one subscription command is on its way from the buffer to the flag, and
\* one is exactly while a caller or the constructor waits for it, as long as no
\* wake-up has failed.
THEOREM CommandsMutexed == Spec => []OneCommandInFlight
<1>1. IInv => OneCommandInFlight
  BY DEF IInv, CommandInv, OneCommandInFlight
<1> QED
  BY <1>1, Invariance, PTL

\* The two exceptions "subscriptions / unsunscriptions must be mutexed!" cannot be
\* thrown unless a wake-up has failed before.
THEOREM NeverRefused == Spec => []RefusedOnlyAfterFailure
<1>1. IInv => RefusedOnlyAfterFailure
  BY DEF IInv, CommandInv, RefusedOnlyAfterFailure
<1> QED
  BY <1>1, Invariance, PTL

\* When subscribe or unsubscribe returns, the server has applied its command.
THEOREM CallsTakeEffect == Spec => CallTakesEffect
<1> DEFINE Returns(u) == failures = 0 /\ pc[u] = "reset" /\ pc'[u] = "idle"
           Applied(u) == (op[u].channel \in server_channels) <=> (op[u].kind = "subscribe")
<1>1. ASSUME IInv, NEW u \in Callers, Returns(u)
      PROVE  Applied(u)
  <2>1. Signalled /\ OwnCommand(u)
    BY <1>1
    DEF IInv, CommandInv, WaitersOwnIt, Stage, Awaited, Buffered, Written, Answered
  <2> QED
    BY <2>1 DEF Signalled, OwnCommand
<1>2. IInv /\ [Next]_vars => [\A u \in Callers : Returns(u) => Applied(u)]_vars
  BY <1>1
<1> QED
  BY <1>2, Invariance, PTL DEF Spec, CallTakesEffect

(***************************************************************************)
(* Nothing is delivered after unsubscribe has returned.  The argument is   *)
(* the order of the replies: behind every message of a channel that the    *)
(* server no longer has comes the confirmation that ended the              *)
(* subscription, and the call that waits for it has not returned.          *)
(***************************************************************************)

Waits == {"notify", "spin", "reset"}

\* Behind an unread event of a channel the server no longer has, and behind one
\* that is in the worker's callback, the confirmation is still to be read.
EventsBeforeMeta ==
    \A i \in DOMAIN replies : replies[i].channel \in Channels \ server_channels =>
        \E j \in Metas : i <= j /\ replies[j].channel = replies[i].channel

MetaFor(c) == \E j \in Metas : replies[j].channel = c

CallbackBeforeMeta ==
    /\ worker # "callback" => current = NoMessage
    /\ current.channel \in Channels \ server_channels => MetaFor(current.channel)

\* The confirmation of an application channel is awaited by a call about it.
MetasAwaited ==
    \A j \in Metas : replies[j].channel \in Channels =>
        \E u \in Callers : pc[u] \in Waits /\ op[u].channel = replies[j].channel

\* During the handshake only the technical channel is subscribed to.
HandshakeIsTechnical ==
    owner = "handshake" => /\ output # <<>> => Head(output).channel = Technical
                           /\ wire # <<>> => Head(wire).channel = Technical

QuietInv ==
    EventsBeforeMeta /\ CallbackBeforeMeta /\ MetasAwaited /\ HandshakeIsTechnical

-----------------------------------------------------------------------------
\* The connection starts without replies.
LEMMA InitQuiet == Init => QuietInv
<1> SUFFICES ASSUME Init
             PROVE  QuietInv
    OBVIOUS
<1>1. DOMAIN replies = {} /\ Metas = {}
  BY DEF Init, Metas
<1>2. current = NoMessage /\ NoMessage.channel = Technical
  BY DEF Init, NoMessage, Message
<1>3. HandshakeIsTechnical
  BY DEF Init, HandshakeIsTechnical
<1> QED
  BY <1>1, <1>2, <1>3, NamesAssumption
  DEF QuietInv, EventsBeforeMeta, CallbackBeforeMeta, MetasAwaited

\* A message is appended only for a channel the server has: it needs no
\* confirmation behind it, and it takes none away.
LEMMA MessageQuiet ==
    ASSUME TypeOK, QuietInv, server_channels' = server_channels,
           \/ UNCHANGED replies
           \/ \E c \in Channels \cup {Technical}, n \in 0 .. MaxEvents : Deliver(c, n)
    PROVE  /\ Metas' = Metas /\ EventsBeforeMeta'
           /\ \A j \in Metas : replies'[j] = replies[j]
<1>1. CASE UNCHANGED replies
  BY <1>1 DEF QuietInv, EventsBeforeMeta, Metas
<1>2. ASSUME NEW c \in Channels \cup {Technical}, NEW n \in 0 .. MaxEvents,
             Deliver(c, n), c \in server_channels
      PROVE  /\ Metas' = Metas /\ EventsBeforeMeta'
             /\ \A j \in Metas : replies'[j] = replies[j]
  <2>1. /\ replies' = Append(replies, Message(c, n)) /\ replies \in Seq(Replies)
        /\ Metas' = Metas
    BY <1>2, DeliverKeepsMetas DEF Deliver, TypeOK
  <2>2. /\ DOMAIN replies' = DOMAIN replies \cup {Len(replies) + 1}
        /\ \A i \in DOMAIN replies : replies'[i] = replies[i]
        /\ replies'[Len(replies) + 1].channel = c
    BY <2>1 DEF Message
  <2>3. EventsBeforeMeta'
    BY <1>2, <2>1, <2>2 DEF QuietInv, EventsBeforeMeta, Metas
  <2> QED
    BY <2>1, <2>2, <2>3 DEF Metas
<1> QED
  BY <1>1, <1>2 DEF Deliver

\* Reading the first reply keeps every confirmation but that one.
LEMMA ReadQuiet ==
    ASSUME TypeOK, EventsBeforeMeta, server_channels' = server_channels,
           replies # <<>>, replies' = Tail(replies)
    PROVE  /\ EventsBeforeMeta'
           /\ \A j \in Metas' : j + 1 \in Metas /\ replies'[j] = replies[j + 1]
           /\ \A j \in Metas : j # 1 => j - 1 \in Metas' /\ replies'[j - 1] = replies[j]
<1>1. /\ replies \in Seq(Replies) /\ Len(replies) \in Nat \ {0}
      /\ DOMAIN replies = 1 .. Len(replies)
      /\ DOMAIN replies' = 1 .. Len(replies) - 1
      /\ \A i \in DOMAIN replies' : replies'[i] = replies[i + 1]
  BY DEF TypeOK
<1>2. \A j \in Metas' : j + 1 \in Metas /\ replies'[j] = replies[j + 1]
  BY <1>1 DEF Metas
<1>3. \A j \in Metas : j # 1 => j - 1 \in Metas' /\ replies'[j - 1] = replies[j]
  <2> SUFFICES ASSUME NEW j \in Metas, j # 1
               PROVE  j - 1 \in Metas' /\ replies'[j - 1] = replies[j]
      OBVIOUS
  <2>1. j \in 1 .. Len(replies) /\ replies[j].type = "meta"
    BY <1>1 DEF Metas
  <2>2. j - 1 \in DOMAIN replies' /\ (j - 1) + 1 = j
    BY <1>1, <2>1
  <2> QED
    BY <1>1, <2>1, <2>2 DEF Metas
<1>4. EventsBeforeMeta'
  <2> SUFFICES ASSUME NEW i \in DOMAIN replies',
                      replies'[i].channel \in Channels \ server_channels
               PROVE  \E j \in Metas' : i <= j /\ replies'[j].channel = replies'[i].channel
    BY DEF EventsBeforeMeta
  <2>1. i + 1 \in DOMAIN replies /\ replies'[i] = replies[i + 1]
    BY <1>1
  <2>2. PICK j \in Metas : i + 1 <= j /\ replies[j].channel = replies[i + 1].channel
    BY <2>1 DEF EventsBeforeMeta
  <2>3. j \in 1 .. Len(replies) /\ i \in Nat \ {0}
    BY <1>1 DEF Metas
  <2>4. j - 1 \in Metas' /\ replies'[j - 1] = replies[j] /\ i <= j - 1
    BY <1>3, <2>2, <2>3
  <2> QED
    BY <2>1, <2>2, <2>4
<1> QED
  BY <1>2, <1>3, <1>4

\* Metas are among the replies.
LEMMA MetaOfHead ==
    ASSUME TypeOK, replies # <<>>
    PROVE  1 \in Metas <=> Head(replies).type = "meta"
  BY DEF TypeOK, Metas

-----------------------------------------------------------------------------
\* The server queues the confirmation behind the last event of the channel, for
\* the call whose command it executes.
LEMMA ServerQuiet ==
    ASSUME TypeOK, CommandInv, QuietInv, ServerExecutes
    PROVE  QuietInv'
<1> DEFINE command == Head(wire)
<1>1. Awaited /\ Written
  BY DEF ServerExecutes, CommandInv, Stage, Buffered, Written, Answered, Signalled,
         Nothing
<1>2. /\ command \in Commands /\ wire' = <<>> /\ output' = <<>> /\ wire # <<>>
      /\ replies' = Append(replies, Meta(command.channel)) /\ replies \in Seq(Replies)
      /\ UNCHANGED <<pc, op, owner, worker, current>>
  BY <1>1 DEF Written, ServerExecutes, TypeOK
<1>3. /\ DOMAIN replies' = DOMAIN replies \cup {Len(replies) + 1}
      /\ \A i \in DOMAIN replies : replies'[i] = replies[i] /\ i <= Len(replies) + 1
      /\ replies'[Len(replies) + 1] = Meta(command.channel)
      /\ Len(replies) + 1 <= Len(replies) + 1
  BY <1>2
<1>4. Metas' = {Len(replies) + 1}
  BY <1>1, <1>3 DEF Written, Metas, Meta
<1>5. /\ Meta(command.channel).channel = command.channel
      /\ \A d \in Channels : d \notin server_channels' =>
            d = command.channel \/ d \notin server_channels
  BY DEF ServerExecutes, Meta
<1>6. EventsBeforeMeta'
  <2> SUFFICES ASSUME NEW i \in DOMAIN replies',
                      replies'[i].channel \in Channels \ server_channels'
               PROVE  /\ i <= Len(replies) + 1
                      /\ command.channel = replies'[i].channel
    BY <1>3, <1>4, <1>5 DEF EventsBeforeMeta
  <2>1. CASE i = Len(replies) + 1
    BY <1>3, <1>5, <2>1
  <2>2. CASE i \in DOMAIN replies
    <3>1. replies[i].channel \in server_channels
      BY <1>1, <1>3, <2>2 DEF QuietInv, EventsBeforeMeta, Written
    <3> QED
      BY <1>3, <1>5, <2>2, <3>1
  <2> QED
    BY <1>3, <2>1, <2>2
<1>7. CallbackBeforeMeta'
  <2>1. current.channel \in Channels => current.channel \in server_channels
    BY <1>1 DEF QuietInv, CallbackBeforeMeta, MetaFor, Written
  <2> QED
    BY <1>2, <1>3, <1>4, <1>5, <2>1 DEF QuietInv, CallbackBeforeMeta, MetaFor
<1>8. MetasAwaited'
  <2> SUFFICES ASSUME command.channel \in Channels
               PROVE  \E u \in Callers : pc[u] \in Waits /\ op[u].channel = command.channel
    BY <1>2, <1>3, <1>4, <1>5 DEF MetasAwaited
  <2>1. owner # "handshake"
    BY <1>2, NamesAssumption DEF QuietInv, HandshakeIsTechnical
  <2>2. PICK u \in Callers : pc[u] \in Waits
    BY <1>1, <2>1 DEF Awaited, Waits
  <2>3. op[u] = command
    BY <1>2, <2>2 DEF CommandInv, WaitersOwnIt, OwnCommand, Waits
  <2> QED
    BY <2>2, <2>3
<1>9. HandshakeIsTechnical'
  BY <1>2 DEF HandshakeIsTechnical
<1> QED
  BY <1>6, <1>7, <1>8, <1>9 DEF QuietInv

\* The worker reads in order: an event leaves the replies before the confirmation
\* behind it, and its callback has returned when the confirmation is read.
LEMMA WorkerQuiet ==
    ASSUME TypeOK, CommandInv, QuietInv, WorkerStep
    PROVE  QuietInv'
<1>0. UNCHANGED <<server_channels, pc, op, owner>>
  BY DEF WorkerStep, WorkerLoop, WriteCommand, BlockInRead, ReceiveTechnical,
         ReceiveEvent, CallbackReturns, ReceiveMeta, ReceiveMetaThrows, ConsumeReturns,
         Receives, WorkerUnchanged
<1>1. NoMessage.channel \notin Channels
  BY NamesAssumption DEF NoMessage, Message
<1>2. CASE \/ WorkerLoop \/ BlockInRead \/ ConsumeReturns \/ CallbackReturns
           \/ WriteCommand
  <2>1. /\ UNCHANGED replies /\ worker' # "callback"
        /\ current' = NoMessage
    BY <1>2 DEF WorkerLoop, BlockInRead, ConsumeReturns, CallbackReturns, WriteCommand,
                QuietInv, CallbackBeforeMeta
  <2>2. EventsBeforeMeta' /\ CallbackBeforeMeta' /\ MetasAwaited'
    BY <1>0, <1>1, <2>1
    DEF QuietInv, EventsBeforeMeta, CallbackBeforeMeta, MetasAwaited, Metas
  <2>3. HandshakeIsTechnical'
    <3>1. CASE WriteCommand
      <4>1. Buffered
        BY <3>1 DEF WriteCommand, CommandInv, Stage, Buffered, Written, Answered,
                    Signalled, Nothing
      <4>2. output' = <<>> /\ wire' = <<Head(output)>> /\ output # <<>>
        BY <3>1, <4>1 DEF WriteCommand, Buffered, TypeOK
      <4> QED
        BY <1>0, <4>2 DEF QuietInv, HandshakeIsTechnical
    <3>2. CASE UNCHANGED <<output, wire>>
      BY <1>0, <3>2 DEF QuietInv, HandshakeIsTechnical
    <3> QED
      BY <1>2, <3>1, <3>2 DEF WorkerLoop, BlockInRead, ConsumeReturns, CallbackReturns
  <2> QED
    BY <2>2, <2>3 DEF QuietInv
<1>3. CASE ReceiveTechnical \/ ReceiveEvent \/ ReceiveMeta \/ ReceiveMetaThrows
  <2>1. /\ worker # "callback" /\ replies # <<>> /\ replies' = Tail(replies)
        /\ UNCHANGED <<output, wire>>
    BY <1>3 DEF ReceiveTechnical, ReceiveEvent, ReceiveMeta, ReceiveMetaThrows, Receives
  <2>2. /\ EventsBeforeMeta'
        /\ \A j \in Metas' : j + 1 \in Metas /\ replies'[j] = replies[j + 1]
        /\ \A j \in Metas : j # 1 => j - 1 \in Metas' /\ replies'[j - 1] = replies[j]
    BY <1>0, <2>1, ReadQuiet DEF QuietInv
  <2>3. MetasAwaited'
    BY <1>0, <2>2 DEF QuietInv, MetasAwaited
  <2>4. HandshakeIsTechnical'
    BY <1>0, <2>1 DEF QuietInv, HandshakeIsTechnical
  <2>5. CallbackBeforeMeta'
    <3>1. CASE ReceiveEvent
      <4>1. /\ current' = Head(replies) /\ worker' = "callback"
            /\ Head(replies).type # "meta"
        BY <3>1 DEF ReceiveEvent
      <4>2. ASSUME NEW c \in Channels \ server_channels, c = Head(replies).channel
            PROVE  MetaFor(c)'
        <5>1. 1 \in DOMAIN replies /\ replies[1] = Head(replies)
          BY <2>1 DEF TypeOK
        <5>2. PICK j \in Metas : replies[j].channel = Head(replies).channel
          BY <4>2, <5>1 DEF QuietInv, EventsBeforeMeta
        <5>3. j # 1
          BY <2>1, <4>1, MetaOfHead
        <5> QED
          BY <2>2, <4>2, <5>2, <5>3 DEF MetaFor
      <4> QED
        BY <1>0, <4>1, <4>2 DEF CallbackBeforeMeta
    <3>2. CASE ReceiveTechnical \/ ReceiveMeta \/ ReceiveMetaThrows
      <4>1. current' = NoMessage /\ worker' # "callback"
        BY <2>1, <3>2 DEF ReceiveTechnical, ReceiveMeta, ReceiveMetaThrows, QuietInv,
                          CallbackBeforeMeta
      <4> QED
        BY <1>1, <4>1 DEF CallbackBeforeMeta
    <3> QED
      BY <1>3, <3>1, <3>2
  <2> QED
    BY <2>2, <2>3, <2>4, <2>5 DEF QuietInv
<1> QED
  BY <1>2, <1>3 DEF WorkerStep

\* Whoever publishes, and whoever makes or destroys the connector.
LEMMA OwnerQuiet ==
    ASSUME TypeOK, LockDiscipline, CommandInv, QuietInv,
           OwnerStep \/ Stop \/ \E c \in Channels : Publish(c)
    PROVE  QuietInv'
<1>0. 0 \in 0 .. MaxEvents
  BY BoundsAssumption
<1>1. CASE ~Join
  <2>1. /\ \/ UNCHANGED replies
           \/ \E c \in Channels \cup {Technical}, n \in 0 .. MaxEvents : Deliver(c, n)
        /\ UNCHANGED <<output, wire, server_channels, worker, current, pc, op>>
        /\ owner' = "handshake" => owner = "handshake"
    <3>1. CASE HandshakeNotify \/ Wake
      BY <1>0, <3>1 DEF HandshakeNotify, Wake, NotifyEventSubscriptionChange,
                        OwnerUnchanged
    <3>2. CASE Constructed \/ Stop
      BY <3>2 DEF Constructed, Stop, OwnerUnchanged, connection
    <3>3. ASSUME NEW c \in Channels, Publish(c)
          PROVE  <2>1!:
      <4>1. published + 1 \in 0 .. MaxEvents
        BY <3>3, BoundsAssumption DEF Publish, TypeOK
      <4> QED
        BY <3>3, <4>1 DEF Publish
    <3> QED
      BY <1>1, <3>1, <3>2, <3>3 DEF OwnerStep
  <2>2. /\ Metas' = Metas /\ EventsBeforeMeta'
        /\ \A j \in Metas : replies'[j] = replies[j]
    BY <2>1, MessageQuiet
  <2>3. CallbackBeforeMeta' /\ MetasAwaited'
    BY <2>1, <2>2 DEF QuietInv, CallbackBeforeMeta, MetaFor, MetasAwaited
  <2>4. HandshakeIsTechnical'
    BY <2>1 DEF QuietInv, HandshakeIsTechnical
  <2> QED
    BY <2>2, <2>3, <2>4 DEF QuietInv
<1>2. CASE Join
  <2>1. /\ replies' = <<>> /\ worker' # "callback" /\ current' = NoMessage
        /\ owner' # "handshake"
    BY <1>2 DEF Join, OwnerUnchanged, QuietInv, CallbackBeforeMeta
  <2>2. DOMAIN replies' = {} /\ Metas' = {} /\ NoMessage.channel \notin Channels
    BY <2>1, NamesAssumption DEF Metas, NoMessage, Message
  <2> QED
    BY <2>1, <2>2 DEF QuietInv, EventsBeforeMeta, CallbackBeforeMeta, MetasAwaited,
                      HandshakeIsTechnical
<1> QED
  BY <1>1, <1>2

\* A caller that waits keeps waiting until its confirmation has been read.
LEMMA CallerQuiet ==
    ASSUME TypeOK, LockDiscipline, CommandInv, QuietInv, NEW u \in Callers,
           \/ CallerStep(u)
           \/ \E kind \in Kinds, c \in Channels : Call(u, kind, c)
    PROVE  QuietInv'
<1>0. /\ pc \in [Callers -> Outside \cup Holding \cup {"lock"}]
      /\ op \in [Callers -> Commands]
      /\ UNCHANGED <<owner, worker, current>>
  BY DEF TypeOK, CallerStep, Lock, CheckPasses, CheckThrows, AppendCommand, Notify,
         Spin, Reset, Call, CallerUnchanged
<1>1. /\ \/ UNCHANGED replies
         \/ \E c \in Channels \cup {Technical}, n \in 0 .. MaxEvents : Deliver(c, n)
      /\ UNCHANGED <<wire, server_channels>>
  <2>1. 0 \in 0 .. MaxEvents
    BY BoundsAssumption
  <2>2. CASE Notify(u)
    BY <2>1, <2>2 DEF Notify, NotifyEventSubscriptionChange
  <2>3. CASE ~Notify(u)
    BY <2>3 DEF CallerStep, Lock, CheckPasses, CheckThrows, AppendCommand, Spin, Reset,
                Call, connection
  <2> QED
    BY <2>2, <2>3
<1>2. /\ Metas' = Metas /\ EventsBeforeMeta'
      /\ \A j \in Metas : replies'[j] = replies[j]
  BY <1>1, MessageQuiet
<1>3. CallbackBeforeMeta'
  BY <1>0, <1>1, <1>2 DEF QuietInv, CallbackBeforeMeta, MetaFor
<1>4. MetasAwaited'
  <2>1. CASE Reset(u)
    <3>1. Metas = {}
      BY <1>0, <2>1 DEF Reset, CommandInv, Awaited, WaitersOwnIt, Stage, Buffered,
                        Written, Answered, Signalled
    <3> QED
      BY <1>2, <3>1 DEF MetasAwaited
  <2>2. CASE ~Reset(u)
    <3>1. \A v \in Callers : pc[v] \in Waits => pc'[v] \in Waits /\ op'[v] = op[v]
      BY <1>0, <2>2
      DEF CallerStep, Lock, CheckPasses, CheckThrows, AppendCommand, Notify, Spin,
          Call, Waits, Outside
    <3> QED
      BY <1>2, <3>1 DEF QuietInv, MetasAwaited
  <2> QED
    BY <2>1, <2>2
<1>5. HandshakeIsTechnical'
  <2>1. CASE owner = "handshake"
    <3>1. pc[u] \in Outside /\ owner # "ready"
      BY <2>1 DEF LockDiscipline
    <3>2. FALSE
      BY <3>1 DEF CallerStep, Lock, CheckPasses, CheckThrows, AppendCommand, Notify,
                  Spin, Reset, Call, Outside
    <3> QED
      BY <3>2
  <2> QED
    BY <1>0, <2>1 DEF HandshakeIsTechnical
<1> QED
  BY <1>2, <1>3, <1>4, <1>5 DEF QuietInv

-----------------------------------------------------------------------------
\* The whole inductive invariant.
QuietIInv == IInv /\ (failures = 0 => QuietInv)

\* The invariant is inductive.
LEMMA NextQuiet == QuietIInv /\ [Next]_vars => QuietIInv'
<1> SUFFICES ASSUME QuietIInv, [Next]_vars
             PROVE  QuietIInv'
    OBVIOUS
<1>1. IInv /\ IInv' /\ TypeOK /\ LockDiscipline
  BY NextInv DEF QuietIInv, IInv
<1>2. ASSUME failures' = 0
      PROVE  QuietInv'
  <2>1. failures = 0 /\ ~OwnerNotifyFails /\ \A u \in Callers : ~NotifyFails(u)
    BY <1>1, <1>2, NoFailureBefore
  <2>2. CommandInv /\ QuietInv
    BY <2>1 DEF QuietIInv, IInv
  <2>3. CASE UNCHANGED vars
    BY <2>2, <2>3
    DEF vars, connection, QuietInv, EventsBeforeMeta, CallbackBeforeMeta, MetaFor,
        MetasAwaited, HandshakeIsTechnical, Metas
  <2> QED
    BY <1>1, <2>1, <2>2, <2>3, ServerQuiet, WorkerQuiet, OwnerQuiet, CallerQuiet
    DEF Next, Finished
<1> QED
  BY <1>1, <1>2 DEF QuietIInv

\* After unsubscribe has returned, no callback for its channel is running or can
\* still come, unless a wake-up has failed: whoever unsubscribed may destroy what
\* the callback uses.
THEOREM UnsubscribesAreQuiet == Spec => []UnsubscribedIsQuiet
<1>1. Init => QuietIInv
  BY InitInv, InitQuiet DEF QuietIInv
<1>2. QuietIInv => UnsubscribedIsQuiet
  <2> SUFFICES ASSUME QuietIInv, NEW c \in Channels,
                      failures = 0, Settled(c), c \notin server_channels
               PROVE  /\ current.channel # c
                      /\ \A i \in DOMAIN replies : replies[i].channel # c
    BY DEF UnsubscribedIsQuiet
  <2>1. QuietInv
    BY DEF QuietIInv
  <2>2. ~MetaFor(c)
    BY <2>1 DEF MetaFor, QuietInv, MetasAwaited, Settled, Waits, Outside
  <2> QED
    BY <2>1, <2>2 DEF QuietInv, EventsBeforeMeta, CallbackBeforeMeta, MetaFor
<1> QED
  BY <1>1, <1>2, NextQuiet, PTL DEF Spec

-----------------------------------------------------------------------------
(***************************************************************************)
(* No wake-up is lost.                                                     *)
(*                                                                         *)
(* NoWakeupLost looks at a worker that is already blocked.  The            *)
(* strengthening says where a confirmation that somebody waits for is, why *)
(* a wake-up reaches the worker (the server knows the technical channel    *)
(* and nothing ever unsubscribes it), and that the loop runs while it is   *)
(* needed.  No part of it depends on wake-ups that succeed.                *)
(***************************************************************************)

\* The commands that may be on their way to the server: none unsubscribes the
\* technical channel, and the handshake's is the only one until it ends.
Allowed(command) ==
    /\ command.channel = Technical => command.kind = "subscribe"
    /\ owner = "handshake" => command.channel = Technical

TechnicalStays ==
    /\ \A i \in DOMAIN output : Allowed(output[i])
    /\ \A i \in DOMAIN wire : Allowed(wire[i])
    /\ \A u \in Callers : pc[u] \notin Outside => op[u].channel \in Channels

\* Once the server has answered, or the worker has read, it knows the channel.
TechnicalKnown ==
    /\ owner \notin {"handshake", "destroyed", "terminated"} => Technical \in server_channels
    /\ owner = "handshake" /\ Technical \notin server_channels =>
          /\ replies = <<>> /\ ~m_subscriber_thread_alive
          /\ worker \notin {"callback", "consumed"}

\* The loop runs until the destructor clears m_is_running.
LoopRuns ==
    /\ owner # "terminated" => (m_is_running <=> owner \in {"handshake", "ready"})
    /\ worker = "exited" => ~m_is_running

\* The confirmation a caller waits for is on its way, or it has the flag; and a
\* caller that spins has woken the worker that did not see its command.
ConfirmationComes ==
    \A u \in Callers :
        /\ pc[u] \in {"notify", "spin"} /\ ~m_subscription_status_changed =>
              output # <<>> \/ wire # <<>> \/ Metas # {}
        /\ pc[u] = "spin" /\ worker = "read" /\ output # <<>> => replies # <<>>

\* So are the first reply and the last wake-up.
OwnerIsHeard ==
    /\ owner = "handshake" /\ ~m_subscriber_thread_alive =>
          /\ worker \in {"top", "consume"} => output # <<>> \/ wire # <<>> \/ replies # <<>>
          /\ worker = "read" => wire # <<>> \/ replies # <<>>
    /\ owner = "joining" /\ worker \in {"consume", "read"} => replies # <<>>

WakeInv ==
    TechnicalStays /\ TechnicalKnown /\ LoopRuns /\ ConfirmationComes /\ OwnerIsHeard

WakeIInv == TypeOK /\ LockDiscipline /\ WakeInv

\* The invariant holds when the handshake begins.
LEMMA InitWake == Init => WakeIInv
<1> SUFFICES ASSUME Init
             PROVE  WakeIInv
    OBVIOUS
<1>1. TypeOK /\ LockDiscipline
  BY InitInv DEF IInv
<1>2. DOMAIN output = {1} /\ output[1] = NoCall /\ DOMAIN wire = {} /\ output # <<>>
  BY DEF Init, NoCall
<1>3. TechnicalStays
  BY <1>2 DEF Init, TechnicalStays, Allowed, NoCall, Outside
<1>4. TechnicalKnown /\ LoopRuns /\ ConfirmationComes /\ OwnerIsHeard
  BY <1>2 DEF Init, TechnicalKnown, LoopRuns, ConfirmationComes, OwnerIsHeard
<1> QED
  BY <1>1, <1>3, <1>4 DEF WakeIInv, WakeInv

\* A wake-up changes nothing but the replies, and none of them is lost; once the
\* server knows the technical channel, it leaves something to read.
LEMMA DeliverWakes ==
    ASSUME TypeOK, NEW c \in Channels \cup {Technical}, NEW n \in 0 .. MaxEvents,
           Deliver(c, n) \/ UNCHANGED replies
    PROVE  /\ Metas' = Metas
           /\ replies # <<>> => replies' # <<>>
           /\ Deliver(c, n) /\ c \in server_channels => replies' # <<>>
           /\ c \notin server_channels => replies' = replies
<1>1. CASE UNCHANGED replies
  BY <1>1 DEF Metas, Deliver, TypeOK
<1>2. CASE Deliver(c, n)
  <2>1. c \in server_channels => replies' # <<>>
    BY <1>2 DEF Deliver, TypeOK
  <2> QED
    BY <1>2, <2>1, DeliverKeepsMetas
<1> QED
  BY <1>1, <1>2

\* The server answers every command.
LEMMA ServerWake == WakeIInv /\ ServerExecutes => WakeInv'
<1> SUFFICES ASSUME WakeIInv, ServerExecutes
             PROVE  WakeInv'
    OBVIOUS
<1> DEFINE command == Head(wire)
<1> USE DEF WakeIInv, WakeInv
<1>1. /\ wire # <<>> /\ wire' = Tail(wire)
      /\ server_channels' = IF command.kind = "subscribe"
                            THEN server_channels \cup {command.channel}
                            ELSE server_channels \ {command.channel}
      /\ replies' = Append(replies, Meta(command.channel))
      /\ UNCHANGED <<output, flags, worker, pc, op, owner>>
  BY DEF ServerExecutes
<1>2. /\ command = wire[1] /\ 1 \in DOMAIN wire
      /\ \A i \in DOMAIN wire' : i + 1 \in DOMAIN wire /\ wire'[i] = wire[i + 1]
  BY <1>1 DEF TypeOK
<1>3. Allowed(command)
  BY <1>2 DEF TechnicalStays
<1>4. replies' # <<>> /\ Metas' # {}
  <2>1. /\ Len(replies) + 1 \in DOMAIN replies'
        /\ replies'[Len(replies) + 1] = Meta(command.channel)
    BY <1>1 DEF TypeOK
  <2> QED
    BY <2>1 DEF Metas, Meta
<1>5. TechnicalStays'
  BY <1>1, <1>2 DEF TechnicalStays, Allowed
<1>6. TechnicalKnown' /\ LoopRuns'
  BY <1>1, <1>3 DEF TechnicalKnown, LoopRuns, Allowed, flags
<1>7. ConfirmationComes' /\ OwnerIsHeard'
  BY <1>1, <1>4 DEF ConfirmationComes, OwnerIsHeard, flags
<1> QED
  BY <1>5, <1>6, <1>7

\* The worker writes the commands out before it blocks, and what it reads either
\* was the confirmation, which sets the flag, or leaves the confirmation behind it.
LEMMA WorkerWake == WakeIInv /\ WorkerStep => WakeInv'
<1> SUFFICES ASSUME WakeIInv, WorkerStep
             PROVE  WakeInv'
  OBVIOUS
<1> USE DEF WakeIInv, WakeInv
<1>0. UNCHANGED <<m_is_running, server_channels, pc, op, owner>>
  BY DEF WorkerStep, WorkerLoop, WriteCommand, BlockInRead, ReceiveTechnical,
         ReceiveEvent, CallbackReturns, ReceiveMeta, ReceiveMetaThrows, ConsumeReturns,
         Receives, WorkerUnchanged
<1>1. CASE WorkerLoop \/ CallbackReturns \/ ConsumeReturns \/ BlockInRead
  <2>1. UNCHANGED <<output, wire, replies, m_subscription_status_changed>>
    BY <1>1 DEF WorkerLoop, CallbackReturns, ConsumeReturns, BlockInRead
  <2>2. TechnicalStays' /\ Metas' = Metas
    BY <1>0, <2>1 DEF TechnicalStays, Allowed, Metas
  <2>3. TechnicalKnown' /\ LoopRuns'
    BY <1>0, <1>1, <2>1 DEF TechnicalKnown, LoopRuns, WorkerLoop, CallbackReturns,
                            ConsumeReturns, BlockInRead
  <2>4. ConfirmationComes'
    BY <1>0, <1>1, <2>1, <2>2 DEF ConfirmationComes, WorkerLoop, CallbackReturns,
                                  ConsumeReturns, BlockInRead
  <2>5. OwnerIsHeard'
    BY <1>0, <1>1, <2>1 DEF OwnerIsHeard, LoopRuns, WorkerLoop, CallbackReturns,
                            ConsumeReturns, BlockInRead
  <2> QED
    BY <2>2, <2>3, <2>4, <2>5
<1>2. CASE WriteCommand
  <2>1. /\ output # <<>> /\ wire' = Append(wire, Head(output)) /\ output' = Tail(output)
        /\ worker = "consume"
        /\ UNCHANGED <<worker, replies, m_subscription_status_changed,
                       m_subscriber_thread_alive>>
    BY <1>2 DEF WriteCommand
  <2>2. /\ wire' # <<>>
        /\ Head(output) = output[1] /\ 1 \in DOMAIN output
        /\ \A i \in DOMAIN output' : i + 1 \in DOMAIN output /\ output'[i] = output[i + 1]
        /\ \A i \in DOMAIN wire' : \/ wire'[i] = Head(output)
                                   \/ i \in DOMAIN wire /\ wire'[i] = wire[i]
    <3>1. output \in Seq(Commands) /\ wire \in Seq(Commands)
      BY DEF TypeOK
    <3> HIDE DEF WakeIInv, WakeInv
    <3>2. /\ Head(output) = output[1] /\ 1 \in DOMAIN output
          /\ \A i \in DOMAIN output' :
                i + 1 \in DOMAIN output /\ output'[i] = output[i + 1]
      BY <2>1, <3>1
    <3>3. /\ wire' # <<>>
          /\ \A i \in DOMAIN wire' : \/ wire'[i] = Head(output)
                                     \/ i \in DOMAIN wire /\ wire'[i] = wire[i]
      BY <2>1, <3>1, <3>2
    <3> QED
      BY <3>2, <3>3
  <2>3. TechnicalStays'
    BY <1>0, <2>2 DEF TechnicalStays, Allowed
  <2>4. TechnicalKnown' /\ LoopRuns'
    BY <1>0, <2>1 DEF TechnicalKnown, LoopRuns
  <2>5. ConfirmationComes' /\ OwnerIsHeard'
    BY <1>0, <2>1, <2>2 DEF ConfirmationComes, OwnerIsHeard
  <2> QED
    BY <2>3, <2>4, <2>5
<1>3. CASE ReceiveTechnical \/ ReceiveEvent \/ ReceiveMeta \/ ReceiveMetaThrows
  <2>1. /\ replies # <<>> /\ replies' = Tail(replies)
        /\ UNCHANGED <<output, wire, m_subscriber_thread_alive>>
        /\ worker' \in {"callback", "consumed", "terminated"}
        /\ m_subscription_status_changed' = m_subscription_status_changed
           \/ m_subscription_status_changed'
    BY <1>3 DEF ReceiveTechnical, ReceiveEvent, ReceiveMeta, ReceiveMetaThrows, Receives
  <2>2. ~m_subscription_status_changed' /\ Metas # {} => Metas' # {}
    <3> SUFFICES ASSUME ~m_subscription_status_changed', NEW i \in Metas
                 PROVE  Metas' # {}
        OBVIOUS
    <3>1. Head(replies).type # "meta"
      BY <1>3 DEF ReceiveTechnical, ReceiveEvent, ReceiveMeta, ReceiveMetaThrows
    <3>2. /\ i \in 1 .. Len(replies) /\ replies[i].type = "meta" /\ i # 1
          /\ replies \in Seq(Replies)
      BY <2>1, <3>1 DEF Metas, TypeOK
    <3>3. i - 1 \in DOMAIN replies' /\ replies'[i - 1] = replies[i]
      BY <2>1, <3>2
    <3> QED
      BY <3>2, <3>3 DEF Metas
  <2>3. TechnicalStays'
    BY <1>0, <2>1 DEF TechnicalStays, Allowed
  <2>4. TechnicalKnown' /\ LoopRuns'
    BY <1>0, <2>1 DEF TechnicalKnown, LoopRuns
  <2>5. ConfirmationComes' /\ OwnerIsHeard'
    BY <1>0, <2>1, <2>2 DEF ConfirmationComes, OwnerIsHeard
  <2> QED
    BY <2>3, <2>4, <2>5
<1> QED
  BY <1>1, <1>2, <1>3 DEF WorkerStep

\* A caller appends its command before it wakes the worker, and only the holder of
\* the lock lowers the flag.
LEMMA CallerWake ==
    ASSUME WakeIInv, NEW u \in Callers,
           \/ CallerStep(u) \/ NotifyFails(u)
           \/ \E kind \in Kinds, c \in Channels : Call(u, kind, c)
    PROVE  WakeInv'
<1> USE DEF WakeIInv, WakeInv
<1>0. /\ pc \in [Callers -> Outside \cup Holding \cup {"lock"}]
      /\ op \in [Callers -> Commands]
      /\ UNCHANGED <<m_is_running, m_subscriber_thread_alive, owner, worker, wire,
                     server_channels>>
  BY DEF TypeOK, CallerStep, Lock, CheckPasses, CheckThrows, AppendCommand, Notify,
         Spin, Reset, NotifyFails, Call, CallerUnchanged, connection
<1>1. owner = "ready"
  BY DEF LockDiscipline, CallerStep, Lock, CheckPasses, CheckThrows, AppendCommand,
         Notify, Spin, Reset, NotifyFails, Call, Outside
<1>2. Technical \in server_channels /\ LoopRuns'
  BY <1>0, <1>1 DEF TechnicalKnown, LoopRuns
<1>3. TechnicalKnown' /\ OwnerIsHeard'
  BY <1>0, <1>1, <1>2 DEF TechnicalKnown, OwnerIsHeard
<1>4. \A v \in Callers : v # u => pc'[v] = pc[v] /\ op'[v] = op[v]
  BY <1>0 DEF CallerStep, Lock, CheckPasses, CheckThrows, AppendCommand, Notify, Spin,
              Reset, NotifyFails, Call
<1>5. CASE Notify(u) \/ NotifyFails(u)
  <2>1. 0 \in 0 .. MaxEvents
    BY BoundsAssumption
  <2>2. /\ UNCHANGED <<output, m_subscription_status_changed>>
        /\ Deliver(Technical, 0) \/ UNCHANGED replies
        /\ pc[u] = "notify"
        /\ Notify(u) => pc'[u] = "spin" /\ Deliver(Technical, 0)
        /\ ~Notify(u) => pc'[u] = "failed"
        /\ op'[u] = op[u] \/ pc'[u] = "failed"
    BY <1>0, <1>5 DEF Notify, NotifyFails, NotifyEventSubscriptionChange
  <2>3. /\ Metas' = Metas
        /\ replies # <<>> => replies' # <<>>
        /\ Notify(u) => replies' # <<>>
    BY <1>2, <2>1, <2>2, DeliverWakes
  <2>4. TechnicalStays'
    BY <1>0, <1>4, <2>2 DEF TechnicalStays, Allowed, Outside
  <2>5. ConfirmationComes'
    <3> SUFFICES ASSUME NEW v \in Callers
                 PROVE  /\ pc'[v] \in {"notify", "spin"} /\ ~m_subscription_status_changed =>
                              output # <<>> \/ wire # <<>> \/ Metas # {}
                        /\ pc'[v] = "spin" /\ worker = "read" /\ output # <<>> =>
                              replies' # <<>>
      BY <1>0, <2>2, <2>3 DEF ConfirmationComes
    <3>1. CASE v = u
      BY <2>2, <2>3, <3>1 DEF ConfirmationComes
    <3>2. CASE v # u
      BY <1>4, <2>3, <3>2 DEF ConfirmationComes
    <3> QED
      BY <3>1, <3>2
  <2> QED
    BY <1>2, <1>3, <2>4, <2>5
<1>6. CASE AppendCommand(u)
  <2>1. /\ output' = Append(output, op[u]) /\ pc[u] = "append" /\ pc'[u] = "notify"
        /\ UNCHANGED <<replies, m_subscription_status_changed, op>>
    BY <1>0, <1>6 DEF AppendCommand
  <2>2. /\ output' # <<>>
        /\ \A i \in DOMAIN output' : \/ output'[i] = op[u]
                                     \/ i \in DOMAIN output /\ output'[i] = output[i]
    <3>1. output \in Seq(Commands) /\ op[u] \in Commands
      BY <1>0 DEF TypeOK
    <3> HIDE DEF WakeIInv, WakeInv
    <3> QED
      BY <2>1, <3>1
  <2>3. op[u].channel \in Channels
    BY <2>1 DEF TechnicalStays, Outside
  <2>4. TechnicalStays'
    BY <1>0, <1>1, <1>4, <2>1, <2>2, <2>3, NamesAssumption
    DEF TechnicalStays, Allowed, Outside
  <2>5. \A v \in Callers : v # u => pc[v] # "spin"
    BY <2>1, HolderIsAlone DEF Holding
  <2>6. ConfirmationComes'
    BY <1>4, <2>1, <2>2, <2>5 DEF ConfirmationComes
  <2> QED
    BY <1>2, <1>3, <2>4, <2>6
<1>7. CASE Reset(u)
  <2>1. /\ pc[u] = "reset" /\ pc'[u] = "idle"
        /\ UNCHANGED <<output, replies>>
    BY <1>0, <1>7 DEF Reset, connection
  <2>2. \A v \in Callers : pc'[v] \notin Holding
    BY <1>4, <2>1, HolderIsAlone DEF Holding
  <2>3. TechnicalStays'
    BY <1>0, <1>4, <2>1 DEF TechnicalStays, Allowed, Outside
  <2>4. ConfirmationComes'
    BY <2>2 DEF ConfirmationComes, Holding
  <2> QED
    BY <1>2, <1>3, <2>3, <2>4
<1>8. CASE \/ Lock(u) \/ CheckPasses(u) \/ CheckThrows(u) \/ Spin(u)
           \/ \E kind \in Kinds, c \in Channels : Call(u, kind, c)
  <2>1. /\ UNCHANGED <<output, replies, m_subscription_status_changed>>
        /\ pc'[u] \notin {"notify", "spin"}
    BY <1>0, <1>8 DEF Lock, CheckPasses, CheckThrows, Spin, Call, connection
  <2>2. pc'[u] \notin Outside => op'[u].channel \in Channels
    <3>1. CASE \E kind \in Kinds, c \in Channels : Call(u, kind, c)
      BY <1>0, <3>1 DEF Call
    <3>2. CASE Lock(u) \/ CheckPasses(u) \/ Spin(u)
      <4>1. pc[u] \notin Outside /\ op' = op
        BY <3>2 DEF Lock, CheckPasses, Spin, Outside
      <4> QED
        BY <4>1 DEF TechnicalStays
    <3>3. CASE CheckThrows(u)
      BY <1>0, <3>3 DEF CheckThrows, Outside
    <3> QED
      BY <1>8, <3>1, <3>2, <3>3
  <2>3. TechnicalStays'
    BY <1>0, <1>4, <2>1, <2>2 DEF TechnicalStays, Allowed
  <2>4. ConfirmationComes'
    BY <1>0, <1>4, <2>1 DEF ConfirmationComes, Metas
  <2> QED
    BY <1>2, <1>3, <2>3, <2>4
<1> QED
  BY <1>5, <1>6, <1>7, <1>8 DEF CallerStep

\* The handshake ends with the channel known, and the destructor wakes the worker
\* after it has cleared m_is_running.
LEMMA OwnerWake ==
    ASSUME WakeIInv,
           OwnerStep \/ OwnerNotifyFails \/ Stop \/ \E c \in Channels : Publish(c)
    PROVE  WakeInv'
<1> USE DEF WakeIInv, WakeInv
<1>0. UNCHANGED <<m_subscriber_thread_alive, worker, pc, op>>
  BY DEF OwnerStep, OwnerNotifyFails, HandshakeNotify, Constructed, Wake, Join, Stop, Publish,
         OwnerUnchanged, flags
<1>1. CASE HandshakeNotify \/ Wake \/ \E c \in Channels : Publish(c)
  <2>1. /\ \E c \in Channels \cup {Technical}, n \in 0 .. MaxEvents : Deliver(c, n)
        /\ UNCHANGED <<output, wire, server_channels, m_subscription_status_changed,
                       m_is_running>>
    <3>1. CASE HandshakeNotify \/ Wake
      BY <3>1, BoundsAssumption DEF HandshakeNotify, Wake, NotifyEventSubscriptionChange
    <3>2. ASSUME NEW c \in Channels, Publish(c)
          PROVE  <2>1!:
      <4>1. published + 1 \in 0 .. MaxEvents
        BY <3>2, BoundsAssumption DEF Publish, TypeOK
      <4> QED
        BY <3>2, <4>1 DEF Publish, flags
    <3> QED
      BY <1>1, <3>1, <3>2
  <2>2. /\ Metas' = Metas
        /\ replies # <<>> => replies' # <<>>
        /\ server_channels = {} => replies' = replies
    BY <2>1, DeliverWakes
  <2>3. \/ owner' = owner /\ owner # "joining"
        \/ Wake /\ owner = "stopping" /\ owner' = "joining"
    BY <1>1 DEF HandshakeNotify, Wake, Publish
  <2>4. TechnicalStays'
    BY <1>0, <2>1, <2>3 DEF TechnicalStays, Allowed
  <2>5. LoopRuns' /\ ConfirmationComes'
    BY <1>0, <2>1, <2>2, <2>3 DEF LoopRuns, ConfirmationComes
  <2>6. TechnicalKnown'
    <3>1. CASE owner = "handshake"
      <4>1. Deliver(Technical, 0)
        BY <1>1, <3>1 DEF HandshakeNotify, Wake, Publish, NotifyEventSubscriptionChange
      <4>2. Technical \notin server_channels => replies' = replies
        BY <4>1 DEF Deliver
      <4> QED
        BY <1>0, <2>1, <2>3, <3>1, <4>2 DEF TechnicalKnown
    <3>2. CASE owner # "handshake"
      BY <2>1, <2>3, <3>2 DEF TechnicalKnown
    <3> QED
      BY <3>1, <3>2
  <2>7. OwnerIsHeard'
    <3>1. CASE Wake
      <4>1. Technical \in server_channels
        BY <3>1 DEF Wake, TechnicalKnown
      <4>2. replies' # <<>>
        BY <3>1, <4>1, DeliverWakes, BoundsAssumption
        DEF Wake, NotifyEventSubscriptionChange
      <4> QED
        BY <3>1, <4>2 DEF Wake, OwnerIsHeard
    <3>2. CASE ~Wake
      BY <1>0, <2>1, <2>2, <2>3, <3>2 DEF OwnerIsHeard
    <3> QED
      BY <3>1, <3>2
  <2> QED
    BY <2>4, <2>5, <2>6, <2>7
<1>2. CASE Constructed \/ Stop
  <2>1. /\ UNCHANGED connection
        /\ \/ Constructed /\ owner = "handshake" /\ owner' = "ready"
              /\ m_subscriber_thread_alive /\ m_is_running' = m_is_running
           \/ Stop /\ owner = "ready" /\ owner' = "stopping" /\ ~m_is_running'
    BY <1>2 DEF Constructed, Stop
  <2>2. \A u \in Callers : pc[u] \in Outside
    BY <1>2 DEF Constructed, Stop, LockDiscipline
  <2>3. TechnicalStays'
    BY <1>0, <2>1 DEF TechnicalStays, Allowed, connection
  <2>4. TechnicalKnown' /\ LoopRuns' /\ OwnerIsHeard'
    BY <1>0, <2>1 DEF TechnicalKnown, LoopRuns, OwnerIsHeard, connection, TypeOK
  <2>5. ConfirmationComes'
    BY <1>0, <2>2 DEF ConfirmationComes, Outside
  <2> QED
    BY <2>3, <2>4, <2>5
<1>3. CASE Join
  <2>1. /\ owner' = "destroyed" /\ owner = "joining"
        /\ output' = <<>> /\ wire' = <<>> /\ replies' = <<>>
        /\ m_is_running' = m_is_running
    BY <1>3 DEF Join
  <2>2. \A u \in Callers : pc[u] \in Outside
    BY <2>1 DEF LockDiscipline
  <2>3. DOMAIN output' = {} /\ DOMAIN wire' = {}
    BY <2>1
  <2> QED
    BY <1>0, <2>1, <2>2, <2>3
    DEF TechnicalStays, TechnicalKnown, LoopRuns, ConfirmationComes, OwnerIsHeard,
        Outside
<1>4. CASE OwnerNotifyFails
  <2>1. /\ UNCHANGED connection /\ UNCHANGED flags
        /\ owner' = "terminated"
        /\ owner # "ready"
    BY <1>4 DEF OwnerNotifyFails
  <2>2. \A u \in Callers : pc[u] \in Outside
    BY <2>1 DEF LockDiscipline
  <2> QED
    BY <1>0, <2>1, <2>2
    DEF TechnicalStays, Allowed, TechnicalKnown, LoopRuns, ConfirmationComes,
        OwnerIsHeard, Outside, connection, flags
<1> QED
  BY <1>1, <1>2, <1>3, <1>4 DEF OwnerStep

\* The invariant is inductive.
LEMMA NextWake == WakeIInv /\ [Next]_vars => WakeIInv'
<1> SUFFICES ASSUME WakeIInv, [Next]_vars
             PROVE  WakeIInv'
    OBVIOUS
<1>1. TypeOK' /\ LockDiscipline'
  BY NextType, NextLock DEF WakeIInv
<1>2. WakeInv'
  <2>1. CASE UNCHANGED vars
    BY <2>1 DEF vars, connection, flags, WakeIInv, WakeInv, TechnicalStays, Allowed,
                TechnicalKnown, LoopRuns, ConfirmationComes, OwnerIsHeard, Metas
  <2> QED
    BY <2>1, ServerWake, WorkerWake, CallerWake, OwnerWake DEF Next, Finished
<1> QED
  BY <1>1, <1>2 DEF WakeIInv

\* A caller that spins is one whose command is on its way to the worker.
LEMMA WakeHeard == WakeIInv => NoWakeupLost
<1> SUFFICES ASSUME WakeIInv
             PROVE  NoWakeupLost
    OBVIOUS
<1> USE DEF WakeIInv, WakeInv
<1>1. ASSUME NEW u \in Callers, pc[u] = "spin", ~m_subscription_status_changed
      PROVE  worker # "exited" /\ (worker = "read" => replies # <<>> \/ wire # <<>>)
  <2>1. owner = "ready"
    BY <1>1 DEF LockDiscipline, Outside
  <2>2. Metas # {} => replies # <<>>
    BY DEF Metas
  <2> QED
    BY <1>1, <2>1, <2>2 DEF LoopRuns, ConfirmationComes
<1> QED
  BY <1>1 DEF NoWakeupLost, OwnerIsHeard

\* The worker never sleeps through what somebody waits for: a caller's command, the
\* handshake's first reply or the destructor's wake-up, whatever has failed before.
THEOREM NoWakeupIsLost == Spec => []NoWakeupLost
<1> QED
  BY WakeHeard, InitWake, NextWake, PTL DEF Spec
=============================================================================
