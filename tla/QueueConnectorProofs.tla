------------------------- MODULE QueueConnectorProofs -------------------------
(***************************************************************************)
(* Theorems about QueueConnector, for any threads, queues and bounds.      *)
(***************************************************************************)
EXTENDS QueueConnector, ListsProofs

(***************************************************************************)
(* Type correctness.                                                       *)
(***************************************************************************)

\* The connector as its constructor leaves it to the handshake is well-typed.
LEMMA InitType == Init => TypeOK
<1> SUFFICES ASSUME Init PROVE TypeOK
  OBVIOUS
<1>1. NoCall \in [kind : Kinds, queue : Queues \cup {Technical}]
  BY DEF NoCall, Kinds
<1>2. <<>> \in Seq(1 .. MaxRequests) /\ <<>> \in Seq(Queues \cup {Technical})
  OBVIOUS
<1>3. <<Technical>> \in Seq(Queues \cup {Technical})
  OBVIOUS
<1>4. /\ pending \in [Queues -> Seq(1 .. MaxRequests)]
      /\ tokens \in Nat
      /\ m_queue_subscriptions \in Seq(Queues \cup {Technical})
      /\ queues \in Seq(Queues \cup {Technical})
  BY <1>2, <1>3 DEF Init
<1>5. /\ pc \in [Callers -> Outside \cup {"lock", "notify"}]
      /\ op \in [Callers -> [kind : Kinds, queue : Queues \cup {Technical}]]
  BY <1>1 DEF Init, Outside
<1>6. /\ calls \in 0 .. MaxCalls /\ requested \in 0 .. MaxRequests
      /\ wakeups \in 0 .. MaxWakeups /\ failures \in 0 .. MaxFailures
  BY BoundsAssumption DEF Init
<1> QED BY <1>4, <1>5, <1>6 DEF Init, TypeOK

\* A token that is pushed is counted, or wakes the worker.
LEMMA NotifyType ==
    ASSUME TypeOK, NotifyQueueSubscriptionChange
    PROVE  /\ tokens' \in Nat
           /\ worker' \in {worker, "popped"} /\ current' \in {current, Token}
           /\ worker' = "callback" => worker = "callback" /\ current' = current
<1>1. CASE WaitsFor(Technical)
  BY <1>1 DEF TypeOK, NotifyQueueSubscriptionChange
<1>2. CASE ~ WaitsFor(Technical)
  BY <1>2 DEF TypeOK, NotifyQueueSubscriptionChange
<1> QED BY <1>1, <1>2

\* The oldest request of a queue, and the ones behind it.
LEMMA HeadAndTail ==
    ASSUME NEW S, NEW s \in Seq(S), s # <<>>
    PROVE  Head(s) \in S /\ Tail(s) \in Seq(S)
<1> QED OBVIOUS

\* The worker thread keeps the types: what it pops is in a list it asked for.
LEMMA WorkerType == TypeOK /\ (WorkerStep \/ CallbackThrows) => TypeOK'
<1> SUFFICES ASSUME TypeOK, WorkerStep \/ CallbackThrows PROVE TypeOK'
  OBVIOUS
<1> USE DEF WorkerUnchanged, redis, counters
<1>1. CASE WorkerLoop
  BY <1>1 DEF TypeOK, WorkerLoop
<1>2. CASE LoadQueues
  BY <1>2 DEF TypeOK, LoadQueues
<1>3. CASE Pop
  <2>1. PICK i \in DOMAIN queues :
           /\ ~IsEmpty(queues[i])
           /\ IF queues[i] = Technical
              THEN /\ tokens' = tokens - 1
                   /\ current' = Token
                   /\ UNCHANGED pending
              ELSE /\ pending' = [pending EXCEPT ![queues[i]] = Tail(@)]
                   /\ current' = [queue |-> queues[i], id |-> Head(pending[queues[i]])]
                   /\ UNCHANGED tokens
    BY <1>3 DEF Pop
  <2>2. queues[i] \in Queues \cup {Technical}
    BY <2>1 DEF TypeOK
  <2>3. tokens' \in Nat /\ pending' \in [Queues -> Seq(1 .. MaxRequests)]
        /\ current' \in Requests \cup {Token}
    <3>1. CASE queues[i] = Technical
      BY <2>1, <3>1 DEF TypeOK, IsEmpty
    <3>2. CASE queues[i] # Technical
      <4>1. queues[i] \in Queues /\ pending[queues[i]] \in Seq(1 .. MaxRequests)
            /\ pending[queues[i]] # <<>>
        BY <2>1, <2>2, <3>2 DEF TypeOK, IsEmpty
      <4>2. Head(pending[queues[i]]) \in 1 .. MaxRequests
            /\ Tail(pending[queues[i]]) \in Seq(1 .. MaxRequests)
        BY <4>1, HeadAndTail
      <4>3. pending' = [pending EXCEPT ![queues[i]] = Tail(@)]
            /\ current' = [queue |-> queues[i], id |-> Head(pending[queues[i]])]
            /\ tokens' = tokens
        BY <2>1, <3>2
      <4>4. current' \in Requests
        BY <4>1, <4>2, <4>3 DEF Requests
      <4>5. pending' \in [Queues -> Seq(1 .. MaxRequests)]
        <5> DEFINE S == Seq(1 .. MaxRequests)
        <5>1. pending \in [Queues -> S] /\ Tail(pending[queues[i]]) \in S
          BY <4>2 DEF TypeOK
        <5> HIDE DEF S
        <5>2. pending' \in [Queues -> S]
          BY <4>1, <4>3, <5>1
        <5> QED BY <5>2 DEF S
      <4> QED BY <4>3, <4>4, <4>5 DEF TypeOK
    <3> QED BY <3>1, <3>2
  <2> QED BY <1>3, <2>3 DEF TypeOK, Pop
<1>4. CASE Block
  BY <1>4 DEF TypeOK, Block
<1>5. CASE Popped
  <2>1. current.queue # Technical => current \in Requests
    BY DEF TypeOK, Token
  <2> QED BY <1>5, <2>1 DEF TypeOK, Popped, IsTechnical
<1>6. CASE CallbackReturns
  BY <1>6 DEF TypeOK, CallbackReturns
<1>7. CASE CallbackThrows
  BY <1>7 DEF TypeOK, CallbackThrows
<1> QED BY <1>1, <1>2, <1>3, <1>4, <1>5, <1>6, <1>7 DEF WorkerStep

\* A request that is sent waits in its queue, or goes to the worker.
LEMMA SendRequestType ==
    ASSUME TypeOK, NEW q \in Queues, SendRequest(q)
    PROVE  TypeOK'
<1>1. requested + 1 \in 1 .. MaxRequests
  BY BoundsAssumption DEF TypeOK, SendRequest
<1>2. /\ pending' \in [Queues -> Seq(1 .. MaxRequests)]
      /\ worker' \in {worker, "popped"} /\ current' \in Requests \cup {Token}
      /\ worker' = "callback" => worker = "callback" /\ current' = current
  <2>1. CASE WaitsFor(q)
    BY <1>1, <2>1 DEF TypeOK, SendRequest, Requests
  <2>2. CASE ~ WaitsFor(q)
    <3> DEFINE S == Seq(1 .. MaxRequests)
    <3>1. \A s \in S : Append(s, requested + 1) \in S
      BY <1>1
    <3>2. pending \in [Queues -> S]
      BY DEF TypeOK
    <3>3. pending' = [pending EXCEPT ![q] = Append(@, requested + 1)]
          /\ worker' = worker /\ current' = current
      BY <2>2 DEF SendRequest
    <3> HIDE DEF S
    <3>4. pending' \in [Queues -> S]
      BY <3>1, <3>2, <3>3
    <3> QED BY <3>3, <3>4 DEF TypeOK, S
  <2> QED BY <2>1, <2>2
<1> QED BY <1>1, <1>2 DEF TypeOK, SendRequest, subscriptions

\* Calls of listen and stop_listening keep the types.
LEMMA CallerType ==
    ASSUME TypeOK, NEW u \in Callers,
           \/ CallerStep(u) \/ NotifyFails(u)
           \/ \E kind \in Kinds, q \in Queues : Call(u, kind, q)
    PROVE  TypeOK'
<1> USE DEF CallerUnchanged, subscriptions
<1>1. CASE Update(u)
  <2>1. m_queue_subscriptions' \in Seq(Queues \cup {Technical})
    <3>1. op[u].queue \in Queues \cup {Technical}
      BY DEF TypeOK
    <3>2. Added(m_queue_subscriptions, op[u].queue) \in Seq(Queues \cup {Technical})
      BY <3>1 DEF TypeOK, Added
    <3>3. Removed(m_queue_subscriptions, op[u].queue) \in Seq(Queues \cup {Technical})
      BY RemoveAllElements DEF TypeOK, Removed
    <3> QED BY <1>1, <3>2, <3>3 DEF Update
  <2> QED BY <1>1, <2>1 DEF TypeOK, Update, MarkChanged
<1>2. CASE Notify(u)
  <2>1. NoCall \in [kind : Kinds, queue : Queues \cup {Technical}]
    BY DEF NoCall, Kinds
  <2> QED BY <1>2, <2>1, NotifyType DEF TypeOK, Notify, Outside
<1>3. CASE NotifyFails(u)
  <2>1. NoCall \in [kind : Kinds, queue : Queues \cup {Technical}]
    BY DEF NoCall, Kinds
  <2>2. failures' \in 0 .. MaxFailures
    BY <1>3, BoundsAssumption DEF TypeOK, NotifyFails
  <2>3. CASE NotifyQueueSubscriptionChange
    BY <1>3, <2>1, <2>2, <2>3, NotifyType DEF TypeOK, NotifyFails, Outside
  <2>4. CASE UNCHANGED <<tokens, worker, current>>
    BY <1>3, <2>1, <2>2, <2>4 DEF TypeOK, NotifyFails, Outside
  <2> QED BY <1>3, <2>3, <2>4 DEF NotifyFails
<1>4. ASSUME NEW kind \in Kinds, NEW q \in Queues, Call(u, kind, q) PROVE TypeOK'
  BY <1>4, BoundsAssumption DEF TypeOK, Call
<1> QED BY <1>1, <1>2, <1>3, <1>4 DEF CallerStep

\* The constructor's handshake and the destructor keep the types.
LEMMA OwnerType == TypeOK /\ (OwnerStep \/ OwnerNotifyFails \/ Stop) => TypeOK'
<1> SUFFICES ASSUME TypeOK, OwnerStep \/ OwnerNotifyFails \/ Stop PROVE TypeOK'
  OBVIOUS
<1> USE DEF OwnerUnchanged, subscriptions
<1>1. CASE HandshakeNotify
  <2>1. wakeups' \in 0 .. MaxWakeups
    BY <1>1, BoundsAssumption DEF TypeOK, HandshakeNotify
  <2> QED BY <1>1, <2>1, NotifyType DEF TypeOK, HandshakeNotify
<1>2. CASE Constructed
  BY <1>2 DEF TypeOK, Constructed
<1>3. CASE Stop
  BY <1>3 DEF TypeOK, Stop
<1>4. CASE Wake
  BY <1>4, NotifyType DEF TypeOK, Wake
<1>5. CASE Join
  BY <1>5 DEF TypeOK, Join
<1>6. CASE OwnerNotifyFails
  BY <1>6, BoundsAssumption DEF TypeOK, OwnerNotifyFails, redis, worker_vars
<1> QED BY <1>1, <1>2, <1>3, <1>4, <1>5, <1>6 DEF OwnerStep

\* So does every step.
LEMMA NextType == TypeOK /\ [Next]_vars => TypeOK'
<1> SUFFICES ASSUME TypeOK, [Next]_vars PROVE TypeOK'
  OBVIOUS
<1>1. CASE UNCHANGED vars
  BY <1>1 DEF TypeOK, vars, redis, subscriptions, worker_vars, counters
<1> QED
  BY <1>1, WorkerType, SendRequestType, CallerType, OwnerType DEF Next, Finished

\* Every variable keeps its type: in particular the worker's callback is only ever
\* given a request of an application queue, never a token.
THEOREM TypeCorrect == Spec => []TypeOK
<1> QED BY InitType, NextType, PTL DEF Spec

(***************************************************************************)
(* The inductive invariant: what the worker's lists are worth.             *)
(***************************************************************************)

\* The caller between its change and its token holds m_queue_subscription_lock, and
\* a call is about a queue of the application.
LockDiscipline ==
    \A u \in Callers :
        /\ pc[u] = "notify" => m_queue_subscription_lock = u
        /\ pc[u] \in {"lock", "notify"} => op[u].queue \in Queues

\* The technical list stays the first, in the connector and in the command.
TechnicalFirst ==
    /\ m_queue_subscriptions # <<>> /\ m_queue_subscriptions[1] = Technical
    /\ worker \in {"brpop", "blocked"} => queues # <<>> /\ queues[1] = Technical

\* The worker's lists are the current ones, or the flag says that they are not.
FlagTellsChanges == ~m_queue_subscriptions_changed => queues = m_queue_subscriptions

\* A BRPOP that is blocked has found no token.
AsleepWithoutToken == worker = "blocked" => tokens = 0

\* A worker that finds no token in its BRPOP has the current lists, but for the one
\* call that has still to push its token.
ListsWithoutToken ==
    worker \in {"brpop", "blocked"} /\ tokens = 0 =>
        /\ m_queue_subscriptions_changed => \E u \in Callers : pc[u] = "notify"
        /\ \A q \in Queues : Contains(queues, q) =>
              \/ Contains(m_queue_subscriptions, q)
              \/ \E u \in Callers : Stopping(u, q)

IInv ==
    /\ TypeOK
    /\ LockDiscipline
    /\ TechnicalFirst
    /\ FlagTellsChanges
    /\ AsleepWithoutToken
    /\ failures = 0 => ListsWithoutToken

\* A token wakes a worker that is asleep, and lies in Redis for any other.
LEMMA TokenWakes ==
    ASSUME TypeOK, TechnicalFirst, NotifyQueueSubscriptionChange
    PROVE  \/ worker = "blocked" /\ worker' = "popped" /\ tokens' = tokens
              /\ current' = Token
           \/ worker # "blocked" /\ worker' = worker /\ tokens' = tokens + 1
              /\ current' = current
<1>1. worker = "blocked" => WaitsFor(Technical)
  <2>1. SUFFICES ASSUME worker = "blocked" PROVE Contains(queues, Technical)
    BY DEF WaitsFor
  <2>2. 1 \in 1 .. Len(queues) /\ queues[1] = Technical
    BY <2>1 DEF TypeOK, TechnicalFirst
  <2> QED BY <2>2 DEF Contains
<1> QED BY <1>1 DEF NotifyQueueSubscriptionChange, WaitsFor

\* The invariant holds when the handshake begins.
LEMMA InitInv == Init => IInv
<1> SUFFICES ASSUME Init PROVE IInv
  OBVIOUS
<1>1. LockDiscipline
  BY DEF Init, LockDiscipline
<1>2. TechnicalFirst
  BY DEF Init, TechnicalFirst
<1>3. FlagTellsChanges /\ AsleepWithoutToken /\ ListsWithoutToken
  BY DEF Init, FlagTellsChanges, AsleepWithoutToken, ListsWithoutToken
<1> QED BY <1>1, <1>2, <1>3, InitType DEF IInv

\* Steps of the worker and the owner touch no call, and neither does a request.
LEMMA OthersKeepCalls ==
    WorkerStep \/ CallbackThrows \/ OwnerStep \/ Stop
    \/ (\E q \in Queues : SendRequest(q)) \/ UNCHANGED vars =>
        UNCHANGED <<pc, op, m_queue_subscription_lock, m_queue_subscriptions, failures>>
<1> USE DEF WorkerUnchanged, OwnerUnchanged, subscriptions, counters
<1>1. WorkerStep \/ CallbackThrows =>
          UNCHANGED <<pc, op, m_queue_subscription_lock, m_queue_subscriptions,
                      failures>>
  BY DEF WorkerStep, WorkerLoop, LoadQueues, Pop, Block, Popped, CallbackReturns,
         CallbackThrows
<1>2. OwnerStep \/ Stop =>
          UNCHANGED <<pc, op, m_queue_subscription_lock, m_queue_subscriptions,
                      failures>>
  BY DEF OwnerStep, HandshakeNotify, Constructed, Stop, Wake, Join
<1>3. (\E q \in Queues : SendRequest(q)) \/ UNCHANGED vars =>
          UNCHANGED <<pc, op, m_queue_subscription_lock, m_queue_subscriptions,
                      failures>>
  BY DEF SendRequest, vars
<1> QED BY <1>1, <1>2, <1>3

\* A step is one of the worker, of a caller, of the owner, or a request.
LEMMA Steps ==
    ASSUME [Next]_vars
    PROVE  \/ WorkerStep \/ CallbackThrows
           \/ \E u \in Callers :
                 \/ Update(u) \/ Notify(u) \/ NotifyFails(u)
                 \/ \E kind \in Kinds, q \in Queues : Call(u, kind, q)
           \/ \E q \in Queues : SendRequest(q)
           \/ OwnerStep \/ OwnerNotifyFails \/ Stop
           \/ UNCHANGED vars
<1> QED BY DEF Next, Finished, CallerStep

\* A wake-up of the owner that throws leaves everything but the owner as it was.
LEMMA OwnerFailureKeeps ==
    OwnerNotifyFails =>
        /\ UNCHANGED <<pc, op, m_queue_subscription_lock, m_queue_subscriptions,
                       m_queue_subscriptions_changed, queues, tokens, worker, current,
                       m_is_running, m_queue_thread_alive, wakeups>>
        /\ owner' = "terminated"
<1> QED BY DEF OwnerNotifyFails, redis, subscriptions, worker_vars

\* Every step keeps the discipline of m_queue_subscription_lock.
LEMMA NextLock == TypeOK /\ LockDiscipline /\ [Next]_vars => LockDiscipline'
<1> SUFFICES ASSUME TypeOK, LockDiscipline, [Next]_vars PROVE LockDiscipline'
  OBVIOUS
<1>1. ASSUME UNCHANGED <<pc, op, m_queue_subscription_lock>> PROVE LockDiscipline'
  BY <1>1 DEF LockDiscipline
<1>2. ASSUME NEW u \in Callers, Update(u) PROVE LockDiscipline'
  BY <1>2, NamesAssumption
  DEF LockDiscipline, TypeOK, Update, CallerUnchanged
<1>3. ASSUME NEW u \in Callers, Notify(u) \/ NotifyFails(u) PROVE LockDiscipline'
  <2>1. /\ m_queue_subscription_lock = u
        /\ \E r \in Outside : pc' = [pc EXCEPT ![u] = r]
        /\ op' = [op EXCEPT ![u] = NoCall]
    BY <1>3 DEF LockDiscipline, Notify, NotifyFails, Outside
  <2> QED BY <2>1 DEF LockDiscipline, TypeOK, Outside
<1>4. ASSUME NEW u \in Callers, NEW kind \in Kinds, NEW q \in Queues, Call(u, kind, q)
      PROVE  LockDiscipline'
  BY <1>4 DEF LockDiscipline, TypeOK, Call, subscriptions
<1> QED BY <1>1, <1>2, <1>3, <1>4, Steps, OthersKeepCalls, OwnerFailureKeeps

\* Who holds the lock is pushing its token.
HolderNotifies == \A u \in Callers : m_queue_subscription_lock = u => pc[u] = "notify"

LEMMA NextHolder == TypeOK /\ HolderNotifies /\ [Next]_vars => HolderNotifies'
<1> SUFFICES ASSUME TypeOK, HolderNotifies, [Next]_vars PROVE HolderNotifies'
  OBVIOUS
<1>1. ASSUME UNCHANGED <<pc, op, m_queue_subscription_lock>> PROVE HolderNotifies'
  BY <1>1 DEF HolderNotifies
<1>2. ASSUME NEW u \in Callers, Update(u) PROVE HolderNotifies'
  BY <1>2 DEF HolderNotifies, TypeOK, Update
<1>3. ASSUME NEW u \in Callers, Notify(u) \/ NotifyFails(u) PROVE HolderNotifies'
  BY <1>3, NamesAssumption DEF HolderNotifies, Notify, NotifyFails
<1>4. ASSUME NEW u \in Callers, NEW kind \in Kinds, NEW q \in Queues, Call(u, kind, q)
      PROVE  HolderNotifies'
  BY <1>4 DEF HolderNotifies, TypeOK, Call, subscriptions, Outside
<1> QED BY <1>1, <1>2, <1>3, <1>4, Steps, OthersKeepCalls, OwnerFailureKeeps

\* What a call does to the list of the connector.
LEMMA UpdatedList ==
    ASSUME TypeOK, LockDiscipline, NEW u \in Callers, Update(u)
    PROVE  LET q == op[u].queue
           IN  /\ q \in Queues
               /\ \A y : Contains(m_queue_subscriptions', y) <=>
                     IF op[u].kind = "listen"
                     THEN Contains(m_queue_subscriptions, y) \/ y = q
                     ELSE Contains(m_queue_subscriptions, y) /\ y # q
               /\ m_queue_subscriptions # <<>> /\ m_queue_subscriptions[1] = Technical
                  => m_queue_subscriptions' # <<>>
                     /\ m_queue_subscriptions'[1] = Technical
<1> DEFINE list == m_queue_subscriptions
           S == Queues \cup {Technical}
           q == op[u].queue
<1>1. q \in Queues /\ q # Technical /\ q \in S /\ list \in Seq(S)
  BY NamesAssumption DEF LockDiscipline, TypeOK, Update
<1>2. CASE op[u].kind = "listen"
  <2>1. list' = Append(list, q)
    BY <1>2 DEF Update, Added
  <2> HIDE DEF list, S, q
  <2>2. \A y : Contains(Append(list, q), y) <=> Contains(list, y) \/ y = q
    BY <1>1, AppendElements
  <2>3. list # <<>> => Append(list, q) # <<>> /\ Append(list, q)[1] = list[1]
    BY <1>1
  <2> QED BY <1>1, <1>2, <2>1, <2>2, <2>3 DEF list, q
<1>3. CASE op[u].kind # "listen"
  <2>1. list' = RemoveAll(list, q)
    BY <1>3 DEF Update, Removed
  <2> HIDE DEF list, S, q
  <2>2. \A y : Contains(RemoveAll(list, q), y) <=> y # q /\ Contains(list, y)
    BY <1>1, RemoveAllElements
  <2>3. list # <<>> /\ list[1] = Technical =>
            RemoveAll(list, q) # <<>> /\ RemoveAll(list, q)[1] = Technical
    BY <1>1, RemoveAllHead
  <2> QED BY <1>1, <1>3, <2>1, <2>2, <2>3 DEF list, q
<1> QED BY <1>2, <1>3

\* What the steps other than the worker's do to the worker and its token list.
LEMMA WorkerDisturbed ==
    ASSUME TypeOK, TechnicalFirst,
           \/ \E u \in Callers : Notify(u) \/ NotifyFails(u)
           \/ \E u \in Callers, kind \in Kinds, q \in Queues : Call(u, kind, q)
           \/ \E q \in Queues : SendRequest(q)
           \/ OwnerStep \/ OwnerNotifyFails \/ Stop \/ UNCHANGED vars
    PROVE  /\ UNCHANGED <<queues, m_queue_subscriptions, m_queue_subscriptions_changed>>
           /\ \/ worker = "blocked" /\ worker' = "popped"
              \/ worker # "blocked" /\ worker' = worker /\ tokens' = tokens + 1
              \/ worker' = worker /\ tokens' = tokens
<1> USE DEF CallerUnchanged, OwnerUnchanged, subscriptions
<1>1. ASSUME NEW u \in Callers, Notify(u) \/ NotifyFails(u)
      PROVE  /\ UNCHANGED <<queues, m_queue_subscriptions,
                            m_queue_subscriptions_changed>>
             /\ NotifyQueueSubscriptionChange \/ UNCHANGED <<tokens, worker, current>>
  BY <1>1 DEF Notify, NotifyFails
<1>2. ASSUME NEW u \in Callers, NEW kind \in Kinds, NEW q \in Queues, Call(u, kind, q)
      PROVE  /\ UNCHANGED <<queues, m_queue_subscriptions,
                            m_queue_subscriptions_changed>>
             /\ UNCHANGED <<tokens, worker>>
  BY <1>2 DEF Call
<1>3. ASSUME NEW q \in Queues, SendRequest(q)
      PROVE  /\ UNCHANGED <<queues, m_queue_subscriptions,
                            m_queue_subscriptions_changed>>
             /\ UNCHANGED tokens
             /\ worker' = worker \/ (worker = "blocked" /\ worker' = "popped")
  <2>1. UNCHANGED <<queues, m_queue_subscriptions, m_queue_subscriptions_changed,
                    tokens>>
    BY <1>3 DEF SendRequest
  <2>2. CASE WaitsFor(q)
    BY <1>3, <2>2 DEF SendRequest, WaitsFor
  <2>3. CASE ~ WaitsFor(q)
    <3>1. worker' = worker
      BY <1>3, <2>3 DEF SendRequest
    <3> QED BY <2>1, <3>1
  <2> QED BY <2>1, <2>2, <2>3
<1>4. OwnerStep \/ Stop =>
             /\ UNCHANGED <<queues, m_queue_subscriptions,
                            m_queue_subscriptions_changed>>
             /\ NotifyQueueSubscriptionChange \/ UNCHANGED <<tokens, worker>>
  BY DEF OwnerStep, HandshakeNotify, Constructed, Stop, Wake, Join
<1>5. UNCHANGED vars =>
             UNCHANGED <<queues, m_queue_subscriptions, m_queue_subscriptions_changed,
                         tokens, worker>>
  BY DEF vars, redis, worker_vars
<1> QED BY <1>1, <1>2, <1>3, <1>4, <1>5, TokenWakes, OwnerFailureKeeps

\* Every step keeps the technical list first.
LEMMA NextTechnicalFirst ==
    ASSUME TypeOK, LockDiscipline, TechnicalFirst, FlagTellsChanges, [Next]_vars
    PROVE  TechnicalFirst'
<1>1. CASE WorkerStep \/ CallbackThrows
  <2> USE DEF WorkerUnchanged
  <2>1. m_queue_subscriptions' = m_queue_subscriptions
    BY <1>1, OthersKeepCalls
  <2>2. CASE LoadQueues
    BY <2>1, <2>2 DEF TechnicalFirst, FlagTellsChanges, LoadQueues, TypeOK
  <2>3. CASE Block
    BY <2>1, <2>3 DEF TechnicalFirst, Block
  <2>4. CASE ~ LoadQueues /\ ~ Block
    <3>1. worker' \notin {"brpop", "blocked"}
      BY <1>1, <2>4 DEF WorkerStep, WorkerLoop, Pop, Popped, CallbackReturns,
                        CallbackThrows
    <3> QED BY <2>1, <3>1 DEF TechnicalFirst
  <2> QED BY <2>2, <2>3, <2>4
<1>2. ASSUME NEW u \in Callers, Update(u) PROVE TechnicalFirst'
  <2>1. worker' = worker /\ queues' = queues
    BY <1>2 DEF Update, CallerUnchanged
  <2> QED BY <1>2, <2>1, UpdatedList DEF TechnicalFirst
<1>3. ASSUME UNCHANGED <<queues, m_queue_subscriptions>>,
             worker' = worker \/ worker' = "popped"
      PROVE  TechnicalFirst'
  BY <1>3 DEF TechnicalFirst
<1> QED BY <1>1, <1>2, <1>3, Steps, WorkerDisturbed

\* Every change of the list is told to the worker by the flag.
LEMMA NextFlagTellsChanges ==
    ASSUME TypeOK, TechnicalFirst, FlagTellsChanges, [Next]_vars
    PROVE  FlagTellsChanges'
<1>1. CASE WorkerStep \/ CallbackThrows
  <2> USE DEF WorkerUnchanged
  <2>1. CASE LoadQueues
    BY <2>1 DEF FlagTellsChanges, LoadQueues
  <2>2. CASE ~ LoadQueues
    <3>1. UNCHANGED <<queues, m_queue_subscriptions, m_queue_subscriptions_changed>>
      BY <1>1, <2>2 DEF WorkerStep, WorkerLoop, Pop, Block, Popped, CallbackReturns,
                        CallbackThrows
    <3> QED BY <3>1 DEF FlagTellsChanges
  <2> QED BY <2>1, <2>2
<1>2. ASSUME NEW u \in Callers, Update(u) PROVE FlagTellsChanges'
  BY <1>2 DEF FlagTellsChanges, Update, MarkChanged
<1>3. ASSUME UNCHANGED <<queues, m_queue_subscriptions, m_queue_subscriptions_changed>>
      PROVE  FlagTellsChanges'
  BY <1>3 DEF FlagTellsChanges
<1> QED BY <1>1, <1>2, <1>3, Steps, WorkerDisturbed

\* A BRPOP that finds every list empty has found no token.
LEMMA BlocksWithoutToken ==
    ASSUME TypeOK, TechnicalFirst, worker = "brpop",
           NEW i \in DOMAIN queues, queues[i] # Technical,
           \A j \in 1 .. i - 1 : IsEmpty(queues[j])
    PROVE  tokens = 0
<1>1. 1 \in 1 .. i - 1 /\ queues[1] = Technical
  BY DEF TypeOK, TechnicalFirst
<1> QED BY <1>1 DEF IsEmpty

LEMMA NextAsleepWithoutToken ==
    ASSUME TypeOK, TechnicalFirst, AsleepWithoutToken, [Next]_vars
    PROVE  AsleepWithoutToken'
<1>1. CASE WorkerStep \/ CallbackThrows
  <2>1. CASE Block
    <3>1. 1 \in DOMAIN queues /\ queues[1] = Technical
      BY <2>1 DEF TypeOK, TechnicalFirst, Block
    <3> QED BY <2>1, <3>1 DEF AsleepWithoutToken, Block, IsEmpty, redis
  <2>2. CASE ~ Block
    <3>1. worker' # "blocked"
      BY <1>1, <2>2 DEF WorkerStep, WorkerLoop, LoadQueues, Pop, Popped,
                        CallbackReturns, CallbackThrows
    <3> QED BY <3>1 DEF AsleepWithoutToken
  <2> QED BY <2>1, <2>2
<1>2. ASSUME NEW u \in Callers, Update(u) PROVE AsleepWithoutToken'
  BY <1>2 DEF AsleepWithoutToken, Update
<1>3. ASSUME \/ worker = "blocked" /\ worker' = "popped"
             \/ worker # "blocked" /\ worker' = worker
             \/ worker' = worker /\ tokens' = tokens
      PROVE  AsleepWithoutToken'
  BY <1>3 DEF AsleepWithoutToken
<1> QED BY <1>1, <1>2, <1>3, Steps, WorkerDisturbed

\* The calls that keep a worker without a token waiting are the same after a step
\* that leaves the callers alone.
LEMMA ListsUndisturbed ==
    ASSUME ListsWithoutToken,
           UNCHANGED <<pc, op, m_queue_subscriptions, m_queue_subscriptions_changed,
                       queues>>,
           \/ worker' \notin {"brpop", "blocked"}
           \/ tokens' # 0
           \/ worker \in {"brpop", "blocked"} /\ tokens = 0
    PROVE  ListsWithoutToken'
<1>1. \A u \in Callers : /\ pc'[u] = pc[u]
                         /\ \A q \in Queues : Stopping(u, q)' <=> Stopping(u, q)
  BY DEF Stopping
<1> QED BY <1>1 DEF ListsWithoutToken

\* The worker's lists stay current, but for one call, while no token fails.
LEMMA NextListsWithoutToken ==
    ASSUME IInv, ListsWithoutToken, failures = 0, failures' = 0, [Next]_vars
    PROVE  ListsWithoutToken'
<1> USE DEF IInv
<1>1. CASE WorkerStep \/ CallbackThrows
  <2> USE DEF WorkerUnchanged
  <2>1. UNCHANGED <<pc, op, m_queue_subscriptions>>
    BY <1>1, OthersKeepCalls
  <2>2. CASE LoadQueues
    <3>1. queues' = m_queue_subscriptions' /\ ~ m_queue_subscriptions_changed'
      BY <2>1, <2>2 DEF LoadQueues, FlagTellsChanges, TypeOK
    <3> QED BY <3>1 DEF ListsWithoutToken
  <2>3. CASE Block
    <3>1. UNCHANGED <<queues, tokens, m_queue_subscriptions_changed>>
          /\ worker = "brpop"
      BY <2>3 DEF Block, redis
    <3> QED BY <2>1, <3>1, ListsUndisturbed DEF TypeOK
  <2>4. CASE ~ LoadQueues /\ ~ Block
    <3>1. worker' \notin {"brpop", "blocked"}
      BY <1>1, <2>4 DEF WorkerStep, WorkerLoop, Pop, Popped, CallbackReturns,
                        CallbackThrows
    <3> QED BY <3>1 DEF ListsWithoutToken
  <2> QED BY <2>2, <2>3, <2>4
<1>2. ASSUME NEW u \in Callers, Update(u) PROVE ListsWithoutToken'
  <2>1. /\ UNCHANGED <<tokens, worker, queues, op>>
        /\ pc' = [pc EXCEPT ![u] = "notify"]
        /\ pc[u] = "lock" /\ m_queue_subscription_lock = NoCaller
    BY <1>2 DEF Update, CallerUnchanged
  <2>2. pc'[u] = "notify"
    BY <2>1 DEF TypeOK
  <2>3. \A v \in Callers : pc[v] # "notify"
    BY <2>1, NamesAssumption DEF LockDiscipline
  <2>4. ASSUME worker \in {"brpop", "blocked"}, tokens = 0,
               NEW q \in Queues, Contains(queues, q), ~ Contains(m_queue_subscriptions', q)
        PROVE  Stopping(u, q)'
    <3>1. Contains(m_queue_subscriptions, q)
      BY <2>3, <2>4 DEF ListsWithoutToken, Stopping
    <3>2. op[u].kind # "listen" /\ q = op[u].queue
      BY <1>2, <2>4, <3>1, UpdatedList
    <3>3. op[u] = [kind |-> "stop_listening", queue |-> q]
      BY <3>2 DEF TypeOK, Kinds
    <3> QED BY <2>1, <2>2, <3>3 DEF Stopping
  <2> QED BY <2>1, <2>2, <2>4 DEF ListsWithoutToken
<1>3. ASSUME NEW u \in Callers, Notify(u) PROVE ListsWithoutToken'
  <2>1. worker' = "popped" \/ tokens' = tokens + 1
    BY <1>3, TokenWakes DEF Notify
  <2>2. worker' \notin {"brpop", "blocked"} \/ tokens' # 0
    BY <2>1 DEF TypeOK
  <2> QED BY <2>2 DEF ListsWithoutToken
<1>4. ASSUME OwnerNotifyFails \/ \E u \in Callers : NotifyFails(u) PROVE FALSE
  BY <1>4 DEF NotifyFails, OwnerNotifyFails
<1>5. ASSUME NEW u \in Callers, NEW kind \in Kinds, NEW q \in Queues, Call(u, kind, q)
      PROVE  ListsWithoutToken'
  <2>1. /\ UNCHANGED <<tokens, worker, queues, m_queue_subscriptions,
                       m_queue_subscriptions_changed>>
        /\ pc[u] # "notify" /\ pc' = [pc EXCEPT ![u] = "lock"]
        /\ op' = [op EXCEPT ![u] = [kind |-> kind, queue |-> q]]
    BY <1>5 DEF Call, CallerUnchanged, subscriptions, Outside
  <2>2. \A v \in Callers : pc[v] = "notify" => pc'[v] = "notify" /\ op'[v] = op[v]
    BY <2>1 DEF TypeOK
  <2> QED BY <2>1, <2>2 DEF ListsWithoutToken, Stopping
<1>6. ASSUME (\E q \in Queues : SendRequest(q)) \/ OwnerStep \/ Stop \/ UNCHANGED vars
      PROVE  ListsWithoutToken'
  <2>1. UNCHANGED <<pc, op>>
    BY <1>6, OthersKeepCalls
  <2>2. /\ UNCHANGED <<queues, m_queue_subscriptions, m_queue_subscriptions_changed>>
        /\ \/ worker' = "popped"
           \/ tokens' = tokens + 1
           \/ worker' = worker /\ tokens' = tokens
    BY <1>6, WorkerDisturbed
  <2>3. \/ worker' \notin {"brpop", "blocked"}
        \/ tokens' # 0
        \/ worker \in {"brpop", "blocked"} /\ tokens = 0
    BY <2>2 DEF TypeOK
  <2> QED BY <2>1, <2>2, <2>3, ListsUndisturbed
<1> QED BY <1>1, <1>2, <1>3, <1>4, <1>5, <1>6, Steps

\* A token that could not be pushed is not forgotten.
LEMMA FailuresGrow == TypeOK /\ [Next]_vars /\ failures' = 0 => failures = 0
<1> SUFFICES ASSUME TypeOK, [Next]_vars, failures' = 0 PROVE failures = 0
  OBVIOUS
<1>1. ASSUME OwnerNotifyFails \/ \E u \in Callers : NotifyFails(u) PROVE FALSE
  BY <1>1 DEF TypeOK, NotifyFails, OwnerNotifyFails
<1>2. ASSUME NEW u \in Callers,
             \/ Update(u) \/ Notify(u)
             \/ \E kind \in Kinds, q \in Queues : Call(u, kind, q)
      PROVE  failures' = failures
  BY <1>2 DEF Update, Notify, Call
<1> QED BY <1>1, <1>2, Steps, OthersKeepCalls

\* The invariant is inductive.
LEMMA NextInv == IInv /\ [Next]_vars => IInv'
<1> SUFFICES ASSUME IInv, [Next]_vars PROVE IInv'
  OBVIOUS
<1>1. TypeOK' /\ LockDiscipline' /\ TechnicalFirst' /\ FlagTellsChanges'
      /\ AsleepWithoutToken'
  BY NextType, NextLock, NextTechnicalFirst, NextFlagTellsChanges,
     NextAsleepWithoutToken DEF IInv
<1>2. ASSUME failures' = 0 PROVE ListsWithoutToken'
  BY <1>2, FailuresGrow, NextListsWithoutToken DEF IInv
<1> QED BY <1>1, <1>2 DEF IInv

\* So it holds in every state of every behaviour.
LEMMA Invariance == Spec => []IInv
<1> QED BY InitInv, NextInv, PTL DEF Spec

(***************************************************************************)
(* The properties.                                                         *)
(***************************************************************************)

\* While its BRPOP is blocked the worker's lists are the current ones, or the call
\* that changed them has still to push its token, for any number of callers.
THEOREM NeverSleepsOnOldLists == Spec => []BlockedListIsCurrent
<1>1. ASSUME IInv PROVE BlockedListIsCurrent
  <2>1. SUFFICES ASSUME failures = 0, worker = "blocked",
                        queues # m_queue_subscriptions
                 PROVE  \E u \in Callers : pc[u] = "notify"
    BY DEF BlockedListIsCurrent
  <2>2. m_queue_subscriptions_changed
    BY <1>1, <2>1 DEF IInv, FlagTellsChanges
  <2>3. tokens = 0
    BY <1>1, <2>1 DEF IInv, AsleepWithoutToken
  <2> QED BY <1>1, <2>1, <2>2, <2>3 DEF IInv, ListsWithoutToken
<1> QED BY <1>1, Invariance, PTL

\* Once stop_listening has returned, nothing is popped from the queue any more: a
\* request comes from a list that is current, or from one whose token is overdue.
THEOREM NothingPoppedAfterStop == Spec => StoppedIsNotPopped
<1> DEFINE Popping(q) == failures = 0 /\ worker # "popped" /\ worker' = "popped"
                         /\ current'.queue = q
           Allowed(q) == \/ Contains(m_queue_subscriptions, q)
                         \/ \E u \in Callers : Stopping(u, q)
<1>1. ASSUME IInv, [Next]_vars, NEW q \in Queues, Popping(q) PROVE Allowed(q)
  <2>1. worker \in {"brpop", "blocked"} /\ tokens = 0 /\ Contains(queues, q)
    <3> USE NamesAssumption
    <3>1. CASE WorkerStep \/ CallbackThrows
      <4>1. Pop
        BY <1>1, <3>1 DEF WorkerStep, WorkerLoop, LoadQueues, Block, Popped,
                          CallbackReturns, CallbackThrows
      <4>2. PICK i \in DOMAIN queues :
               /\ \A j \in 1 .. i - 1 : IsEmpty(queues[j])
               /\ IF queues[i] = Technical THEN current' = Token
                  ELSE current' = [queue |-> queues[i], id |-> Head(pending[queues[i]])]
        BY <4>1 DEF Pop
      <4>3. queues[i] = q
        BY <1>1, <4>2 DEF Token
      <4>4. worker = "brpop" /\ i \in 1 .. Len(queues)
        BY <1>1, <4>1, <4>2 DEF Pop, IInv, TypeOK
      <4>5. tokens = 0
        BY <1>1, <4>2, <4>3, <4>4, BlocksWithoutToken DEF IInv
      <4> QED BY <4>3, <4>4, <4>5 DEF Contains
    <3>2. ASSUME NotifyQueueSubscriptionChange PROVE FALSE
      <4>1. current' = Token
        BY <1>1, <3>2 DEF NotifyQueueSubscriptionChange
      <4> QED BY <1>1, <4>1 DEF Token
    <3>3. ASSUME NEW u \in Callers,
                 \/ Update(u) \/ Notify(u) \/ NotifyFails(u)
                 \/ \E kind \in Kinds, p \in Queues : Call(u, kind, p)
          PROVE  FALSE
      BY <1>1, <3>2, <3>3 DEF Update, Notify, NotifyFails, Call
    <3>4. ASSUME OwnerStep \/ OwnerNotifyFails \/ Stop \/ UNCHANGED vars PROVE FALSE
      BY <1>1, <3>2, <3>4, OwnerFailureKeeps
      DEF OwnerStep, HandshakeNotify, Constructed, Stop, Wake, Join, vars, worker_vars
    <3>5. ASSUME NEW p \in Queues, SendRequest(p)
          PROVE  worker = "blocked" /\ Contains(queues, q)
      <4>1. WaitsFor(p)
        BY <1>1, <3>5 DEF SendRequest
      <4>2. current' = [queue |-> p, id |-> requested + 1]
        BY <3>5, <4>1 DEF SendRequest
      <4>3. p = q
        BY <1>1, <4>2
      <4> QED BY <4>1, <4>3 DEF WaitsFor
    <3> QED BY <1>1, <3>1, <3>3, <3>4, <3>5, Steps DEF IInv, AsleepWithoutToken
  <2> QED BY <1>1, <2>1 DEF IInv, ListsWithoutToken
<1>2. IInv /\ [Next]_vars => [\A q \in Queues : Popping(q) => Allowed(q)]_vars
  BY <1>1
<1> QED BY <1>2, Invariance, PTL DEF Spec, StoppedIsNotPopped

(***************************************************************************)
(* One token is enough.  The strengthening follows the token from the push *)
(* to the BRPOP that takes it, and says that the worker's loop ends once   *)
(* m_is_running is cleared.  Failed tokens are no exception.               *)
(***************************************************************************)

\* The destructor has cleared m_is_running, and a callback has set the worker alive.
LoopEnds ==
    /\ owner \in {"stopping", "joining"} => ~m_is_running
    /\ worker = "callback" => m_queue_thread_alive

\* The owner has pushed a token and waits for the worker to take one.
OwnerWaits ==
    \/ owner = "joining"
    \/ owner = "handshake" /\ ~m_queue_thread_alive /\ wakeups # 0

\* While it waits, a worker that is going to pop finds a token.
TokenIsThere ==
    OwnerWaits =>
        /\ worker # "blocked"
        /\ worker \in {"load", "brpop"} => tokens # 0
        /\ worker = "top" /\ m_is_running => tokens # 0

WakeIInv == IInv /\ LoopEnds /\ TokenIsThere

\* The invariant is inductive: a BRPOP blocks only on an empty technical list, and
\* only a BRPOP takes a token.
LEMMA NextWake == WakeIInv /\ [Next]_vars => WakeIInv'
<1> SUFFICES ASSUME IInv, LoopEnds, TokenIsThere, [Next]_vars
             PROVE  IInv' /\ LoopEnds' /\ TokenIsThere'
    BY DEF WakeIInv
<1>0. IInv' /\ TypeOK /\ TechnicalFirst
  BY NextInv DEF IInv
<1>1. CASE WorkerStep \/ CallbackThrows
  <2>1. UNCHANGED <<m_is_running, owner, wakeups>>
        /\ (m_queue_thread_alive => m_queue_thread_alive')
    BY <1>1 DEF WorkerStep, WorkerLoop, LoadQueues, Pop, Block, Popped,
                CallbackReturns, CallbackThrows, WorkerUnchanged, counters
  <2>2. LoopEnds'
    BY <1>1, <2>1 DEF LoopEnds, WorkerStep, WorkerLoop, LoadQueues, Pop, Block, Popped,
                      CallbackReturns, CallbackThrows
  <2>3. OwnerWaits' => OwnerWaits
    BY <2>1 DEF OwnerWaits
  <2>4. TokenIsThere'
    <3>1. CASE WorkerLoop \/ LoadQueues
      BY <2>1, <2>3, <3>1 DEF TokenIsThere, WorkerLoop, LoadQueues, redis
    <3>2. CASE Block
      <4>1. 1 \in DOMAIN queues /\ queues[1] = Technical /\ worker = "brpop"
        BY <1>0, <3>2 DEF Block, TypeOK, TechnicalFirst
      <4>2. tokens = 0
        BY <3>2, <4>1 DEF Block, IsEmpty
      <4> QED
        BY <2>3, <4>1, <4>2 DEF TokenIsThere
    <3>3. CASE Pop \/ CallbackThrows
      <4>1. worker' \in {"popped", "terminated"}
        BY <3>3 DEF Pop, CallbackThrows
      <4> QED
        BY <4>1 DEF TokenIsThere
    <3>4. CASE Popped \/ CallbackReturns
      <4>1. worker' \in {"top", "callback"} /\ m_queue_thread_alive'
        BY <3>4 DEF Popped, CallbackReturns, LoopEnds
      <4> QED
        BY <2>1, <4>1 DEF TokenIsThere, OwnerWaits, LoopEnds
    <3> QED
      BY <1>1, <3>1, <3>2, <3>3, <3>4 DEF WorkerStep
  <2> QED
    BY <1>0, <2>2, <2>4
<1>2. CASE \/ \E u \in Callers :
                 \/ Update(u) \/ Notify(u) \/ NotifyFails(u)
                 \/ \E kind \in Kinds, q \in Queues : Call(u, kind, q)
           \/ \E q \in Queues : SendRequest(q)
           \/ UNCHANGED vars
  <2>1. UNCHANGED <<m_is_running, m_queue_thread_alive, owner, wakeups>>
    BY <1>2 DEF Update, Notify, NotifyFails, Call, SendRequest, vars, CallerUnchanged,
                counters
  <2>2. \/ worker' = "popped"
        \/ worker' = worker /\ (tokens' = tokens \/ tokens' = tokens + 1)
    <3>1. CASE \E u \in Callers : Update(u)
      BY <3>1 DEF Update
    <3> QED
      BY <1>0, <1>2, <3>1, WorkerDisturbed
  <2> QED
    BY <1>0, <2>1, <2>2 DEF LoopEnds, TokenIsThere, OwnerWaits, TypeOK
<1>3. CASE HandshakeNotify \/ Wake
  <2>1. /\ UNCHANGED <<m_is_running, m_queue_thread_alive>>
        /\ \/ worker' = "popped"
           \/ worker # "blocked" /\ worker' = worker /\ tokens' = tokens + 1
    BY <1>0, <1>3, TokenWakes DEF HandshakeNotify, Wake, OwnerUnchanged
  <2>2. tokens + 1 # 0
    BY <1>0 DEF TypeOK
  <2>3. \/ owner = "handshake" /\ owner' = "handshake"
        \/ owner = "stopping" /\ owner' = "joining"
    BY <1>3 DEF HandshakeNotify, Wake
  <2> QED
    BY <1>0, <2>1, <2>2, <2>3 DEF LoopEnds, TokenIsThere
<1>4. CASE Constructed \/ Stop \/ Join
  <2>1. /\ ~OwnerWaits' /\ UNCHANGED <<worker, m_queue_thread_alive>>
        /\ owner' \in {"stopping", "joining"} => ~m_is_running'
    BY <1>4 DEF Constructed, Stop, Join, OwnerWaits, OwnerUnchanged
  <2> QED
    BY <1>0, <2>1 DEF LoopEnds, TokenIsThere
<1>5. CASE OwnerNotifyFails
  BY <1>0, <1>5, OwnerFailureKeeps DEF LoopEnds, TokenIsThere, OwnerWaits
<1> QED
  BY <1>1, <1>2, <1>3, <1>4, <1>5, Steps DEF OwnerStep

\* No BRPOP is blocked while the handshake or the destructor, having pushed a token,
\* waits for the worker: for any number of callers, requests and failed tokens.
THEOREM TokenIsEnough == Spec => []OneTokenIsEnough
<1>1. Init => WakeIInv
  BY InitInv DEF Init, WakeIInv, LoopEnds, TokenIsThere, OwnerWaits
<1>2. WakeIInv => OneTokenIsEnough
  BY DEF WakeIInv, TokenIsThere, OwnerWaits, OneTokenIsEnough
<1> QED
  BY <1>1, <1>2, NextWake, PTL DEF Spec
=============================================================================
