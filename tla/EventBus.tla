------------------------------ MODULE EventBus ------------------------------
(***************************************************************************)
(* What the event half of oregano promises to the subscribers of one       *)
(* process, without threads, locks, connection or reference counts: events *)
(* are dealt with one at a time and in the order of publication, and none  *)
(* is put aside before every subscriber entitled to it has been given it.  *)
(* EventSystem implements this specification.                              *)
(*                                                                         *)
(* Nothing is promised about time: an event may wait for ever (finding 2   *)
(* in the README shows that it can).                                       *)
(***************************************************************************)
EXTENDS Naturals, Sequences

CONSTANTS Subscribers, Channels

VARIABLES
    status,     \* each subscriber's subscription to each channel
    pending,    \* <<channel, event>>: not dealt with yet
    owed,       \* <<subscriber, channel, event>>: promised, not given yet
    received,   \* the events each subscriber was given
    published   \* number of events published

vars == <<status, pending, owed, received, published>>

\* A subscription is "changing" while a call about it is in progress: the
\* subscriber may then be given events but is not entitled to any new one.
Statuses == {"none", "changing", "subscribed"}

TypeOK ==
    /\ status \in [Subscribers -> [Channels -> Statuses]]
    /\ pending \subseteq Channels \X Nat
    /\ owed \subseteq Subscribers \X Channels \X Nat
    /\ received \in [Subscribers -> Seq(Nat)]
    /\ published \in Nat

Init ==
    /\ status = [s \in Subscribers |-> [c \in Channels |-> "none"]]
    /\ pending = {}
    /\ owed = {}
    /\ received = [s \in Subscribers |-> <<>>]
    /\ published = 0

-----------------------------------------------------------------------------
\* subscribe(c) is called: whatever s is owed it remains owed.
StartSubscribing(s, c) ==
    /\ status' = [status EXCEPT ![s][c] = "changing"]
    /\ UNCHANGED <<pending, owed, received, published>>

\* unsubscribe, or the destructor of s, is called.
StartEnding(s, ending) ==
    /\ status' = [status EXCEPT ![s] =
                     [c \in Channels |-> IF c \in ending THEN "changing" ELSE @[c]]]
    /\ owed' = {o \in owed : ~(o[1] = s /\ o[2] \in ending)}
    /\ UNCHANGED <<pending, received, published>>

\* A call returns.  Who leaves a channel has nothing to expect from it.
Settle(s, settled) ==
    /\ \A c \in Channels : settled[c] # status[s][c] =>
          /\ status[s][c] = "changing"
          /\ settled[c] = "none" => \A o \in owed : ~(o[1] = s /\ o[2] = c)
    /\ status' = [status EXCEPT ![s] = settled]
    /\ UNCHANGED <<pending, owed, received, published>>

SubscribedTo(c) == {s \in Subscribers : status[s][c] = "subscribed"}

\* An event that nobody is subscribed to need not reach the process.
Publish(c) ==
    /\ published' = published + 1
    /\ owed' = owed \cup {<<s, c, published + 1>> : s \in SubscribedTo(c)}
    /\ \/ pending' = pending \cup {<<c, published + 1>>}
       \/ SubscribedTo(c) = {} /\ UNCHANGED pending
    /\ UNCHANGED <<status, received>>

Oldest(e) == e \in pending /\ \A f \in pending : e[2] <= f[2]

HasReceived(s, n) == \E i \in DOMAIN received[s] : received[s][i] = n

\* The oldest event is given to some of those who did not get it yet.
Deliver(e, given) ==
    /\ Oldest(e)
    /\ \A s \in given : status[s][e[1]] # "none" /\ ~HasReceived(s, e[2])
    /\ received' = [s \in Subscribers |->
                       IF s \in given THEN Append(received[s], e[2]) ELSE received[s]]
    /\ owed' = {o \in owed : ~(o[1] \in given /\ o[2] = e[1] /\ o[3] = e[2])}
    /\ UNCHANGED <<status, pending, published>>

\* It is dealt with once nobody is owed it.
PutAside(e) ==
    /\ Oldest(e)
    /\ \A o \in owed : ~(o[2] = e[1] /\ o[3] = e[2])
    /\ pending' = pending \ {e}
    /\ UNCHANGED <<status, owed, received, published>>

\* An exception in the middle of a call: from now on nobody is entitled to
\* anything, and who is given an event still gets it once and in order.
Fail ==
    /\ status' = [s \in Subscribers |-> [c \in Channels |->
                     IF status[s][c] = "none" THEN "none" ELSE "changing"]]
    /\ owed' = {}
    /\ UNCHANGED <<pending, received, published>>

\* The broker is destroyed, which nobody who is owed an event would survive.
Shutdown ==
    /\ owed = {}
    /\ pending' = {}
    /\ UNCHANGED <<status, owed, received, published>>

Next ==
    \/ \E s \in Subscribers :
          \/ \E c \in Channels : StartSubscribing(s, c)
          \/ \E ending \in SUBSET Channels : StartEnding(s, ending)
          \/ \E settled \in [Channels -> Statuses] : Settle(s, settled)
    \/ \E c \in Channels : Publish(c)
    \/ \E e \in pending :
          \/ \E given \in SUBSET Subscribers : Deliver(e, given)
          \/ PutAside(e)
    \/ Fail
    \/ Shutdown

Spec == Init /\ [][Next]_vars

-----------------------------------------------------------------------------
(* What follows from it.                                                   *)

\* A subscriber gets every event at most once and in the order of publication,
\* across all its channels and however often it subscribed.
OnceInOrder ==
    \A s \in Subscribers : \A i, j \in DOMAIN received[s] :
        i < j => received[s][i] < received[s][j]

\* Whatever somebody is owed is still pending, and was not given to him before.
OwedIsPending ==
    \A o \in owed : <<o[2], o[3]>> \in pending /\ ~HasReceived(o[1], o[3])
=============================================================================
