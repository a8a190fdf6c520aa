--------------------------- MODULE EventBusProofs ---------------------------
(***************************************************************************)
(* Theorems about EventBus, for any subscribers and channels and without a *)
(* bound on subscriptions or events.  EventSystem implements EventBus, so  *)
(* they hold of it through the refinement.                                 *)
(***************************************************************************)
EXTENDS EventBus, TLAPS

\* What has been given to a subscriber is never younger than what is pending, and
\* the number of an event tells which it is.
Ordered ==
    /\ \A e \in pending : e[2] <= published
    /\ \A e, f \in pending : e[2] = f[2] => e = f
    /\ \A s \in Subscribers : \A i \in DOMAIN received[s] :
          /\ received[s][i] <= published
          /\ \A e \in pending : received[s][i] <= e[2]

IInv == TypeOK /\ Ordered /\ OnceInOrder /\ OwedIsPending

\* Appending to a sequence leaves the elements before it alone.
LEMMA AppendFacts ==
    ASSUME NEW q \in Seq(Nat), NEW n \in Nat
    PROVE  /\ Append(q, n) \in Seq(Nat)
           /\ DOMAIN q = 1 .. Len(q)
           /\ Len(q) \in Nat
           /\ DOMAIN Append(q, n) = 1 .. (Len(q) + 1)
           /\ Append(q, n)[Len(q) + 1] = n
           /\ \A i \in 1 .. Len(q) : Append(q, n)[i] = q[i] /\ q[i] \in Nat
    OBVIOUS

\* The invariant holds before anybody subscribes.
LEMMA InitIInv == Init => IInv
  BY DEF Init, IInv, TypeOK, Statuses, Ordered, OnceInOrder, OwedIsPending, HasReceived

\* Subscriptions that come and go do not touch the events.
LEMMA SubscriptionStep ==
    ASSUME IInv, UNCHANGED <<pending, received, published>>, owed' \subseteq owed,
           status' \in [Subscribers -> [Channels -> Statuses]]
    PROVE  IInv'
  BY DEF IInv, TypeOK, Ordered, OnceInOrder, OwedIsPending, HasReceived

\* A new event is younger than everything before it.
LEMMA PublishStep ==
    ASSUME IInv, NEW c \in Channels, Publish(c)
    PROVE  IInv'
  <1> USE DEF IInv, SubscribedTo
  <1>0. /\ published \in Nat /\ published' = published + 1
        /\ UNCHANGED <<status, received>>
        /\ pending \subseteq Channels \X Nat
    BY DEF Publish, TypeOK
  <1>1. TypeOK'
    <2>1. pending' \subseteq Channels \X Nat
      BY <1>0 DEF Publish
    <2>2. owed' \subseteq Subscribers \X Channels \X Nat
      BY <1>0 DEF Publish, TypeOK
    <2> QED BY <1>0, <2>1, <2>2 DEF TypeOK
  <1>2. Ordered'
    <2>1. \A e \in pending' : e \in pending \/ (e = <<c, published + 1>>
                                                /\ e[2] = published + 1)
      BY DEF Publish
    <2>2. \A e \in pending : e[2] \in Nat /\ e[2] <= published
      BY <1>0 DEF Ordered
    <2>3. \A s \in Subscribers : \A i \in DOMAIN received[s] :
             received[s][i] \in Nat /\ received[s][i] <= published
      BY DEF Ordered, TypeOK
    <2>4. \A e \in pending' : e[2] \in Nat /\ e[2] <= published + 1
      BY <1>0, <2>1, <2>2
    <2>5. \A e, f \in pending' : e[2] = f[2] => e = f
      BY <1>0, <2>1, <2>2 DEF Ordered
    <2>6. ASSUME NEW s \in Subscribers, NEW i \in DOMAIN received[s]
          PROVE  received[s][i] <= published + 1
                 /\ \A e \in pending' : received[s][i] <= e[2]
      BY <1>0, <2>1, <2>2, <2>3 DEF Ordered
    <2> QED BY <1>0, <2>4, <2>5, <2>6 DEF Ordered
  <1>3. OnceInOrder'
    BY <1>0 DEF OnceInOrder
  <1>4. OwedIsPending'
    <2> SUFFICES ASSUME NEW o \in owed'
                 PROVE  <<o[2], o[3]>> \in pending' /\ ~HasReceived(o[1], o[3])'
      BY DEF OwedIsPending
    <2>1. CASE o \in owed
      BY <1>0, <2>1 DEF OwedIsPending, Publish, HasReceived
    <2>2. CASE o \notin owed
      <3>1. PICK s \in Subscribers : s \in SubscribedTo(c)
                                     /\ o = <<s, c, published + 1>>
        BY <2>2 DEF Publish
      <3>2. <<c, published + 1>> \in pending'
        BY <3>1 DEF Publish
      <3>3. \A i \in DOMAIN received[s] :
               received[s][i] \in Nat /\ received[s][i] <= published
        BY DEF Ordered, TypeOK
      <3> QED BY <1>0, <3>1, <3>2, <3>3 DEF HasReceived
    <2> QED BY <2>1, <2>2
  <1> QED BY <1>1, <1>2, <1>3, <1>4

\* The oldest event goes behind everything its receivers had.
LEMMA DeliverStep ==
    ASSUME IInv, NEW e \in pending, NEW given \in SUBSET Subscribers, Deliver(e, given)
    PROVE  IInv'
  <1> USE DEF IInv
  <1>0. /\ UNCHANGED <<status, pending, published>>
        /\ owed' \subseteq owed
        /\ Oldest(e)
        /\ e[2] \in Nat /\ published \in Nat
        /\ received \in [Subscribers -> Seq(Nat)]
    BY DEF Deliver, TypeOK
  <1>1. ASSUME NEW s \in Subscribers
        PROVE  received'[s] = IF s \in given THEN Append(received[s], e[2])
                                             ELSE received[s]
    BY DEF Deliver
  <1>2. TypeOK'
    <2>1. received' \in [Subscribers -> Seq(Nat)]
      BY <1>0, AppendFacts DEF Deliver
    <2> QED BY <1>0, <2>1 DEF TypeOK
  <1>3. ASSUME NEW s \in given
        PROVE  /\ DOMAIN received[s] = 1 .. Len(received[s])
               /\ Len(received[s]) \in Nat
               /\ DOMAIN received'[s] = 1 .. (Len(received[s]) + 1)
               /\ received'[s][Len(received[s]) + 1] = e[2]
               /\ \A i \in 1 .. Len(received[s]) :
                     /\ received'[s][i] = received[s][i]
                     /\ received[s][i] \in Nat
                     /\ received[s][i] < e[2]
    <2>1. received'[s] = Append(received[s], e[2]) /\ received[s] \in Seq(Nat)
      BY <1>0, <1>1
    <2>2. \A i \in DOMAIN received[s] : received[s][i] <= e[2] /\ received[s][i] # e[2]
      BY DEF Deliver, HasReceived, Ordered
    <2> QED BY <1>0, <2>1, <2>2, AppendFacts
  <1>4. Ordered'
    <2>1. ASSUME NEW s \in Subscribers, NEW i \in DOMAIN received'[s]
          PROVE  received'[s][i] <= published
                 /\ \A f \in pending : received'[s][i] <= f[2]
      <3>1. CASE s \notin given
        BY <1>1, <3>1 DEF Ordered
      <3>2. CASE s \in given /\ i <= Len(received[s])
        <4>1. i \in DOMAIN received[s] /\ received'[s][i] = received[s][i]
          BY <1>3, <3>2
        <4> QED BY <4>1 DEF Ordered
      <3>3. CASE s \in given /\ ~(i <= Len(received[s]))
        <4>1. received'[s][i] = e[2]
          BY <1>3, <3>3
        <4> QED BY <4>1, <1>0 DEF Ordered, Oldest
      <3> QED BY <3>1, <3>2, <3>3
    <2> QED BY <1>0, <2>1 DEF Ordered
  <1>5. OnceInOrder'
    <2> SUFFICES ASSUME NEW s \in Subscribers, NEW i \in DOMAIN received'[s],
                        NEW j \in DOMAIN received'[s], i < j
                 PROVE  received'[s][i] < received'[s][j]
      BY DEF OnceInOrder
    <2>1. CASE s \notin given
      BY <1>1, <2>1 DEF OnceInOrder
    <2>2. CASE s \in given /\ j <= Len(received[s])
      <3>1. /\ i \in DOMAIN received[s] /\ j \in DOMAIN received[s]
            /\ received'[s][i] = received[s][i] /\ received'[s][j] = received[s][j]
        BY <1>3, <2>2
      <3> QED BY <3>1 DEF OnceInOrder
    <2>3. CASE s \in given /\ ~(j <= Len(received[s]))
      BY SMTT(30), <1>3, <2>3
    <2> QED BY <2>1, <2>2, <2>3
  <1>6. OwedIsPending'
    <2> SUFFICES ASSUME NEW o \in owed'
                 PROVE  <<o[2], o[3]>> \in pending' /\ ~HasReceived(o[1], o[3])'
      BY DEF OwedIsPending
    <2>1. /\ o \in owed /\ <<o[2], o[3]>> \in pending /\ ~HasReceived(o[1], o[3])
          /\ o[1] \in Subscribers
      BY <1>0 DEF OwedIsPending, TypeOK
    <2>2. CASE o[1] \notin given
      BY <1>0, <1>1, <2>1, <2>2 DEF HasReceived
    <2>3. CASE o[1] \in given
      <3>1. o[3] # e[2]
        <4>1. ~(o[2] = e[1] /\ o[3] = e[2])
          BY <2>3 DEF Deliver
        <4>2. <<o[2], o[3]>>[2] = o[3] /\ <<o[2], o[3]>>[1] = o[2]
          OBVIOUS
        <4>3. o[3] = e[2] => <<o[2], o[3]>> = e
          BY <2>1, <4>2 DEF Ordered
        <4> QED BY <4>1, <4>2, <4>3
      <3> PICK s \in given : s = o[1]
        BY <2>3
      <3>2. ASSUME NEW i \in DOMAIN received'[s] PROVE received'[s][i] # o[3]
        <4>1. CASE i = Len(received[s]) + 1
          BY <1>3, <3>1, <4>1
        <4>2. CASE i # Len(received[s]) + 1
          <5>1. i \in 1 .. Len(received[s])
            BY <1>3, <4>2
          <5>2. i \in DOMAIN received[s] /\ received'[s][i] = received[s][i]
            BY <1>3, <5>1
          <5> QED BY <5>2, <2>1 DEF HasReceived
        <4> QED BY <4>1, <4>2
      <3>3. <<o[2], o[3]>> \in pending'
        BY <1>0, <2>1
      <3> QED BY <3>2, <3>3 DEF HasReceived
    <2> QED BY <2>2, <2>3
  <1> QED BY <1>2, <1>4, <1>5, <1>6

\* What is put aside was owed to nobody.
LEMMA PutAsideStep ==
    ASSUME IInv, NEW e \in pending, PutAside(e)
    PROVE  IInv'
  <1>1. /\ UNCHANGED <<status, owed, received, published>>
        /\ pending' = pending \ {e}
    BY DEF PutAside
  <1>2. \A o \in owed : <<o[2], o[3]>> # e
    BY DEF PutAside
  <1> QED BY <1>1, <1>2
          DEF IInv, TypeOK, Ordered, OnceInOrder, OwedIsPending, HasReceived

\* Every step of the bus keeps the invariant.
LEMMA NextIInv == IInv /\ [Next]_vars => IInv'
  <1> SUFFICES ASSUME IInv, [Next]_vars PROVE IInv'
    OBVIOUS
  <1>0. status \in [Subscribers -> [Channels -> Statuses]]
    BY DEF IInv, TypeOK
  <1>1. ASSUME NEW s \in Subscribers, NEW c \in Channels, StartSubscribing(s, c)
        PROVE  IInv'
    BY <1>0, <1>1, SubscriptionStep DEF StartSubscribing, Statuses
  <1>2. ASSUME NEW s \in Subscribers, NEW ending \in SUBSET Channels,
               StartEnding(s, ending)
        PROVE  IInv'
    BY <1>0, <1>2, SubscriptionStep DEF StartEnding, Statuses
  <1>3. ASSUME NEW s \in Subscribers, NEW settled \in [Channels -> Statuses],
               Settle(s, settled)
        PROVE  IInv'
    BY <1>0, <1>3, SubscriptionStep DEF Settle
  <1>4. ASSUME Fail PROVE IInv'
    BY <1>0, <1>4, SubscriptionStep DEF Fail, Statuses
  <1>5. ASSUME Shutdown PROVE IInv'
    BY <1>5 DEF Shutdown, IInv, TypeOK, Ordered, OnceInOrder, OwedIsPending,
                HasReceived
  <1>6. ASSUME UNCHANGED vars PROVE IInv'
    BY <1>0, <1>6, SubscriptionStep DEF vars
  <1> QED
    BY <1>1, <1>2, <1>3, <1>4, <1>5, <1>6, PublishStep, DeliverStep, PutAsideStep
    DEF Next

\* A subscriber gets every event at most once and in the order of publication
\* (MessageHandlerManager lists it once per channel, the worker walks one event at
\* a time), for any number of subscribers, channels and events.
THEOREM DeliveredOnceInOrder == Spec => []OnceInOrder
  <1>1. IInv => OnceInOrder
    BY DEF IInv
  <1> QED BY InitIInv, NextIInv, <1>1, PTL DEF Spec

\* No event is put aside, or given twice, while somebody is entitled to it: what a
\* subscriber is owed is still pending.
THEOREM NothingOwedIsLost == Spec => []OwedIsPending
  <1>1. IInv => OwedIsPending
    BY DEF IInv
  <1> QED BY InitIInv, NextIInv, <1>1, PTL DEF Spec
=============================================================================
