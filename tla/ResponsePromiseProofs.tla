----------------------- MODULE ResponsePromiseProofs -----------------------
(***************************************************************************)
(* Theorems about ResponsePromise, for any application threads and any     *)
(* number of uses and responses.                                           *)
(***************************************************************************)
EXTENDS ResponsePromise, TLAPS

\* await and then look at the flags before anything else.
Checks(r) ==
    \/ CheckResultRead(r, "await_read", "await_then")
    \/ CheckThenApplied(r, "await_then", "gate")
    \/ r \in Users /\ CheckResultRead(r, "then_read", "then_then")
    \/ r \in Users /\ CheckThenApplied(r, "then_then", "start")

Reads(r) ==
    TakeGate(r) \/ TimeOut(r) \/ MarkAnswerRead(r) \/ ReturnAnswer(r) \/ ReturnTimeout(r)

Enters(u) == Enter(u, "await_read") \/ Enter(u, "then_read")

\* The steps of the system, by whose they are.
LEMMA Steps ==
    ASSUME [Next]_vars
    PROVE  \/ UNCHANGED vars
           \/ /\ ~terminated
              /\ \/ Register \/ Send \/ Expire
                 \/ ResponseArrives \/ CheckDeadline \/ WriteResponse \/ Unlock
                 \/ \E r \in Readers : Checks(r) \/ Reads(r)
                 \/ \E u \in Users : Enters(u) \/ StartThread(u)
                 \/ CallBack
                 \/ Destroy \/ JoinThread \/ Unregister
  BY DEF Next, Finished, WorkerStep, UserStep, ThenStep, ReaderStep, DestructorStep, Readers,
         Checks, Reads, Enters

-----------------------------------------------------------------------------
(* Types.                                                                  *)

LEMMA InitTypeOK == Init => TypeOK
  <1> SUFFICES ASSUME Init
               PROVE  TypeOK
    OBVIOUS
  <1>1. result \in [Readers -> Results] /\ m_timeout_mutex \in BOOLEAN
    BY DEF Init, GateAtFirst, Results
  <1>2. {registered, expired, m_result_read, m_then_applied, terminated} \subseteq BOOLEAN
    BY DEF Init
  <1>3. pc = [r \in Readers |-> "idle"] /\ \A u \in Users : pc[u] # "callback"
    BY DEF Init, Readers
  <1> QED BY <1>1, <1>2, <1>3, BoundsAssumption DEF Init, TypeOK

LEMMA NextTypeOK == TypeOK /\ [Next]_vars => TypeOK'
  <1> SUFFICES ASSUME TypeOK, [Next]_vars
               PROVE  TypeOK'
    OBVIOUS
  <1> USE BoundsAssumption, NamesAssumption
  <1>1. CASE UNCHANGED vars
    BY <1>1 DEF vars, promise, carried, reading, TypeOK
  <1>2. CASE Register \/ Send \/ Expire \/ Destroy \/ JoinThread \/ Unregister
    BY <1>2 DEF Register, Send, Expire, Destroy, JoinThread, Unregister, DestructorUnchanged,
                promise, carried, reading, TypeOK
  <1>3. ASSUME ResponseArrives \/ CheckDeadline \/ WriteResponse \/ Unlock
        PROVE  TypeOK'
    <2>1. /\ worker' \in {"idle", "deadline", "write", "unlock"}
          /\ {response', responses', m_response'} \subseteq 0 .. MaxResponses
      <3>1. CASE ResponseArrives
        BY <3>1 DEF ResponseArrives, TypeOK, promise
      <3>2. CASE CheckDeadline
        BY <3>2 DEF CheckDeadline, TypeOK, promise
      <3>3. CASE WriteResponse
        BY <3>3 DEF WriteResponse, TypeOK
      <3>4. CASE Unlock
        BY <3>4 DEF Unlock, TypeOK
      <3> QED BY <1>3, <3>1, <3>2, <3>3, <3>4
    <2>2. {m_timeout_mutex', m_result_read', m_then_applied'} \subseteq BOOLEAN
      BY <1>3 DEF ResponseArrives, CheckDeadline, WriteResponse, Unlock, promise, TypeOK
    <2>3. WorkerUnchanged
      BY <1>3 DEF ResponseArrives, CheckDeadline, WriteResponse, Unlock
    <2> QED BY <2>1, <2>2, <2>3 DEF WorkerUnchanged, reading, TypeOK
  <1>4. ASSUME NEW r \in Readers, Checks(r)
        PROVE  TypeOK'
    <2>1. /\ UNCHANGED <<promise, then_thread, uses>> /\ ReaderUnchanged
          /\ \E to \in {"idle", "await_then", "gate", "then_then", "start"} :
                pc' = [pc EXCEPT ![r] = to]
          /\ \/ UNCHANGED <<result, terminated>>
             \/ Throws(r)
      BY <1>4 DEF Checks, CheckResultRead, CheckThenApplied, At
    <2>2. result' \in [Readers -> Results]
      BY <2>1 DEF Throws, TypeOK, Results
    <2>3. terminated' \in BOOLEAN
      BY <2>1 DEF Throws, TypeOK
    <2> QED BY <2>1, <2>2, <2>3 DEF ReaderUnchanged, promise, carried, TypeOK, Readers
  <1>5. ASSUME NEW r \in Readers, Reads(r)
        PROVE  TypeOK'
    <2>1. /\ UNCHANGED <<m_response, m_then_applied, then_thread, terminated, uses>>
          /\ ReaderUnchanged
          /\ \E to \in {"idle", "answer", "timeout", "copy", "callback"} :
                pc' = [pc EXCEPT ![r] = to] /\ (to = "callback" => r = Then)
      BY <1>5 DEF Reads, TakeGate, TimeOut, MarkAnswerRead, ReturnAnswer, ReturnTimeout,
                  AfterReading, At, promise
    <2>2. result' \in [Readers -> Results]
      <3>1. CASE ReturnAnswer(r)
        BY <3>1 DEF ReturnAnswer, TypeOK, Results
      <3>2. CASE ReturnTimeout(r)
        BY <3>2 DEF ReturnTimeout, TypeOK, Results
      <3> QED BY <1>5, <3>1, <3>2 DEF Reads, TakeGate, TimeOut, MarkAnswerRead, TypeOK
    <2>3. {m_timeout_mutex', m_result_read'} \subseteq BOOLEAN
      BY <1>5 DEF Reads, TakeGate, TimeOut, MarkAnswerRead, ReturnAnswer, ReturnTimeout,
                  promise, TypeOK
    <2> QED BY <2>1, <2>2, <2>3 DEF ReaderUnchanged, carried, TypeOK, Readers
  <1>6. ASSUME NEW u \in Users, Enters(u) \/ StartThread(u)
        PROVE  TypeOK'
    <2>1. /\ UNCHANGED <<promise, result>> /\ ReaderUnchanged
          /\ then_thread' \in {then_thread, "joinable"}
          /\ terminated' = terminated \/ terminated' = TRUE
      BY <1>6 DEF Enters, Enter, StartThread
    <2>3. uses' \in 0 .. MaxUses
      <3>1. uses' = uses \/ (uses < MaxUses /\ uses' = uses + 1)
        BY <1>6 DEF Enters, Enter, StartThread
      <3> QED BY <3>1 DEF TypeOK
    <2>2. /\ pc' \in [Readers -> {"idle", "await_read", "await_then", "gate", "answer",
                                 "timeout", "copy", "callback", "then_read", "then_then",
                                 "start"}]
          /\ \A v \in Users : pc'[v] # "callback"
      BY <1>6 DEF Enters, Enter, StartThread, At, TypeOK, Readers
    <2> QED BY <2>1, <2>2, <2>3 DEF ReaderUnchanged, promise, carried, TypeOK
  <1>7. CASE CallBack
    BY <1>7 DEF CallBack, At, ReaderUnchanged, promise, carried, TypeOK, Readers
  <1> QED BY <1>1, <1>2, <1>3, <1>4, <1>5, <1>6, <1>7, Steps

\* Every variable of the promise keeps its type, and only m_then_thread is ever in a
\* callback (ResponsePromise.cpp).
THEOREM TypeCorrect == Spec => []TypeOK
  <1> QED BY InitTypeOK, NextTypeOK, PTL DEF Spec

-----------------------------------------------------------------------------
(* The registry and the worker.                                            *)

\* The promise has its entry from send_request to the end of its destructor, and the
\* worker is only in the lambda while it has one.
Registered ==
    /\ registered <=> life \notin {"made", "destroyed"}
    /\ worker # "idle" => registered

LEMMA NextRegistered ==
    ASSUME Registered, [Next]_vars
    PROVE  Registered'
  <1>1. CASE UNCHANGED <<life, registered, worker>>
    BY <1>1 DEF Registered
  <1>2. CASE \/ Register \/ Send \/ Destroy \/ JoinThread \/ Unregister
    BY <1>2 DEF Register, Send, Destroy, JoinThread, Unregister, DestructorUnchanged, RegistryFree,
                carried, Registered
  <1>3. CASE ResponseArrives \/ CheckDeadline \/ WriteResponse \/ Unlock
    BY <1>3 DEF ResponseArrives, CheckDeadline, WriteResponse, Unlock, WorkerUnchanged, Registered
  <1>4. CASE Expire \/ CallBack \/ \E u \in Users : Enters(u) \/ StartThread(u)
    BY <1>4, <1>1 DEF Expire, CallBack, Enters, Enter, StartThread, ReaderUnchanged, carried
  <1>5. CASE \E r \in Readers : Checks(r) \/ Reads(r)
    BY <1>5, <1>1 DEF Checks, CheckResultRead, CheckThenApplied, Reads, TakeGate, TimeOut,
                      MarkAnswerRead, ReturnAnswer, ReturnTimeout, ReaderUnchanged, carried
  <1> QED BY <1>1, <1>2, <1>3, <1>4, <1>5, Steps DEF vars, carried

\* The destructor takes the promise out of the registry under the lock that the response
\* lambda holds, so no call of on_response is or comes in a destroyed promise
\* (ResponsePromise.cpp:18, TransactionInterface.cpp:44-47 and 70).
THEOREM DestroyedIsNotCalled == Spec => []NotCalledOnceDestroyed
  <1>1. Init => Registered
    BY DEF Init, Registered
  <1>2. Registered => NotCalledOnceDestroyed
    BY DEF Registered, NotCalledOnceDestroyed
  <1> QED BY <1>1, <1>2, NextRegistered, PTL DEF Spec

-----------------------------------------------------------------------------
(* The gate and the message.                                               *)

\* An open gate, a reader behind it and a worker about to open it: in each case the
\* response is there.
Written ==
    /\ ~m_timeout_mutex => m_response > 0
    /\ worker # "idle" => response > 0
    /\ worker = "unlock" => m_response > 0
    /\ \A r \in Readers : pc[r] \in {"answer", "copy"} => m_response > 0

AnswerInv == TypeOK /\ Written /\ AnswerHasMessage

LEMMA NextAnswerInv ==
    ASSUME AnswerInv, [Next]_vars
    PROVE  AnswerInv'
  <1> USE BoundsAssumption
  <1>1. TypeOK'
    BY NextTypeOK DEF AnswerInv
  <1>2. CASE UNCHANGED <<m_timeout_mutex, m_response, worker, response, pc, result>>
    BY <1>1, <1>2 DEF AnswerInv, Written, AnswerHasMessage
  <1>3. ASSUME ResponseArrives \/ CheckDeadline \/ WriteResponse \/ Unlock
        PROVE  AnswerInv'
    <2>1. UNCHANGED <<pc, result>>
      BY <1>3 DEF ResponseArrives, CheckDeadline, WriteResponse, Unlock, WorkerUnchanged, reading
    <2>2. AnswerHasMessage'
      BY <2>1 DEF AnswerInv, AnswerHasMessage
    <2>3. ASSUME ResponseArrives
          PROVE  Written'
      BY <2>1, <2>3 DEF ResponseArrives, promise, AnswerInv, TypeOK, Written
    <2>4. ASSUME CheckDeadline
          PROVE  Written'
      BY <2>1, <2>4 DEF CheckDeadline, promise, AnswerInv, Written
    <2>5. ASSUME WriteResponse
          PROVE  Written'
      BY <2>1, <2>5 DEF WriteResponse, AnswerInv, Written
    <2>6. ASSUME Unlock
          PROVE  Written'
      BY <2>1, <2>6 DEF Unlock, AnswerInv, Written
    <2> QED BY <1>1, <1>3, <2>2, <2>3, <2>4, <2>5, <2>6 DEF AnswerInv
  <1>4. ASSUME NEW r \in Readers, Checks(r)
        PROVE  AnswerInv'
    <2>1. /\ UNCHANGED <<m_timeout_mutex, m_response, worker, response>>
          /\ \E to \in {"idle", "await_then", "gate", "then_then", "start"} :
                pc' = [pc EXCEPT ![r] = to]
          /\ UNCHANGED result \/ result' = [result EXCEPT ![r] = [kind |-> "threw"]]
      BY <1>4 DEF Checks, CheckResultRead, CheckThenApplied, At, Throws, promise, ReaderUnchanged,
                  carried
    <2>2. Written'
      BY <2>1 DEF AnswerInv, TypeOK, Written
    <2>3. AnswerHasMessage'
      BY <2>1 DEF AnswerInv, TypeOK, AnswerHasMessage
    <2> QED BY <1>1, <2>2, <2>3 DEF AnswerInv
  <1>5. ASSUME NEW r \in Readers, Reads(r)
        PROVE  AnswerInv'
    <2>1. UNCHANGED <<m_response, worker, response>>
      BY <1>5 DEF Reads, TakeGate, TimeOut, MarkAnswerRead, ReturnAnswer, ReturnTimeout, promise,
                  ReaderUnchanged, carried
    <2>2. Written'
      <3>1. CASE TakeGate(r)
        BY <2>1, <3>1 DEF TakeGate, At, AnswerInv, TypeOK, Written
      <3>2. CASE TimeOut(r) \/ MarkAnswerRead(r) \/ ReturnAnswer(r) \/ ReturnTimeout(r)
        BY <2>1, <3>2 DEF TimeOut, MarkAnswerRead, ReturnAnswer, ReturnTimeout, AfterReading, At,
                          promise, AnswerInv, TypeOK, Written
      <3> QED BY <1>5, <3>1, <3>2 DEF Reads
    <2>3. AnswerHasMessage'
      <3>1. CASE ReturnAnswer(r)
        BY <3>1 DEF ReturnAnswer, At, AnswerInv, TypeOK, Written, AnswerHasMessage
      <3>2. CASE ReturnTimeout(r)
        BY <3>2 DEF ReturnTimeout, AnswerInv, TypeOK, AnswerHasMessage
      <3>3. CASE TakeGate(r) \/ TimeOut(r) \/ MarkAnswerRead(r)
        BY <3>3 DEF TakeGate, TimeOut, MarkAnswerRead, AnswerInv, AnswerHasMessage
      <3> QED BY <1>5, <3>1, <3>2, <3>3 DEF Reads
    <2> QED BY <1>1, <2>2, <2>3 DEF AnswerInv
  <1>6. ASSUME CallBack \/ \E u \in Users : Enters(u) \/ StartThread(u)
        PROVE  AnswerInv'
    <2>1. UNCHANGED <<m_timeout_mutex, m_response, worker, response, result>>
      BY <1>6 DEF CallBack, Enters, Enter, StartThread, promise, ReaderUnchanged, carried
    <2>2. \A r \in Readers : pc'[r] \in {pc[r], "idle", "await_read", "then_read"}
      BY <1>6 DEF CallBack, Enters, Enter, StartThread, At, AnswerInv, TypeOK
    <2> QED BY <1>1, <2>1, <2>2 DEF AnswerInv, Written, AnswerHasMessage
  <1>7. CASE Register \/ Send \/ Expire \/ Destroy \/ JoinThread \/ Unregister
    BY <1>2, <1>7 DEF Register, Send, Expire, Destroy, JoinThread, Unregister,
                      DestructorUnchanged, promise, carried, reading
  <1> QED BY <1>2, <1>3, <1>4, <1>5, <1>6, <1>7, Steps DEF vars, promise, carried, reading

\* However many responses come and readers meet, an Answer is never empty: it was written
\* before the gate that is closed at first was opened (ResponsePromise.cpp:10, 29-31, 56-57).
THEOREM AnswersHaveMessages == Spec => []AnswerHasMessage
  <1>1. Init => Written /\ AnswerHasMessage
    BY DEF Init, GateAtFirst, Written, AnswerHasMessage
  <1>2. AnswerInv => AnswerHasMessage
    BY DEF AnswerInv
  <1>3. Init => TypeOK
    BY InitTypeOK
  <1> QED BY <1>1, <1>2, <1>3, NextAnswerInv, PTL DEF Spec, AnswerInv

-----------------------------------------------------------------------------
(* m_then_thread and the destructor.                                       *)

Leaving == {"joining", "unregistering", "destroyed"}
Outcomes == {"answer", "timeout"}

\* There is something in the thread only once it was started; when it is past await it has
\* an outcome, or has ended the process; nobody else uses a promise that is being destroyed;
\* and the destructor gets past the join only in a process that goes on.
ThenInv ==
    /\ TypeOK
    /\ then_thread = "none" => pc[Then] = "idle"
    /\ then_thread # "none" /\ pc[Then] \in {"idle", "callback"} =>
          (terminated = TRUE) \/ result[Then].kind \in Outcomes
    /\ life \in Leaving => \A u \in Users : pc[u] = "idle"
    /\ life \in {"unregistering", "destroyed"} => pc[Then] = "idle" /\ terminated = FALSE

LEMMA NextThenInv ==
    ASSUME ThenInv, [Next]_vars
    PROVE  ThenInv'
  <1> USE NamesAssumption
  <1>1. TypeOK'
    BY NextTypeOK DEF ThenInv
  <1>2. CASE UNCHANGED <<then_thread, pc, terminated, result, life>>
    BY <1>1, <1>2 DEF ThenInv
  <1>3. CASE Register \/ Send \/ Expire \/ ResponseArrives \/ CheckDeadline \/ WriteResponse \/ Unlock
    <2>1. UNCHANGED <<then_thread, pc, terminated, result>>
      BY <1>3 DEF Register, Send, Expire, ResponseArrives, CheckDeadline, WriteResponse, Unlock,
                  WorkerUnchanged, reading
    <2>2. life' = life \/ life' \in {"registered", "sent"}
      BY <1>3 DEF Register, Send, Expire, ResponseArrives, CheckDeadline, WriteResponse, Unlock,
                  WorkerUnchanged
    <2> QED BY <1>1, <2>1, <2>2 DEF ThenInv, Leaving
  <1>4. ASSUME NEW r \in Readers, Checks(r), terminated = FALSE
        PROVE  ThenInv'
    <2>1. /\ UNCHANGED <<then_thread, life>>
          /\ pc[r] # "idle"
          /\ \/ /\ UNCHANGED <<result, terminated>>
                /\ \E to \in {"await_then", "gate", "then_then", "start"} :
                      pc' = [pc EXCEPT ![r] = to]
             \/ /\ Throws(r)
                /\ pc' = [pc EXCEPT ![r] = "idle"]
      BY <1>4 DEF Checks, CheckResultRead, CheckThenApplied, At, ReaderUnchanged
    <2>2. life \in Leaving => r = Then
      BY <2>1 DEF ThenInv, Readers
    <2>3. CASE UNCHANGED <<result, terminated>>
               /\ \E to \in {"await_then", "gate", "then_then", "start"} :
                      pc' = [pc EXCEPT ![r] = to]
      BY <1>1, <1>4, <2>1, <2>2, <2>3 DEF ThenInv, TypeOK, Leaving, Readers
    <2>4. CASE Throws(r) /\ pc' = [pc EXCEPT ![r] = "idle"]
      <3>1. CASE r = Then
        <4>1. terminated' = TRUE
          BY <2>4, <3>1 DEF Throws
        <4>2. life \notin {"unregistering", "destroyed"}
          BY <2>1, <3>1 DEF ThenInv
        <4>3. then_thread # "none" /\ pc'[Then] = "idle"
          BY <2>1, <2>4, <3>1 DEF ThenInv, TypeOK
        <4>4. \A u \in Users : pc'[u] = pc[u]
          BY <2>4, <3>1 DEF TypeOK, ThenInv
        <4> QED BY <1>1, <2>1, <4>1, <4>2, <4>3, <4>4 DEF ThenInv
      <3>2. CASE r # Then
        <4>1. terminated' = FALSE
          BY <2>4, <3>2 DEF Throws
        <4>2. pc'[Then] = pc[Then] /\ result'[Then] = result[Then]
          BY <2>4, <3>2 DEF Throws, ThenInv, TypeOK, Readers
        <4>3. life \notin Leaving
          BY <2>2, <3>2
        <4> QED BY <1>1, <1>4, <2>1, <4>1, <4>2, <4>3 DEF ThenInv, Leaving
      <3> QED BY <3>1, <3>2
    <2> QED BY <2>1, <2>3, <2>4
  <1>5. ASSUME NEW r \in Readers, Reads(r)
        PROVE  ThenInv'
    <2>1. /\ UNCHANGED <<then_thread, life, terminated>>
          /\ pc[r] # "idle"
          /\ \E to \in {"idle", "answer", "timeout", "copy", "callback"} :
                pc' = [pc EXCEPT ![r] = to]
      BY <1>5 DEF Reads, TakeGate, TimeOut, MarkAnswerRead, ReturnAnswer, ReturnTimeout,
                  AfterReading, At, ReaderUnchanged
    <2>2. life \in Leaving => r = Then
      BY <2>1 DEF ThenInv, Readers
    <2>3. r # Then => pc'[Then] = pc[Then] /\ result'[Then] = result[Then]
      BY <1>5, <2>1 DEF Reads, TakeGate, TimeOut, MarkAnswerRead, ReturnAnswer, ReturnTimeout,
                        ThenInv, TypeOK, Readers
    <2>4. r = Then => then_thread # "none" /\ \A u \in Users : pc'[u] = pc[u]
      BY <2>1 DEF ThenInv, TypeOK
    <2>5. r = Then => \/ pc'[Then] \in {"answer", "timeout", "copy"}
                      \/ pc'[Then] = "callback" /\ result'[Then].kind \in Outcomes
      <3>1. CASE TakeGate(r) \/ TimeOut(r) \/ MarkAnswerRead(r)
        BY <3>1 DEF TakeGate, TimeOut, MarkAnswerRead, At, ThenInv, TypeOK
      <3>2. CASE ReturnAnswer(r)
        BY <3>2 DEF ReturnAnswer, AfterReading, At, ThenInv, TypeOK, Outcomes
      <3>3. CASE ReturnTimeout(r)
        BY <3>3 DEF ReturnTimeout, AfterReading, At, ThenInv, TypeOK, Outcomes
      <3> QED BY <1>5, <3>1, <3>2, <3>3 DEF Reads
    <2>6. r = Then => life \notin {"unregistering", "destroyed"}
      BY <2>1 DEF ThenInv
    <2>7. CASE r = Then
      BY <1>1, <2>1, <2>4, <2>5, <2>6, <2>7 DEF ThenInv
    <2>8. CASE r # Then
      BY <1>1, <2>1, <2>2, <2>3, <2>8 DEF ThenInv, Leaving
    <2> QED BY <2>7, <2>8
  <1>6. ASSUME NEW u \in Users, Enters(u)
        PROVE  ThenInv'
    <2>1. /\ life = "sent" /\ UNCHANGED <<then_thread, life, terminated, result>>
          /\ \E to : pc' = [pc EXCEPT ![u] = to]
      BY <1>6 DEF Enters, Enter, At, ReaderUnchanged
    <2>2. pc'[Then] = pc[Then]
      BY <2>1 DEF ThenInv, TypeOK, Readers
    <2> QED BY <1>1, <2>1, <2>2 DEF ThenInv, Leaving
  <1>7. ASSUME NEW u \in Users, StartThread(u), terminated = FALSE
        PROVE  ThenInv'
    <2>1. /\ pc[u] = "start" /\ then_thread' = "joinable" /\ UNCHANGED <<life, result>>
          /\ \/ /\ terminated' = terminated
                /\ pc' = [pc EXCEPT ![u] = "idle", ![Then] = "await_read"]
             \/ terminated' = TRUE /\ pc' = pc
      BY <1>7 DEF StartThread, ReaderUnchanged
    <2>2. life \notin Leaving
      BY <2>1 DEF ThenInv
    <2>3. CASE pc' = [pc EXCEPT ![u] = "idle", ![Then] = "await_read"]
      <3>1. pc'[Then] = "await_read"
        BY <2>3 DEF ThenInv, TypeOK, Readers
      <3> QED BY <1>1, <2>1, <2>2, <3>1 DEF ThenInv, Leaving
    <2>4. CASE terminated' = TRUE /\ pc' = pc
      BY <1>1, <2>1, <2>2, <2>4 DEF ThenInv, Leaving
    <2> QED BY <2>1, <2>3, <2>4
  <1>8. CASE CallBack
    <2>1. /\ pc[Then] = "callback" /\ pc' = [pc EXCEPT ![Then] = "idle"]
          /\ UNCHANGED <<then_thread, life, terminated, result>>
      BY <1>8 DEF CallBack, At, ReaderUnchanged
    <2> QED BY <1>1, <2>1 DEF ThenInv, TypeOK, Readers
  <1>9. ASSUME Destroy \/ JoinThread \/ Unregister, terminated = FALSE
        PROVE  ThenInv'
    <2>1. UNCHANGED <<pc, terminated, result>>
      BY <1>9 DEF Destroy, JoinThread, Unregister, DestructorUnchanged
    <2>2. then_thread' = "none" <=> then_thread = "none"
      BY <1>9 DEF Destroy, JoinThread, Unregister
    <2>3. /\ life' \in Leaving => \A u \in Users : pc[u] = "idle"
          /\ life' \in {"unregistering", "destroyed"} => pc[Then] = "idle"
      BY <1>9 DEF Destroy, JoinThread, ThenThreadEnded, Unregister, ThenInv, Leaving
    <2> QED BY <1>1, <1>9, <2>1, <2>2, <2>3 DEF ThenInv
  <1>10. terminated = FALSE \/ UNCHANGED vars
    BY Steps DEF ThenInv, TypeOK
  <1> QED BY <1>2, <1>3, <1>4, <1>5, <1>6, <1>7, <1>8, <1>9, <1>10, Steps DEF vars, reading

\* The promise is not destroyed before the thread of its then has ended with an answer or a
\* timeout (ResponsePromise.cpp:15-17, 45-48).
THEOREM CallbackComesFirst == Spec => []CallbackBeforeDestruction
  <1>1. Init => ThenInv
    BY InitTypeOK DEF Init, ThenInv, Leaving, Readers
  <1>2. ThenInv => CallbackBeforeDestruction
    BY DEF ThenInv, CallbackBeforeDestruction, Outcomes
  <1> QED BY <1>1, <1>2, NextThenInv, PTL DEF Spec

-----------------------------------------------------------------------------
(* A promise that is used once.                                            *)

\* One use has at most one thread in the promise, which has found nothing read and no
\* earlier then before it reads.
SingleInv ==
    /\ TypeOK
    /\ m_then_applied = FALSE
    /\ uses <= 1 =>
          /\ terminated = FALSE
          /\ \A r \in Readers : result[r].kind # "threw"
          /\ \A r, q \in Readers : r # q => pc[r] = "idle" \/ pc[q] = "idle"
          /\ \A r \in Readers : pc[r] \in {"await_read", "then_read"} => m_result_read = FALSE
          /\ \A u \in Users : pc[u] \in {"then_read", "then_then", "start"} =>
                then_thread = "none" /\ m_result_read = FALSE
          /\ uses = 0 => /\ \A r \in Readers : pc[r] = "idle"
                         /\ m_result_read = FALSE /\ then_thread = "none"

LEMMA NextSingleInv ==
    ASSUME SingleInv, [Next]_vars
    PROVE  SingleInv'
  <1> USE NamesAssumption
  <1>1. TypeOK'
    BY NextTypeOK DEF SingleInv
  <1>2. CASE UNCHANGED <<m_then_applied, m_result_read, reading>>
    BY <1>1, <1>2 DEF SingleInv, reading
  <1>3. CASE Register \/ Send \/ Expire \/ ResponseArrives \/ CheckDeadline \/ WriteResponse
             \/ Unlock
    BY <1>2, <1>3 DEF Register, Send, Expire, ResponseArrives, CheckDeadline, WriteResponse,
                      Unlock, WorkerUnchanged, promise
  <1>4. ASSUME NEW r \in Readers, Checks(r)
        PROVE  SingleInv'
    <2>1. UNCHANGED <<m_then_applied, m_result_read, then_thread, uses>> /\ pc[r] # "idle"
      BY <1>4 DEF Checks, CheckResultRead, CheckThenApplied, At, promise
    <2>2. ASSUME uses <= 1
          PROVE  /\ UNCHANGED <<result, terminated>>
                 /\ \/ r \in Users /\ pc[r] \in {"then_read", "then_then"}
                       /\ pc' \in {[pc EXCEPT ![r] = "then_then"], [pc EXCEPT ![r] = "start"]}
                    \/ pc' \in {[pc EXCEPT ![r] = "await_then"], [pc EXCEPT ![r] = "gate"]}
      BY <1>4, <2>2 DEF Checks, CheckResultRead, CheckThenApplied, At, SingleInv
    <2> QED BY <1>1, <2>1, <2>2 DEF SingleInv, TypeOK, Readers
  <1>5. ASSUME NEW r \in Readers, Reads(r)
        PROVE  SingleInv'
    <2>1. /\ UNCHANGED <<m_then_applied, then_thread, uses, terminated>>
          /\ pc[r] # "idle"
          /\ \E to \in {"idle", "answer", "timeout", "copy", "callback"} :
                pc' = [pc EXCEPT ![r] = to]
      BY <1>5 DEF Reads, TakeGate, TimeOut, MarkAnswerRead, ReturnAnswer, ReturnTimeout,
                  AfterReading, At, promise
    <2>2. (\A q \in Readers : result[q].kind # "threw")
             => \A q \in Readers : result'[q].kind # "threw"
      BY <1>5 DEF Reads, TakeGate, TimeOut, MarkAnswerRead, ReturnAnswer, ReturnTimeout,
                  SingleInv, TypeOK
    <2>3. uses <= 1 => \A q \in Readers : q # r => pc'[q] = "idle"
      BY <2>1 DEF SingleInv, TypeOK
    <2>4. pc'[r] \notin {"await_read", "then_read", "then_then", "start"}
      BY <2>1 DEF SingleInv, TypeOK
    <2>5. uses # 0
      BY <2>1 DEF SingleInv
    <2> QED BY <1>1, <2>1, <2>2, <2>3, <2>4, <2>5 DEF SingleInv, Readers
  <1>6. ASSUME NEW u \in Users, Enters(u)
        PROVE  SingleInv'
    <2>1. /\ uses' = uses + 1 /\ uses \in Nat
          /\ UNCHANGED <<m_then_applied, m_result_read, then_thread, result, terminated>>
          /\ pc' \in {[pc EXCEPT ![u] = "await_read"], [pc EXCEPT ![u] = "then_read"]}
      BY <1>6, BoundsAssumption DEF Enters, Enter, At, promise, SingleInv, TypeOK
    <2>2. uses' <= 1 => uses = 0
      BY <2>1
    <2> QED BY <1>1, <2>1, <2>2 DEF SingleInv, TypeOK, Readers
  <1>7. ASSUME NEW u \in Users, StartThread(u)
        PROVE  SingleInv'
    <2>1. /\ pc[u] = "start" /\ UNCHANGED <<m_then_applied, m_result_read, result, uses>>
          /\ then_thread = "none" =>
                /\ terminated' = terminated
                /\ pc' = [pc EXCEPT ![u] = "idle", ![Then] = "await_read"]
      BY <1>7 DEF StartThread, promise
    <2>2. ASSUME uses <= 1
          PROVE  /\ terminated' = FALSE /\ m_result_read' = FALSE /\ uses' # 0
                 /\ \A q \in Readers : pc'[q] = IF q = Then THEN "await_read" ELSE "idle"
      BY <2>1, <2>2 DEF SingleInv, TypeOK, Readers
    <2> QED BY <1>1, <2>1, <2>2 DEF SingleInv, Readers
  <1>8. CASE CallBack
    <2>1. /\ pc[Then] = "callback" /\ pc' = [pc EXCEPT ![Then] = "idle"]
          /\ UNCHANGED <<m_then_applied, m_result_read, then_thread, result, terminated, uses>>
      BY <1>8 DEF CallBack, At, promise
    <2> QED BY <1>1, <2>1 DEF SingleInv, TypeOK, Readers
  <1>9. ASSUME Destroy \/ JoinThread \/ Unregister
        PROVE  SingleInv'
    <2>1. UNCHANGED <<m_then_applied, m_result_read, pc, result, terminated, uses>>
      BY <1>9 DEF Destroy, JoinThread, Unregister, DestructorUnchanged, promise
    <2>2. then_thread = "none" => then_thread' = "none"
      BY <1>9 DEF Destroy, JoinThread, Unregister
    <2> QED BY <1>1, <2>1, <2>2 DEF SingleInv
  <1> QED BY <1>2, <1>3, <1>4, <1>5, <1>6, <1>7, <1>8, <1>9, Steps DEF vars, promise, reading

\* Whoever uses a promise once, by await or by then, meets no exception, and the process
\* goes on: the flags that later uses run into are not set by the use itself before it has
\* looked at them (ResponsePromise.cpp:23-33, 39-48).
THEOREM OneUseIsSafe == Spec => []SingleUseIsSafe
  <1>1. Init => SingleInv
    BY InitTypeOK DEF Init, SingleInv, Readers
  <1>2. SingleInv => SingleUseIsSafe
    BY DEF SingleInv, SingleUseIsSafe
  <1> QED BY <1>1, <1>2, NextSingleInv, PTL DEF Spec
=============================================================================
