--------------------------- MODULE ResponsePromise ---------------------------
(***************************************************************************)
(* One request seen from the side that sent it: RequestSender::            *)
(* send_request makes the ResponsePromise, registers it with its           *)
(* TransactionInterface and sends the request; application threads await   *)
(* the promise or set a `then' callback; the subscriber worker brings the  *)
(* response; the promise is destroyed.                                     *)
(*                                                                         *)
(* m_timeout_mutex is used as a gate: it is locked at construction,        *)
(* on_response unlocks it and a reader that gets it before the deadline    *)
(* has an answer.  Nobody but the constructor and the readers locks it.    *)
(* The payload of a response is its number: several come when more than    *)
(* one handler answers the request.                                        *)
(*                                                                         *)
(* Faulty_ definitions are no part of the model: each is the definition    *)
(* that follows with a plausible bug.                                      *)
(***************************************************************************)
EXTENDS Naturals, FiniteSets

CONSTANTS
    Users,         \* application threads that use the promise
    Then,          \* m_then_thread
    MaxUses,       \* bound: calls of await and then
    MaxResponses   \* bound: responses that come for the request

ASSUME NamesAssumption == Then \notin Users
ASSUME BoundsAssumption == {MaxUses, MaxResponses} \subseteq Nat

VARIABLES
    life,             \* how far the promise is: made, registered, sent, ...
    registered,       \* m_on_response_callbacks has an entry for its id
    expired,          \* the clock has passed m_valid_until
    m_timeout_mutex,  \* TRUE while locked
    m_response,       \* 0 before on_response wrote it
    m_result_read, m_then_applied,
    then_thread,      \* "none", "joinable" or "joined"
    pc,               \* where each reader is, in await() or then()
    result,           \* what the last call of each reader gave
    worker,           \* where the subscriber worker is in the response lambda
    response,         \* the response it carries
    terminated,       \* std::terminate was called
    uses, responses   \* counters for the bounds

promise == <<m_timeout_mutex, m_response, m_result_read, m_then_applied>>
carried == <<worker, response, responses>>
reading == <<then_thread, pc, result, terminated, uses>>
vars == <<life, registered, expired, promise, carried, reading>>

Readers == Users \cup {Then}
Results == [kind : {"answer"}, message : 0 .. MaxResponses]
           \cup [kind : {"none", "timeout", "threw"}]

TypeOK ==
    /\ life \in {"made", "registered", "sent", "joining", "unregistering",
                 "destroyed"}
    /\ {registered, expired, m_timeout_mutex, m_result_read, m_then_applied,
        terminated} \subseteq BOOLEAN
    /\ m_response \in 0 .. MaxResponses
    /\ then_thread \in {"none", "joinable", "joined"}
    /\ pc \in [Readers -> {"idle", "await_read", "await_then", "gate", "answer",
                           "timeout", "copy", "callback", "then_read", "then_then",
                           "start"}]
    /\ \A u \in Users : pc[u] # "callback"
    /\ result \in [Readers -> Results]
    /\ worker \in {"idle", "deadline", "write", "unlock"}
    /\ response \in 0 .. MaxResponses
    /\ uses \in 0 .. MaxUses
    /\ responses \in 0 .. MaxResponses

\* ResponsePromise::ResponsePromise, in send_request: the gate is closed.
Faulty_GateAtFirst == FALSE
GateAtFirst == TRUE

Init ==
    /\ life = "made"
    /\ registered = FALSE
    /\ expired = FALSE
    /\ m_timeout_mutex = GateAtFirst
    /\ m_response = 0
    /\ m_result_read = FALSE /\ m_then_applied = FALSE
    /\ then_thread = "none"
    /\ pc = [r \in Readers |-> "idle"]
    /\ result = [r \in Readers |-> [kind |-> "none"]]
    /\ worker = "idle"
    /\ response = 0
    /\ terminated = FALSE
    /\ uses = 0 /\ responses = 0

\* m_on_response_callbacks_lock, which the response lambda holds throughout
RegistryFree == worker = "idle"

-----------------------------------------------------------------------------
(* RequestSender::send_request, and the clock.                             *)

Register ==
    /\ life = "made"
    /\ RegistryFree
    /\ life' = "registered"
    /\ registered' = TRUE
    /\ UNCHANGED <<expired, promise, carried, reading>>

Send ==
    /\ life = "registered"
    /\ life' = "sent"
    /\ UNCHANGED <<registered, expired, promise, carried, reading>>

Expire ==
    /\ ~expired
    /\ expired' = TRUE
    /\ UNCHANGED <<life, registered, promise, carried, reading>>

-----------------------------------------------------------------------------
(* The subscriber worker, in the lambda of TransactionInterface's          *)
(* constructor and in on_response.                                         *)

WorkerUnchanged == UNCHANGED <<life, registered, expired, reading>>

\* A response to a request that was sent; without an entry it is dropped.
ResponseArrives ==
    /\ life \notin {"made", "registered"}
    /\ worker = "idle"
    /\ responses < MaxResponses
    /\ responses' = responses + 1
    /\ IF registered THEN worker' = "deadline" /\ response' = responses + 1
                     ELSE UNCHANGED <<worker, response>>
    /\ UNCHANGED promise
    /\ WorkerUnchanged

CheckDeadline ==
    /\ worker = "deadline"
    /\ worker' = IF expired THEN "idle" ELSE "write"
    /\ UNCHANGED <<promise, response, responses>>
    /\ WorkerUnchanged

WriteResponse ==
    /\ worker = "write"
    /\ m_response' = response
    /\ worker' = "unlock"
    /\ UNCHANGED <<m_timeout_mutex, m_result_read, m_then_applied, response,
                   responses>>
    /\ WorkerUnchanged

\* A timed_mutex that is not locked, or locked by another thread, must not be
\* unlocked; the implementations leave it unlocked all the same.
Unlock ==
    /\ worker = "unlock"
    /\ m_timeout_mutex' = FALSE
    /\ worker' = "idle"
    /\ UNCHANGED <<m_response, m_result_read, m_then_applied, response, responses>>
    /\ WorkerUnchanged

-----------------------------------------------------------------------------
(* await(), by an application thread or by m_then_thread.                  *)

At(r, from, to) == pc[r] = from /\ pc' = [pc EXCEPT ![r] = to]
ReaderUnchanged == UNCHANGED <<life, registered, expired, carried>>

\* An exception of await or then: the caller has it, but m_then_thread has nobody
\* to catch it.
Throws(r) ==
    /\ result' = [result EXCEPT ![r] = [kind |-> "threw"]]
    /\ terminated' = (r = Then)

\* await() and then() are entered; the promise is not being destroyed.
Enter(u, first) ==
    /\ life = "sent"
    /\ uses < MaxUses
    /\ uses' = uses + 1
    /\ At(u, "idle", first)
    /\ UNCHANGED <<promise, then_thread, result, terminated>>
    /\ ReaderUnchanged

\* if (m_result_read) throw ResultAlreadyReadException
CheckResultRead(r, from, next) ==
    /\ At(r, from, IF m_result_read THEN "idle" ELSE next)
    /\ IF m_result_read THEN Throws(r) ELSE UNCHANGED <<result, terminated>>
    /\ UNCHANGED <<promise, then_thread, uses>>
    /\ ReaderUnchanged

\* if (m_then_applied) throw ThenAlreadyAppliedException
CheckThenApplied(r, from, next) ==
    /\ At(r, from, IF m_then_applied THEN "idle" ELSE next)
    /\ IF m_then_applied THEN Throws(r) ELSE UNCHANGED <<result, terminated>>
    /\ UNCHANGED <<promise, then_thread, uses>>
    /\ ReaderUnchanged

\* m_timeout_mutex.try_lock_until(m_valid_until): a free mutex is taken even
\* after the deadline.
TakeGate(r) ==
    /\ At(r, "gate", "answer")
    /\ ~m_timeout_mutex
    /\ m_timeout_mutex' = TRUE
    /\ UNCHANGED <<m_response, m_result_read, m_then_applied, then_thread, result,
                   terminated, uses>>
    /\ ReaderUnchanged

Faulty_TimeOut(r) == FALSE
Faulty_TimeOutFirst(r) ==
    /\ At(r, "gate", "timeout")
    /\ expired
    /\ UNCHANGED <<promise, then_thread, result, terminated, uses>>
    /\ ReaderUnchanged

TimeOut(r) ==
    /\ At(r, "gate", "timeout")
    /\ m_timeout_mutex
    /\ expired
    /\ UNCHANGED <<promise, then_thread, result, terminated, uses>>
    /\ ReaderUnchanged

\* m_then_thread passes the result to the callback.
AfterReading(r) == IF r = Then THEN "callback" ELSE "idle"

MarkAnswerRead(r) ==
    /\ At(r, "answer", "copy")
    /\ m_result_read' = TRUE
    /\ UNCHANGED <<m_timeout_mutex, m_response, m_then_applied, then_thread, result,
                   terminated, uses>>
    /\ ReaderUnchanged

\* return { Answer, m_response }
ReturnAnswer(r) ==
    /\ At(r, "copy", AfterReading(r))
    /\ result' = [result EXCEPT ![r] = [kind |-> "answer", message |-> m_response]]
    /\ UNCHANGED <<promise, then_thread, terminated, uses>>
    /\ ReaderUnchanged

ReturnTimeout(r) ==
    /\ At(r, "timeout", AfterReading(r))
    /\ m_result_read' = TRUE
    /\ result' = [result EXCEPT ![r] = [kind |-> "timeout"]]
    /\ UNCHANGED <<m_timeout_mutex, m_response, m_then_applied, then_thread,
                   terminated, uses>>
    /\ ReaderUnchanged

-----------------------------------------------------------------------------
(* then().                                                                 *)

\* m_then_thread = std::thread(...): assigning to a thread that is still joinable
\* calls std::terminate.
Faulty_StartThread(u) ==
    /\ pc[u] = "start"
    /\ then_thread' = "joinable"
    /\ IF then_thread = "none"
       THEN /\ pc' = [pc EXCEPT ![u] = "idle", ![Then] = "await_read"]
            /\ UNCHANGED terminated
       ELSE terminated' = TRUE /\ UNCHANGED pc
    /\ m_then_applied' = TRUE
    /\ UNCHANGED <<m_timeout_mutex, m_response, m_result_read, result, uses>>
    /\ ReaderUnchanged

StartThread(u) ==
    /\ pc[u] = "start"
    /\ then_thread' = "joinable"
    /\ IF then_thread = "none"
       THEN /\ pc' = [pc EXCEPT ![u] = "idle", ![Then] = "await_read"]
            /\ UNCHANGED terminated
       ELSE terminated' = TRUE /\ UNCHANGED pc
    /\ UNCHANGED <<promise, result, uses>>
    /\ ReaderUnchanged

\* m_then_thread calls p_callback and ends.
CallBack ==
    /\ At(Then, "callback", "idle")
    /\ UNCHANGED <<promise, then_thread, result, terminated, uses>>
    /\ ReaderUnchanged

-----------------------------------------------------------------------------
(* ~ResponsePromise().                                                     *)

DestructorUnchanged == UNCHANGED <<expired, promise, carried, pc, result,
                                   terminated, uses>>

Destroy ==
    /\ life = "sent"
    /\ \A u \in Users : pc[u] = "idle"
    /\ life' = "joining"
    /\ UNCHANGED <<registered, then_thread>>
    /\ DestructorUnchanged

\* if (m_then_thread.joinable()) m_then_thread.join()
Faulty_ThenThreadEnded == TRUE
ThenThreadEnded == pc[Then] = "idle"

JoinThread ==
    /\ life = "joining"
    /\ ThenThreadEnded
    /\ life' = "unregistering"
    /\ then_thread' = IF then_thread = "none" THEN "none" ELSE "joined"
    /\ UNCHANGED registered
    /\ DestructorUnchanged

\* m_response_promise_unregister_callback(), then the members are destroyed.
Faulty_Unregister ==
    /\ life = "unregistering"
    /\ life' = "destroyed"
    /\ registered' = FALSE
    /\ UNCHANGED then_thread
    /\ DestructorUnchanged

Unregister ==
    /\ life = "unregistering"
    /\ RegistryFree
    /\ life' = "destroyed"
    /\ registered' = FALSE
    /\ UNCHANGED then_thread
    /\ DestructorUnchanged

-----------------------------------------------------------------------------
WorkerStep == CheckDeadline \/ WriteResponse \/ Unlock

ReaderStep(r) ==
    \/ CheckResultRead(r, "await_read", "await_then")
    \/ CheckThenApplied(r, "await_then", "gate")
    \/ TakeGate(r) \/ TimeOut(r)
    \/ MarkAnswerRead(r) \/ ReturnAnswer(r) \/ ReturnTimeout(r)

UserStep(u) ==
    \/ ReaderStep(u)
    \/ CheckResultRead(u, "then_read", "then_then")
    \/ CheckThenApplied(u, "then_then", "start")
    \/ StartThread(u)

ThenStep == ReaderStep(Then) \/ CallBack
DestructorStep == JoinThread \/ Unregister

Over == terminated \/ (life = "destroyed" /\ worker = "idle" /\ responses = MaxResponses
                       /\ expired)
Finished == Over /\ UNCHANGED vars

Next ==
    \/ /\ ~terminated
       /\ \/ Register \/ Send \/ Expire
          \/ ResponseArrives
          \/ WorkerStep
          \/ \E u \in Users : UserStep(u) \/ Enter(u, "await_read") \/ Enter(u, "then_read")
          \/ ThenStep
          \/ Destroy \/ DestructorStep
    \/ Finished

\* The deadline passes, and threads that can take a step do.  No response, no use
\* and no destruction is promised.
Fairness ==
    /\ WF_vars(~terminated /\ Expire)
    /\ WF_vars(~terminated /\ WorkerStep)
    /\ WF_vars(~terminated /\ ThenStep)
    /\ WF_vars(~terminated /\ DestructorStep)
    /\ \A u \in Users : WF_vars(~terminated /\ UserStep(u))

Spec == Init /\ [][Next]_vars /\ Fairness

-----------------------------------------------------------------------------
(* Correctness.                                                            *)

\* An Answer always carries a response: the message is written before the gate is
\* opened, and a gate found open was opened by on_response.
AnswerHasMessage ==
    \A r \in Readers : result[r].kind = "answer" => result[r].message > 0

\* on_response never runs on a promise that is destroyed: the destructor takes the
\* entry out of m_on_response_callbacks, and waits there for a call that has begun.
NotCalledOnceDestroyed == life = "destroyed" => worker = "idle" /\ ~registered

\* No thread of the promise outlives it: m_then_thread has ended, and a promise
\* with a `then' is not destroyed before its callback had an outcome.
CallbackBeforeDestruction ==
    life \in {"unregistering", "destroyed"} =>
        /\ pc[Then] = "idle"
        /\ then_thread # "none" => result[Then].kind \in {"answer", "timeout"}

\* A promise used once, by await or by then, meets no exception, and nothing
\* terminates: then reaches the one call of await that its thread makes.
SingleUseIsSafe ==
    uses <= 1 =>
        /\ ~terminated
        /\ \A r \in Readers : result[r].kind # "threw"

\* A response that opened the gate is not lost to the deadline: the single reader
\* gets it even if it comes late, or was waiting when the deadline passed.
OpenGateAnswers ==
    \A r \in Readers :
        uses <= 1 /\ pc[r] = "gate" /\ ~m_timeout_mutex
            ~> result[r].kind = "answer" \/ uses > 1

\* Every await ends, by the deadline at the latest, and so does every then and the
\* destructor, though it waits for m_then_thread and for the registry's lock.
CallsEnd ==
    /\ \A r \in Readers : pc[r] # "idle" ~> pc[r] = "idle" \/ terminated
    /\ life = "joining" ~> life = "destroyed" \/ terminated

\* IResponsePromise.h: a second `then' on the promise is told by an exception
\* (ThenAlreadyAppliedException): it never goes on to start its thread.
SecondThenThrows == \A u \in Users : ~(pc[u] = "start" /\ then_thread # "none")
=============================================================================
