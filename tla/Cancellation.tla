---------------------------- MODULE Cancellation ----------------------------
(***************************************************************************)
(* The cancellation token: the operations that register a callback with it *)
(* (extraction queries on worker threads, the dbt process on the main      *)
(* thread) and those who cancel it: the disk monitor's thread, and the     *)
(* SIGINT handler, which Python runs on the main thread between any two of *)
(* its steps and which the main thread then has to wait for.               *)
(*                                                                         *)
(* The token's lock is not reentrant.  A second Ctrl-C finds the event set *)
(* and returns at once, so one handler call is enough.                     *)
(***************************************************************************)
EXTENDS Naturals, FiniteSets

CONSTANTS
    Worker,     \* threads that extract
    Dbt,        \* the main thread, which runs dbt after they have ended
    Handler,    \* the SIGINT handler
    Monitor     \* the disk monitor

Operation == Worker \cup {Dbt}
Canceller == {Handler, Monitor}

ASSUME CancellationAssumption ==
    /\ Dbt \notin Worker
    /\ Handler # Monitor

VARIABLES
    event,      \* the token's event
    callbacks,  \* the token's list: each operation registers one callback
    step,       \* per operation, where its thread is
    work,       \* the query or the process the callback is to stop
    calls,      \* how often the callback was called
    cancel,     \* per canceller, where it is in cancel()
    todo        \* the callbacks it still has to call

vars == <<event, callbacks, step, work, calls, cancel, todo>>

\* The steps of register and unregister that hold the lock.
Inside == {"held", "adding", "leaving"}
Locked == \E o \in Operation : step[o] \in Inside

TypeOK ==
    /\ event \in BOOLEAN
    /\ callbacks \subseteq Operation
    /\ step \in [Operation -> {"idle", "locking", "working", "unlocking", "ended"} \cup Inside]
    /\ work \in [Operation -> {"none", "submitted", "running", "stopping", "over"}]
    /\ calls \in [Operation -> Nat]
    /\ cancel \in [Canceller -> {"off", "entered", "set", "calling", "returned"}]
    /\ todo \in [Canceller -> SUBSET Operation]
    /\ \A c \in Canceller : cancel[c] # "calling" => todo[c] = {}

Init ==
    /\ event = FALSE
    /\ callbacks = {}
    /\ step = [o \in Operation |-> "idle"]
    /\ work = [o \in Operation |-> "none"]
    /\ calls = [o \in Operation |-> 0]
    /\ cancel = [c \in Canceller |-> "off"]
    /\ todo = [c \in Canceller |-> {}]

\* An operation's callback is in the token's list or in one that a canceller has taken.
Listed(o) == o \in callbacks \/ \E c \in Canceller : o \in todo[c]

\* While the handler runs, the main thread's own code does not.
Scheduled(o) == o = Dbt => cancel[Handler] \in {"off", "returned"}

Goto(o, from, to) ==
    /\ Scheduled(o)
    /\ step[o] = from
    /\ step' = [step EXCEPT ![o] = to]

-----------------------------------------------------------------------------
(* An operation's thread                                                   *)

\* A callback stops a running process, or a query whose id is known.
Called(o) ==
    /\ calls' = [calls EXCEPT ![o] = @ + 1]
    /\ work' = [work EXCEPT ![o] = IF @ = "running" THEN "stopping" ELSE @]

\* Popen comes before register; a query is executed only after it.
Start(o) ==
    /\ o = Dbt => \A w \in Worker : step[w] = "ended"
    /\ Goto(o, "idle", "locking")
    /\ work' = [work EXCEPT ![o] = IF o = Dbt THEN "running" ELSE @]
    /\ UNCHANGED <<event, callbacks, calls, cancel, todo>>

AcquireToRegister(o) ==
    /\ ~Locked
    /\ Goto(o, "locking", "held")
    /\ UNCHANGED <<event, callbacks, work, calls, cancel, todo>>

\* Faulty variant: register does not look at the event.
AskNothing(o) ==
    /\ Goto(o, "held", "adding")
    /\ UNCHANGED <<event, callbacks, work, calls, cancel, todo>>

\* register asks the token: cancelled already, it calls back at once.
Ask(o) ==
    /\ \/ event /\ Goto(o, "held", "working") /\ Called(o)
       \/ ~event /\ Goto(o, "held", "adding") /\ UNCHANGED <<work, calls>>
    /\ UNCHANGED <<event, callbacks, cancel, todo>>

Add(o) ==
    /\ Goto(o, "adding", "working")
    /\ callbacks' = callbacks \cup {o}
    /\ UNCHANGED <<event, work, calls, cancel, todo>>

\* The query is refused if the token is cancelled; its id is known only later.
Execute(o) ==
    /\ Scheduled(o)
    /\ step[o] = "working"
    /\ work[o] = "none"
    /\ work' = [work EXCEPT ![o] = IF event THEN "over" ELSE "submitted"]
    /\ UNCHANGED <<event, callbacks, step, calls, cancel, todo>>

LearnId(o) ==
    /\ work[o] = "submitted"
    /\ work' = [work EXCEPT ![o] = "running"]
    /\ UNCHANGED <<event, callbacks, step, calls, cancel, todo>>

\* It ends by itself, or as the callback asked it to.
WorkEnds(o) ==
    /\ work[o] \in {"submitted", "running", "stopping"}
    /\ work' = [work EXCEPT ![o] = "over"]
    /\ UNCHANGED <<event, callbacks, step, calls, cancel, todo>>

Return(o) ==
    /\ work[o] = "over"
    /\ Goto(o, "working", "unlocking")
    /\ UNCHANGED <<event, callbacks, work, calls, cancel, todo>>

AcquireToUnregister(o) ==
    /\ ~Locked
    /\ Goto(o, "unlocking", "leaving")
    /\ UNCHANGED <<event, callbacks, work, calls, cancel, todo>>

Remove(o) ==
    /\ Goto(o, "leaving", "ended")
    /\ callbacks' = callbacks \ {o}
    /\ UNCHANGED <<event, work, calls, cancel, todo>>

Thread(o) ==
    \/ AcquireToRegister(o) \/ Ask(o) \/ Add(o) \/ Execute(o)
    \/ Return(o) \/ AcquireToUnregister(o) \/ Remove(o)

-----------------------------------------------------------------------------
(* cancel()                                                                *)

Enter(c) ==
    /\ cancel[c] = "off"
    /\ cancel' = [cancel EXCEPT ![c] = IF event THEN "returned" ELSE "entered"]
    /\ UNCHANGED <<event, callbacks, step, work, calls, todo>>

SetEvent(c) ==
    /\ cancel[c] = "entered"
    /\ cancel' = [cancel EXCEPT ![c] = "set"]
    /\ event' = TRUE
    /\ UNCHANGED <<callbacks, step, work, calls, todo>>

\* Faulty variant: the list is not cleared.
TakeCopies(c) ==
    /\ cancel[c] = "set"
    /\ ~Locked
    /\ cancel' = [cancel EXCEPT ![c] = "calling"]
    /\ todo' = [todo EXCEPT ![c] = callbacks]
    /\ UNCHANGED <<event, callbacks, step, work, calls>>

\* The lock is held for this step only, so it needs no place in Inside.
Take(c) ==
    /\ cancel[c] = "set"
    /\ ~Locked
    /\ cancel' = [cancel EXCEPT ![c] = "calling"]
    /\ todo' = [todo EXCEPT ![c] = callbacks]
    /\ callbacks' = {}
    /\ UNCHANGED <<event, step, work, calls>>

Call(c, o) ==
    /\ cancel[c] = "calling"
    /\ o \in todo[c]
    /\ todo' = [todo EXCEPT ![c] = @ \ {o}]
    /\ Called(o)
    /\ UNCHANGED <<event, callbacks, step, cancel>>

\* Faulty variant: a callback that raises ends the loop.
FinishOnError(c) ==
    /\ cancel[c] = "calling"
    /\ cancel' = [cancel EXCEPT ![c] = "returned"]
    /\ UNCHANGED <<event, callbacks, step, work, calls, todo>>

\* An exception of a callback is dropped, so the loop ends with the last one.
Finish(c) ==
    /\ cancel[c] = "calling"
    /\ todo[c] = {}
    /\ cancel' = [cancel EXCEPT ![c] = "returned"]
    /\ UNCHANGED <<event, callbacks, step, work, calls, todo>>

Cancelling(c) == SetEvent(c) \/ Take(c) \/ Finish(c) \/ \E o \in Operation : Call(c, o)

Next ==
    \/ \E o \in Operation : Start(o) \/ Thread(o) \/ LearnId(o) \/ WorkEnds(o)
    \/ \E c \in Canceller : Enter(c) \/ Cancelling(c)

Spec == Init /\ [][Next]_vars

\* Threads run, and cancel() once entered; a query ends (statement timeout), and so does a
\* process that was told to (SIGKILL after two seconds). dbt need not end by itself.
FairSpec ==
    /\ Spec
    /\ \A o \in Operation : SF_vars(Thread(o))
    /\ \A c \in Canceller : SF_vars(Cancelling(c))
    /\ \A o \in Worker : WF_vars(WorkEnds(o))
    /\ WF_vars(work[Dbt] = "stopping" /\ WorkEnds(Dbt))

-----------------------------------------------------------------------------
(* Properties                                                              *)

Stuck == cancel[Handler] = "set" /\ step[Dbt] \in Inside

\* When all who cancel have returned, no operation at work has been forgotten: one that
\* registered too late for cancel() to see it has seen the event and called back itself.
NoneForgotten ==
    (event /\ \A c \in Canceller : cancel[c] \in {"off", "returned"}) =>
        \A o \in Operation : step[o] = "working" => calls[o] > 0

\* No callback is called twice, by two cancellers or by register and cancel.
CalledOnce == \A o \in Operation : calls[o] <= 1

\* Where an operation stands with the token. It counts as registered when it has asked: a
\* cancel() that comes before it is added to the list has to wait for the lock.
Standing(o) ==
    IF calls[o] > 0 THEN "stopped"
    ELSE IF step[o] = "adding" \/ Listed(o) THEN "owed"
    ELSE IF step[o] = "ended" THEN "gone" ELSE "outside"

\* Lock, list and event together keep the promise of Token: whoever registered is called or
\* withdraws by itself, and nobody is called who need not be, or twice.
Promise == INSTANCE Token WITH
               cancelled <- event, standing <- [o \in Operation |-> Standing(o)]
ImplementsToken == Promise!Spec

\* A cancelled run does not leave dbt running, unless the handler is stuck.
CancelStopsDbt == event /\ work[Dbt] = "running" ~> work[Dbt] = "over" \/ Stuck

\* Ctrl-C always gets through: the token is meant to be thread-safe, and cancel() returns.
HandlerReturns == cancel[Handler] = "entered" ~> cancel[Handler] = "returned"
=============================================================================
