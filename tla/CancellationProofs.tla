------------------------ MODULE CancellationProofs ------------------------
(***************************************************************************)
(* The token keeps the promise of Token: no callback is lost, and none is  *)
(* called twice or without need, for any number of extraction threads.     *)
(***************************************************************************)
EXTENDS Cancellation, TLAPS

USE CancellationAssumption DEF Operation, Canceller

\* Where a callback may be: before its operation has registered, nowhere.
Registered(o) == step[o] \in {"working", "unlocking", "leaving", "ended"}

\* A callback is in the token's list or in one canceller's, not yet called, ...
ListedOnce ==
    /\ \A o \in Operation : Listed(o) => Registered(o) /\ calls[o] = 0
    /\ \A o \in Operation, c \in Canceller : o \in todo[c] => o \notin callbacks
    /\ \A c, d \in Canceller : c # d => todo[c] \cap todo[d] = {}

\* ... or it has been called, once, from when its operation is at work
\* until it has unregistered.
ListedOrCalled ==
    \A o \in Operation :
        /\ calls[o] \in {0, 1}
        /\ ~Registered(o) => calls[o] = 0
        /\ step[o] \in {"working", "unlocking", "leaving"} => Listed(o) \/ calls[o] = 1

\* Whoever set the event is still to take the list, as long as the list is not empty or
\* about to grow.
TakerPending ==
    event =>
        \A o \in Operation :
            (o \in callbacks \/ step[o] = "adding") =>
                \E c \in Canceller : cancel[c] = "set"

Inv == TypeOK /\ ListedOnce /\ ListedOrCalled /\ TakerPending

\* Initially nothing is registered.
LEMMA InitInv == Init => Inv
<1> SUFFICES ASSUME Init PROVE Inv
  OBVIOUS
<1>1. TypeOK
  BY DEF Init, TypeOK, Inside
<1>2. \A o \in Operation : ~Listed(o) /\ ~Registered(o) /\ calls[o] = 0
  BY DEF Init, Listed, Registered
<1>3. ListedOnce
  BY <1>2 DEF Init, ListedOnce
<1>4. ListedOrCalled
  BY <1>2 DEF ListedOrCalled, Registered
<1>5. TakerPending
  BY DEF Init, TakerPending
<1> QED
  BY <1>1, <1>3, <1>4, <1>5 DEF Inv

USE DEF TypeOK, Inside

\* The steps of an operation's own thread.
LEMMA ThreadInv == ASSUME Inv, NEW o \in Operation, Start(o) \/ Thread(o) PROVE Inv'
<1> USE DEF Inv
<1>1. CASE Start(o)
  BY <1>1 DEF Start, Goto, ListedOnce, ListedOrCalled, TakerPending, Listed, Registered
<1>2. CASE AcquireToRegister(o)
  BY <1>2 DEF AcquireToRegister, Goto, ListedOnce, ListedOrCalled, TakerPending, Listed,
              Registered
<1>3. CASE Ask(o)
  <2> USE <1>3 DEF Ask, Goto, Called
  <2>1. TypeOK'
    OBVIOUS
  <2>2. calls[o] = 0 /\ ~Listed(o)
    BY DEF ListedOnce, ListedOrCalled, Registered
  <2>3. ListedOnce'
    BY <2>2 DEF ListedOnce, Listed, Registered
  <2>4. ListedOrCalled'
    BY <2>2 DEF ListedOrCalled, Listed, Registered
  <2>5. TakerPending'
    BY DEF TakerPending
  <2> QED
    BY <2>1, <2>3, <2>4, <2>5
<1>4. CASE Add(o)
  <2> USE <1>4 DEF Add, Goto
  <2>1. calls[o] = 0 /\ ~Listed(o)
    BY DEF ListedOnce, ListedOrCalled, Registered
  <2>2. ListedOnce'
    BY <2>1 DEF ListedOnce, Listed, Registered
  <2>3. ListedOrCalled'
    BY <2>1 DEF ListedOrCalled, Listed, Registered
  <2>4. TakerPending'
    BY DEF TakerPending
  <2> QED
    BY <2>2, <2>3, <2>4
<1>5. CASE Execute(o)
  BY <1>5 DEF Execute, ListedOnce, ListedOrCalled, TakerPending, Listed, Registered
<1>6. CASE Return(o)
  BY <1>6 DEF Return, Goto, ListedOnce, ListedOrCalled, TakerPending, Listed, Registered
<1>7. CASE AcquireToUnregister(o)
  BY <1>7 DEF AcquireToUnregister, Goto, ListedOnce, ListedOrCalled, TakerPending, Listed,
              Registered
<1>8. CASE Remove(o)
  BY <1>8 DEF Remove, Goto, ListedOnce, ListedOrCalled, TakerPending, Listed, Registered
<1> QED
  BY <1>1, <1>2, <1>3, <1>4, <1>5, <1>6, <1>7, <1>8 DEF Thread

\* What happens to the work itself changes no list.
LEMMA WorkInv == ASSUME Inv, NEW o \in Operation, LearnId(o) \/ WorkEnds(o) PROVE Inv'
BY DEF Inv, LearnId, WorkEnds, ListedOnce, ListedOrCalled, TakerPending, Listed, Registered

\* The steps of cancel().
LEMMA CancelInv == ASSUME Inv, NEW c \in Canceller, Enter(c) \/ Cancelling(c) PROVE Inv'
<1> USE DEF Inv
<1>1. CASE Enter(c)
  BY <1>1 DEF Enter, ListedOnce, ListedOrCalled, TakerPending, Listed, Registered
<1>2. CASE SetEvent(c)
  BY <1>2 DEF SetEvent, ListedOnce, ListedOrCalled, TakerPending, Listed, Registered
<1>3. CASE Take(c)
  <2> USE <1>3 DEF Take
  <2>1. TypeOK'
    OBVIOUS
  <2>2. todo[c] = {}
    OBVIOUS
  <2>3. \A o \in Operation : Listed(o)' <=> Listed(o)
    BY <2>2 DEF Listed
  <2>4. ListedOnce'
    BY <2>2, <2>3 DEF ListedOnce, Registered
  <2>5. ListedOrCalled'
    BY <2>3 DEF ListedOrCalled, Registered
  <2>6. TakerPending'
    BY DEF TakerPending, Locked
  <2> QED
    BY <2>1, <2>4, <2>5, <2>6
<1>4. CASE Finish(c)
  BY <1>4 DEF Finish, ListedOnce, ListedOrCalled, TakerPending, Listed, Registered
<1>5. ASSUME NEW o \in Operation, Call(c, o) PROVE Inv'
  <2> USE <1>5 DEF Call, Called
  <2>1. TypeOK'
    OBVIOUS
  <2>2. calls[o] = 0 /\ Registered(o) /\ o \notin callbacks
    BY DEF ListedOnce, Listed
  <2>3. \A d \in Canceller : o \notin todo'[d]
    BY DEF ListedOnce
  <2>4. ListedOnce'
    BY <2>2, <2>3 DEF ListedOnce, Listed, Registered
  <2>5. ListedOrCalled'
    BY <2>2 DEF ListedOrCalled, Listed, Registered
  <2>6. TakerPending'
    BY DEF TakerPending
  <2> QED
    BY <2>1, <2>4, <2>5, <2>6
<1> QED
  BY <1>1, <1>2, <1>3, <1>4, <1>5 DEF Cancelling

\* Inv is an invariant of the specification.
LEMMA AlwaysInv == Spec => []Inv
<1>1. Inv /\ [Next]_vars => Inv'
  <2> SUFFICES ASSUME Inv, [Next]_vars PROVE Inv'
    OBVIOUS
  <2>1. CASE UNCHANGED vars
    BY <2>1 DEF vars, Inv, ListedOnce, ListedOrCalled, TakerPending, Listed, Registered
  <2>2. CASE Next
    BY <2>2, ThreadInv, WorkInv, CancelInv DEF Next
  <2> QED
    BY <2>1, <2>2
<1> QED
  BY InitInv, <1>1, PTL DEF Spec

\* CancellationToken (core/cancellation.py): its event, its list and what its callers still
\* have to call are what they should be at any time.
THEOREM TokenTyped == Spec => []TypeOK
<1>1. Inv => TypeOK
  BY DEF Inv
<1> QED
  BY <1>1, AlwaysInv, PTL

\* However many extractions register, unregister and are cancelled at once, an operation
\* at work has been called back when all who cancel have returned.
THEOREM NoCallbackForgotten == Spec => []NoneForgotten
<1>1. Inv => NoneForgotten
  BY DEF Inv, NoneForgotten, ListedOrCalled, TakerPending, Listed
<1> QED
  BY <1>1, AlwaysInv, PTL

\* No callback is called twice, whoever cancels together.
THEOREM CallbacksCalledOnce == Spec => []CalledOnce
<1>1. Inv => CalledOnce
  BY DEF Inv, CalledOnce, ListedOrCalled
<1> QED
  BY <1>1, AlwaysInv, PTL

-----------------------------------------------------------------------------
(* Refinement.  Each step moves at most one operation, as Token says.      *)

\* Whoever takes and calls callbacks has set the event, which nobody resets.
CallersCancelled == \A c \in Canceller : cancel[c] \in {"set", "calling"} => event

LEMMA AlwaysCancelled == Spec => []CallersCancelled
<1>1. Init => CallersCancelled
  BY DEF Init, CallersCancelled
<1>2. TypeOK /\ CallersCancelled /\ [Next]_vars => CallersCancelled'
  <2> SUFFICES ASSUME TypeOK, CallersCancelled, [Next]_vars PROVE CallersCancelled'
    OBVIOUS
  <2> USE DEF CallersCancelled
  <2>1. ASSUME NEW o \in Operation, Start(o) \/ Thread(o) \/ LearnId(o) \/ WorkEnds(o)
        PROVE  CallersCancelled'
    BY <2>1 DEF Start, Thread, LearnId, WorkEnds, AcquireToRegister, Ask, Add, Execute, Return,
                AcquireToUnregister, Remove
  <2>2. ASSUME NEW c \in Canceller, Enter(c) \/ Cancelling(c) PROVE CallersCancelled'
    BY <2>2 DEF Enter, Cancelling, SetEvent, Take, Call, Finish
  <2>3. CASE UNCHANGED vars
    BY <2>3 DEF vars
  <2> QED
    BY <2>1, <2>2, <2>3 DEF Next
<1>3. Inv => TypeOK
  BY DEF Inv
<1> QED
  BY <1>1, <1>2, <1>3, AlwaysInv, PTL DEF Spec

\* The standing of every operation but o is what it was.
OthersStand(o) == \A q \in Operation \ {o} : Standing(q)' = Standing(q)

\* One operation moves, and the event is as it was.
LEMMA Moves ==
    ASSUME NEW o \in Operation, OthersStand(o), UNCHANGED event
    PROVE  Promise!Move(o, Standing(o), Standing(o)')
BY DEF OthersStand, Promise!Move

\* Nobody moves.
LEMMA Stays ==
    ASSUME \A o \in Operation : Standing(o)' = Standing(o), UNCHANGED event
    PROVE  UNCHANGED Promise!vars
BY DEF Promise!vars

\* What an operation's standing depends on.
LEMMA StandingSame ==
    ASSUME NEW q \in Operation, calls'[q] = calls[q], Listed(q)' <=> Listed(q),
           \/ step'[q] = step[q]
           \/ {step[q], step'[q]} \cap {"adding", "ended"} = {}
    PROVE  Standing(q)' = Standing(q)
BY DEF Standing, Listed

\* Before it has asked an operation is outside; afterwards it is owed a call or has been
\* called, until it ends.
LEMMA StandingKnown ==
    ASSUME Inv, NEW o \in Operation
    PROVE  /\ step[o] \in {"idle", "locking", "held"} => Standing(o) = "outside"
           /\ step[o] = "adding" => Standing(o) = "owed"
           /\ Listed(o) => Standing(o) = "owed"
           /\ step[o] \in {"working", "unlocking", "leaving"} =>
                  Standing(o) = IF Listed(o) THEN "owed" ELSE "stopped"
BY DEF Inv, ListedOnce, ListedOrCalled, Registered, Standing, Listed

LEMMA InitToken == Init => Promise!Init
<1> SUFFICES ASSUME Init PROVE Promise!Init
  OBVIOUS
<1>1. \A o \in Operation : Standing(o) = "outside"
  BY DEF Init, Standing, Listed
<1> QED
  BY <1>1 DEF Init, Promise!Init

\* register counts from its look at the event, unregister from the removal.
LEMMA ThreadToken ==
    ASSUME Inv, Inv', NEW o \in Operation, Start(o) \/ Thread(o)
    PROVE  [Promise!Next]_Promise!vars
<1> USE DEF Inv
<1>1. CASE Start(o) \/ AcquireToRegister(o) \/ Execute(o) \/ Return(o) \/ AcquireToUnregister(o)
  <2>1. UNCHANGED <<event, calls>> /\ \A q \in Operation : Listed(q)' <=> Listed(q)
    BY <1>1 DEF Start, AcquireToRegister, Execute, Return, AcquireToUnregister, Listed
  <2>2. \A q \in Operation : \/ step'[q] = step[q]
                             \/ {step[q], step'[q]} \cap {"adding", "ended"} = {}
    BY <1>1 DEF Start, AcquireToRegister, Execute, Return, AcquireToUnregister, Goto
  <2> QED
    BY <2>1, <2>2, StandingSame, Stays
<1>2. CASE Ask(o)
  <2>1. Standing(o) = "outside" /\ UNCHANGED event
    BY <1>2, StandingKnown DEF Ask, Goto
  <2>2. OthersStand(o)
    BY <1>2 DEF Ask, Goto, Called, Listed, Standing, OthersStand
  <2>3. CASE event
    <3>1. Standing(o)' = "stopped"
      BY <1>2, <2>3 DEF Ask, Called, ListedOrCalled, Standing, Listed
    <3>2. Promise!RegisterLate(o)
      BY <2>1, <2>2, <2>3, <3>1, Moves DEF Promise!RegisterLate
    <3> QED
      BY <3>2 DEF Promise!Next
  <2>4. CASE ~event
    <3>1. Standing(o)' = "owed"
      BY <1>2, <2>4 DEF Ask, Goto, ListedOrCalled, Registered, Standing, Listed
    <3>2. Promise!Register(o)
      BY <2>1, <2>2, <2>4, <3>1, Moves DEF Promise!Register
    <3> QED
      BY <3>2 DEF Promise!Next
  <2> QED
    BY <2>3, <2>4
<1>3. CASE Add(o)
  <2>1. \A q \in Operation \ {o} : Standing(q)' = Standing(q)
    BY <1>3 DEF Add, Goto, Listed, Standing
  <2>2. Standing(o) = "owed" /\ Standing(o)' = "owed"
    BY <1>3 DEF Add, Goto, Listed, Standing, ListedOrCalled, Registered
  <2> QED
    BY <1>3, <2>1, <2>2, Stays DEF Add
<1>4. CASE Remove(o)
  <2>1. OthersStand(o) /\ UNCHANGED event
    BY <1>4 DEF Remove, Goto, Listed, Standing, OthersStand
  <2>2. calls'[o] = calls[o] /\ step'[o] = "ended" /\ todo' = todo
    BY <1>4 DEF Remove, Goto
  <2>3. CASE o \in callbacks
    <3>1. Standing(o) = "owed"
      BY <2>3, StandingKnown DEF Listed
    <3>2. calls[o] = 0 /\ \A c \in Canceller : o \notin todo[c]
      BY <2>3 DEF ListedOnce, Listed
    <3>3. Standing(o)' = "gone"
      BY <1>4, <2>2, <3>2 DEF Remove, Standing, Listed
    <3>4. Promise!Withdraw(o)
      BY <2>1, <3>1, <3>3, Moves DEF Promise!Withdraw
    <3> QED
      BY <3>4 DEF Promise!Next
  <2>4. CASE o \notin callbacks
    <3>1. Listed(o)' <=> Listed(o)
      BY <1>4, <2>2, <2>4 DEF Remove, Listed
    <3>2. Standing(o)' = Standing(o)
      BY <1>4, <2>2, <3>1 DEF Remove, Goto, Standing, Listed, ListedOrCalled
    <3> QED
      BY <2>1, <3>2, Stays DEF OthersStand
  <2> QED
    BY <2>3, <2>4
<1> QED
  BY <1>1, <1>2, <1>3, <1>4 DEF Thread

\* Setting the event is what cancels; taking the list moves nobody.
LEMMA CancelToken ==
    ASSUME Inv, Inv', CallersCancelled, NEW c \in Canceller, Enter(c) \/ Cancelling(c)
    PROVE  [Promise!Next]_Promise!vars
<1> USE DEF Inv
<1>1. CASE Enter(c) \/ Finish(c)
  BY <1>1, Stays DEF Enter, Finish, Standing, Listed
<1>2. CASE SetEvent(c)
  <2>1. \A o \in Operation : Standing(o)' = Standing(o)
    BY <1>2 DEF SetEvent, Standing, Listed
  <2>2. Promise!Cancel
    BY <1>2, <2>1 DEF SetEvent, Promise!Cancel
  <2> QED
    BY <2>2 DEF Promise!Next
<1>3. CASE Take(c)
  <2>1. todo[c] = {}
    BY <1>3 DEF Take
  <2>2. \A o \in Operation : Listed(o)' <=> Listed(o)
    BY <1>3, <2>1 DEF Take, Listed
  <2>3. \A o \in Operation : Standing(o)' = Standing(o)
    BY <1>3, <2>2 DEF Take, Standing, Listed
  <2> QED
    BY <1>3, <2>3, Stays DEF Take
<1>4. ASSUME NEW o \in Operation, Call(c, o) PROVE [Promise!Next]_Promise!vars
  <2>1. Standing(o) = "owed"
    BY <1>4, StandingKnown DEF Call, Listed
  <2>2. Standing(o)' = "stopped"
    BY <1>4 DEF Call, Called, Standing, Listed
  <2>3. OthersStand(o)
    BY <1>4 DEF Call, Called, Standing, Listed, OthersStand
  <2>4. event /\ UNCHANGED event
    BY <1>4 DEF Call, CallersCancelled
  <2>5. Promise!Notify(o)
    BY <2>1, <2>2, <2>3, <2>4, Moves DEF Promise!Notify
  <2> QED
    BY <2>5 DEF Promise!Next
<1> QED
  BY <1>1, <1>2, <1>3, <1>4 DEF Cancelling

\* CancellationToken (core/cancellation.py): the lock, the list that is copied and cleared
\* under it, and the event that is set before it keep the promise of Token: nobody who
\* registered is forgotten, whatever register, unregister and cancel interrupt each other.
THEOREM TokenKept == Spec => ImplementsToken
<1>1. Inv /\ Inv' /\ CallersCancelled /\ [Next]_vars => [Promise!Next]_Promise!vars
  <2> SUFFICES ASSUME Inv, Inv', CallersCancelled, [Next]_vars
               PROVE  [Promise!Next]_Promise!vars
    OBVIOUS
  <2>1. ASSUME NEW o \in Operation, LearnId(o) \/ WorkEnds(o)
        PROVE  [Promise!Next]_Promise!vars
    BY <2>1, Stays DEF LearnId, WorkEnds, Standing, Listed
  <2>2. CASE UNCHANGED vars
    BY <2>2, Stays DEF vars, Standing, Listed
  <2> QED
    BY <2>1, <2>2, ThreadToken, CancelToken DEF Next
<1> QED
  BY <1>1, InitToken, AlwaysInv, AlwaysCancelled, PTL DEF Spec, ImplementsToken, Promise!Spec
=============================================================================
