------------------------------- MODULE Token -------------------------------
(***************************************************************************)
(* What the cancellation token promises those who register with it, with   *)
(* no lock, list or threads in sight: from registration on an operation is *)
(* owed a call, until it is called or withdraws by itself.  It is called   *)
(* only if the token is cancelled, and at most once; whoever registers     *)
(* after that is called at once.  Cancellation implements this             *)
(* specification.                                                          *)
(***************************************************************************)
CONSTANT
    Operation   \* who registers a callback, once each

VARIABLES
    cancelled,  \* never taken back
    standing    \* per operation, where it stands with the token

vars == <<cancelled, standing>>

Init ==
    /\ cancelled = FALSE
    /\ standing = [o \in Operation |-> "outside"]

Move(o, from, to) ==
    /\ standing[o] = from
    /\ standing' = [standing EXCEPT ![o] = to]
    /\ UNCHANGED cancelled

Register(o) == ~cancelled /\ Move(o, "outside", "owed")

RegisterLate(o) == cancelled /\ Move(o, "outside", "stopped")

Notify(o) == cancelled /\ Move(o, "owed", "stopped")

Withdraw(o) == Move(o, "owed", "gone")

Cancel ==
    /\ cancelled' = TRUE
    /\ UNCHANGED standing

Next ==
    \/ Cancel
    \/ \E o \in Operation : Register(o) \/ RegisterLate(o) \/ Notify(o) \/ Withdraw(o)

Spec == Init /\ [][Next]_vars
=============================================================================
