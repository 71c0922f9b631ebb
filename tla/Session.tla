------------------------------ MODULE Session ------------------------------
(***************************************************************************)
(* What the app promises about a session, without the threads, queues and   *)
(* notifications that bring it about: an account becomes the user only once *)
(* it is stored on the device, nobody is signed out before the device has   *)
(* forgotten the account, and the screen only ever changes to what the user *)
(* says, which it does sooner or later.                                      *)
(***************************************************************************)
CONSTANTS Uids, None

VARIABLES
    stored,    \* the account the next launch of the app will find
    user,      \* the account of this launch, or None
    screen     \* TRUE: the map, FALSE: the sign-in form

sessionVars == <<stored, user, screen>>

Accounts == Uids \cup {None}

Agrees == screen = (user # None)

Init == stored \in Accounts /\ user = None /\ screen = FALSE

(* A sign-in, a sign-up or a sign-out is recorded on the device ... *)
Store == stored' \in Accounts /\ UNCHANGED <<user, screen>>

(* ... and takes effect; or the app starts with what it finds there. *)
Adopt == user' = stored /\ UNCHANGED <<stored, screen>>

Show == screen' = (user # None) /\ UNCHANGED <<stored, user>>

(* The app is killed and started again. *)
Restart == user' = None /\ screen' = FALSE /\ UNCHANGED stored

Next == Store \/ Adopt \/ Show \/ Restart

SafeSpec == Init /\ [][Next]_sessionVars

(* Show is enabled to some effect exactly when screen and user disagree: weak *)
(* fairness of Show is that they agree again and again.                       *)
Spec == SafeSpec /\ []<>Agrees
=============================================================================
