---------------------------- MODULE AuthSession ----------------------------
(***************************************************************************)
(* The sign-in session of the app: FirebaseLoginViewModel and the screens   *)
(* that drive it (ContentView, SignInView, SignUpView, MenuView) over the   *)
(* FirebaseAuth SDK that the app embeds, on one device.                     *)
(*                                                                          *)
(* Threads.  A sign-in or a sign-up is a Swift Task that runs off the main  *)
(* thread and off Auth's work queue, so the updates of Auth.currentUser of  *)
(* two requests, of a sign-out (on the main thread) and of a forced         *)
(* sign-out (a token refresh that the server refuses) interleave statement  *)
(* by statement.  So does a token refresh that the server answers, which    *)
(* stores its user again: Firestore asks for a token with every connection, *)
(* and from then on Auth refreshes it by a timer.  Everything the app       *)
(* itself does runs on the main thread, one block of the main queue or one  *)
(* tap at a time.                                                           *)
(*                                                                          *)
(* A User object is named by the request that created it; who[o] is its     *)
(* uid, and its access token is the pair of it and of how often the token   *)
(* was refreshed.                                                           *)
(***************************************************************************)
EXTENDS Naturals, Sequences, FiniteSets

CONSTANTS Uids,          \* accounts a person may try, by uid
          SignIns,       \* requests: taps of the sign-in button
          SignUps,       \* requests: taps of the sign-up button
          Revocations,   \* token refreshes refused by the server
          Refreshes,     \* token refreshes the server answers
          Main, Boot,    \* the main thread; Auth's start-up on its work queue
          None,
          MaxListeners,  \* bound: how often ContentView may appear per launch
          MaxLaunches,   \* bound: launches of the app
          MaxTokens,     \* bound: tokens refreshed or refused
          Overlap,       \* TRUE: people tap while a request is under way
          RefreshRaces   \* TRUE: a token is refreshed while the user changes

Credentials == SignIns \cup SignUps
Ops         == Credentials \cup Revocations
Threads     == Ops \cup Refreshes \cup {Main, Boot}
Tokens      == Credentials \X Nat

ASSUME SessionAssumption ==
    /\ SignIns \cap SignUps = {} /\ Credentials \cap Revocations = {}
    /\ Ops \cap Refreshes = {}
    /\ Main \notin Ops \cup Refreshes \cup {Boot} /\ Boot \notin Ops \cup Refreshes
    /\ None \notin Ops \cup Uids \cup Tokens
    /\ MaxListeners \in Nat /\ MaxLaunches \in Nat /\ MaxTokens \in Nat
    /\ Overlap \in BOOLEAN /\ RefreshRaces \in BOOLEAN

VARIABLES
    accounts,      \* the accounts that exist on the server
    keychain,      \* the User archived on the device, or None
    launches,      \* how often the app was started
    pc,            \* per thread: its next step (see Pcs)
    who,           \* per request: the uid it is about
    subject,       \* per refresh: the User whose token it renews
    refreshed,     \* per User: how often its token was renewed
    ok,            \* per thread: no error so far
    token,         \* per thread: the token it read in possiblyPost...
    currentUser,   \* Auth.currentUser
    lastNotified,  \* Auth.lastNotifiedUserToken
    listeners,     \* auth state listeners: [first, prev] of each closure
    cursor,        \* the listener a posted notification reached
    mainQ,         \* blocks of DispatchQueue.main
    signedIn,      \* FirebaseLoginViewModel.signedIn
    showingMenu,   \* ContentView.showingMenu
    ensured        \* uids given to createOrUpdateUserInFirestore

sdkVars == <<currentUser, lastNotified, token>>
appVars == <<signedIn, showingMenu, ensured>>
vars == <<accounts, keychain, launches, pc, who, subject, refreshed, ok, token,
          currentUser, lastNotified, listeners, cursor, mainQ, signedIn,
          showingMenu, ensured>>

(* The steps of a thread.  "idle": not started (a request), nothing running  *)
(* (Main).  "load": Boot has not read the keychain.  "rpc": waiting for the  *)
(* server.  "save" ... "publish": inside updateCurrentUser.  "callback":     *)
(* updateCurrentUser returned or threw.  "queued": the completion handler    *)
(* is in the main queue.  "answered": it ran.  "deliver": Main hands a       *)
(* notification to the listeners.  "unread": Boot could not read the         *)
(* keychain.  "past": the request belongs to an earlier launch.              *)
Pcs == {"idle", "load", "rpc", "save", "assign", "token", "compare",
        "publish", "callback", "queued", "answered", "deliver", "done",
        "unread", "past"}

Block == [kind : {"initial", "post", "completion", "signedIn"},
          op : Ops \cup {None}, listener : Nat]

InitialBlock(l)    == [kind |-> "initial", op |-> None, listener |-> l]
PostBlock          == [kind |-> "post", op |-> None, listener |-> 0]
CompletionBlock(o) == [kind |-> "completion", op |-> o, listener |-> 0]
SignedInBlock      == [kind |-> "signedIn", op |-> None, listener |-> 0]

UidOf(user) == IF user = None THEN None ELSE who[user]

(* The raw access token of a User, and the User a token belongs to. *)
TokenOf(user) == IF user = None THEN None ELSE <<user, refreshed[user]>>
Owner(t)      == IF t = None THEN None ELSE t[1]

(* The User a thread stores; sign-outs store nil. *)
Target(t) == IF t \in Credentials THEN t
             ELSE IF t \in Refreshes THEN subject[t] ELSE None

(* A thread between its look at Auth.currentUser and the last of its writes. *)
Inside(t) == pc[t] \in {"save", "assign", "token", "compare", "publish"}

(* Where RefreshRaces is FALSE, refreshes and changes of the user exclude    *)
(* each other, which the code does not see to.                               *)
MayChangeUser == RefreshRaces \/ \A r \in Refreshes : ~Inside(r)
MayRefresh    == RefreshRaces \/ \A t \in Threads \ Refreshes : ~Inside(t)

TokensLeft ==
    Cardinality({t \in Revocations \cup Refreshes : pc[t] # "idle"}) < MaxTokens

(* Auth's work queue is serial: what is queued on it runs after start-up. *)
Booted == pc[Boot] \in {"done", "unread"}

(* The main thread is free to take a block or a tap. *)
MainFree == pc[Main] = "idle"

(* What a patient person waits for before the next tap: no request under    *)
(* way, and none of the blocks a request leaves behind still to run.         *)
Settled ==
    /\ \A o \in Ops : pc[o] \in {"idle", "answered", "done", "past"}
    /\ \A i \in 1..Len(mainQ) : mainQ[i].kind # "signedIn"

(* A view must be on the screen to be tapped. *)
MayTap == MainFree /\ listeners # <<>> /\ (Overlap \/ Settled)

Init ==
    /\ accounts \in SUBSET Uids
    /\ keychain = None
    /\ launches = 1
    /\ pc = [t \in Threads |-> IF t = Boot THEN "load" ELSE "idle"]
    /\ who = [o \in Ops |-> None]
    /\ subject = [r \in Refreshes |-> None]
    /\ refreshed = [o \in Credentials |-> 0]
    /\ ok = [t \in Threads |-> TRUE]
    /\ token = [t \in Threads |-> None]
    /\ currentUser = None /\ lastNotified = None
    /\ listeners = <<>> /\ cursor = 0 /\ mainQ = <<>>
    /\ signedIn = FALSE /\ showingMenu = FALSE /\ ensured = {}

-----------------------------------------------------------------------------
(* Auth.updateCurrentUser, step by step, on any thread.  Its first test,     *)
(* user == currentUser, belongs to the step that enters it and fails there:  *)
(* a new User is never the current one, a sign-out has just found a user.    *)
(* (At start-up without a stored user it holds, and there is nothing to      *)
(* post.)                                                                    *)

(* Mutation: a refused keychain write is ignored, as if byForce were set. *)
SaveIgnoresError(t) ==
    /\ pc[t] = "save"
    /\ keychain' \in {Target(t), keychain}
    /\ pc' = [pc EXCEPT ![t] = IF t \in Refreshes THEN "token" ELSE "assign"]
    /\ UNCHANGED <<accounts, launches, who, subject, refreshed, ok, sdkVars,
                   listeners, cursor, mainQ, appVars>>

(* saveUser: the keychain may refuse.  Only signOutByForce goes on then.  A *)
(* refresh stores the current user again and has nothing to assign.         *)
Save(t) ==
    /\ pc[t] = "save"
    /\ \/ /\ keychain' = Target(t)
          /\ pc' = [pc EXCEPT ![t] = IF t \in Refreshes THEN "token" ELSE "assign"]
          /\ UNCHANGED ok
       \/ /\ ok' = [ok EXCEPT ![t] = FALSE]
          /\ pc' = [pc EXCEPT ![t] = IF t \in Revocations THEN "assign"
                                                          ELSE "callback"]
          /\ UNCHANGED keychain
    /\ UNCHANGED <<accounts, launches, who, subject, refreshed, sdkVars,
                   listeners, cursor, mainQ, appVars>>

Assign(t) ==
    /\ pc[t] = "assign"
    /\ currentUser' = Target(t)
    /\ pc' = [pc EXCEPT ![t] = "token"]
    /\ UNCHANGED <<accounts, keychain, launches, who, subject, refreshed, ok,
                   token, lastNotified, listeners, cursor, mainQ, appVars>>

(* possiblyPostAuthStateChangeNotification: read the token of whoever is    *)
(* the current user by now, compare it with the last one notified, then     *)
(* record it and post the notification on the main queue.                   *)
ReadToken(t) ==
    /\ pc[t] = "token"
    /\ token' = [token EXCEPT ![t] = TokenOf(currentUser)]
    /\ pc' = [pc EXCEPT ![t] = "compare"]
    /\ UNCHANGED <<accounts, keychain, launches, who, subject, refreshed, ok,
                   currentUser, lastNotified, listeners, cursor, mainQ,
                   appVars>>

Compare(t) ==
    /\ pc[t] = "compare"
    /\ pc' = [pc EXCEPT ![t] = IF token[t] = lastNotified THEN "callback"
                                                          ELSE "publish"]
    /\ token' = [token EXCEPT ![t] = IF token[t] = lastNotified THEN None
                                                                ELSE token[t]]
    /\ UNCHANGED <<accounts, keychain, launches, who, subject, refreshed, ok,
                   currentUser, lastNotified, listeners, cursor, mainQ,
                   appVars>>

(* Mutation: the notified token is not recorded. *)
PublishForgetsToken(t) ==
    /\ pc[t] = "publish"
    /\ token' = [token EXCEPT ![t] = None]
    /\ mainQ' = Append(mainQ, PostBlock)
    /\ pc' = [pc EXCEPT ![t] = "callback"]
    /\ UNCHANGED <<accounts, keychain, launches, who, subject, refreshed, ok,
                   currentUser, lastNotified, listeners, cursor, appVars>>

Publish(t) ==
    /\ pc[t] = "publish"
    /\ lastNotified' = token[t]
    /\ token' = [token EXCEPT ![t] = None]
    /\ mainQ' = Append(mainQ, PostBlock)
    /\ pc' = [pc EXCEPT ![t] = "callback"]
    /\ UNCHANGED <<accounts, keychain, launches, who, subject, refreshed, ok,
                   currentUser, listeners, cursor, appVars>>

UpdateCurrentUser(t) ==
    Save(t) \/ Assign(t) \/ ReadToken(t) \/ Compare(t) \/ Publish(t)

-----------------------------------------------------------------------------
(* Start-up of Auth: the stored user is loaded, unless the keychain cannot  *)
(* be read.                                                                  *)
LoadStored ==
    /\ pc[Boot] = "load"
    /\ \/ currentUser' = keychain /\ pc' = [pc EXCEPT ![Boot] = "token"]
       \/ UNCHANGED currentUser /\ pc' = [pc EXCEPT ![Boot] = "unread"]
    /\ UNCHANGED <<accounts, keychain, launches, who, subject, refreshed, ok,
                   token, lastNotified, listeners, cursor, mainQ, appVars>>

BootDone ==
    /\ pc[Boot] = "callback"
    /\ pc' = [pc EXCEPT ![Boot] = "done"]
    /\ lastNotified' = IF currentUser # None THEN TokenOf(currentUser)
                                          ELSE lastNotified
    /\ UNCHANGED <<accounts, keychain, launches, who, subject, refreshed, ok,
                   token, currentUser, listeners, cursor, mainQ, appVars>>

(* ContentView.onAppear: listenToAuthState registers a listener that is     *)
(* never removed; addIDTokenDidChangeListener queues its first call.        *)
Appear ==
    /\ MainFree
    /\ Len(listeners) < MaxListeners
    /\ listeners' = Append(listeners, [first |-> TRUE, prev |-> None])
    /\ mainQ' = Append(mainQ, InitialBlock(Len(listeners) + 1))
    /\ UNCHANGED <<accounts, keychain, launches, pc, who, subject, refreshed,
                   ok, sdkVars, cursor, appVars>>

-----------------------------------------------------------------------------
(* Requests.  The sign-in and sign-up screens are up when signedIn is       *)
(* FALSE and no menu covers them; their buttons are never disabled.         *)
TapCredentials(o, u) ==
    /\ MayTap
    /\ ~signedIn /\ ~showingMenu
    /\ pc[o] = "idle"
    /\ pc' = [pc EXCEPT ![o] = "rpc"]
    /\ who' = [who EXCEPT ![o] = u]
    /\ UNCHANGED <<accounts, keychain, launches, subject, refreshed, ok,
                   sdkVars, listeners, cursor, mainQ, appVars>>

TapSignIn(o, u) == o \in SignIns /\ TapCredentials(o, u)
TapSignUp(o, u) == o \in SignUps /\ TapCredentials(o, u)

(* The server answers.  A sign-up makes two calls: the account can be        *)
(* created and the request still fail.                                       *)
RpcSucceeds(o) ==
    /\ pc[o] = "rpc" /\ Booted /\ MayChangeUser
    /\ \/ o \in SignIns /\ who[o] \in accounts /\ UNCHANGED accounts
       \/ /\ o \in SignUps /\ who[o] \notin accounts
          /\ accounts' = accounts \cup {who[o]}
    /\ pc' = [pc EXCEPT ![o] = "save"]
    /\ UNCHANGED <<keychain, launches, who, subject, refreshed, ok, sdkVars,
                   listeners, cursor, mainQ, appVars>>

RpcFails(o) ==
    /\ pc[o] = "rpc" /\ Booted
    /\ \/ UNCHANGED accounts
       \/ o \in SignUps /\ accounts' = accounts \cup {who[o]}
    /\ pc' = [pc EXCEPT ![o] = "callback"]
    /\ ok' = [ok EXCEPT ![o] = FALSE]
    /\ UNCHANGED <<keychain, launches, who, subject, refreshed, sdkVars,
                   listeners, cursor, mainQ, appVars>>

(* Mutation: a failed request is dropped instead of reported. *)
CallbackDropsError(o) ==
    /\ pc[o] = "callback"
    /\ IF o \in Credentials /\ ok[o]
       THEN /\ mainQ' = Append(mainQ, CompletionBlock(o))
            /\ pc' = [pc EXCEPT ![o] = "queued"]
       ELSE pc' = [pc EXCEPT ![o] = "done"] /\ UNCHANGED mainQ
    /\ UNCHANGED <<accounts, keychain, launches, who, subject, refreshed, ok,
                   sdkVars, listeners, cursor, appVars>>

(* signInFlowAuthDataResultCallback hands the outcome to the main queue.  No *)
(* handler of the app waits for a refresh.                                   *)
Callback(o) ==
    /\ pc[o] = "callback"
    /\ \/ /\ o \in Credentials
          /\ mainQ' = Append(mainQ, CompletionBlock(o))
          /\ pc' = [pc EXCEPT ![o] = "queued"]
       \/ /\ o \in Revocations \cup Refreshes
          /\ pc' = [pc EXCEPT ![o] = "done"]
          /\ UNCHANGED mainQ
    /\ UNCHANGED <<accounts, keychain, launches, who, subject, refreshed, ok,
                   sdkVars, listeners, cursor, appVars>>

(* A token refresh is refused: signOutByForce checks that its user is still *)
(* the current one, then updates without looking again.                     *)
Revoke(o) ==
    /\ o \in Revocations
    /\ pc[o] = "idle" /\ Booted /\ MayChangeUser /\ TokensLeft
    /\ currentUser # None
    /\ who' = [who EXCEPT ![o] = UidOf(currentUser)]
    /\ pc' = [pc EXCEPT ![o] = "save"]
    /\ UNCHANGED <<accounts, keychain, launches, subject, refreshed, ok,
                   sdkVars, listeners, cursor, mainQ, appVars>>

(* A token refresh is answered: the User has a new token, and updateKeychain *)
(* checks that it is still the current user; then it saves and posts without *)
(* looking again.  (A refresh whose user is no longer the current one ends   *)
(* here; nobody reads the token of such a User.)                             *)
RefreshToken(r) ==
    /\ pc[r] = "idle" /\ Booted /\ MayRefresh /\ TokensLeft
    /\ currentUser # None
    /\ subject' = [subject EXCEPT ![r] = currentUser]
    /\ refreshed' = [refreshed EXCEPT ![currentUser] = @ + 1]
    /\ pc' = [pc EXCEPT ![r] = "save"]
    /\ UNCHANGED <<accounts, keychain, launches, who, ok, sdkVars, listeners,
                   cursor, mainQ, appVars>>

-----------------------------------------------------------------------------
(* The menu and signing out.  vm.signOut runs Auth.signOut to its end on    *)
(* the main thread.                                                          *)
OpenMenu ==
    /\ MayTap
    /\ signedIn /\ ~showingMenu
    /\ showingMenu' = TRUE
    /\ UNCHANGED <<accounts, keychain, launches, pc, who, subject, refreshed,
                   ok, sdkVars, listeners, cursor, mainQ, signedIn, ensured>>

CloseMenu ==
    /\ MayTap
    /\ showingMenu
    /\ showingMenu' = FALSE
    /\ UNCHANGED <<accounts, keychain, launches, pc, who, subject, refreshed,
                   ok, sdkVars, listeners, cursor, mainQ, signedIn, ensured>>

TapSignOut ==
    /\ MayTap /\ Booted /\ MayChangeUser
    /\ showingMenu
    /\ pc' = [pc EXCEPT ![Main] = IF currentUser # None THEN "save"
                                                        ELSE "callback"]
    /\ ok' = [ok EXCEPT ![Main] = TRUE]
    /\ UNCHANGED <<accounts, keychain, launches, who, subject, refreshed,
                   sdkVars, listeners, cursor, mainQ, appVars>>

(* Mutation: the form is shown although the keychain kept the session. *)
SignOutReturnsIgnoringError ==
    /\ pc[Main] = "callback"
    /\ signedIn' = FALSE
    /\ showingMenu' = FALSE
    /\ pc' = [pc EXCEPT ![Main] = "idle"]
    /\ UNCHANGED <<accounts, keychain, launches, who, subject, refreshed, ok,
                   sdkVars, listeners, cursor, mainQ, ensured>>

(* vm.signOut sets signedIn unless Auth.signOut threw; the menu goes. *)
SignOutReturns ==
    /\ pc[Main] = "callback"
    /\ signedIn' = IF ok[Main] THEN FALSE ELSE signedIn
    /\ showingMenu' = FALSE
    /\ pc' = [pc EXCEPT ![Main] = "idle"]
    /\ UNCHANGED <<accounts, keychain, launches, who, subject, refreshed, ok,
                   sdkVars, listeners, cursor, mainQ, ensured>>

-----------------------------------------------------------------------------
(* The main queue.                                                           *)

(* Mutation: the listener does not test for a nil user. *)
InvokeWithoutNilCheck(l) ==
    LET uid == UidOf(currentUser)
        call == listeners[l].first \/ listeners[l].prev # uid
    IN  /\ listeners' = [listeners EXCEPT ![l] = [first |-> FALSE, prev |-> uid]]
        /\ signedIn' = IF call THEN uid # None ELSE signedIn
        /\ ensured' = IF call THEN ensured \cup {uid} ELSE ensured

(* Mutation: the listener is called the first time only. *)
InvokeOnce(l) ==
    LET uid == UidOf(currentUser)
        call == listeners[l].first
    IN  /\ listeners' = [listeners EXCEPT ![l] = [first |-> FALSE, prev |-> uid]]
        /\ signedIn' = IF call THEN uid # None ELSE signedIn
        /\ ensured' = IF call /\ uid # None THEN ensured \cup {uid} ELSE ensured

(* Mutation: the listener leaves the profile to the completion handlers. *)
InvokeWithoutProfile(l) ==
    LET uid == UidOf(currentUser)
        call == listeners[l].first \/ listeners[l].prev # uid
    IN  /\ listeners' = [listeners EXCEPT ![l] = [first |-> FALSE, prev |-> uid]]
        /\ signedIn' = IF call THEN uid # None ELSE signedIn
        /\ UNCHANGED ensured

(* One call of listener l: the SDK's filter of repeated uids, then the      *)
(* closure of listenToAuthState with the user current at this moment.       *)
Invoke(l) ==
    LET uid == UidOf(currentUser)
        call == listeners[l].first \/ listeners[l].prev # uid
    IN  /\ listeners' = [listeners EXCEPT ![l] = [first |-> FALSE, prev |-> uid]]
        /\ signedIn' = IF call THEN uid # None ELSE signedIn
        /\ ensured' = IF call /\ uid # None THEN ensured \cup {uid} ELSE ensured

RunInitial ==
    /\ MainFree /\ mainQ # <<>> /\ Head(mainQ).kind = "initial"
    /\ Invoke(Head(mainQ).listener)
    /\ mainQ' = Tail(mainQ)
    /\ UNCHANGED <<accounts, keychain, launches, pc, who, subject, refreshed,
                   ok, sdkVars, cursor, showingMenu>>

(* A posted notification reaches the listeners one after the other. *)
RunPost ==
    /\ MainFree /\ mainQ # <<>> /\ Head(mainQ).kind = "post"
    /\ mainQ' = Tail(mainQ)
    /\ IF listeners = <<>> THEN UNCHANGED <<pc, cursor>>
       ELSE pc' = [pc EXCEPT ![Main] = "deliver"] /\ cursor' = 1
    /\ UNCHANGED <<accounts, keychain, launches, who, subject, refreshed, ok,
                   sdkVars, listeners, appVars>>

Deliver ==
    /\ pc[Main] = "deliver"
    /\ Invoke(cursor)
    /\ IF cursor < Len(listeners)
       THEN cursor' = cursor + 1 /\ UNCHANGED pc
       ELSE cursor' = 0 /\ pc' = [pc EXCEPT ![Main] = "idle"]
    /\ UNCHANGED <<accounts, keychain, launches, who, subject, refreshed, ok,
                   sdkVars, mainQ, showingMenu>>

(* Mutation: signIn's completion leaves signedIn to the listener. *)
RunCompletionWithoutSignedIn ==
    /\ MainFree /\ mainQ # <<>> /\ Head(mainQ).kind = "completion"
    /\ LET o == Head(mainQ).op
       IN  /\ pc' = [pc EXCEPT ![o] = "answered"]
           /\ ensured' = IF ok[o] THEN ensured \cup {who[o]} ELSE ensured
           /\ mainQ' = Tail(mainQ)
    /\ UNCHANGED <<accounts, keychain, launches, who, subject, refreshed, ok,
                   sdkVars, listeners, cursor, signedIn, showingMenu>>

(* Mutation: signIn's completion misses the return after an error. *)
RunCompletionWithoutReturn ==
    /\ MainFree /\ mainQ # <<>> /\ Head(mainQ).kind = "completion"
    /\ LET o == Head(mainQ).op
       IN  /\ pc' = [pc EXCEPT ![o] = "answered"]
           /\ ensured' = IF ok[o] THEN ensured \cup {who[o]} ELSE ensured
           /\ mainQ' = IF o \in SignIns THEN Append(Tail(mainQ), SignedInBlock)
                                         ELSE Tail(mainQ)
    /\ UNCHANGED <<accounts, keychain, launches, who, subject, refreshed, ok,
                   sdkVars, listeners, cursor, signedIn, showingMenu>>

(* The completion handlers of vm.signIn and vm.signUp. *)
RunCompletion ==
    /\ MainFree /\ mainQ # <<>> /\ Head(mainQ).kind = "completion"
    /\ LET o == Head(mainQ).op
       IN  /\ pc' = [pc EXCEPT ![o] = "answered"]
           /\ ensured' = IF ok[o] THEN ensured \cup {who[o]} ELSE ensured
           /\ mainQ' = IF ok[o] /\ o \in SignIns
                       THEN Append(Tail(mainQ), SignedInBlock)
                       ELSE Tail(mainQ)
    /\ UNCHANGED <<accounts, keychain, launches, who, subject, refreshed, ok,
                   sdkVars, listeners, cursor, signedIn, showingMenu>>

(* The block signIn's completion dispatches: it looks at nothing. *)
RunSignedIn ==
    /\ MainFree /\ mainQ # <<>> /\ Head(mainQ).kind = "signedIn"
    /\ signedIn' = TRUE
    /\ mainQ' = Tail(mainQ)
    /\ UNCHANGED <<accounts, keychain, launches, pc, who, subject, refreshed,
                   ok, sdkVars, listeners, cursor, showingMenu, ensured>>

RunMainQueue == RunInitial \/ RunPost \/ RunCompletion \/ RunSignedIn

-----------------------------------------------------------------------------
(* The process is killed and started again: only the server and the          *)
(* keychain remain.  A sign-up under way may or may not reach the server.    *)
Relaunch ==
    /\ launches < MaxLaunches
    /\ launches' = launches + 1
    /\ \E lost \in SUBSET {o \in SignUps : pc[o] = "rpc"} :
           accounts' = accounts \cup {who[o] : o \in lost}
    /\ pc' = [t \in Threads |->
                IF t = Boot THEN "load"
                ELSE IF t = Main \/ pc[t] = "idle" THEN "idle" ELSE "past"]
    /\ ok' = [t \in Threads |-> TRUE]
    /\ token' = [t \in Threads |-> None]
    /\ currentUser' = None /\ lastNotified' = None
    /\ listeners' = <<>> /\ cursor' = 0 /\ mainQ' = <<>>
    /\ signedIn' = FALSE /\ showingMenu' = FALSE /\ ensured' = {}
    /\ UNCHANGED <<keychain, who, subject, refreshed>>

People ==
    \/ Appear \/ OpenMenu \/ CloseMenu \/ TapSignOut
    \/ \E o \in Credentials, u \in Uids : TapSignIn(o, u) \/ TapSignUp(o, u)

Next ==
    \/ People
    \/ LoadStored \/ BootDone \/ SignOutReturns \/ Deliver \/ RunMainQueue
    \/ \E t \in Threads : UpdateCurrentUser(t)
    \/ \E o \in Ops : RpcSucceeds(o) \/ RpcFails(o) \/ Revoke(o)
    \/ \E r \in Refreshes : RefreshToken(r)
    \/ \E t \in Ops \cup Refreshes : Callback(t)
    \/ Relaunch

(* Threads that started go on, the server or a time-out answers, and the    *)
(* first view appears.  The main run loop serves its dispatch queue on each  *)
(* turn, so taps, however many, do not starve it: strong fairness.  Nobody   *)
(* is obliged to tap, and no token need be refreshed or refused.             *)
Fairness ==
    /\ WF_vars(Appear /\ listeners = <<>>)
    /\ WF_vars(LoadStored) /\ WF_vars(BootDone)
    /\ WF_vars(SignOutReturns) /\ WF_vars(Deliver) /\ SF_vars(RunMainQueue)
    /\ \A t \in Threads : WF_vars(UpdateCurrentUser(t))
    /\ \A o \in Ops : WF_vars(RpcSucceeds(o) \/ RpcFails(o))
    /\ \A t \in Ops \cup Refreshes : WF_vars(Callback(t))

Spec == Init /\ [][Next]_vars
FairSpec == Spec /\ Fairness

-----------------------------------------------------------------------------
(* Properties.                                                               *)

(* The type of the state; among the rest, createOrUpdateUserInFirestore is   *)
(* only ever given the uid of an account, although a listener may find nil   *)
(* and a handler may run after its user has gone.                            *)
TypeOK ==
    /\ accounts \subseteq Uids
    /\ keychain \in Credentials \cup {None}
    /\ launches \in Nat
    /\ pc \in [Threads -> Pcs]
    /\ who \in [Ops -> Uids \cup {None}]
    /\ ok \in [Threads -> BOOLEAN]
    /\ subject \in [Refreshes -> Credentials \cup {None}]
    /\ refreshed \in [Credentials -> Nat]
    /\ token \in [Threads -> Tokens \cup {None}]
    /\ currentUser \in Credentials \cup {None}
    /\ lastNotified \in Tokens \cup {None}
    /\ listeners \in Seq([first : BOOLEAN, prev : Uids \cup {None}])
    /\ cursor \in Nat
    /\ mainQ \in Seq(Block)
    /\ signedIn \in BOOLEAN /\ showingMenu \in BOOLEAN
    /\ ensured \subseteq Uids

(* Nothing is under way on the device: what the screen shows stays until     *)
(* somebody taps or a token is refreshed or refused.                         *)
Quiescent ==
    /\ Booted /\ MainFree /\ mainQ = <<>> /\ listeners # <<>>
    /\ \A o \in Ops \cup Refreshes : pc[o] \in {"idle", "answered", "done", "past"}

(* The screen of a signed-in person is the map, never the sign-in form       *)
(* (ContentView's branch on vm.signedIn).                                    *)
SessionShown == Quiescent /\ currentUser # None => signedIn

(* The same for sessions that began with a sign-in or were restored from the *)
(* keychain: the block that signIn's completion dispatches, or the listener, *)
(* always has the last word, whatever overlapped.                            *)
SignInShown ==
    Quiescent /\ currentUser # None /\ (currentUser \in SignIns \/ pc[currentUser] = "past")
        => signedIn

(* ContentView shows the map only when somebody is signed in.                *)
MapOnlyIfAuthenticated == Quiescent /\ signedIn => currentUser # None

(* createOrUpdateUserInFirestore has run in this launch for whoever is       *)
(* signed in, by the listener or by a completion handler.                    *)
ProfileEnsured == Quiescent /\ currentUser # None => who[currentUser] \in ensured

(* What the next launch restores is the session of this one: a sign-in       *)
(* survives, a sign-out is not undone (updateCurrentUser saves, then         *)
(* assigns).                                                                 *)
SessionDurable ==
    Quiescent /\ (pc[Boot] = "done" \/ currentUser # None) => keychain = currentUser

(* lastNotifiedUserToken belongs to the current user; if it did not, the     *)
(* next change to that token would be swallowed as already notified.  (It    *)
(* may be an earlier token of that user: a refresh that the keychain refuses *)
(* posts nothing.)                                                           *)
NotificationCurrent == Quiescent => Owner(lastNotified) = currentUser

(* Every tap of a sign-in or sign-up button gets its completion handler,     *)
(* whatever fails on the way, unless the app is killed.                      *)
RequestAnswered ==
    \A o \in Credentials : (pc[o] = "rpc") ~> (pc[o] \in {"answered", "past"})

(* The session as the module Session promises it. *)
Abstract == INSTANCE Session WITH
    stored <- UidOf(keychain), user <- UidOf(currentUser), screen <- signedIn

(* For patient people, threads, notifications, listeners and completion      *)
(* handlers together are no more than this: updateCurrentUser saves, then    *)
(* assigns; signedIn only ever changes to what Auth.currentUser says, and    *)
(* does so after a sign-in, a sign-up, a sign-out and a restart.             *)
ImplementsSession == Abstract!Spec
=============================================================================
