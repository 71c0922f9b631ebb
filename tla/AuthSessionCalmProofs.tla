----------------------- MODULE AuthSessionCalmProofs -----------------------
(***************************************************************************)
(* Theorems about AuthSession for patient people, whatever the sets of      *)
(* requests and accounts and the bounds: when nobody taps while a request   *)
(* is under way (~Overlap) and no token refresh is refused (Revocations is  *)
(* empty), the interleavings that are left, of start-up, of token           *)
(* refreshes, of notifications, of blocks of the main queue, of keychain    *)
(* failures and of restarts, do no harm to the screen.  CalmInv, on top of  *)
(* IInv of AuthSessionProofs, says that at most one thread is inside        *)
(* updateCurrentUser and what each of its steps may rely on.  The keychain  *)
(* and lastNotifiedUserToken, which a refresh writes too, stay right only   *)
(* as long as no refresh overlaps a change of the user (~RefreshRaces):     *)
(* that is QuietInv.                                                        *)
(***************************************************************************)
EXTENDS AuthSessionProofs

(* A request between its tap and its completion handler. *)
Busy == Updating \cup {"rpc", "queued"}

(* A thread inside possiblyPostAuthStateChangeNotification. *)
Posting == {"token", "compare", "publish"}

(* One request or sign-out at a time, and the block signIn's completion     *)
(* dispatches belongs to the last one.                                      *)
OneAtATime ==
    /\ \A o, p \in Credentials : pc[o] \in Busy /\ pc[p] \in Busy => o = p
    /\ pc[Main] \in Updating => \A o \in Credentials : pc[o] \notin Busy
    /\ pc[Main] \in Updating \/ (\E o \in Credentials : pc[o] \in Busy)
       => \A i \in 1..Len(mainQ) : mainQ[i].kind # "signedIn"

(* What a thread has installed stays: nobody else touches it. *)
InstalledInv ==
    /\ \A t \in Credentials \cup {Main} :
           \/ pc[t] \in Posting
           \/ pc[t] \in {"callback", "queued"} /\ ok[t]
           => currentUser = Target(t)
    /\ pc[Main] \in {"save", "assign"} \cup Posting => ok[Main]
    /\ \A i \in 1..Len(mainQ) : mainQ[i].kind = "signedIn" => currentUser # None

(* Tokens on their way to lastNotifiedUserToken, and the one recorded there, *)
(* belong to users that were installed; a request posts its own user's.      *)
TokenInv ==
    /\ \A t \in Threads : token[t] # None => pc[Owner(token[t])] \in Installed
    /\ lastNotified # None => pc[Owner(lastNotified)] \in Installed
    /\ \A o \in Credentials : pc[o] \in {"compare", "publish"} => Owner(token[o]) = o

(* Every user the app has seen has an account, so the uid of a sign-up is   *)
(* new to every listener.                                                    *)
FreshInv ==
    /\ \A l \in 1..Len(listeners) : listeners[l].prev \in accounts \cup {None}
    /\ keychain # None => who[keychain] \in accounts
    /\ currentUser # None => who[currentUser] \in accounts
    /\ \A o \in Credentials : pc[o] \in {"save", "assign"} => who[o] \in accounts
    /\ \A r \in Refreshes : pc[r] # "idle" => who[subject[r]] \in accounts
    /\ \A o \in SignUps : pc[o] \in {"save", "assign"} =>
           /\ UidOf(currentUser) # who[o]
           /\ \A l \in 1..Len(listeners) : listeners[l].prev # who[o]

(* The session of a sign-up is on the screen, or a notification is on its   *)
(* way to every listener that has not heard of it, or the request is still  *)
(* about to post one: nobody has yet notified a token of its user.          *)
SignUpInv ==
    currentUser \in SignUps /\ pc[currentUser] # "past" =>
        /\ ~SigningOut
        /\ \A l \in 1..Len(listeners) :
               /\ listeners[l].prev = who[currentUser] => signedIn
               /\ \/ listeners[l].prev = who[currentUser]
                  \/ pc[currentUser] \in Posting /\ Owner(lastNotified) # currentUser
                  \/ Coming(l)

(* The map without a user: only until the sign-out under way returns. *)
MapInv == signedIn /\ currentUser = None => SigningOut

CalmInv == OneAtATime /\ InstalledInv /\ TokenInv /\ FreshInv /\ SignUpInv /\ MapInv

(* The keychain and Auth.currentUser differ only before start-up has read   *)
(* the keychain, after it failed to, or between saveUser and the assignment *)
(* that follows it.                                                          *)
DurableInv ==
    /\ \A t \in Threads : pc[t] = "assign" => keychain = Target(t)
    /\ (\A t \in Threads : pc[t] # "assign") =>
           \/ keychain = currentUser
           \/ pc[Boot] \in {"load", "unread"} /\ currentUser = None

(* lastNotifiedUserToken is a token of Auth.currentUser, or a thread that    *)
(* changed the user is on its way to post the change.                        *)
NotifiedInv ==
    /\ \A t \in Threads : pc[t] \in {"compare", "publish"} => Owner(token[t]) = currentUser
    /\ (\A t \in Threads \ Refreshes : pc[t] \notin Posting) =>
           Owner(lastNotified) = currentUser

(* A refresh stores the current user, and nobody changes it meanwhile. *)
RefreshInv ==
    \A r \in Refreshes : Inside(r) =>
        /\ subject[r] = currentUser
        /\ \A t \in Threads \ Refreshes : ~Inside(t)

QuietInv == DurableInv /\ NotifiedInv /\ RefreshInv

-----------------------------------------------------------------------------
(* At most one thread is inside updateCurrentUser. *)
LEMMA Exclusive ==
    ASSUME Revocations = {}, StructInv, OneAtATime
    PROVE  \A s, t \in Threads \ Refreshes :
               pc[s] \in Updating /\ pc[t] \in Updating => s = t
  BY SessionAssumption DEF StructInv, PcInv, BootFirst, Booted, OneAtATime, Busy,
     Updating, Threads, Ops, Credentials

(* Nothing is under way at a fresh start. *)
LEMMA CalmInit == Init => CalmInv /\ QuietInv
<1> SUFFICES ASSUME Init PROVE CalmInv /\ QuietInv
  OBVIOUS
<1> USE SessionAssumption DEF Init, Threads, Ops, Credentials
<1>1. OneAtATime /\ InstalledInv /\ FreshInv /\ SignUpInv /\ MapInv
  BY DEF OneAtATime, InstalledInv, FreshInv, SignUpInv, MapInv, Busy, Updating, Posting
<1>2. TokenInv /\ DurableInv /\ NotifiedInv /\ RefreshInv
  BY DEF TokenInv, DurableInv, NotifiedInv, RefreshInv, Inside, Owner, Posting
<1>3. QED
  BY <1>1, <1>2 DEF CalmInv, QuietInv

(* The User a token belongs to is a User. *)
LEMMA OwnerType == \A t \in Tokens : t # None /\ Owner(t) \in Credentials
  BY SessionAssumption DEF Tokens, Owner

(* A user that was installed stays so: its request only goes on. *)
LEMMA InstalledStays ==
    ASSUME StructInv, Next, NEW o \in Credentials, pc[o] \in Installed
    PROVE  pc'[o] \in Installed
<1> USE SessionAssumption DEF StructInv, TypeOK, Threads, Ops, Credentials, Installed
<1>1. ASSUME NEW t \in Threads, UpdateCurrentUser(t) PROVE pc'[o] \in Installed
  BY <1>1 DEF UpdateCurrentUser, Save, Assign, ReadToken, Compare, Publish
<1>2. CASE LoadStored \/ BootDone \/ SignOutReturns \/ Deliver
  BY <1>2 DEF LoadStored, BootDone, SignOutReturns, Deliver
<1>3. CASE RunMainQueue
  BY <1>3 DEF RunMainQueue, RunInitial, RunPost, RunCompletion, RunSignedIn
<1>4. CASE People
  BY <1>4 DEF People, Appear, OpenMenu, CloseMenu, TapSignOut, TapSignIn, TapSignUp,
     TapCredentials
<1>5. ASSUME NEW p \in Ops, RpcSucceeds(p) \/ RpcFails(p) \/ Revoke(p)
      PROVE  pc'[o] \in Installed
  BY <1>5 DEF RpcSucceeds, RpcFails, Revoke
<1>6. ASSUME NEW r \in Refreshes, RefreshToken(r) PROVE pc'[o] \in Installed
  BY <1>6 DEF RefreshToken
<1>7. ASSUME NEW p \in Ops \cup Refreshes, Callback(p) PROVE pc'[o] \in Installed
  BY <1>7 DEF Callback
<1>8. CASE Relaunch
  BY <1>8 DEF Relaunch
<1>. QED
  BY <1>1, <1>2, <1>3, <1>4, <1>5, <1>6, <1>7, <1>8 DEF Next

(* The steps that write neither a token nor the thread's place in            *)
(* possiblyPostAuthStateChangeNotification.                                  *)
Silent ==
    /\ UNCHANGED <<token, lastNotified>>
    /\ \A t \in Threads : pc'[t] \in {"compare", "publish"} => pc'[t] = pc[t]

(* Which steps write tokens. *)
LEMMA TokenSteps ==
    ASSUME StructInv, Next
    PROVE  \/ Silent \/ BootDone \/ Relaunch
           \/ \E t \in Threads : ReadToken(t) \/ Compare(t) \/ Publish(t)
<1> USE SessionAssumption
    DEF StructInv, TypeOK, Threads, Ops, Credentials, Silent, sdkVars
<1>1. ASSUME NEW t \in Threads, Save(t) \/ Assign(t) PROVE Silent
  BY <1>1 DEF Save, Assign
<1>2. ASSUME LoadStored \/ SignOutReturns \/ Deliver PROVE Silent
  BY <1>2 DEF LoadStored, SignOutReturns, Deliver
<1>3. ASSUME RunMainQueue PROVE Silent
  BY <1>3 DEF RunMainQueue, RunInitial, RunPost, RunCompletion, RunSignedIn
<1>4. ASSUME People PROVE Silent
  BY <1>4 DEF People, Appear, OpenMenu, CloseMenu, TapSignOut, TapSignIn, TapSignUp,
     TapCredentials
<1>5. ASSUME NEW p \in Ops, RpcSucceeds(p) \/ RpcFails(p) \/ Revoke(p) PROVE Silent
  BY <1>5 DEF RpcSucceeds, RpcFails, Revoke
<1>6. ASSUME NEW r \in Refreshes, RefreshToken(r) PROVE Silent
  BY <1>6 DEF RefreshToken
<1>7. ASSUME NEW p \in Ops \cup Refreshes, Callback(p) PROVE Silent
  BY <1>7 DEF Callback
<1>. QED
  BY <1>1, <1>2, <1>3, <1>4, <1>5, <1>6, <1>7 DEF Next, UpdateCurrentUser

(* Only tokens of installed users are read, recorded and compared. *)
LEMMA TokenNext ==
    ASSUME StructInv, StructInv', CalmInv, Next
    PROVE  TokenInv'
<1>1. /\ TypeOK /\ TypeOK' /\ UserInv /\ TokenInv /\ InstalledInv
      /\ \A o \in Credentials : pc[o] \in Installed => pc'[o] \in Installed
      /\ Credentials \subseteq Threads
  BY InstalledStays DEF StructInv, CalmInv, Threads, Ops
<1>2. \A t \in Tokens \cup {None} : t # None => Owner(t) \in Credentials
  BY OwnerType
<1>3. CASE Silent
  BY <1>1, <1>2, <1>3 DEF TypeOK, TokenInv, Silent
<1>4. CASE BootDone
  BY <1>1, <1>2, <1>4, TokenTypes DEF TypeOK, TokenInv, UserInv, BootDone
<1>5. CASE Relaunch
  <2>1. /\ \A t \in Threads : token'[t] = None
        /\ lastNotified' = None
        /\ \A t \in Threads : pc'[t] \in {"load", "idle", "past"}
    BY <1>5 DEF Relaunch
  <2>2. QED
    BY <1>1, <2>1 DEF TokenInv
<1>6. ASSUME NEW t \in Threads, ReadToken(t) PROVE TokenInv'
  <2>1. /\ token' = [token EXCEPT ![t] = TokenOf(currentUser)] /\ lastNotified' = lastNotified
        /\ pc[t] = "token" /\ pc' = [pc EXCEPT ![t] = "compare"]
    BY <1>6 DEF ReadToken
  <2>2. t \in Credentials => currentUser = t
    BY <1>1, <2>1 DEF InstalledInv, Posting, Target
  <2>3. /\ TokenOf(currentUser) # None => pc[currentUser] \in Installed
        /\ Owner(TokenOf(currentUser)) = currentUser
    BY <1>1, TokenTypes DEF UserInv
  <2>4. \A s \in Threads : token'[s] # None => pc'[Owner(token'[s])] \in Installed
    <3>1. ASSUME NEW s \in Threads, s # t, token'[s] # None
          PROVE  pc'[Owner(token'[s])] \in Installed
      BY <1>1, <1>2, <2>1, <3>1 DEF TypeOK, TokenInv
    <3>2. ASSUME token'[t] # None PROVE pc'[Owner(token'[t])] \in Installed
      BY <1>1, <2>1, <2>3, <3>2, TokenTypes DEF TypeOK
    <3>3. QED
      BY <3>1, <3>2
  <2>5. \A o \in Credentials : pc'[o] \in {"compare", "publish"} => Owner(token'[o]) = o
    BY <1>1, <2>1, <2>2, <2>3 DEF TypeOK, TokenInv
  <2>6. QED
    BY <1>1, <1>2, <2>1, <2>4, <2>5 DEF TypeOK, TokenInv
<1>7. ASSUME NEW t \in Threads, Compare(t) PROVE TokenInv'
  <2>1. /\ pc[t] = "compare" /\ lastNotified' = lastNotified
        /\ \A s \in Threads : s # t => token'[s] = token[s] /\ pc'[s] = pc[s]
        /\ token'[t] = None \/ token'[t] = token[t]
        /\ pc'[t] = "publish" => token'[t] = token[t]
        /\ pc'[t] \in {"publish", "callback"}
    BY <1>1, <1>7 DEF TypeOK, Compare
  <2>2. QED
    BY <1>1, <1>2, <2>1 DEF TypeOK, TokenInv
<1>8. ASSUME NEW t \in Threads, Publish(t) PROVE TokenInv'
  <2>1. /\ pc[t] = "publish" /\ lastNotified' = token[t] /\ token'[t] = None
        /\ \A s \in Threads : s # t => token'[s] = token[s] /\ pc'[s] = pc[s]
        /\ pc'[t] = "callback"
    BY <1>1, <1>8 DEF TypeOK, Publish
  <2>2. QED
    BY <1>1, <1>2, <2>1 DEF TypeOK, TokenInv
<1>. QED
  BY <1>3, <1>4, <1>5, <1>6, <1>7, <1>8, TokenSteps

(* Every step that patient people leave possible preserves CalmInv. *)
LEMMA CalmNext ==
    ASSUME ~Overlap, Revocations = {}, StructInv, StructInv', SessionInv, CalmInv, Next
    PROVE  CalmInv'
<1> USE SessionAssumption
    DEF StructInv, SessionInv, CalmInv, TypeOK, Threads, Ops, Credentials
<1>0. TokenInv'
  BY TokenNext
<1>1. ASSUME NEW t \in Threads, Save(t) PROVE CalmInv'
  <2>1. OneAtATime'
    BY <1>1, Exclusive DEF PcInv, BootFirst, Booted, OneAtATime, Updating, Busy, Save,
       sdkVars, appVars
  <2>2. InstalledInv'
    BY <1>1, Exclusive DEF PcInv, BootFirst, Booted, InstalledInv, OneAtATime, Updating,
       Busy, Posting, Target, Save, sdkVars, appVars
  <2>3. FreshInv'
    BY <1>1, Exclusive DEF PcInv, UserInv, Installed, FreshInv, OneAtATime, Updating, Busy,
       Target, UidOf, Save, sdkVars, appVars
  <2>4. SignUpInv'
    BY <1>1, Exclusive DEF PcInv, UserInv, Installed, SignUpInv, SigningOut, Coming,
       Posting, Updating, Target, Save, sdkVars, appVars
  <2>5. MapInv'
    BY <1>1 DEF PcInv, UserInv, MapInv, SigningOut, Target, Save, sdkVars, appVars
  <2>6. QED
    BY <1>0, <2>1, <2>2, <2>3, <2>4, <2>5
<1>2. ASSUME NEW t \in Threads, Assign(t) PROVE CalmInv'
  <2>1. OneAtATime'
    BY <1>2, Exclusive DEF PcInv, BootFirst, Booted, OneAtATime, Updating, Busy, Assign,
       appVars
  <2>2. InstalledInv'
    BY <1>2, Exclusive DEF PcInv, BootFirst, Booted, InstalledInv, OneAtATime, Updating,
       Busy, Posting, Target, Assign, appVars
  <2>3. FreshInv'
    BY <1>2, Exclusive DEF PcInv, UserInv, Installed, FreshInv, OneAtATime, Updating, Busy,
       Target, UidOf, Assign, appVars
  <2>4. SignUpInv'
    <3>1. ASSUME t \in SignUps
          PROVE  Owner(lastNotified) # t /\ pc'[t] = "token" /\ lastNotified' = lastNotified
      BY <1>2, <3>1 DEF Assign, TokenInv, Installed, Owner
    <3>2. /\ pc[t] = "assign"
          /\ currentUser' \in SignUps => currentUser' = t
          /\ \A s \in Threads : s # t => pc'[s] = pc[s]
          /\ UNCHANGED <<ok, who, listeners>>
      BY <1>2 DEF Assign, Target, PcInv
    <3>3. t \in SignUps => ~SigningOut'
      BY <3>2 DEF OneAtATime, SigningOut, Busy, Updating
    <3>4. t \in SignUps => \A l \in 1..Len(listeners) : listeners[l].prev # who[t]
      BY <3>2 DEF FreshInv
    <3>5. QED
      BY <3>1, <3>2, <3>3, <3>4 DEF SignUpInv, Posting
  <2>5. MapInv'
    BY <1>2 DEF PcInv, UserInv, MapInv, SigningOut, Target, InstalledInv, Posting, Assign,
       appVars
  <2>6. QED
    BY <1>0, <2>1, <2>2, <2>3, <2>4, <2>5
<1>3. ASSUME NEW t \in Threads, ReadToken(t) PROVE CalmInv'
  <2>1. OneAtATime'
    BY <1>3, Exclusive DEF PcInv, BootFirst, Booted, OneAtATime, Updating, Busy, ReadToken,
       appVars
  <2>2. InstalledInv'
    BY <1>3, Exclusive DEF PcInv, BootFirst, Booted, InstalledInv, OneAtATime, Updating,
       Busy, Posting, Target, ReadToken, appVars
  <2>3. FreshInv'
    BY <1>3, Exclusive DEF PcInv, UserInv, Installed, FreshInv, OneAtATime, Updating, Busy,
       Target, UidOf, ReadToken, appVars
  <2>4. SignUpInv'
    BY <1>3, Exclusive DEF PcInv, UserInv, Installed, SignUpInv, SigningOut, Coming,
       Posting, Updating, Target, TokenInv, InstalledInv, FreshInv, OneAtATime, Busy,
       BootFirst, Booted, ReadToken, appVars
  <2>5. MapInv'
    BY <1>3 DEF PcInv, UserInv, MapInv, SigningOut, Target, ReadToken, appVars
  <2>6. QED
    BY <1>0, <2>1, <2>2, <2>3, <2>4, <2>5
<1>4. ASSUME NEW t \in Threads, Compare(t) PROVE CalmInv'
  <2>1. OneAtATime'
    BY <1>4, Exclusive DEF PcInv, BootFirst, Booted, OneAtATime, Updating, Busy, Compare,
       appVars
  <2>2. InstalledInv'
    BY <1>4, Exclusive DEF PcInv, BootFirst, Booted, InstalledInv, OneAtATime, Updating,
       Busy, Posting, Target, Compare, appVars
  <2>3. FreshInv'
    BY <1>4, Exclusive DEF PcInv, UserInv, Installed, FreshInv, OneAtATime, Updating, Busy,
       Target, UidOf, Compare, appVars
  <2>4. SignUpInv'
    BY <1>4, Exclusive DEF PcInv, UserInv, Installed, SignUpInv, SigningOut, Coming,
       Posting, Updating, Target, TokenInv, InstalledInv, FreshInv, OneAtATime, Busy,
       BootFirst, Booted, Compare, appVars
  <2>5. MapInv'
    BY <1>4 DEF PcInv, UserInv, MapInv, SigningOut, Target, InstalledInv, Posting, Compare,
       appVars
  <2>6. QED
    BY <1>0, <2>1, <2>2, <2>3, <2>4, <2>5
<1>5. ASSUME LoadStored PROVE CalmInv'
  <2>1. OneAtATime'
    BY <1>5 DEF PcInv, BootFirst, Booted, OneAtATime, Updating, Busy, LoadStored, appVars
  <2>2. InstalledInv'
    BY <1>5 DEF PcInv, BootFirst, Booted, InstalledInv, OneAtATime, Updating, Busy, Posting,
       Target, BootInv, LoadStored, appVars
  <2>3. FreshInv'
    <3>1. /\ \A p \in Credentials \cup Refreshes : pc'[p] = pc[p] /\ pc[p] \in {"idle", "rpc", "past"}
          /\ currentUser' = None \/ currentUser' = keychain
          /\ UNCHANGED <<accounts, keychain, who, subject, listeners>>
      BY <1>5 DEF LoadStored, BootFirst, Booted, BootInv
    <3>2. QED
      BY <3>1 DEF FreshInv
  <2>4. SignUpInv'
    BY <1>5 DEF PcInv, UserInv, Installed, SignUpInv, SigningOut, Coming, Posting, Updating,
       Target, TokenInv, InstalledInv, FreshInv, OneAtATime, Busy, BootFirst, Booted,
       LoadStored, appVars
  <2>5. MapInv'
    BY <1>5 DEF PcInv, UserInv, MapInv, SigningOut, Target, InstalledInv, Posting, BootInv,
       BootFirst, Booted, LoadStored, appVars
  <2>6. QED
    BY <1>0, <2>1, <2>2, <2>3, <2>4, <2>5
<1>6. ASSUME BootDone PROVE CalmInv'
  <2>1. OneAtATime'
    BY <1>6 DEF PcInv, BootFirst, Booted, OneAtATime, Updating, Busy, BootDone, appVars
  <2>2. InstalledInv'
    BY <1>6 DEF PcInv, BootFirst, Booted, InstalledInv, OneAtATime, Updating, Busy, Posting,
       Target, BootDone, appVars
  <2>3. FreshInv'
    BY <1>6 DEF PcInv, UserInv, Installed, FreshInv, OneAtATime, Updating, Busy, Target,
       UidOf, BootDone, appVars
  <2>4. SignUpInv'
    BY <1>6 DEF PcInv, UserInv, Installed, SignUpInv, SigningOut, Coming, Posting, Updating,
       Target, TokenInv, InstalledInv, FreshInv, OneAtATime, Busy, BootFirst, Booted,
       BootDone, appVars
  <2>5. MapInv'
    BY <1>6 DEF PcInv, UserInv, MapInv, SigningOut, Target, BootDone, appVars
  <2>6. QED
    BY <1>0, <2>1, <2>2, <2>3, <2>4, <2>5
<1>7. ASSUME NEW o \in Credentials, NEW u \in Uids, TapCredentials(o, u) PROVE CalmInv'
  <2>1. OneAtATime'
    <3>1. /\ \A p \in Credentials : pc[p] \notin Busy
          /\ \A i \in 1..Len(mainQ) : mainQ[i].kind # "signedIn"
          /\ pc[Main] = "idle"
      BY <1>7 DEF TapCredentials, MayTap, Settled, MainFree, Busy, Updating
    <3>2. /\ \A p \in Credentials : pc'[p] \in Busy => p = o
          /\ pc'[Main] \notin Updating /\ mainQ' = mainQ
      BY <1>7, <3>1 DEF TapCredentials, Updating
    <3>3. QED
      BY <3>1, <3>2 DEF OneAtATime
  <2>2. InstalledInv'
    BY <1>7 DEF PcInv, BootFirst, Booted, InstalledInv, OneAtATime, Updating, Busy, Posting,
       Target, TapCredentials, MayTap, Settled, MainFree, sdkVars, appVars
  <2>3. FreshInv'
    BY <1>7 DEF PcInv, UserInv, Installed, FreshInv, OneAtATime, Updating, Busy, Target,
       UidOf, TapCredentials, MayTap, Settled, MainFree, sdkVars, appVars
  <2>4. SignUpInv'
    BY <1>7 DEF PcInv, UserInv, Installed, SignUpInv, SigningOut, Coming, Posting, Updating,
       Target, OneAtATime, Busy, TapCredentials, MayTap, Settled, MainFree, sdkVars, appVars
  <2>5. MapInv'
    BY <1>7 DEF PcInv, UserInv, MapInv, SigningOut, Target, TapCredentials, MayTap, Settled,
       MainFree, sdkVars, appVars
  <2>6. QED
    BY <1>0, <2>1, <2>2, <2>3, <2>4, <2>5
<1>8. ASSUME NEW o \in Ops, RpcSucceeds(o) PROVE CalmInv'
  <2>1. OneAtATime'
    BY <1>8 DEF PcInv, BootFirst, Booted, OneAtATime, Updating, Busy, RpcSucceeds, sdkVars,
       appVars
  <2>2. InstalledInv'
    BY <1>8 DEF PcInv, BootFirst, Booted, InstalledInv, OneAtATime, Updating, Busy, Posting,
       Target, RpcSucceeds, sdkVars, appVars
  <2>3. FreshInv'
    BY <1>8 DEF PcInv, UserInv, Installed, FreshInv, OneAtATime, Updating, Busy, Target,
       UidOf, RpcSucceeds, sdkVars, appVars
  <2>4. SignUpInv'
    BY <1>8 DEF PcInv, UserInv, Installed, SignUpInv, SigningOut, Coming, Posting, Updating,
       Target, OneAtATime, Busy, RpcSucceeds, sdkVars, appVars
  <2>5. MapInv'
    BY <1>8 DEF PcInv, UserInv, MapInv, SigningOut, Target, RpcSucceeds, sdkVars, appVars
  <2>6. QED
    BY <1>0, <2>1, <2>2, <2>3, <2>4, <2>5
<1>9. ASSUME NEW o \in Ops, RpcFails(o) PROVE CalmInv'
  <2>1. OneAtATime'
    BY <1>9 DEF PcInv, BootFirst, Booted, OneAtATime, Updating, Busy, RpcFails, sdkVars,
       appVars
  <2>2. InstalledInv'
    BY <1>9 DEF PcInv, BootFirst, Booted, InstalledInv, OneAtATime, Updating, Busy, Posting,
       Target, RpcFails, sdkVars, appVars
  <2>3. FreshInv'
    BY <1>9 DEF PcInv, UserInv, Installed, FreshInv, OneAtATime, Updating, Busy, Target,
       UidOf, RpcFails, sdkVars, appVars
  <2>4. SignUpInv'
    BY <1>9 DEF PcInv, UserInv, Installed, SignUpInv, SigningOut, Coming, Posting, Updating,
       Target, OneAtATime, Busy, RpcFails, sdkVars, appVars
  <2>5. MapInv'
    BY <1>9 DEF PcInv, UserInv, MapInv, SigningOut, Target, RpcFails, sdkVars, appVars
  <2>6. QED
    BY <1>0, <2>1, <2>2, <2>3, <2>4, <2>5
<1>10. ASSUME OpenMenu PROVE CalmInv'
  <2>1. OneAtATime'
    BY <1>10 DEF PcInv, BootFirst, Booted, OneAtATime, Updating, Busy, OpenMenu, sdkVars,
       appVars
  <2>2. InstalledInv'
    BY <1>10 DEF PcInv, BootFirst, Booted, InstalledInv, OneAtATime, Updating, Busy,
       Posting, Target, OpenMenu, sdkVars, appVars
  <2>3. FreshInv'
    BY <1>10 DEF PcInv, UserInv, Installed, FreshInv, OneAtATime, Updating, Busy, Target,
       UidOf, OpenMenu, sdkVars, appVars
  <2>4. SignUpInv'
    BY <1>10 DEF PcInv, UserInv, Installed, SignUpInv, SigningOut, Coming, Posting,
       Updating, Target, OpenMenu, sdkVars, appVars
  <2>5. MapInv'
    BY <1>10 DEF PcInv, UserInv, MapInv, SigningOut, Target, OpenMenu, sdkVars, appVars
  <2>6. QED
    BY <1>0, <2>1, <2>2, <2>3, <2>4, <2>5
<1>11. ASSUME CloseMenu PROVE CalmInv'
  <2>1. OneAtATime'
    BY <1>11 DEF PcInv, BootFirst, Booted, OneAtATime, Updating, Busy, CloseMenu, sdkVars,
       appVars
  <2>2. InstalledInv'
    BY <1>11 DEF PcInv, BootFirst, Booted, InstalledInv, OneAtATime, Updating, Busy,
       Posting, Target, CloseMenu, sdkVars, appVars
  <2>3. FreshInv'
    BY <1>11 DEF PcInv, UserInv, Installed, FreshInv, OneAtATime, Updating, Busy, Target,
       UidOf, CloseMenu, sdkVars, appVars
  <2>4. SignUpInv'
    BY <1>11 DEF PcInv, UserInv, Installed, SignUpInv, SigningOut, Coming, Posting,
       Updating, Target, CloseMenu, sdkVars, appVars
  <2>5. MapInv'
    BY <1>11 DEF PcInv, UserInv, MapInv, SigningOut, Target, CloseMenu, sdkVars, appVars
  <2>6. QED
    BY <1>0, <2>1, <2>2, <2>3, <2>4, <2>5
<1>12. ASSUME TapSignOut PROVE CalmInv'
  <2>1. OneAtATime'
    <3>1. /\ \A p \in Credentials : pc'[p] = pc[p] /\ pc[p] \notin Busy
          /\ \A i \in 1..Len(mainQ) : mainQ[i].kind # "signedIn"
          /\ mainQ' = mainQ
      BY <1>12 DEF TapSignOut, MayTap, Settled, Busy, Updating
    <3>2. QED
      BY <3>1 DEF OneAtATime
  <2>2. InstalledInv'
    BY <1>12 DEF PcInv, BootFirst, Booted, InstalledInv, OneAtATime, Updating, Busy,
       Posting, Target, TapSignOut, MayTap, Settled, MainFree, sdkVars, appVars
  <2>3. FreshInv'
    BY <1>12 DEF PcInv, UserInv, Installed, FreshInv, OneAtATime, Updating, Busy, Target,
       UidOf, TapSignOut, MayTap, Settled, MainFree, sdkVars, appVars
  <2>4. SignUpInv'
    BY <1>12 DEF PcInv, UserInv, Installed, SignUpInv, SigningOut, Coming, Posting,
       Updating, Target, TokenInv, InstalledInv, FreshInv, OneAtATime, Busy, BootFirst,
       Booted, TapSignOut, MayTap, Settled, MainFree, sdkVars, appVars
  <2>5. MapInv'
    BY <1>12 DEF PcInv, UserInv, MapInv, SigningOut, Target, TapSignOut, MayTap, Settled,
       MainFree, sdkVars, appVars
  <2>6. QED
    BY <1>0, <2>1, <2>2, <2>3, <2>4, <2>5
<1>13. ASSUME SignOutReturns PROVE CalmInv'
  <2>1. OneAtATime'
    BY <1>13 DEF PcInv, BootFirst, Booted, OneAtATime, Updating, Busy, SignOutReturns,
       sdkVars, appVars
  <2>2. InstalledInv'
    BY <1>13 DEF PcInv, BootFirst, Booted, InstalledInv, OneAtATime, Updating, Busy,
       Posting, Target, SignOutReturns, sdkVars, appVars
  <2>3. FreshInv'
    BY <1>13 DEF PcInv, UserInv, Installed, FreshInv, OneAtATime, Updating, Busy, Target,
       UidOf, SignOutReturns, sdkVars, appVars
  <2>4. SignUpInv'
    BY <1>13 DEF PcInv, UserInv, Installed, SignUpInv, SigningOut, Coming, Posting,
       Updating, Target, SignOutReturns, sdkVars, appVars
  <2>5. MapInv'
    BY <1>13 DEF PcInv, UserInv, MapInv, SigningOut, Target, InstalledInv, Posting,
       SignOutReturns, sdkVars, appVars
  <2>6. QED
    BY <1>0, <2>1, <2>2, <2>3, <2>4, <2>5
<1>14. ASSUME NEW t \in Threads, Publish(t) PROVE CalmInv'
  <2>1. /\ Len(mainQ') = Len(mainQ) + 1 /\ Len(mainQ) \in Nat
        /\ \A i \in 1..Len(mainQ) : mainQ'[i] = mainQ[i]
        /\ mainQ'[Len(mainQ) + 1] = PostBlock /\ PostBlock.kind # "signedIn"
        /\ \A b : InQ(mainQ, b) => InQ(mainQ', b)
        /\ InQ(mainQ', PostBlock)
    BY <1>14, QueueAppend, BlockTypes DEF TypeOK, Publish, PostBlock
  <2>2. OneAtATime'
    BY <1>14, <2>1, Exclusive DEF PcInv, BootFirst, Booted, OneAtATime, Updating, Busy,
       Publish, appVars
  <2>3. InstalledInv'
    BY <1>14, <2>1, Exclusive DEF PcInv, BootFirst, Booted, InstalledInv, OneAtATime,
       Updating, Busy, Posting, Target, Publish, appVars
  <2>4. FreshInv'
    BY <1>14, <2>1, Exclusive DEF PcInv, UserInv, Installed, FreshInv, OneAtATime, Updating,
       Busy, Target, UidOf, Publish, appVars
  <2>5. SignUpInv'
    BY <1>14, <2>1, Exclusive DEF PcInv, UserInv, Installed, SignUpInv, SigningOut, Coming,
       Posting, Updating, Target, TokenInv, InstalledInv, FreshInv, OneAtATime, Busy,
       BootFirst, Booted, Publish, appVars
  <2>6. MapInv'
    BY <1>14, <2>1 DEF PcInv, UserInv, MapInv, SigningOut, Target, InstalledInv, Posting,
       Publish, appVars
  <2>7. QED
    BY <1>0, <2>2, <2>3, <2>4, <2>5, <2>6
<1>15. ASSUME Appear PROVE CalmInv'
  <2>1. /\ Len(mainQ') = Len(mainQ) + 1 /\ Len(mainQ) \in Nat
        /\ \A i \in 1..Len(mainQ) : mainQ'[i] = mainQ[i]
        /\ mainQ'[Len(mainQ) + 1].kind # "signedIn"
        /\ \A b : InQ(mainQ, b) => InQ(mainQ', b)
        /\ InQ(mainQ', InitialBlock(Len(listeners) + 1))
    BY <1>15, QueueAppend, BlockTypes DEF TypeOK, Appear, InitialBlock
  <2>2. /\ Len(listeners') = Len(listeners) + 1 /\ Len(listeners) \in Nat
        /\ \A l \in 1..Len(listeners) : listeners'[l] = listeners[l]
        /\ listeners'[Len(listeners) + 1].prev = None
    BY <1>15 DEF TypeOK, Appear
  <2>3. OneAtATime'
    BY <1>15, <2>1, <2>2 DEF PcInv, BootFirst, Booted, OneAtATime, Updating, Busy, Appear,
       sdkVars, appVars, MainFree
  <2>4. InstalledInv'
    BY <1>15, <2>1, <2>2 DEF PcInv, BootFirst, Booted, InstalledInv, OneAtATime, Updating,
       Busy, Posting, Target, Appear, sdkVars, appVars, MainFree
  <2>5. FreshInv'
    BY <1>15, <2>1, <2>2 DEF PcInv, UserInv, Installed, FreshInv, OneAtATime, Updating,
       Busy, Target, UidOf, Appear, sdkVars, appVars, MainFree
  <2>6. SignUpInv'
    BY <1>15, <2>1, <2>2 DEF PcInv, UserInv, Installed, SignUpInv, SigningOut, Coming,
       Posting, Updating, Target, Appear, sdkVars, appVars, MainFree
  <2>7. MapInv'
    BY <1>15, <2>1, <2>2 DEF PcInv, UserInv, MapInv, SigningOut, Target, Appear, sdkVars,
       appVars, MainFree
  <2>8. QED
    BY <1>0, <2>3, <2>4, <2>5, <2>6, <2>7
<1>16. ASSUME NEW o \in Ops, Callback(o) PROVE CalmInv'
  <2>1. /\ mainQ \in Seq(Block) /\ CompletionBlock(o) \in Block
        /\ mainQ' = Append(mainQ, CompletionBlock(o))
        /\ CompletionBlock(o).kind # "signedIn"
    BY <1>16, BlockTypes DEF TypeOK, Callback, CompletionBlock
  <2>2. /\ Len(mainQ') = Len(mainQ) + 1 /\ Len(mainQ) \in Nat
        /\ \A i \in 1..Len(mainQ) : mainQ'[i] = mainQ[i]
        /\ mainQ'[Len(mainQ) + 1].kind # "signedIn"
        /\ \A b : InQ(mainQ, b) => InQ(mainQ', b)
    BY <2>1, QueueAppend
  <2>3. OneAtATime'
    <3>1. /\ o \in Credentials /\ pc[o] = "callback" /\ pc'[o] = "queued"
          /\ \A s \in Threads : s # o => pc'[s] = pc[s]
      BY <1>16 DEF Callback
    <3>2. pc[o] \in Busy /\ pc'[o] \in Busy
      BY <3>1 DEF Busy, Updating
    <3>3. \A i \in 1..Len(mainQ) : mainQ[i].kind # "signedIn"
      BY <3>1, <3>2 DEF OneAtATime
    <3>4. \A i \in 1..Len(mainQ') : mainQ'[i].kind # "signedIn"
      <4>1. \A i \in 1..Len(mainQ') : i \in 1..Len(mainQ) \/ i = Len(mainQ) + 1
        BY <2>2
      <4>2. \A i \in 1..Len(mainQ) : mainQ'[i].kind # "signedIn"
        BY <2>2, <3>3
      <4>3. QED
        BY <2>2, <4>1, <4>2, Zenon
    <3>5. /\ \A p \in Credentials : pc'[p] \in Busy => pc[p] \in Busy
          /\ pc'[Main] = pc[Main]
      BY <3>1, <3>2
    <3>6. QED
      BY <3>4, <3>5 DEF OneAtATime
  <2>4. InstalledInv'
    BY <1>16, <2>1, <2>2 DEF PcInv, BootFirst, Booted, InstalledInv, OneAtATime, Updating,
       Busy, Posting, Target, Callback, sdkVars, appVars
  <2>5. FreshInv'
    BY <1>16, <2>1, <2>2 DEF PcInv, UserInv, Installed, FreshInv, OneAtATime, Updating,
       Busy, Target, UidOf, Callback, sdkVars, appVars
  <2>6. SignUpInv'
    BY <1>16, <2>1, <2>2 DEF PcInv, UserInv, Installed, SignUpInv, SigningOut, Coming,
       Posting, Updating, Target, Callback, sdkVars, appVars
  <2>7. MapInv'
    BY <1>16, <2>1, <2>2 DEF PcInv, UserInv, MapInv, SigningOut, Target, Callback, sdkVars,
       appVars
  <2>8. QED
    BY <1>0, <2>3, <2>4, <2>5, <2>6, <2>7
<1>17. ASSUME RunInitial PROVE CalmInv'
  <2> DEFINE h == Head(mainQ).listener
  <2>1. /\ h \in 1..Len(listeners) /\ Invoke(h)
        /\ \A b : InQ(mainQ, b) /\ b # Head(mainQ) => InQ(mainQ', b)
        /\ Head(mainQ) # PostBlock
        /\ \A l : Head(mainQ) = InitialBlock(l) => l = h
    BY <1>17, QueueTail DEF TypeOK, QueueInv, RunInitial, PostBlock, InitialBlock
  <2>2. /\ UidOf(currentUser) = IF currentUser = None THEN None ELSE who[currentUser]
        /\ currentUser # None => who[currentUser] \in Uids /\ who[currentUser] # None
    BY DEF TypeOK, UserInv, Installed, UidOf
  <2>3. /\ Len(listeners') = Len(listeners) /\ Len(listeners) \in Nat
        /\ listeners'[h].prev = UidOf(currentUser)
        /\ \A l \in 1..Len(listeners) : l # h => listeners'[l] = listeners[l]
        /\ signedIn' = IF listeners[h].first \/ listeners[h].prev # UidOf(currentUser)
                        THEN UidOf(currentUser) # None ELSE signedIn
    BY <2>1 DEF TypeOK, Invoke
  <2>4. /\ Len(mainQ') = Len(mainQ) - 1 /\ Len(mainQ) \in Nat
        /\ \A i \in 1..Len(mainQ') : i + 1 \in 1..Len(mainQ) /\ mainQ'[i] = mainQ[i + 1]
    BY <1>17, QueueTail DEF TypeOK, RunInitial
  <2> HIDE DEF h
  <2>5. OneAtATime'
    BY <1>17, <2>1, <2>2, <2>3, <2>4 DEF PcInv, BootFirst, Booted, OneAtATime, Updating,
       Busy, RunInitial, sdkVars, MainFree
  <2>6. InstalledInv'
    BY <1>17, <2>1, <2>2, <2>3, <2>4 DEF PcInv, BootFirst, Booted, InstalledInv, OneAtATime,
       Updating, Busy, Posting, Target, RunInitial, sdkVars, MainFree
  <2>7. FreshInv'
    <3>1. /\ accounts' = accounts /\ keychain' = keychain /\ who' = who /\ pc' = pc
          /\ currentUser' = currentUser /\ subject' = subject
      BY <1>17 DEF RunInitial, sdkVars
    <3>2. \A l \in 1..Len(listeners') :
              listeners'[l].prev = UidOf(currentUser) \/ listeners'[l].prev = listeners[l].prev
      BY <2>1, <2>3
    <3>3. QED
      BY <2>2, <2>3, <3>1, <3>2 DEF FreshInv, UidOf
  <2>8. SignUpInv'
    BY <1>17, <2>1, <2>2, <2>3, <2>4 DEF PcInv, UserInv, Installed, SignUpInv, SigningOut,
       Coming, Posting, Updating, Target, RunInitial, sdkVars, MainFree
  <2>9. MapInv'
    BY <1>17, <2>1, <2>2, <2>3, <2>4 DEF PcInv, UserInv, MapInv, SigningOut, Target,
       RunInitial, sdkVars, MainFree
  <2>10. QED
    BY <1>0, <2>5, <2>6, <2>7, <2>8, <2>9
<1>18. ASSUME RunPost PROVE CalmInv'
  <2>1. /\ Len(mainQ') = Len(mainQ) - 1 /\ Len(mainQ) \in Nat
        /\ \A i \in 1..Len(mainQ') : i + 1 \in 1..Len(mainQ) /\ mainQ'[i] = mainQ[i + 1]
        /\ \A b : InQ(mainQ, b) /\ b # Head(mainQ) => InQ(mainQ', b)
        /\ \A l : Head(mainQ) # InitialBlock(l)
    BY <1>18, QueueTail DEF TypeOK, RunPost, InitialBlock
  <2>2. OneAtATime'
    BY <1>18, <2>1 DEF PcInv, BootFirst, Booted, OneAtATime, Updating, Busy, RunPost,
       sdkVars, appVars, MainFree
  <2>3. InstalledInv'
    BY <1>18, <2>1 DEF PcInv, BootFirst, Booted, InstalledInv, OneAtATime, Updating, Busy,
       Posting, Target, RunPost, sdkVars, appVars, MainFree
  <2>4. FreshInv'
    BY <1>18, <2>1 DEF PcInv, UserInv, Installed, FreshInv, OneAtATime, Updating, Busy,
       Target, UidOf, RunPost, sdkVars, appVars, MainFree
  <2>5. SignUpInv'
    BY <1>18, <2>1 DEF PcInv, UserInv, Installed, SignUpInv, SigningOut, Coming, Posting,
       Updating, Target, RunPost, sdkVars, appVars, MainFree
  <2>6. MapInv'
    BY <1>18, <2>1 DEF PcInv, UserInv, MapInv, SigningOut, Target, RunPost, sdkVars,
       appVars, MainFree
  <2>7. QED
    BY <1>0, <2>2, <2>3, <2>4, <2>5, <2>6
<1>19. ASSUME Deliver PROVE CalmInv'
  <2> DEFINE h == cursor
  <2>1. h \in 1..Len(listeners) /\ Invoke(h)
    BY <1>19 DEF CursorInv, Deliver
  <2>2. /\ UidOf(currentUser) = IF currentUser = None THEN None ELSE who[currentUser]
        /\ currentUser # None => who[currentUser] \in Uids /\ who[currentUser] # None
    BY DEF TypeOK, UserInv, Installed, UidOf
  <2>3. /\ Len(listeners') = Len(listeners) /\ Len(listeners) \in Nat
        /\ listeners'[h].prev = UidOf(currentUser)
        /\ \A l \in 1..Len(listeners) : l # h => listeners'[l] = listeners[l]
        /\ signedIn' = IF listeners[h].first \/ listeners[h].prev # UidOf(currentUser)
                        THEN UidOf(currentUser) # None ELSE signedIn
    BY <2>1 DEF TypeOK, Invoke
  <2> HIDE DEF h
  <2>4. OneAtATime'
    BY <1>19, <2>1, <2>2, <2>3 DEF PcInv, BootFirst, Booted, OneAtATime, Updating, Busy,
       Deliver, sdkVars
  <2>5. InstalledInv'
    BY <1>19, <2>1, <2>2, <2>3 DEF PcInv, BootFirst, Booted, InstalledInv, OneAtATime,
       Updating, Busy, Posting, Target, Deliver, sdkVars
  <2>6. FreshInv'
    BY <1>19, <2>1, <2>2, <2>3 DEF PcInv, UserInv, Installed, FreshInv, OneAtATime,
       Updating, Busy, Target, UidOf, Deliver, sdkVars
  <2>7. SignUpInv'
    BY <1>19, <2>1, <2>2, <2>3 DEF PcInv, UserInv, Installed, SignUpInv, SigningOut, Coming,
       Posting, Updating, Target, h, Deliver, sdkVars
  <2>8. MapInv'
    BY <1>19, <2>1, <2>2, <2>3 DEF PcInv, UserInv, MapInv, SigningOut, Target, Deliver,
       sdkVars
  <2>9. QED
    BY <1>0, <2>4, <2>5, <2>6, <2>7, <2>8
<1>20. ASSUME RunCompletion PROVE CalmInv'
  <2> DEFINE o == Head(mainQ).op
  <2>1. /\ o \in Credentials /\ pc[o] = "queued"
        /\ Len(Tail(mainQ)) = Len(mainQ) - 1 /\ Len(mainQ) \in Nat
        /\ \A i \in 1..Len(Tail(mainQ)) : i + 1 \in 1..Len(mainQ) /\ Tail(mainQ)[i] = mainQ[i + 1]
        /\ \A b : InQ(mainQ, b) /\ b # Head(mainQ) => InQ(Tail(mainQ), b)
        /\ Head(mainQ) # PostBlock /\ \A l : Head(mainQ) # InitialBlock(l)
        /\ Tail(mainQ) \in Seq(Block)
    BY <1>20, QueueTail, SMTT(30) DEF TypeOK, QueueInv, RunCompletion, PostBlock, InitialBlock
  <2>2. \A i \in 1..Len(mainQ') : mainQ'[i].kind = "signedIn" =>
            ok[o] \/ \E j \in 1..Len(mainQ) : mainQ[j].kind = "signedIn"
    <3>1. CASE mainQ' = Tail(mainQ)
      BY <2>1, <3>1
    <3>2. CASE ok[o]
      BY <3>2
    <3>3. QED
      BY <1>20, <3>1, <3>2 DEF RunCompletion
  <2>3. \A b : InQ(mainQ, b) /\ b # Head(mainQ) => InQ(mainQ', b)
    BY <1>20, <2>1, QueueAppend, BlockTypes DEF TypeOK, RunCompletion
  <2>4. /\ pc[Main] = "idle" /\ pc' = [pc EXCEPT ![o] = "answered"]
        /\ UNCHANGED <<accounts, keychain, who, subject, ok, sdkVars, listeners, cursor,
                       signedIn>>
    BY <1>20 DEF RunCompletion, MainFree
  <2> HIDE DEF o
  <2>5. OneAtATime'
    BY <2>1, <2>2, <2>3, <2>4 DEF PcInv, BootFirst, Booted, OneAtATime, Updating, Busy,
       sdkVars, MainFree
  <2>6. InstalledInv'
    BY <2>1, <2>2, <2>3, <2>4 DEF PcInv, BootFirst, Booted, InstalledInv, OneAtATime,
       Updating, Busy, Posting, Target, sdkVars, MainFree
  <2>7. FreshInv'
    BY <2>1, <2>2, <2>3, <2>4 DEF PcInv, UserInv, Installed, FreshInv, OneAtATime, Updating,
       Busy, Target, UidOf, sdkVars, MainFree
  <2>8. SignUpInv'
    BY <2>1, <2>2, <2>3, <2>4 DEF PcInv, UserInv, Installed, SignUpInv, SigningOut, Coming,
       Posting, Updating, Target, sdkVars, MainFree
  <2>9. MapInv'
    BY <2>1, <2>2, <2>3, <2>4 DEF PcInv, UserInv, MapInv, SigningOut, Target, sdkVars,
       MainFree
  <2>10. QED
    BY <1>0, <2>5, <2>6, <2>7, <2>8, <2>9
<1>21. ASSUME RunSignedIn PROVE CalmInv'
  <2>1. /\ Len(mainQ') = Len(mainQ) - 1 /\ Len(mainQ) \in Nat
        /\ \A i \in 1..Len(mainQ') : i + 1 \in 1..Len(mainQ) /\ mainQ'[i] = mainQ[i + 1]
        /\ \A b : InQ(mainQ, b) /\ b # Head(mainQ) => InQ(mainQ', b)
        /\ Head(mainQ) # PostBlock /\ \A l : Head(mainQ) # InitialBlock(l)
        /\ 1 \in 1..Len(mainQ) /\ mainQ[1].kind = "signedIn"
    BY <1>21, QueueTail DEF TypeOK, RunSignedIn, PostBlock, InitialBlock
  <2>2. OneAtATime'
    BY <1>21, <2>1 DEF PcInv, BootFirst, Booted, OneAtATime, Updating, Busy, RunSignedIn,
       sdkVars, MainFree
  <2>3. InstalledInv'
    BY <1>21, <2>1 DEF PcInv, BootFirst, Booted, InstalledInv, OneAtATime, Updating, Busy,
       Posting, Target, RunSignedIn, sdkVars, MainFree
  <2>4. FreshInv'
    BY <1>21, <2>1 DEF PcInv, UserInv, Installed, FreshInv, OneAtATime, Updating, Busy,
       Target, UidOf, RunSignedIn, sdkVars, MainFree
  <2>5. SignUpInv'
    BY <1>21, <2>1 DEF PcInv, UserInv, Installed, SignUpInv, SigningOut, Coming, Posting,
       Updating, Target, RunSignedIn, sdkVars, MainFree
  <2>6. MapInv'
    BY <1>21, <2>1 DEF PcInv, UserInv, MapInv, SigningOut, Target, InstalledInv, Posting,
       RunSignedIn, sdkVars, MainFree
  <2>7. QED
    BY <1>0, <2>2, <2>3, <2>4, <2>5, <2>6
<1>22. ASSUME Relaunch PROVE CalmInv'
  <2>1. OneAtATime'
    BY <1>22 DEF PcInv, BootFirst, Booted, OneAtATime, Updating, Busy, Relaunch
  <2>2. InstalledInv'
    BY <1>22 DEF PcInv, BootFirst, Booted, InstalledInv, OneAtATime, Updating, Busy,
       Posting, Target, Relaunch
  <2>3. FreshInv'
    BY <1>22 DEF PcInv, UserInv, Installed, FreshInv, OneAtATime, Updating, Busy, Target,
       UidOf, Relaunch
  <2>4. SignUpInv'
    BY <1>22 DEF PcInv, UserInv, Installed, SignUpInv, SigningOut, Coming, Posting,
       Updating, Target, Relaunch
  <2>5. MapInv'
    BY <1>22 DEF PcInv, UserInv, MapInv, SigningOut, Target, Relaunch
  <2>6. QED
    BY <1>0, <2>1, <2>2, <2>3, <2>4, <2>5
<1>23. ASSUME NEW o \in Ops, Revoke(o) PROVE CalmInv'
  BY <1>23 DEF Revoke
<1>24. ASSUME NEW r \in Refreshes, RefreshToken(r) PROVE CalmInv'
  <2>1. /\ \A t \in Threads : t # r => pc'[t] = pc[t]
        /\ pc[r] = "idle" /\ currentUser # None /\ currentUser \in Credentials
        /\ subject' = [subject EXCEPT ![r] = currentUser]
        /\ UNCHANGED <<accounts, keychain, who, ok, currentUser, lastNotified, listeners,
                       cursor, mainQ, signedIn>>
    BY <1>24 DEF RefreshToken, sdkVars, appVars
  <2>2. OneAtATime' /\ InstalledInv'
    <3>1. /\ \A t \in Credentials \cup {Main} : pc'[t] = pc[t]
          /\ \A t \in Credentials \cup {Main} : Target(t)' = Target(t)
      BY <2>1 DEF Target
    <3>2. OneAtATime'
      BY <2>1, <3>1 DEF OneAtATime
    <3>3. InstalledInv'
      BY <2>1, <3>1 DEF InstalledInv
    <3>4. QED
      BY <3>2, <3>3
  <2>3. FreshInv'
    BY <2>1 DEF FreshInv, UidOf
  <2>4. SignUpInv' /\ MapInv'
    <3>1. /\ pc'[Main] = pc[Main] /\ pc'[Boot] = pc[Boot]
          /\ \A o \in SignUps : pc'[o] = pc[o]
      BY <2>1, SessionAssumption DEF Threads, Ops, Credentials
    <3>2. SigningOut' <=> SigningOut
      BY <2>1, <3>1 DEF SigningOut
    <3>3. \A l : Coming(l)' <=> Coming(l)
      BY <2>1, <3>1 DEF Coming
    <3>4. MapInv'
      BY <2>1, <3>2 DEF MapInv
    <3>5. SignUpInv'
      BY <2>1, <3>1, <3>2, <3>3 DEF SignUpInv
    <3>6. QED
      BY <3>4, <3>5
  <2>5. QED
    BY <1>0, <2>2, <2>3, <2>4
<1>25. ASSUME NEW r \in Refreshes, Callback(r) PROVE CalmInv'
  <2>1. /\ \A t \in Threads : t # r => pc'[t] = pc[t]
        /\ pc[r] = "callback" /\ pc'[r] = "done"
        /\ UNCHANGED <<accounts, keychain, who, subject, ok, currentUser, lastNotified,
                       listeners, cursor, mainQ, signedIn>>
    BY <1>25 DEF Callback, sdkVars, appVars
  <2>2. OneAtATime' /\ InstalledInv'
    <3>1. /\ \A t \in Credentials \cup {Main} : pc'[t] = pc[t]
          /\ \A t \in Credentials \cup {Main} : Target(t)' = Target(t)
      BY <2>1 DEF Target
    <3>2. OneAtATime'
      BY <2>1, <3>1 DEF OneAtATime
    <3>3. InstalledInv'
      BY <2>1, <3>1 DEF InstalledInv
    <3>4. QED
      BY <3>2, <3>3
  <2>3. FreshInv'
    BY <2>1 DEF FreshInv, UidOf
  <2>4. SignUpInv' /\ MapInv'
    <3>1. /\ pc'[Main] = pc[Main] /\ pc'[Boot] = pc[Boot]
          /\ \A o \in SignUps : pc'[o] = pc[o]
      BY <2>1, SessionAssumption DEF Threads, Ops, Credentials
    <3>2. SigningOut' <=> SigningOut
      BY <2>1, <3>1 DEF SigningOut
    <3>3. \A l : Coming(l)' <=> Coming(l)
      BY <2>1, <3>1 DEF Coming
    <3>4. MapInv'
      BY <2>1, <3>2 DEF MapInv
    <3>5. SignUpInv'
      BY <2>1, <3>1, <3>2, <3>3 DEF SignUpInv
    <3>6. QED
      BY <3>4, <3>5
  <2>5. QED
    BY <1>0, <2>2, <2>3, <2>4
<1>. QED
  BY <1>1, <1>2, <1>3, <1>4, <1>5, <1>6, <1>7, <1>8, <1>9, <1>10, <1>11, <1>12, <1>13,
     <1>14, <1>15, <1>16, <1>17, <1>18, <1>19, <1>20, <1>21, <1>22, <1>23, <1>24, <1>25
     DEF Next, People, TapSignIn, TapSignUp, RunMainQueue, UpdateCurrentUser

-----------------------------------------------------------------------------
(* Where refreshes and changes of the user exclude each other.               *)

(* The steps that leave the keychain, the user and the tokens alone and move *)
(* no thread into or within updateCurrentUser.                               *)
Aside ==
    /\ UNCHANGED <<keychain, currentUser, subject, token, lastNotified>>
    /\ pc'[Boot] = pc[Boot]
    /\ \A t \in Threads : pc'[t] = pc[t] \/ (~Inside(t) /\ ~Inside(t)')

(* Which steps are not of that kind. *)
LEMMA QuietSteps ==
    ASSUME StructInv, Next
    PROVE  \/ Aside \/ LoadStored \/ BootDone \/ Relaunch \/ TapSignOut
           \/ \E t \in Threads : UpdateCurrentUser(t)
           \/ \E o \in Ops : RpcSucceeds(o) \/ Revoke(o)
           \/ \E r \in Refreshes : RefreshToken(r)
<1> USE SessionAssumption
    DEF StructInv, TypeOK, Threads, Ops, Credentials, Aside, Inside, sdkVars
<1>1. ASSUME SignOutReturns \/ Deliver PROVE Aside
  BY <1>1 DEF SignOutReturns, Deliver
<1>2. ASSUME RunInitial \/ RunPost \/ RunSignedIn PROVE Aside
  BY <1>2 DEF RunInitial, RunPost, RunSignedIn, MainFree
<1>3. ASSUME RunCompletion PROVE Aside
  <2>1. /\ mainQ # <<>> /\ Head(mainQ).kind = "completion" /\ mainQ \in Seq(Block)
    BY <1>3 DEF RunCompletion
  <2>2. Head(mainQ) = mainQ[1] /\ 1 \in 1..Len(mainQ)
    BY <2>1, QueueTail
  <2>3. Head(mainQ).op \in Credentials /\ pc[Head(mainQ).op] = "queued"
    BY <2>1, <2>2 DEF QueueInv
  <2>4. QED
    BY <1>3, <2>3 DEF RunCompletion
<1>4. ASSUME Appear \/ OpenMenu \/ CloseMenu PROVE Aside
  BY <1>4 DEF Appear, OpenMenu, CloseMenu
<1>5. ASSUME NEW o \in Credentials, NEW u \in Uids, TapCredentials(o, u) PROVE Aside
  BY <1>5 DEF TapCredentials
<1>6. ASSUME NEW o \in Ops, RpcFails(o) PROVE Aside
  BY <1>6 DEF RpcFails
<1>7. ASSUME NEW o \in Ops \cup Refreshes, Callback(o) PROVE Aside
  BY <1>7 DEF Callback
<1>. QED
  BY <1>1, <1>2, <1>3, <1>4, <1>5, <1>6, <1>7
     DEF Next, People, TapSignIn, TapSignUp, RunMainQueue

(* Every step preserves QuietInv: a refresh stores the user that stays the   *)
(* current one until it is through.                                          *)
LEMMA QuietNext ==
    ASSUME ~Overlap, Revocations = {}, ~RefreshRaces,
           StructInv, StructInv', SessionInv, CalmInv, QuietInv, Next
    PROVE  QuietInv'
<1> USE SessionAssumption
    DEF StructInv, SessionInv, CalmInv, QuietInv, TypeOK, Threads, Ops, Credentials
<1>1. CASE Aside
  <2>1. DurableInv'
    BY <1>1 DEF Aside, Inside, DurableInv, Target
  <2>2. NotifiedInv'
    BY <1>1 DEF Aside, Inside, NotifiedInv, Posting
  <2>3. RefreshInv'
    BY <1>1 DEF Aside, Inside, RefreshInv
  <2>4. QED
    BY <2>1, <2>2, <2>3
<1>2. ASSUME NEW t \in Threads, Save(t) PROVE QuietInv'
  <2>1. /\ pc[t] = "save" /\ \A s \in Threads : s # t => pc'[s] = pc[s]
        /\ \/ /\ keychain' = Target(t)
              /\ pc'[t] = IF t \in Refreshes THEN "token" ELSE "assign"
           \/ keychain' = keychain /\ pc'[t] = "callback"
        /\ UNCHANGED <<currentUser, subject, token, lastNotified>>
    BY <1>2 DEF Save, sdkVars
  <2>2. t # Boot /\ pc'[Boot] = pc[Boot] /\ \A s \in Threads : pc[s] # "assign"
    BY <2>1, Exclusive DEF PcInv, RefreshInv, Inside, Updating
  <2>3. DurableInv'
    BY <2>1, <2>2 DEF DurableInv, RefreshInv, Inside, Target
  <2>4. NotifiedInv'
    BY <2>1 DEF NotifiedInv, Posting
  <2>5. RefreshInv'
    BY <2>1 DEF RefreshInv, Inside
  <2>6. QED
    BY <2>3, <2>4, <2>5
<1>3. ASSUME NEW t \in Threads, Assign(t) PROVE QuietInv'
  <2>1. /\ pc[t] = "assign" /\ \A s \in Threads : s # t => pc'[s] = pc[s]
        /\ pc'[t] = "token" /\ currentUser' = Target(t)
        /\ UNCHANGED <<keychain, subject, token, lastNotified>>
    BY <1>3 DEF Assign
  <2>2. /\ t \notin Refreshes /\ t # Boot
        /\ \A s \in Threads : s # t => ~Inside(s)
    BY <2>1, Exclusive DEF PcInv, RefreshInv, Inside, Updating
  <2>3. DurableInv'
    BY <2>1, <2>2 DEF DurableInv, Inside
  <2>4. NotifiedInv'
    BY <2>1, <2>2 DEF NotifiedInv, Inside, Posting
  <2>5. RefreshInv'
    BY <2>1, <2>2 DEF RefreshInv, Inside
  <2>6. QED
    BY <2>3, <2>4, <2>5
<1>4. ASSUME NEW t \in Threads, ReadToken(t) PROVE QuietInv'
  <2>1. /\ pc[t] = "token" /\ \A s \in Threads : s # t => pc'[s] = pc[s]
        /\ pc'[t] = "compare" /\ Owner(token'[t]) = currentUser
        /\ \A s \in Threads : s # t => token'[s] = token[s]
        /\ UNCHANGED <<keychain, currentUser, subject, lastNotified>>
    BY <1>4, TokenTypes DEF ReadToken
  <2>2. DurableInv'
    BY <2>1 DEF DurableInv, Target
  <2>3. NotifiedInv'
    BY <2>1 DEF NotifiedInv, Posting
  <2>4. RefreshInv'
    BY <2>1 DEF RefreshInv, Inside
  <2>5. QED
    BY <2>2, <2>3, <2>4
<1>5. ASSUME NEW t \in Threads, Compare(t) PROVE QuietInv'
  <2>1. /\ pc[t] = "compare" /\ \A s \in Threads : s # t => pc'[s] = pc[s]
        /\ IF token[t] = lastNotified THEN pc'[t] = "callback"
           ELSE pc'[t] = "publish" /\ token'[t] = token[t]
        /\ \A s \in Threads : s # t => token'[s] = token[s]
        /\ UNCHANGED <<keychain, currentUser, subject, lastNotified>>
    BY <1>5 DEF Compare
  <2>2. DurableInv'
    BY <2>1 DEF DurableInv, Target
  <2>3. NotifiedInv'
    BY <2>1 DEF NotifiedInv, Posting
  <2>4. RefreshInv'
    BY <2>1 DEF RefreshInv, Inside
  <2>5. QED
    BY <2>2, <2>3, <2>4
<1>6. ASSUME NEW t \in Threads, Publish(t) PROVE QuietInv'
  <2>1. /\ pc[t] = "publish" /\ \A s \in Threads : s # t => pc'[s] = pc[s]
        /\ pc'[t] = "callback" /\ lastNotified' = token[t]
        /\ \A s \in Threads : s # t => token'[s] = token[s]
        /\ UNCHANGED <<keychain, currentUser, subject>>
    BY <1>6 DEF Publish
  <2>2. DurableInv'
    BY <2>1 DEF DurableInv, Target
  <2>3. NotifiedInv'
    BY <2>1 DEF NotifiedInv, Posting
  <2>4. RefreshInv'
    BY <2>1 DEF RefreshInv, Inside
  <2>5. QED
    BY <2>2, <2>3, <2>4
<1>7. CASE LoadStored
  <2>1. /\ pc[Boot] = "load" /\ \A s \in Threads : s # Boot => pc'[s] = pc[s]
        /\ \/ currentUser' = keychain /\ pc'[Boot] = "token"
           \/ currentUser' = currentUser /\ pc'[Boot] = "unread"
        /\ UNCHANGED <<keychain, subject, token, lastNotified>>
    BY <1>7 DEF LoadStored
  <2>2. /\ \A s \in Threads : s # Boot => ~Inside(s)
        /\ currentUser = None
    BY <2>1 DEF BootFirst, Booted, BootInv, Inside
  <2>3. DurableInv'
    BY <2>1, <2>2 DEF DurableInv, Inside
  <2>4. NotifiedInv'
    BY <2>1, <2>2 DEF NotifiedInv, Posting, Inside
  <2>5. RefreshInv'
    BY <2>1, <2>2 DEF RefreshInv, Inside
  <2>6. QED
    BY <2>3, <2>4, <2>5
<1>8. CASE BootDone
  <2>1. /\ pc[Boot] = "callback" /\ \A s \in Threads : s # Boot => pc'[s] = pc[s]
        /\ pc'[Boot] = "done"
        /\ lastNotified' = IF currentUser # None THEN TokenOf(currentUser) ELSE lastNotified
        /\ UNCHANGED <<keychain, currentUser, subject, token>>
    BY <1>8 DEF BootDone
  <2>2. DurableInv'
    BY <2>1 DEF DurableInv, Target
  <2>3. NotifiedInv'
    BY <2>1, TokenTypes DEF NotifiedInv, Posting
  <2>4. RefreshInv'
    BY <2>1 DEF RefreshInv, Inside
  <2>5. QED
    BY <2>2, <2>3, <2>4
<1>9. CASE Relaunch
  <2>1. /\ \A t \in Threads : pc'[t] \in {"load", "idle", "past"}
        /\ pc'[Boot] = "load" /\ currentUser' = None /\ lastNotified' = None
    BY <1>9 DEF Relaunch
  <2>2. DurableInv' /\ NotifiedInv' /\ RefreshInv'
    BY <2>1 DEF DurableInv, NotifiedInv, RefreshInv, Inside, Owner
  <2>3. QED
    BY <2>2
<1>10. CASE TapSignOut
  <2>1. /\ \A s \in Threads : s # Main => pc'[s] = pc[s]
        /\ pc[Main] = "idle" /\ pc'[Main] \in {"save", "callback"}
        /\ \A r \in Refreshes : ~Inside(r)
        /\ UNCHANGED <<keychain, currentUser, subject, token, lastNotified>>
    BY <1>10 DEF TapSignOut, MayTap, MainFree, MayChangeUser, sdkVars
  <2>2. DurableInv'
    BY <2>1 DEF DurableInv, Target
  <2>3. NotifiedInv'
    BY <2>1 DEF NotifiedInv, Posting
  <2>4. RefreshInv'
    BY <2>1 DEF RefreshInv, Inside
  <2>5. QED
    BY <2>2, <2>3, <2>4
<1>11. ASSUME NEW o \in Ops, RpcSucceeds(o) PROVE QuietInv'
  <2>1. /\ \A s \in Threads : s # o => pc'[s] = pc[s]
        /\ pc[o] = "rpc" /\ pc'[o] = "save"
        /\ \A r \in Refreshes : ~Inside(r)
        /\ UNCHANGED <<keychain, currentUser, subject, token, lastNotified>>
    BY <1>11 DEF RpcSucceeds, MayChangeUser, sdkVars
  <2>2. DurableInv'
    BY <2>1 DEF DurableInv, Target, PcInv
  <2>3. NotifiedInv'
    BY <2>1 DEF NotifiedInv, Posting
  <2>4. RefreshInv'
    BY <2>1 DEF RefreshInv, Inside
  <2>5. QED
    BY <2>2, <2>3, <2>4
<1>12. ASSUME NEW r \in Refreshes, RefreshToken(r) PROVE QuietInv'
  <2>1. /\ \A s \in Threads : s # r => pc'[s] = pc[s]
        /\ pc[r] = "idle" /\ pc'[r] = "save"
        /\ \A t \in Threads \ Refreshes : ~Inside(t)
        /\ subject' = [subject EXCEPT ![r] = currentUser]
        /\ UNCHANGED <<keychain, currentUser, token, lastNotified>>
    BY <1>12 DEF RefreshToken, MayRefresh, sdkVars
  <2>2. DurableInv'
    BY <2>1 DEF DurableInv, Inside, PcInv
  <2>3. NotifiedInv'
    BY <2>1 DEF NotifiedInv, Posting
  <2>4. RefreshInv'
    BY <2>1 DEF RefreshInv, Inside
  <2>5. QED
    BY <2>2, <2>3, <2>4
<1>. QED
  BY <1>1, <1>2, <1>3, <1>4, <1>5, <1>6, <1>7, <1>8, <1>9, <1>10, <1>11, <1>12, QuietSteps
     DEF UpdateCurrentUser, Revoke

-----------------------------------------------------------------------------
(* A step that changes no variable keeps the invariants. *)
LEMMA CalmStutter == UNCHANGED vars => (CalmInv => CalmInv') /\ (QuietInv => QuietInv')
<1> SUFFICES ASSUME UNCHANGED vars
             PROVE  (CalmInv => CalmInv') /\ (QuietInv => QuietInv')
  OBVIOUS
<1> USE DEF vars, CalmInv, QuietInv
<1>1. OneAtATime /\ InstalledInv => OneAtATime' /\ InstalledInv'
  BY DEF OneAtATime, InstalledInv, Target
<1>2. FreshInv /\ MapInv => FreshInv' /\ MapInv'
  BY DEF FreshInv, UidOf, MapInv, SigningOut
<1>3. SignUpInv => SignUpInv'
  BY DEF SignUpInv, SigningOut, Coming, Owner
<1>4. TokenInv => TokenInv'
  BY DEF TokenInv, Owner
<1>5. QuietInv => QuietInv'
  BY DEF DurableInv, Target, NotifiedInv, Owner, RefreshInv, Inside
<1>6. QED
  BY <1>1, <1>2, <1>3, <1>4, <1>5

(* For patient people CalmInv holds with IInv. *)
LEMMA CalmInductive ==
    ASSUME ~Overlap, Revocations = {}
    PROVE  Spec => [](IInv /\ CalmInv)
<1>1. Init => CalmInv
  BY CalmInit
<1>2. IInv /\ IInv' /\ CalmInv /\ [Next]_vars => CalmInv'
  BY CalmNext, CalmStutter DEF IInv
<1>3. QED
  BY <1>1, <1>2, Inductive, PTL DEF Spec

(* And QuietInv with them, if no refresh overlaps a change of the user. *)
LEMMA QuietInductive ==
    ASSUME ~Overlap, Revocations = {}, ~RefreshRaces
    PROVE  Spec => [](IInv /\ CalmInv /\ QuietInv)
<1>1. Init => QuietInv
  BY CalmInit
<1>2. IInv /\ IInv' /\ CalmInv /\ QuietInv /\ [Next]_vars => QuietInv'
  BY QuietNext, CalmStutter DEF IInv
<1>3. QED
  BY <1>1, <1>2, CalmInductive, PTL DEF Spec

-----------------------------------------------------------------------------
(* What the invariants say once all threads have come to rest. *)
LEMMA AtRest ==
    ASSUME IInv, Quiescent
    PROVE  /\ \A b : ~InQ(mainQ, b)
           /\ ~SigningOut
           /\ 1 \in 1..Len(listeners) /\ ~Coming(1)
           /\ \A o \in Ops \cup Refreshes : pc[o] \in {"idle", "answered", "done", "past"}
           /\ pc[Main] = "idle" /\ pc[Boot] \in {"done", "unread"}
<1>1. /\ pc[Main] = "idle" /\ pc[Boot] \in {"done", "unread"} /\ mainQ = <<>>
      /\ \A o \in Ops \cup Refreshes : pc[o] \in {"idle", "answered", "done", "past"}
  BY DEF Quiescent, Booted, MainFree
<1>2. \A b : ~InQ(mainQ, b)
  BY <1>1 DEF InQ
<1>3. 1 \in 1..Len(listeners)
  BY DEF Quiescent, IInv, StructInv, TypeOK
<1>4. QED
  BY <1>1, <1>2, <1>3 DEF SigningOut, Coming

(* For patient people the screen of whoever is signed in is the map, once    *)
(* all threads are at rest: after a sign-in, after a sign-up, whose          *)
(* completion leaves that to the listeners, and after a restart; and however *)
(* token refreshes race with all of them.                                    *)
THEOREM CalmSessionShown ==
    ASSUME ~Overlap, Revocations = {}
    PROVE  Spec => []SessionShown
<1>1. IInv /\ CalmInv => SessionShown
  <2> SUFFICES ASSUME IInv, CalmInv, Quiescent, currentUser # None
               PROVE  signedIn
    BY DEF SessionShown
  <2>1. currentUser \in Credentials /\ pc[currentUser] \in {"answered", "past"}
    BY AtRest DEF IInv, StructInv, TypeOK, UserInv, Installed, Ops
  <2>2. CASE pc[currentUser] = "past"
    BY <2>2, AtRest DEF IInv, SessionInv, RestoredInv
  <2>3. CASE pc[currentUser] = "answered" /\ currentUser \in SignIns
    BY <2>3, AtRest DEF IInv, SessionInv, SignInInv
  <2>4. CASE pc[currentUser] = "answered" /\ currentUser \in SignUps
    BY <2>4, AtRest DEF CalmInv, SignUpInv, Posting
  <2>5. QED
    BY <2>1, <2>2, <2>3, <2>4 DEF Credentials
<1>2. QED
  BY <1>1, CalmInductive, PTL

(* For patient people ContentView shows the map only when somebody is signed *)
(* in: the block that signIn's completion dispatches never outlives its      *)
(* session, however token refreshes race with it.                            *)
THEOREM CalmMapOnlyIfAuthenticated ==
    ASSUME ~Overlap, Revocations = {}
    PROVE  Spec => []MapOnlyIfAuthenticated
<1>1. IInv /\ CalmInv => MapOnlyIfAuthenticated
  BY AtRest DEF MapOnlyIfAuthenticated, CalmInv, MapInv
<1>2. QED
  BY <1>1, CalmInductive, PTL

(* For patient people, and as long as no token refresh overlaps a change of  *)
(* the user, the next launch restores exactly the session of this one,       *)
(* whatever the keychain refuses and wherever the app is killed.             *)
THEOREM CalmSessionDurable ==
    ASSUME ~Overlap, Revocations = {}, ~RefreshRaces
    PROVE  Spec => []SessionDurable
<1>1. IInv /\ QuietInv => SessionDurable
  <2> SUFFICES ASSUME IInv, QuietInv, Quiescent, pc[Boot] = "done" \/ currentUser # None
               PROVE  keychain = currentUser
    BY DEF SessionDurable
  <2>1. \A t \in Threads : pc[t] # "assign"
    BY AtRest DEF Threads
  <2>2. QED
    BY <2>1 DEF QuietInv, DurableInv
<1>2. QED
  BY <1>1, QuietInductive, PTL

(* For patient people, and as long as no token refresh overlaps a change of  *)
(* the user, lastNotifiedUserToken belongs to the current user once all      *)
(* threads are at rest, so the next change is not swallowed.                 *)
THEOREM CalmNotificationCurrent ==
    ASSUME ~Overlap, Revocations = {}, ~RefreshRaces
    PROVE  Spec => []NotificationCurrent
<1>1. IInv /\ QuietInv => NotificationCurrent
  <2> SUFFICES ASSUME IInv, QuietInv, Quiescent PROVE Owner(lastNotified) = currentUser
    BY DEF NotificationCurrent
  <2>1. \A t \in Threads : pc[t] \notin Posting
    BY AtRest DEF Threads, Posting
  <2>2. QED
    BY <2>1 DEF QuietInv, NotifiedInv
<1>2. QED
  BY <1>1, QuietInductive, PTL

-----------------------------------------------------------------------------
(* Refinement of Session, safety part.                                       *)

(* An object stands for an account: only nil maps to None. *)
LEMMA UidOfUser ==
    ASSUME StructInv
    PROVE  /\ UidOf(keychain) \in Uids \cup {None}
           /\ UidOf(currentUser) \in Uids \cup {None}
           /\ UidOf(currentUser) # None <=> currentUser # None
  BY SessionAssumption DEF StructInv, TypeOK, UserInv, Installed, UidOf, Ops, Credentials

(* Each step is a step of Session or changes nothing Session knows of: saveUser *)
(* is Store; the assignment of currentUser and the load at start-up are      *)
(* Adopt; a listener, signIn's block and the end of a sign-out are Show.     *)
LEMMA StepSimulation ==
    ASSUME ~Overlap, Revocations = {}, IInv, IInv', CalmInv, QuietInv, Next
    PROVE  [Abstract!Next]_(Abstract!sessionVars)
<1> USE SessionAssumption DEF Ops, Credentials, Threads, Abstract!Next, Abstract!sessionVars
<1>0. /\ StructInv /\ StructInv'
      /\ currentUser # None => currentUser \in Credentials /\ pc[currentUser] \in Installed
      /\ keychain # None => keychain \in Credentials /\ pc[keychain] # "idle"
  BY DEF IInv, StructInv, TypeOK, UserInv
<1>1. ASSUME NEW t \in Threads, Save(t) PROVE Abstract!Store
  <2>1. UidOf(keychain)' \in Uids \cup {None}
    BY <1>0, UidOfUser DEF StructInv, TypeOK, UserInv, UidOf
  <2>2. QED
    BY <1>1, <2>1 DEF Abstract!Store, Abstract!Accounts, Save, sdkVars, appVars, UidOf
<1>2. ASSUME NEW t \in Threads, Assign(t) PROVE Abstract!Adopt
  BY <1>2 DEF Abstract!Adopt, Assign, appVars, UidOf, QuietInv, DurableInv
<1>3. ASSUME LoadStored PROVE Abstract!Adopt \/ UNCHANGED Abstract!sessionVars
  BY <1>3 DEF Abstract!Adopt, LoadStored, appVars, UidOf
<1>4. ASSUME SignOutReturns PROVE Abstract!Show \/ UNCHANGED Abstract!sessionVars
  <2>1. CASE ok[Main]
    <3>1. currentUser = None
      BY <1>4, <2>1 DEF SignOutReturns, CalmInv, InstalledInv, Target
    <3>2. QED
      BY <1>4, <2>1, <3>1 DEF Abstract!Show, SignOutReturns, sdkVars, UidOf
  <2>2. CASE ~ok[Main]
    BY <1>4, <2>2 DEF SignOutReturns, sdkVars, UidOf
  <2>3. QED
    BY <2>1, <2>2
<1>5. ASSUME RunSignedIn PROVE Abstract!Show
  <2>1. currentUser # None
    <3>1. mainQ \in Seq(Block) /\ mainQ # <<>> /\ Head(mainQ).kind = "signedIn"
      BY <1>0, <1>5 DEF StructInv, TypeOK, RunSignedIn
    <3>2. 1 \in 1..Len(mainQ) /\ mainQ[1].kind = "signedIn"
      BY <3>1, QueueTail
    <3>3. QED
      BY <3>2 DEF CalmInv, InstalledInv
  <2>2. UidOf(currentUser) # None
    BY <1>0, <2>1, UidOfUser
  <2>3. QED
    BY <1>5, <2>2 DEF Abstract!Show, RunSignedIn, sdkVars, UidOf
<1>6. ASSUME NEW l, Invoke(l), UNCHANGED <<keychain, currentUser, who>>
      PROVE  Abstract!Show \/ UNCHANGED Abstract!sessionVars
  BY <1>6, Zenon DEF Abstract!Show, Invoke, UidOf
<1>7. ASSUME RunInitial \/ Deliver PROVE Abstract!Show \/ UNCHANGED Abstract!sessionVars
  <2>1. UNCHANGED <<keychain, currentUser, who>>
    BY <1>7 DEF RunInitial, Deliver, sdkVars
  <2>2. \E l : Invoke(l)
    BY <1>7 DEF RunInitial, Deliver
  <2>3. QED
    BY <1>6, <2>1, <2>2
<1>8. ASSUME NEW o \in Credentials, NEW u \in Uids, TapCredentials(o, u)
      PROVE  UNCHANGED Abstract!sessionVars
  <2>1. keychain # o /\ currentUser # o
    BY <1>0, <1>8 DEF TapCredentials, Installed
  <2>2. QED
    BY <1>0, <1>8, <2>1 DEF TapCredentials, sdkVars, appVars, UidOf
<1>9. ASSUME Relaunch PROVE Abstract!Restart
  BY <1>9 DEF Abstract!Restart, Relaunch, UidOf
<1>10. ASSUME \/ Appear \/ OpenMenu \/ CloseMenu \/ TapSignOut \/ BootDone
              \/ RunPost \/ RunCompletion
              \/ \E t \in Threads : ReadToken(t) \/ Compare(t) \/ Publish(t)
              \/ \E o \in Ops : RpcSucceeds(o) \/ RpcFails(o)
              \/ \E r \in Refreshes : RefreshToken(r)
              \/ \E o \in Ops \cup Refreshes : Callback(o)
       PROVE  UNCHANGED Abstract!sessionVars
  BY <1>10 DEF Appear, OpenMenu, CloseMenu, TapSignOut, BootDone, RunPost, RunCompletion,
     ReadToken, Compare, Publish, RpcSucceeds, RpcFails, RefreshToken, Callback,
     sdkVars, appVars, UidOf
<1>11. ASSUME NEW o \in Ops, Revoke(o) PROVE FALSE
  BY <1>11 DEF Revoke
<1>. QED
  BY <1>1, <1>2, <1>3, <1>4, <1>5, <1>7, <1>8, <1>9, <1>10, <1>11
     DEF Next, People, TapSignIn, TapSignUp, RunMainQueue, UpdateCurrentUser

(* For patient people, and as long as no token refresh overlaps a change of  *)
(* the user, the view model, Auth's threads, the notifications and the       *)
(* keychain implement Session: the account is stored before it takes effect  *)
(* and signedIn changes only to what Auth.currentUser says.                  *)
THEOREM CalmSessionRefined ==
    ASSUME ~Overlap, Revocations = {}, ~RefreshRaces
    PROVE  Spec => Abstract!SafeSpec
<1>1. Init => Abstract!Init
  BY DEF Init, Abstract!Init, Abstract!Accounts, UidOf
<1>2. IInv /\ IInv' /\ CalmInv /\ QuietInv /\ [Next]_vars => [Abstract!Next]_(Abstract!sessionVars)
  <2>1. CASE Next
    BY <2>1, StepSimulation
  <2>2. CASE UNCHANGED vars
    BY <2>2 DEF vars, Abstract!sessionVars, UidOf
  <2>3. QED
    BY <2>1, <2>2
<1>3. QED
  BY <1>1, <1>2, QuietInductive, PTL DEF Spec, Abstract!SafeSpec
=============================================================================
