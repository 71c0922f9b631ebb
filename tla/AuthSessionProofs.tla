------------------------- MODULE AuthSessionProofs -------------------------
(***************************************************************************)
(* Theorems about AuthSession for every set of requests, accounts and       *)
(* bounds.  StructInv says what the threads and the main queue can look     *)
(* like; SessionInv, on top of it, says which pending step will still put   *)
(* the current session on the screen and its profile in Firestore.          *)
(***************************************************************************)
EXTENDS AuthSession, TLAPS

InQ(q, b) == \E i \in 1..Len(q) : q[i] = b

(* The steps each kind of thread can be at. *)
Updating == {"save", "assign", "token", "compare", "publish", "callback"}

PcInv ==
    /\ pc[Main] \in Updating \cup {"idle", "deliver"}
    /\ pc[Boot] \in {"load", "token", "compare", "publish", "callback", "done", "unread"}
    /\ \A o \in Credentials :
           pc[o] \in Updating \cup {"idle", "rpc", "queued", "answered", "past"}
    /\ \A o \in Revocations : pc[o] \in Updating \cup {"idle", "done", "past"}
    /\ \A r \in Refreshes :
           pc[r] \in (Updating \ {"assign"}) \cup {"idle", "done", "past"}

(* Start-up comes first: until it is over no other thread has got to the    *)
(* current user.                                                             *)
BootFirst ==
    ~Booted => /\ \A o \in Ops \cup Refreshes : pc[o] \in {"idle", "rpc", "past"}
               /\ pc[Main] \in {"idle", "deliver"}

(* A completion handler is in the queue once, and its request waits for it. *)
QueueInv ==
    /\ \A i \in 1..Len(mainQ) : mainQ[i].kind = "completion" =>
           mainQ[i].op \in Credentials /\ pc[mainQ[i].op] = "queued"
    /\ \A i, j \in 1..Len(mainQ) :
           /\ i # j
           /\ mainQ[i].kind = "completion" /\ mainQ[j].kind = "completion"
           => mainQ[i].op # mainQ[j].op
    /\ \A i \in 1..Len(mainQ) : mainQ[i].kind = "initial" =>
           mainQ[i].listener \in 1..Len(listeners)

CursorInv == pc[Main] = "deliver" => cursor \in 1..Len(listeners)

(* Users that exist were created by requests that got that far. *)
Installed == {"token", "compare", "publish", "callback", "queued", "answered", "past"}

UserInv ==
    /\ \A o \in Credentials : pc[o] # "idle" => who[o] \in Uids
    /\ \A o \in Credentials : pc[o] \in {"idle", "rpc", "save", "assign"} => ok[o]
    /\ keychain # None => pc[keychain] \notin {"idle", "rpc"}
    /\ currentUser # None => pc[currentUser] \in Installed
    /\ currentUser # None /\ pc[currentUser] # "past" => ok[currentUser]
    /\ \A r \in Refreshes : pc[r] # "idle" =>
           subject[r] \in Credentials /\ pc[subject[r]] \in Installed

StructInv == TypeOK /\ PcInv /\ BootFirst /\ QueueInv /\ CursorInv /\ UserInv

(* Start-up finds nothing and announces what it loads. *)
BootInv ==
    ~Booted =>
        /\ pc[Boot] \in {"load", "token", "compare", "publish"} => lastNotified = None
        /\ pc[Boot] = "load" => currentUser = None
        /\ pc[Boot] \in {"compare", "publish"} => token[Boot] = TokenOf(currentUser)
        /\ pc[Boot] = "load" => \A l \in 1..Len(listeners) : listeners[l].prev = None

(* The main thread is past the point of no return of a sign-out. *)
SigningOut ==
    \/ pc[Main] \in {"token", "compare", "publish"}
    \/ pc[Main] = "callback" /\ ok[Main]

(* A session that began with a sign-in of this launch is on the screen, or  *)
(* the block that puts it there is still to come.                           *)
SignInInv ==
    currentUser \in SignIns /\ pc[currentUser] # "past" =>
        \/ pc[currentUser] # "answered"
        \/ InQ(mainQ, SignedInBlock)
        \/ signedIn /\ ~SigningOut

(* A notification is on its way to listener l. *)
Coming(l) ==
    \/ pc[Boot] \in {"token", "compare", "publish"}
    \/ InQ(mainQ, PostBlock)
    \/ InQ(mainQ, InitialBlock(l))
    \/ pc[Main] = "deliver" /\ cursor <= l

RestoredInv ==
    currentUser # None /\ pc[currentUser] = "past" =>
        /\ ~SigningOut
        /\ \A l \in 1..Len(listeners) :
               /\ listeners[l].prev = who[currentUser] => signedIn
               /\ listeners[l].prev = who[currentUser] \/ Coming(l)

EnsuredInv ==
    /\ \A l \in 1..Len(listeners) : listeners[l].prev # None => listeners[l].prev \in ensured
    /\ \A o \in Credentials : pc[o] = "answered" /\ ok[o] => who[o] \in ensured

SessionInv == BootInv /\ SignInInv /\ RestoredInv /\ EnsuredInv

IInv == StructInv /\ SessionInv

-----------------------------------------------------------------------------
(* What the main queue holds after a block is added or taken.               *)
LEMMA QueueAppend ==
    ASSUME NEW q \in Seq(Block), NEW x \in Block
    PROVE  /\ Append(q, x) \in Seq(Block)
           /\ Len(Append(q, x)) = Len(q) + 1
           /\ \A i \in 1..Len(q) : Append(q, x)[i] = q[i]
           /\ Append(q, x)[Len(q) + 1] = x
           /\ \A b : InQ(q, b) => InQ(Append(q, x), b)
           /\ InQ(Append(q, x), x)
<1>1. /\ Append(q, x) \in Seq(Block)
      /\ Len(Append(q, x)) = Len(q) + 1
      /\ \A i \in 1..Len(q) : Append(q, x)[i] = q[i]
      /\ Append(q, x)[Len(q) + 1] = x
      /\ Len(q) \in Nat
  OBVIOUS
<1>2. QED
  BY <1>1 DEF InQ

(* Taking the head moves every other block one place forward. *)
LEMMA QueueTail ==
    ASSUME NEW q \in Seq(Block), q # <<>>
    PROVE  /\ Tail(q) \in Seq(Block)
           /\ Len(q) \in Nat \ {0}
           /\ Len(Tail(q)) = Len(q) - 1
           /\ \A i \in 1..Len(Tail(q)) : i + 1 \in 1..Len(q) /\ Tail(q)[i] = q[i + 1]
           /\ Head(q) = q[1] /\ Head(q) \in Block
           /\ \A b : InQ(q, b) /\ b # Head(q) => InQ(Tail(q), b)
<1>1. /\ Tail(q) \in Seq(Block)
      /\ Len(q) \in Nat \ {0}
      /\ Len(Tail(q)) = Len(q) - 1
      /\ \A i \in 1..Len(Tail(q)) : i + 1 \in 1..Len(q) /\ Tail(q)[i] = q[i + 1]
      /\ Head(q) = q[1] /\ Head(q) \in Block
  OBVIOUS
<1>2. ASSUME NEW b, InQ(q, b), b # Head(q)
      PROVE  InQ(Tail(q), b)
  <2>1. PICK i \in 1..Len(q) : q[i] = b
    BY <1>2 DEF InQ
  <2>2. i # 1 /\ i - 1 \in 1..Len(Tail(q)) /\ Tail(q)[i - 1] = b
    BY <1>1, <1>2, <2>1
  <2>3. QED
    BY <2>2 DEF InQ
<1>3. QED
  BY <1>1, <1>2

(* The blocks the program queues are blocks. *)
LEMMA BlockTypes ==
    /\ PostBlock \in Block /\ SignedInBlock \in Block
    /\ \A o \in Ops : CompletionBlock(o) \in Block
    /\ \A l \in Nat : InitialBlock(l) \in Block
    /\ PostBlock # SignedInBlock
    /\ \A o : CompletionBlock(o) # PostBlock /\ CompletionBlock(o) # SignedInBlock
    /\ \A l : InitialBlock(l) # PostBlock /\ InitialBlock(l) # SignedInBlock
  BY DEF Block, PostBlock, SignedInBlock, CompletionBlock, InitialBlock

(* A token belongs to the user it is read from, and only nil has none. *)
LEMMA TokenTypes ==
    ASSUME TypeOK
    PROVE  /\ TokenOf(currentUser) \in Tokens \cup {None}
           /\ TokenOf(currentUser) = None <=> currentUser = None
           /\ Owner(TokenOf(currentUser)) = currentUser
<1>1. CASE currentUser = None
  BY <1>1 DEF TokenOf, Owner
<1>2. CASE currentUser # None
  <2>1. currentUser \in Credentials /\ refreshed[currentUser] \in Nat
    BY <1>2 DEF TypeOK
  <2>2. /\ TokenOf(currentUser) = <<currentUser, refreshed[currentUser]>>
        /\ TokenOf(currentUser) \in Tokens
    BY <1>2, <2>1 DEF TokenOf, Tokens
  <2>3. TokenOf(currentUser) # None
    BY <2>2, SessionAssumption
  <2>4. QED
    BY <1>2, <2>2, <2>3 DEF Owner
<1>3. QED
  BY <1>1, <1>2

-----------------------------------------------------------------------------
(* A fresh start has idle threads, an empty queue and no users. *)
LEMMA StructInit == Init => StructInv
<1> SUFFICES ASSUME Init PROVE StructInv
  OBVIOUS
<1> USE SessionAssumption DEF Init, Threads, Ops, Credentials
<1>1. TypeOK
  <2>1. listeners \in Seq([first : BOOLEAN, prev : Uids \cup {None}]) /\ mainQ \in Seq(Block)
    OBVIOUS
  <2>2. QED
    BY <2>1 DEF TypeOK, Pcs
<1>2. PcInv /\ BootFirst /\ CursorInv /\ UserInv
  BY DEF PcInv, BootFirst, CursorInv, UserInv, Updating
<1>3. QueueInv
  BY DEF QueueInv
<1>4. QED
  BY <1>1, <1>2, <1>3 DEF StructInv

(* Calling a listener keeps the types of what it writes. *)
LEMMA InvokeTypes ==
    ASSUME TypeOK, NEW l \in 1..Len(listeners), Invoke(l),
           UidOf(currentUser) \in Uids \cup {None}
    PROVE  /\ listeners' \in Seq([first : BOOLEAN, prev : Uids \cup {None}])
           /\ Len(listeners') = Len(listeners)
           /\ ensured' \subseteq Uids /\ signedIn' \in BOOLEAN
<1> DEFINE L == [first : BOOLEAN, prev : Uids \cup {None}]
           new == [first |-> FALSE, prev |-> UidOf(currentUser)]
<1>1. listeners \in Seq(L) /\ new \in L /\ listeners' = [listeners EXCEPT ![l] = new]
  BY DEF TypeOK, Invoke
<1>2. listeners' \in Seq(L) /\ Len(listeners') = Len(listeners)
  <2> HIDE DEF L, new
  <2>1. QED
    BY <1>1
<1>3. ensured' \subseteq Uids
  BY DEF TypeOK, Invoke
<1>4. signedIn' \in BOOLEAN
  <2>1. CASE listeners[l].first \/ listeners[l].prev # UidOf(currentUser)
    BY <2>1, Zenon DEF Invoke
  <2>2. CASE ~(listeners[l].first \/ listeners[l].prev # UidOf(currentUser))
    BY <2>2, Zenon DEF TypeOK, Invoke
  <2>3. QED
    BY <2>1, <2>2
<1>5. QED
  BY <1>2, <1>3, <1>4

(* Every step preserves the shape of threads, queue and users. *)
LEMMA StructNext ==
    ASSUME StructInv, Next
    PROVE  StructInv'
<1> USE SessionAssumption DEF StructInv, Threads, Ops, Credentials
<1>1. ASSUME NEW t \in Threads, Save(t) PROVE StructInv'
  <2>1. TypeOK'
    <3>1. Target(t) \in Credentials \cup {None}
      BY DEF TypeOK, Target
    <3>2. keychain' \in Credentials \cup {None}
      BY <1>1, <3>1 DEF TypeOK, Save
    <3>3. pc' \in [Threads -> Pcs]
      BY <1>1 DEF TypeOK, Save, Pcs
    <3>4. ok' \in [Threads -> BOOLEAN]
      BY <1>1 DEF TypeOK, Save
    <3>5. QED
      BY <1>1, <3>2, <3>3, <3>4 DEF TypeOK, Save, sdkVars, appVars
  <2>2. PcInv' /\ BootFirst'
    <3>1. /\ pc[t] = "save" /\ \A s \in Threads : s # t => pc'[s] = pc[s]
          /\ pc'[t] \in {"assign", "token", "callback"}
          /\ t \in Refreshes => pc'[t] # "assign"
      BY <1>1 DEF TypeOK, Save
    <3>2. t # Boot /\ Booted
      BY <3>1 DEF PcInv, BootFirst
    <3>3. QED
      BY <3>1, <3>2 DEF PcInv, BootFirst, Booted, Updating
  <2>3. QueueInv' /\ CursorInv'
    BY <1>1 DEF TypeOK, QueueInv, CursorInv, Save
  <2>4. UserInv'
    <3>1. /\ \A s \in Threads : s # t => pc'[s] = pc[s] /\ ok'[s] = ok[s]
          /\ pc[t] = "save" /\ pc'[t] \in {"assign", "token", "callback"}
          /\ pc'[t] = "assign" /\ t \in Credentials => ok'[t] = ok[t]
          /\ t \in Credentials => pc'[t] # "token"
          /\ keychain' = keychain \/ keychain' = Target(t)
          /\ UNCHANGED <<who, currentUser, subject>>
      BY <1>1 DEF TypeOK, Save, sdkVars
    <3>2. Target(t) # None => \/ Target(t) = t /\ t \in Credentials
                              \/ t \in Refreshes /\ Target(t) = subject[t]
      BY DEF Target
    <3>3. /\ currentUser # None => currentUser # t
          /\ \A r \in Refreshes : pc[r] # "idle" => subject[r] # t
      BY <3>1 DEF UserInv, Installed
    <3>4. keychain' # None => pc'[keychain'] \notin {"idle", "rpc"}
      <4>0. \A s \in Credentials : pc[s] \notin {"idle", "rpc"} => pc'[s] \notin {"idle", "rpc"}
        BY <3>1
      <4>1. CASE keychain' = keychain
        BY <4>0, <4>1 DEF TypeOK, UserInv
      <4>2. CASE keychain' = Target(t) /\ Target(t) # None
        BY <3>1, <3>2, <4>0, <4>2 DEF UserInv, Installed
      <4>3. QED
        BY <3>1, <4>1, <4>2
    <3>5. \A r \in Refreshes : pc'[r] # "idle" =>
              subject'[r] \in Credentials /\ pc'[subject'[r]] \in Installed
      <4>1. ASSUME NEW r \in Refreshes, pc'[r] # "idle"
            PROVE  pc[r] # "idle"
        BY <3>1, <4>1
      <4>2. QED
        BY <3>1, <3>3, <4>1 DEF UserInv
    <3>6. /\ \A o \in Credentials : pc'[o] # "idle" => who'[o] \in Uids
          /\ \A o \in Credentials : pc'[o] \in {"idle", "rpc", "save", "assign"} => ok'[o]
      BY <3>1 DEF UserInv
    <3>7. currentUser' # None =>
              pc'[currentUser'] \in Installed /\ (pc'[currentUser'] # "past" => ok'[currentUser'])
      BY <3>1, <3>3 DEF TypeOK, UserInv
    <3>8. QED
      BY <3>4, <3>5, <3>6, <3>7 DEF UserInv
  <2>5. QED
    BY <2>1, <2>2, <2>3, <2>4
<1>2. ASSUME NEW t \in Threads, Assign(t) PROVE StructInv'
  <2>1. TypeOK'
    BY <1>2 DEF TypeOK, Assign, sdkVars, appVars, Pcs, Target
  <2>2. PcInv' /\ BootFirst'
    BY <1>2 DEF TypeOK, PcInv, BootFirst, Booted, Assign, Updating
  <2>3. QueueInv' /\ CursorInv'
    BY <1>2 DEF TypeOK, QueueInv, CursorInv, Assign
  <2>4. UserInv'
    BY <1>2 DEF TypeOK, PcInv, UserInv, Assign, Installed, sdkVars, appVars, Target
  <2>5. QED
    BY <2>1, <2>2, <2>3, <2>4
<1>3. ASSUME NEW t \in Threads, ReadToken(t) PROVE StructInv'
  <2>1. TypeOK'
    BY <1>3, TokenTypes DEF TypeOK, ReadToken, sdkVars, appVars, Pcs
  <2>2. PcInv' /\ BootFirst'
    BY <1>3 DEF TypeOK, PcInv, BootFirst, Booted, ReadToken, Updating
  <2>3. QueueInv' /\ CursorInv'
    BY <1>3 DEF TypeOK, QueueInv, CursorInv, ReadToken
  <2>4. UserInv'
    BY <1>3 DEF TypeOK, PcInv, UserInv, ReadToken, Installed, sdkVars, appVars
  <2>5. QED
    BY <2>1, <2>2, <2>3, <2>4
<1>4. ASSUME NEW t \in Threads, Compare(t) PROVE StructInv'
  <2>1. TypeOK'
    BY <1>4 DEF TypeOK, Compare, sdkVars, appVars, Pcs
  <2>2. PcInv' /\ BootFirst'
    BY <1>4 DEF TypeOK, PcInv, BootFirst, Booted, Compare, Updating
  <2>3. QueueInv' /\ CursorInv'
    BY <1>4 DEF TypeOK, QueueInv, CursorInv, Compare
  <2>4. UserInv'
    BY <1>4 DEF TypeOK, PcInv, UserInv, Compare, Installed, sdkVars, appVars
  <2>5. QED
    BY <2>1, <2>2, <2>3, <2>4
<1>5. ASSUME LoadStored PROVE StructInv'
  <2>1. TypeOK'
    BY <1>5 DEF TypeOK, LoadStored, sdkVars, appVars, Pcs
  <2>2. PcInv' /\ BootFirst'
    BY <1>5 DEF TypeOK, PcInv, BootFirst, Booted, LoadStored, Updating
  <2>3. QueueInv' /\ CursorInv'
    BY <1>5 DEF TypeOK, QueueInv, CursorInv, LoadStored
  <2>4. UserInv'
    BY <1>5 DEF TypeOK, PcInv, UserInv, LoadStored, Installed, sdkVars, appVars,
       BootFirst, Booted
  <2>5. QED
    BY <2>1, <2>2, <2>3, <2>4
<1>6. ASSUME BootDone PROVE StructInv'
  <2>1. TypeOK'
    BY <1>6, TokenTypes DEF TypeOK, BootDone, sdkVars, appVars, Pcs
  <2>2. PcInv' /\ BootFirst'
    BY <1>6 DEF TypeOK, PcInv, BootFirst, Booted, BootDone, Updating
  <2>3. QueueInv' /\ CursorInv'
    BY <1>6 DEF TypeOK, QueueInv, CursorInv, BootDone
  <2>4. UserInv'
    BY <1>6 DEF TypeOK, PcInv, UserInv, BootDone, Installed, sdkVars, appVars
  <2>5. QED
    BY <2>1, <2>2, <2>3, <2>4
<1>7. ASSUME NEW o \in Credentials, NEW u \in Uids, TapCredentials(o, u) PROVE StructInv'
  <2>1. TypeOK'
    BY <1>7 DEF TypeOK, TapCredentials, sdkVars, appVars, Pcs
  <2>2. PcInv' /\ BootFirst'
    BY <1>7 DEF TypeOK, PcInv, BootFirst, Booted, TapCredentials, Updating
  <2>3. QueueInv' /\ CursorInv'
    BY <1>7 DEF TypeOK, QueueInv, CursorInv, TapCredentials
  <2>4. UserInv'
    BY <1>7 DEF TypeOK, PcInv, UserInv, TapCredentials, Installed, sdkVars, appVars
  <2>5. QED
    BY <2>1, <2>2, <2>3, <2>4
<1>8. ASSUME NEW o \in Ops, RpcSucceeds(o) PROVE StructInv'
  <2>1. TypeOK'
    BY <1>8 DEF TypeOK, RpcSucceeds, sdkVars, appVars, Pcs, UserInv
  <2>2. PcInv' /\ BootFirst'
    BY <1>8 DEF TypeOK, PcInv, BootFirst, Booted, RpcSucceeds, Updating
  <2>3. QueueInv' /\ CursorInv'
    BY <1>8 DEF TypeOK, QueueInv, CursorInv, RpcSucceeds
  <2>4. UserInv'
    BY <1>8 DEF TypeOK, PcInv, UserInv, RpcSucceeds, Installed, sdkVars, appVars
  <2>5. QED
    BY <2>1, <2>2, <2>3, <2>4
<1>9. ASSUME NEW o \in Ops, RpcFails(o) PROVE StructInv'
  <2>1. TypeOK'
    BY <1>9 DEF TypeOK, RpcFails, sdkVars, appVars, Pcs, UserInv
  <2>2. PcInv' /\ BootFirst'
    BY <1>9 DEF TypeOK, PcInv, BootFirst, Booted, RpcFails, Updating
  <2>3. QueueInv' /\ CursorInv'
    BY <1>9 DEF TypeOK, QueueInv, CursorInv, RpcFails
  <2>4. UserInv'
    BY <1>9 DEF TypeOK, PcInv, UserInv, RpcFails, Installed, sdkVars, appVars
  <2>5. QED
    BY <2>1, <2>2, <2>3, <2>4
<1>10. ASSUME NEW o \in Ops, Revoke(o) PROVE StructInv'
  <2>1. TypeOK'
    BY <1>10 DEF TypeOK, Revoke, sdkVars, appVars, Pcs, UidOf, UserInv
  <2>2. PcInv' /\ BootFirst'
    BY <1>10 DEF TypeOK, PcInv, BootFirst, Booted, Revoke, Updating
  <2>3. QueueInv' /\ CursorInv'
    BY <1>10 DEF TypeOK, QueueInv, CursorInv, Revoke
  <2>4. UserInv'
    BY <1>10 DEF TypeOK, PcInv, UserInv, Revoke, Installed, sdkVars, appVars
  <2>5. QED
    BY <2>1, <2>2, <2>3, <2>4
<1>11. ASSUME OpenMenu PROVE StructInv'
  <2>1. TypeOK'
    BY <1>11 DEF TypeOK, OpenMenu, sdkVars, appVars, Pcs
  <2>2. PcInv' /\ BootFirst'
    BY <1>11 DEF TypeOK, PcInv, BootFirst, Booted, OpenMenu, Updating
  <2>3. QueueInv' /\ CursorInv'
    BY <1>11 DEF TypeOK, QueueInv, CursorInv, OpenMenu
  <2>4. UserInv'
    BY <1>11 DEF TypeOK, PcInv, UserInv, OpenMenu, Installed, sdkVars, appVars
  <2>5. QED
    BY <2>1, <2>2, <2>3, <2>4
<1>12. ASSUME CloseMenu PROVE StructInv'
  <2>1. TypeOK'
    BY <1>12 DEF TypeOK, CloseMenu, sdkVars, appVars, Pcs
  <2>2. PcInv' /\ BootFirst'
    BY <1>12 DEF TypeOK, PcInv, BootFirst, Booted, CloseMenu, Updating
  <2>3. QueueInv' /\ CursorInv'
    BY <1>12 DEF TypeOK, QueueInv, CursorInv, CloseMenu
  <2>4. UserInv'
    BY <1>12 DEF TypeOK, PcInv, UserInv, CloseMenu, Installed, sdkVars, appVars
  <2>5. QED
    BY <2>1, <2>2, <2>3, <2>4
<1>13. ASSUME TapSignOut PROVE StructInv'
  <2>1. TypeOK'
    BY <1>13 DEF TypeOK, TapSignOut, sdkVars, appVars, Pcs
  <2>2. PcInv' /\ BootFirst'
    BY <1>13 DEF TypeOK, PcInv, BootFirst, Booted, TapSignOut, Updating, MayTap, MainFree
  <2>3. QueueInv' /\ CursorInv'
    BY <1>13 DEF TypeOK, QueueInv, CursorInv, TapSignOut, MayTap, MainFree
  <2>4. UserInv'
    BY <1>13 DEF TypeOK, PcInv, UserInv, TapSignOut, Installed, sdkVars, appVars
  <2>5. QED
    BY <2>1, <2>2, <2>3, <2>4
<1>14. ASSUME SignOutReturns PROVE StructInv'
  <2>1. TypeOK'
    BY <1>14 DEF TypeOK, SignOutReturns, sdkVars, appVars, Pcs
  <2>2. PcInv' /\ BootFirst'
    BY <1>14 DEF TypeOK, PcInv, BootFirst, Booted, SignOutReturns, Updating
  <2>3. QueueInv' /\ CursorInv'
    BY <1>14 DEF TypeOK, QueueInv, CursorInv, SignOutReturns
  <2>4. UserInv'
    BY <1>14 DEF TypeOK, PcInv, UserInv, SignOutReturns, Installed, sdkVars, appVars
  <2>5. QED
    BY <2>1, <2>2, <2>3, <2>4
<1>15. ASSUME NEW t \in Threads, Publish(t) PROVE StructInv'
  <2>1. TypeOK'
    BY <1>15, BlockTypes, QueueAppend DEF TypeOK, Publish, sdkVars, appVars, Pcs
  <2>2. PcInv' /\ BootFirst'
    BY <1>15 DEF TypeOK, PcInv, BootFirst, Booted, Publish, Updating
  <2>3. QueueInv'
    BY <1>15, BlockTypes, QueueAppend DEF TypeOK, PcInv, QueueInv, Publish, PostBlock
  <2>4. CursorInv'
    BY <1>15 DEF TypeOK, CursorInv, Publish
  <2>5. UserInv'
    BY <1>15 DEF TypeOK, PcInv, UserInv, Publish, Installed, sdkVars, appVars
  <2>6. QED
    BY <2>1, <2>2, <2>3, <2>4, <2>5
<1>16. ASSUME Appear PROVE StructInv'
  <2>1. TypeOK'
    BY <1>16, BlockTypes, QueueAppend DEF TypeOK, Appear, sdkVars, appVars, Pcs
  <2>2. PcInv' /\ BootFirst'
    BY <1>16 DEF PcInv, BootFirst, Booted, Appear
  <2>3. Len(listeners') = Len(listeners) + 1 /\ Len(listeners) \in Nat
    BY <1>16 DEF TypeOK, Appear
  <2>4. QueueInv'
    BY <1>16, <2>3, BlockTypes, QueueAppend DEF TypeOK, QueueInv, Appear, InitialBlock
  <2>5. CursorInv'
    BY <1>16, <2>3 DEF TypeOK, CursorInv, Appear, MainFree
  <2>6. UserInv'
    BY <1>16 DEF TypeOK, UserInv, Appear, sdkVars, appVars
  <2>7. QED
    BY <2>1, <2>2, <2>3, <2>4, <2>5, <2>6
<1>17. ASSUME NEW o \in Ops \cup Refreshes, Callback(o) PROVE StructInv'
  <2>1. ASSUME o \in Credentials PROVE TypeOK' /\ QueueInv'
    <3>1. /\ CompletionBlock(o) \in Block /\ mainQ \in Seq(Block)
          /\ mainQ' = Append(mainQ, CompletionBlock(o))
          /\ pc' = [pc EXCEPT ![o] = "queued"]
      BY <1>17, <2>1, BlockTypes DEF TypeOK, Callback
    <3>2. TypeOK'
      BY <1>17, <3>1, QueueAppend DEF TypeOK, Callback, sdkVars, appVars, Pcs
    <3>3. QueueInv'
      <4>1. \A i \in 1..Len(mainQ) : mainQ[i].kind = "completion" => mainQ[i].op # o
        BY <1>17 DEF QueueInv, Callback
      <4>2. /\ Len(mainQ') = Len(mainQ) + 1 /\ Len(mainQ) \in Nat
            /\ \A i \in 1..Len(mainQ) : mainQ'[i] = mainQ[i]
            /\ mainQ'[Len(mainQ) + 1] = CompletionBlock(o)
        BY <3>1, QueueAppend
      <4>3. QED
        BY <1>17, <2>1, <3>1, <4>1, <4>2 DEF TypeOK, QueueInv, Callback, CompletionBlock
    <3>4. QED
      BY <3>2, <3>3
  <2>2. ASSUME o \notin Credentials PROVE TypeOK' /\ QueueInv'
    <3>1. pc' = [pc EXCEPT ![o] = "done"] /\ mainQ' = mainQ /\ o \in Threads
      BY <1>17, <2>2 DEF Callback
    <3>2. TypeOK'
      BY <1>17, <3>1 DEF TypeOK, Callback, sdkVars, appVars, Pcs
    <3>3. QueueInv'
      BY <1>17, <2>2, <3>1 DEF TypeOK, QueueInv, Callback
    <3>4. QED
      BY <3>2, <3>3
  <2>3. TypeOK' /\ QueueInv'
    BY <1>17, <2>1, <2>2
  <2>4. PcInv' /\ BootFirst'
    <3>1. /\ pc[o] = "callback" /\ \A s \in Threads : s # o => pc'[s] = pc[s]
          /\ IF o \in Credentials THEN pc'[o] = "queued" ELSE pc'[o] = "done"
      BY <1>17 DEF TypeOK, Callback
    <3>2. o # Boot /\ Booted
      BY <3>1 DEF BootFirst
    <3>3. QED
      BY <3>1, <3>2 DEF PcInv, BootFirst, Booted
  <2>5. CursorInv'
    BY <1>17 DEF TypeOK, CursorInv, Callback
  <2>6. UserInv'
    <3>1. /\ \A p \in Threads : p # o => pc'[p] = pc[p]
          /\ pc[o] = "callback" /\ pc'[o] \in {"queued", "done"}
          /\ o \in Credentials => pc'[o] = "queued"
          /\ UNCHANGED <<who, ok, keychain, currentUser, subject>>
      BY <1>17 DEF TypeOK, Callback, sdkVars
    <3>2. \A p \in Credentials :
              \/ pc'[p] = pc[p]
              \/ pc[p] = "callback" /\ pc'[p] = "queued"
      BY <3>1
    <3>3. \A r \in Refreshes : pc'[r] # "idle" => pc[r] # "idle"
      BY <3>1
    <3>4. QED
      BY <3>1, <3>2, <3>3 DEF TypeOK, UserInv, Installed
  <2>7. QED
    BY <2>3, <2>4, <2>5, <2>6
<1>18. ASSUME RunInitial PROVE StructInv'
  <2>1. /\ mainQ # <<>> /\ Head(mainQ).kind = "initial"
           => Head(mainQ).listener \in 1..Len(listeners)
        /\ UidOf(currentUser) \in Uids \cup {None}
    BY QueueTail DEF TypeOK, QueueInv, UidOf
  <2>2. /\ listeners' \in Seq([first : BOOLEAN, prev : Uids \cup {None}])
        /\ Len(listeners') = Len(listeners)
        /\ ensured' \subseteq Uids /\ signedIn' \in BOOLEAN
    BY <1>18, <2>1, InvokeTypes DEF TypeOK, RunInitial
  <2>3. TypeOK'
    BY <1>18, <2>2, QueueTail DEF TypeOK, RunInitial, sdkVars, appVars
  <2>4. PcInv' /\ BootFirst'
    BY <1>18 DEF PcInv, BootFirst, Booted, RunInitial
  <2>5. QueueInv'
    <3>1. /\ mainQ' = Tail(mainQ) /\ mainQ # <<>> /\ mainQ \in Seq(Block)
          /\ pc' = pc /\ Len(listeners') = Len(listeners)
      BY <1>18, <2>2 DEF TypeOK, RunInitial
    <3>2. /\ Len(mainQ) \in Nat /\ Len(mainQ') = Len(mainQ) - 1
          /\ \A i \in 1..Len(mainQ') : i + 1 \in 1..Len(mainQ) /\ mainQ'[i] = mainQ[i + 1]
      BY <3>1, QueueTail
    <3>3. QED
      BY <3>1, <3>2 DEF QueueInv
  <2>6. CursorInv'
    BY <1>18, <2>2 DEF TypeOK, CursorInv, RunInitial
  <2>7. UserInv'
    BY <1>18 DEF TypeOK, UserInv, RunInitial, sdkVars, appVars
  <2>8. QED
    BY <2>2, <2>3, <2>4, <2>5, <2>6, <2>7
<1>19. ASSUME RunPost PROVE StructInv'
  <2>1. TypeOK'
    BY <1>19, QueueTail DEF TypeOK, RunPost, sdkVars, appVars, Pcs
  <2>2. PcInv' /\ BootFirst'
    <3>1. /\ \A s \in Threads : s # Main => pc'[s] = pc[s]
          /\ pc'[Main] \in {"idle", "deliver"}
      BY <1>19 DEF TypeOK, RunPost, MainFree
    <3>2. QED
      BY <3>1 DEF PcInv, BootFirst, Booted
  <2>3. QueueInv'
    BY <1>19, QueueTail DEF TypeOK, QueueInv, RunPost, MainFree
  <2>4. CursorInv'
    BY <1>19 DEF TypeOK, CursorInv, RunPost
  <2>5. UserInv'
    BY <1>19 DEF TypeOK, PcInv, UserInv, RunPost, Installed, sdkVars, appVars
  <2>6. QED
    BY <2>1, <2>2, <2>3, <2>4, <2>5
<1>20. ASSUME Deliver PROVE StructInv'
  <2>1. cursor \in 1..Len(listeners) /\ UidOf(currentUser) \in Uids \cup {None}
    BY <1>20 DEF TypeOK, CursorInv, Deliver, UidOf
  <2>2. /\ listeners' \in Seq([first : BOOLEAN, prev : Uids \cup {None}])
        /\ Len(listeners') = Len(listeners)
        /\ ensured' \subseteq Uids /\ signedIn' \in BOOLEAN
    BY <1>20, <2>1, InvokeTypes DEF TypeOK, Deliver
  <2>3. TypeOK'
    BY <1>20, <2>1, <2>2 DEF TypeOK, Deliver, sdkVars, appVars, Pcs
  <2>4. PcInv' /\ BootFirst'
    <3>1. /\ \A t \in Threads : t # Main => pc'[t] = pc[t]
          /\ pc'[Main] \in {"deliver", "idle"}
      BY <1>20 DEF TypeOK, Deliver
    <3>2. PcInv'
      BY <3>1, SessionAssumption DEF PcInv, Threads, Ops
    <3>3. BootFirst'
      BY <3>1, SessionAssumption DEF BootFirst, Booted, Threads
    <3>4. QED
      BY <3>2, <3>3
  <2>5. QueueInv'
    BY <1>20, <2>2 DEF TypeOK, QueueInv, Deliver
  <2>6. CursorInv'
    BY <1>20, <2>1, <2>2 DEF TypeOK, CursorInv, Deliver
  <2>7. UserInv'
    BY <1>20 DEF TypeOK, PcInv, UserInv, Deliver, Installed, sdkVars, appVars
  <2>8. QED
    BY <2>2, <2>3, <2>4, <2>5, <2>6, <2>7
<1>21. ASSUME RunCompletion PROVE StructInv'
  <2> DEFINE o == Head(mainQ).op
  <2>1. o \in Credentials /\ pc[o] = "queued" /\ who[o] \in Uids
    BY <1>21, QueueTail DEF TypeOK, QueueInv, UserInv, RunCompletion
  <2>2. \A i \in 1..Len(Tail(mainQ)) :
            Tail(mainQ)[i].kind = "completion" => Tail(mainQ)[i].op # o
    <3>1. /\ mainQ \in Seq(Block) /\ mainQ # <<>>
          /\ Head(mainQ).kind = "completion"
      BY <1>21 DEF TypeOK, RunCompletion
    <3>2. /\ 1 \in 1..Len(mainQ) /\ mainQ[1] = Head(mainQ)
          /\ \A i \in 1..Len(Tail(mainQ)) :
                 i + 1 \in 1..Len(mainQ) /\ i + 1 # 1 /\ Tail(mainQ)[i] = mainQ[i + 1]
      BY <3>1, QueueTail
    <3>3. QED
      BY <3>1, <3>2 DEF QueueInv
  <2>4. TypeOK'
    BY <1>21, <2>1, QueueTail, QueueAppend, BlockTypes DEF TypeOK, RunCompletion,
       sdkVars, appVars, Pcs
  <2>5. PcInv' /\ BootFirst'
    BY <1>21, <2>1 DEF TypeOK, PcInv, BootFirst, Booted, RunCompletion, Updating
  <2>6. QueueInv'
    BY <1>21, <2>1, <2>2, QueueTail, QueueAppend, BlockTypes DEF TypeOK, QueueInv,
       RunCompletion, SignedInBlock
  <2>7. CursorInv'
    BY <1>21, <2>1 DEF TypeOK, CursorInv, RunCompletion
  <2>8. UserInv'
    BY <1>21, <2>1 DEF TypeOK, PcInv, UserInv, RunCompletion, Installed, sdkVars, appVars
  <2>9. QED
    BY <2>4, <2>5, <2>6, <2>7, <2>8
<1>22. ASSUME RunSignedIn PROVE StructInv'
  <2>1. TypeOK'
    BY <1>22, QueueTail DEF TypeOK, RunSignedIn, sdkVars, appVars
  <2>2. PcInv' /\ BootFirst'
    BY <1>22 DEF PcInv, BootFirst, Booted, RunSignedIn
  <2>3. QueueInv'
    BY <1>22, QueueTail DEF TypeOK, QueueInv, RunSignedIn
  <2>4. CursorInv'
    BY <1>22 DEF TypeOK, CursorInv, RunSignedIn
  <2>5. UserInv'
    BY <1>22 DEF TypeOK, UserInv, RunSignedIn, sdkVars, appVars
  <2>6. QED
    BY <2>1, <2>2, <2>3, <2>4, <2>5
<1>23. ASSUME Relaunch PROVE StructInv'
  <2>1. pc' \in [Threads -> Pcs]
    BY <1>23 DEF Relaunch, Pcs
  <2>2. ok' \in [Threads -> BOOLEAN] /\ token' \in [Threads -> Tokens \cup {None}]
    BY <1>23 DEF Relaunch
  <2>3. accounts' \subseteq Uids
    BY <1>23 DEF TypeOK, UserInv, Relaunch
  <2>4. listeners' \in Seq([first : BOOLEAN, prev : Uids \cup {None}]) /\ mainQ' \in Seq(Block)
    BY <1>23 DEF Relaunch
  <2>5. /\ keychain' \in Credentials \cup {None} /\ launches' \in Nat
        /\ who' \in [Ops -> Uids \cup {None}]
        /\ subject' \in [Refreshes -> Credentials \cup {None}]
        /\ refreshed' \in [Credentials -> Nat]
        /\ currentUser' = None /\ lastNotified' = None /\ cursor' \in Nat
        /\ ensured' = {}
    BY <1>23 DEF TypeOK, Relaunch
  <2>6. signedIn' \in BOOLEAN /\ showingMenu' \in BOOLEAN
    BY <1>23 DEF Relaunch
  <2>7. TypeOK'
    BY <1>23, <2>1, <2>2, <2>3, <2>4, <2>5, <2>6 DEF TypeOK
  <2>8. PcInv' /\ BootFirst'
    BY <1>23 DEF TypeOK, PcInv, BootFirst, Booted, Relaunch, Updating
  <2>9. QueueInv' /\ CursorInv'
    BY <1>23 DEF TypeOK, QueueInv, CursorInv, Relaunch
  <2>10. UserInv'
    <3>1. /\ \A o \in Ops \cup Refreshes :
                 pc'[o] = IF pc[o] = "idle" THEN "idle" ELSE "past"
          /\ \A o \in Ops : ok'[o]
          /\ currentUser' = None /\ UNCHANGED <<keychain, who, subject>>
      BY <1>23 DEF Relaunch
    <3>2. QED
      BY <3>1 DEF TypeOK, PcInv, UserInv, Installed
  <2>11. QED
    BY <2>7, <2>8, <2>9, <2>10
<1>24. ASSUME NEW r \in Refreshes, RefreshToken(r) PROVE StructInv'
  <2>1. TypeOK'
    <3>1. refreshed[currentUser] + 1 \in Nat /\ currentUser \in Credentials
      BY <1>24 DEF TypeOK, RefreshToken
    <3>2. QED
      BY <1>24, <3>1 DEF TypeOK, RefreshToken, sdkVars, appVars, Pcs
  <2>2. PcInv' /\ BootFirst'
    BY <1>24 DEF TypeOK, PcInv, BootFirst, Booted, RefreshToken, Updating
  <2>3. QueueInv' /\ CursorInv'
    BY <1>24 DEF TypeOK, QueueInv, CursorInv, RefreshToken
  <2>4. UserInv'
    BY <1>24 DEF TypeOK, PcInv, UserInv, RefreshToken, Installed, sdkVars, appVars
  <2>5. QED
    BY <2>1, <2>2, <2>3, <2>4
<1>. QED
  BY <1>1, <1>2, <1>3, <1>4, <1>5, <1>6, <1>7, <1>8, <1>9, <1>10, <1>11, <1>12, <1>13,
     <1>14, <1>15, <1>16, <1>17, <1>18, <1>19, <1>20, <1>21, <1>22, <1>23, <1>24
     DEF Next, People, TapSignIn, TapSignUp, RunMainQueue, UpdateCurrentUser

-----------------------------------------------------------------------------
(* A fresh start has no session to show. *)
LEMMA SessionInit == Init => SessionInv
  BY SessionAssumption DEF TokenOf, Init, SessionInv, BootInv, SignInInv, RestoredInv,
     EnsuredInv, Booted, Threads, Ops, Credentials

(* Every step preserves what is still to happen for the current session. *)
LEMMA SessionNext ==
    ASSUME StructInv, StructInv', SessionInv, Next
    PROVE  SessionInv'
<1> USE SessionAssumption DEF StructInv, SessionInv, TypeOK, Threads, Ops, Credentials
<1>1. ASSUME NEW t \in Threads, Save(t) PROVE SessionInv'
  <2>1. BootInv'
    BY <1>1 DEF TokenOf, PcInv, BootFirst, BootInv, Booted, Save, sdkVars, appVars
  <2>2. SignInInv'
    BY <1>1 DEF PcInv, UserInv, SignInInv, SigningOut, Save, sdkVars, appVars
  <2>3. RestoredInv'
    BY <1>1 DEF PcInv, BootFirst, Booted, BootInv, UserInv, RestoredInv, SigningOut,
       Coming, Save, sdkVars, appVars
  <2>4. EnsuredInv'
    BY <1>1 DEF PcInv, UserInv, EnsuredInv, Save, appVars, sdkVars, appVars
  <2>5. QED
    BY <2>1, <2>2, <2>3, <2>4
<1>2. ASSUME NEW t \in Threads, Assign(t) PROVE SessionInv'
  <2>1. BootInv'
    BY <1>2 DEF TokenOf, PcInv, BootFirst, BootInv, Booted, Assign, Target, appVars, Installed
  <2>2. SignInInv'
    BY <1>2 DEF PcInv, UserInv, SignInInv, SigningOut, Assign, Target, appVars, Installed
  <2>3. RestoredInv'
    BY <1>2 DEF PcInv, BootFirst, Booted, BootInv, UserInv, RestoredInv, SigningOut,
       Coming, Assign, Target, appVars, Installed
  <2>4. EnsuredInv'
    BY <1>2 DEF PcInv, UserInv, EnsuredInv, Assign, appVars, Target, appVars, Installed
  <2>5. QED
    BY <2>1, <2>2, <2>3, <2>4
<1>3. ASSUME NEW t \in Threads, ReadToken(t) PROVE SessionInv'
  <2>1. BootInv'
    BY <1>3 DEF TokenOf, PcInv, BootFirst, BootInv, Booted, ReadToken, appVars
  <2>2. SignInInv'
    BY <1>3 DEF PcInv, UserInv, SignInInv, SigningOut, ReadToken, appVars
  <2>3. RestoredInv'
    BY <1>3 DEF PcInv, BootFirst, Booted, BootInv, UserInv, RestoredInv, SigningOut,
       Coming, ReadToken, appVars
  <2>4. EnsuredInv'
    BY <1>3 DEF PcInv, UserInv, EnsuredInv, ReadToken, appVars, appVars
  <2>5. QED
    BY <2>1, <2>2, <2>3, <2>4
<1>4. ASSUME NEW t \in Threads, Compare(t) PROVE SessionInv'
  <2>1. BootInv'
    BY <1>4 DEF TokenOf, PcInv, BootFirst, BootInv, Booted, Compare, appVars
  <2>2. SignInInv'
    BY <1>4 DEF PcInv, UserInv, SignInInv, SigningOut, Compare, appVars
  <2>3. RestoredInv'
    BY <1>4, TokenTypes DEF PcInv, BootFirst, Booted, BootInv, UserInv, RestoredInv, SigningOut,
       Coming, Compare, appVars
  <2>4. EnsuredInv'
    BY <1>4 DEF PcInv, UserInv, EnsuredInv, Compare, appVars, appVars
  <2>5. QED
    BY <2>1, <2>2, <2>3, <2>4
<1>5. ASSUME LoadStored PROVE SessionInv'
  <2>1. BootInv'
    BY <1>5 DEF TokenOf, PcInv, BootFirst, BootInv, Booted, LoadStored, appVars
  <2>2. SignInInv'
    BY <1>5 DEF PcInv, UserInv, SignInInv, SigningOut, LoadStored, appVars, BootFirst,
       Booted
  <2>3. RestoredInv'
    BY <1>5 DEF PcInv, BootFirst, Booted, BootInv, UserInv, RestoredInv, SigningOut,
       Coming, LoadStored, appVars
  <2>4. EnsuredInv'
    BY <1>5 DEF PcInv, UserInv, EnsuredInv, LoadStored, appVars, appVars
  <2>5. QED
    BY <2>1, <2>2, <2>3, <2>4
<1>6. ASSUME BootDone PROVE SessionInv'
  <2>1. BootInv'
    BY <1>6 DEF TokenOf, PcInv, BootFirst, BootInv, Booted, BootDone, appVars
  <2>2. SignInInv'
    BY <1>6 DEF PcInv, UserInv, SignInInv, SigningOut, BootDone, appVars
  <2>3. RestoredInv'
    BY <1>6 DEF PcInv, BootFirst, Booted, BootInv, UserInv, RestoredInv, SigningOut,
       Coming, BootDone, appVars
  <2>4. EnsuredInv'
    BY <1>6 DEF PcInv, UserInv, EnsuredInv, BootDone, appVars, appVars
  <2>5. QED
    BY <2>1, <2>2, <2>3, <2>4
<1>7. ASSUME NEW o \in Credentials, NEW u \in Uids, TapCredentials(o, u) PROVE SessionInv'
  <2>1. BootInv'
    BY <1>7 DEF TokenOf, PcInv, BootFirst, BootInv, Booted, TapCredentials, sdkVars, appVars
  <2>2. SignInInv'
    BY <1>7 DEF PcInv, UserInv, SignInInv, SigningOut, TapCredentials, sdkVars, appVars,
       Installed
  <2>3. RestoredInv'
    BY <1>7 DEF PcInv, BootFirst, Booted, BootInv, UserInv, RestoredInv, SigningOut,
       Coming, TapCredentials, sdkVars, appVars, Installed
  <2>4. EnsuredInv'
    BY <1>7 DEF PcInv, UserInv, EnsuredInv, TapCredentials, appVars, sdkVars, appVars
  <2>5. QED
    BY <2>1, <2>2, <2>3, <2>4
<1>8. ASSUME NEW o \in Ops, RpcSucceeds(o) PROVE SessionInv'
  <2>1. BootInv'
    BY <1>8 DEF TokenOf, PcInv, BootFirst, BootInv, Booted, RpcSucceeds, sdkVars, appVars
  <2>2. SignInInv'
    BY <1>8 DEF PcInv, UserInv, SignInInv, SigningOut, RpcSucceeds, sdkVars, appVars,
       Installed
  <2>3. RestoredInv'
    BY <1>8 DEF PcInv, BootFirst, Booted, BootInv, UserInv, RestoredInv, SigningOut,
       Coming, RpcSucceeds, sdkVars, appVars, Installed
  <2>4. EnsuredInv'
    BY <1>8 DEF PcInv, UserInv, EnsuredInv, RpcSucceeds, appVars, sdkVars, appVars
  <2>5. QED
    BY <2>1, <2>2, <2>3, <2>4
<1>9. ASSUME NEW o \in Ops, RpcFails(o) PROVE SessionInv'
  <2>1. BootInv'
    BY <1>9 DEF TokenOf, PcInv, BootFirst, BootInv, Booted, RpcFails, sdkVars, appVars
  <2>2. SignInInv'
    BY <1>9 DEF PcInv, UserInv, SignInInv, SigningOut, RpcFails, sdkVars, appVars, Installed
  <2>3. RestoredInv'
    BY <1>9 DEF PcInv, BootFirst, Booted, BootInv, UserInv, RestoredInv, SigningOut,
       Coming, RpcFails, sdkVars, appVars, Installed
  <2>4. EnsuredInv'
    BY <1>9 DEF PcInv, UserInv, EnsuredInv, RpcFails, appVars, sdkVars, appVars
  <2>5. QED
    BY <2>1, <2>2, <2>3, <2>4
<1>10. ASSUME NEW o \in Ops, Revoke(o) PROVE SessionInv'
  <2>1. BootInv'
    BY <1>10 DEF TokenOf, PcInv, BootFirst, BootInv, Booted, Revoke, sdkVars, appVars
  <2>2. SignInInv'
    BY <1>10 DEF PcInv, UserInv, SignInInv, SigningOut, Revoke, sdkVars, appVars, Installed
  <2>3. RestoredInv'
    BY <1>10 DEF PcInv, BootFirst, Booted, BootInv, UserInv, RestoredInv, SigningOut,
       Coming, Revoke, sdkVars, appVars, Installed
  <2>4. EnsuredInv'
    BY <1>10 DEF PcInv, UserInv, EnsuredInv, Revoke, appVars, sdkVars, appVars
  <2>5. QED
    BY <2>1, <2>2, <2>3, <2>4
<1>11. ASSUME OpenMenu PROVE SessionInv'
  <2>1. BootInv'
    BY <1>11 DEF TokenOf, PcInv, BootFirst, BootInv, Booted, OpenMenu, sdkVars, appVars, MayTap,
       MainFree
  <2>2. SignInInv'
    BY <1>11 DEF PcInv, UserInv, SignInInv, SigningOut, OpenMenu, sdkVars, appVars,
       MayTap, MainFree
  <2>3. RestoredInv'
    BY <1>11 DEF PcInv, BootFirst, Booted, BootInv, UserInv, RestoredInv, SigningOut,
       Coming, OpenMenu, sdkVars, appVars, MayTap, MainFree
  <2>4. EnsuredInv'
    BY <1>11 DEF PcInv, UserInv, EnsuredInv, OpenMenu, appVars, sdkVars, appVars
  <2>5. QED
    BY <2>1, <2>2, <2>3, <2>4
<1>12. ASSUME CloseMenu PROVE SessionInv'
  <2>1. BootInv'
    BY <1>12 DEF TokenOf, PcInv, BootFirst, BootInv, Booted, CloseMenu, sdkVars, appVars, MayTap,
       MainFree
  <2>2. SignInInv'
    BY <1>12 DEF PcInv, UserInv, SignInInv, SigningOut, CloseMenu, sdkVars, appVars,
       MayTap, MainFree
  <2>3. RestoredInv'
    BY <1>12 DEF PcInv, BootFirst, Booted, BootInv, UserInv, RestoredInv, SigningOut,
       Coming, CloseMenu, sdkVars, appVars, MayTap, MainFree
  <2>4. EnsuredInv'
    BY <1>12 DEF PcInv, UserInv, EnsuredInv, CloseMenu, appVars, sdkVars, appVars
  <2>5. QED
    BY <2>1, <2>2, <2>3, <2>4
<1>13. ASSUME TapSignOut PROVE SessionInv'
  <2>1. BootInv'
    BY <1>13 DEF TokenOf, PcInv, BootFirst, BootInv, Booted, TapSignOut, sdkVars, appVars,
       MayTap, MainFree
  <2>2. SignInInv'
    BY <1>13 DEF PcInv, UserInv, SignInInv, SigningOut, TapSignOut, sdkVars, appVars,
       MayTap, MainFree
  <2>3. RestoredInv'
    BY <1>13 DEF PcInv, BootFirst, Booted, BootInv, UserInv, RestoredInv, SigningOut,
       Coming, TapSignOut, sdkVars, appVars, MayTap, MainFree
  <2>4. EnsuredInv'
    BY <1>13 DEF PcInv, UserInv, EnsuredInv, TapSignOut, appVars, sdkVars, appVars
  <2>5. QED
    BY <2>1, <2>2, <2>3, <2>4
<1>14. ASSUME SignOutReturns PROVE SessionInv'
  <2>1. BootInv'
    BY <1>14 DEF TokenOf, PcInv, BootFirst, BootInv, Booted, SignOutReturns, sdkVars, appVars,
       MayTap, MainFree
  <2>2. SignInInv'
    BY <1>14 DEF PcInv, UserInv, SignInInv, SigningOut, SignOutReturns, sdkVars,
       appVars, MayTap, MainFree
  <2>3. RestoredInv'
    BY <1>14 DEF PcInv, BootFirst, Booted, BootInv, UserInv, RestoredInv, SigningOut,
       Coming, SignOutReturns, sdkVars, appVars, MayTap, MainFree
  <2>4. EnsuredInv'
    BY <1>14 DEF PcInv, UserInv, EnsuredInv, SignOutReturns, appVars, sdkVars, appVars
  <2>5. QED
    BY <2>1, <2>2, <2>3, <2>4
<1>15. ASSUME NEW t \in Threads, Publish(t) PROVE SessionInv'
  <2>1. (\A b : InQ(mainQ, b) => InQ(mainQ', b)) /\ InQ(mainQ', PostBlock)
    BY <1>15, QueueAppend, BlockTypes DEF Publish
  <2>2. BootInv'
    BY <1>15, <2>1 DEF TokenOf, PcInv, BootFirst, BootInv, Booted, Publish, appVars
  <2>3. SignInInv'
    BY <1>15, <2>1 DEF PcInv, UserInv, SignInInv, SigningOut, Publish, appVars
  <2>4. RestoredInv'
    BY <1>15, <2>1 DEF PcInv, BootFirst, Booted, BootInv, UserInv, RestoredInv,
       SigningOut, Coming, Publish, appVars
  <2>5. EnsuredInv'
    BY <1>15, <2>1 DEF PcInv, UserInv, EnsuredInv, Publish, appVars
  <2>6. QED
    BY <2>2, <2>3, <2>4, <2>5
<1>16. ASSUME Appear PROVE SessionInv'
  <2>1. /\ \A b : InQ(mainQ, b) => InQ(mainQ', b)
        /\ InQ(mainQ', InitialBlock(Len(listeners) + 1))
    BY <1>16, QueueAppend, BlockTypes DEF Appear
  <2>2. /\ Len(listeners') = Len(listeners) + 1 /\ Len(listeners) \in Nat
        /\ \A l \in 1..Len(listeners) : listeners'[l] = listeners[l]
        /\ listeners'[Len(listeners) + 1].prev = None
    BY <1>16 DEF Appear
  <2>3. BootInv'
    BY <1>16, <2>1, <2>2 DEF TokenOf, PcInv, BootFirst, BootInv, Booted, Appear, sdkVars, appVars
  <2>4. SignInInv'
    BY <1>16, <2>1, <2>2 DEF PcInv, UserInv, SignInInv, SigningOut, Appear, sdkVars,
       appVars, MainFree
  <2>5. RestoredInv'
    BY <1>16, <2>1, <2>2 DEF PcInv, BootFirst, Booted, BootInv, UserInv, RestoredInv,
       SigningOut, Coming, Appear, sdkVars, appVars, MainFree
  <2>6. EnsuredInv'
    BY <1>16, <2>1, <2>2 DEF PcInv, UserInv, EnsuredInv, Appear, sdkVars, appVars
  <2>7. QED
    BY <2>3, <2>4, <2>5, <2>6
<1>17. ASSUME NEW o \in Ops \cup Refreshes, Callback(o) PROVE SessionInv'
  <2>1. \A b : InQ(mainQ, b) => InQ(mainQ', b)
    <3>1. /\ mainQ \in Seq(Block)
          /\ \/ mainQ' = mainQ
             \/ mainQ' = Append(mainQ, CompletionBlock(o)) /\ CompletionBlock(o) \in Block
      BY <1>17, BlockTypes DEF Callback
    <3>2. CASE mainQ' = mainQ
      BY <3>2
    <3>3. CASE mainQ' = Append(mainQ, CompletionBlock(o)) /\ CompletionBlock(o) \in Block
      BY <3>1, <3>3, QueueAppend
    <3>4. QED
      BY <3>1, <3>2, <3>3
  <2>2. BootInv'
    BY <1>17, <2>1 DEF TokenOf, PcInv, BootFirst, BootInv, Booted, Callback, sdkVars, appVars
  <2>3. SignInInv'
    BY <1>17, <2>1 DEF PcInv, UserInv, SignInInv, SigningOut, Callback, sdkVars, appVars
  <2>4. RestoredInv'
    BY <1>17, <2>1 DEF PcInv, BootFirst, Booted, BootInv, UserInv, RestoredInv,
       SigningOut, Coming, Callback, sdkVars, appVars
  <2>5. EnsuredInv'
    BY <1>17, <2>1 DEF PcInv, UserInv, EnsuredInv, Callback, sdkVars, appVars
  <2>6. QED
    BY <2>2, <2>3, <2>4, <2>5
<1>18. ASSUME RunInitial PROVE SessionInv'
  <2> DEFINE h == Head(mainQ).listener
  <2>1. /\ h \in 1..Len(listeners) /\ Invoke(h)
        /\ \A b : InQ(mainQ, b) /\ b # Head(mainQ) => InQ(mainQ', b)
        /\ Head(mainQ) # PostBlock /\ Head(mainQ) # SignedInBlock
        /\ \A l : Head(mainQ) = InitialBlock(l) => l = h
    BY <1>18, QueueTail DEF QueueInv, RunInitial, PostBlock, SignedInBlock, InitialBlock
  <2>2. /\ UidOf(currentUser) = IF currentUser = None THEN None ELSE who[currentUser]
        /\ currentUser # None => who[currentUser] \in Uids /\ who[currentUser] # None
    BY DEF UserInv, Installed, UidOf
  <2>3. /\ Len(listeners') = Len(listeners) /\ Len(listeners) \in Nat
        /\ listeners'[h].prev = UidOf(currentUser)
        /\ \A l \in 1..Len(listeners) : l # h => listeners'[l] = listeners[l]
    BY <2>1 DEF Invoke
  <2>4. /\ signedIn' = IF listeners[h].first \/ listeners[h].prev # UidOf(currentUser)
                        THEN UidOf(currentUser) # None ELSE signedIn
        /\ ensured \subseteq ensured'
        /\ /\ listeners[h].first \/ listeners[h].prev # UidOf(currentUser)
           /\ UidOf(currentUser) # None
           => UidOf(currentUser) \in ensured'
    BY <2>1 DEF Invoke
  <2> HIDE DEF h
  <2>7. BootInv'
    BY <1>18, <2>1, <2>2, <2>3, <2>4 DEF TokenOf, PcInv, BootFirst, BootInv, Booted, RunInitial,
       sdkVars
  <2>8. SignInInv'
    BY <1>18, <2>1, <2>2, <2>3, <2>4 DEF PcInv, UserInv, SignInInv, SigningOut,
       RunInitial, sdkVars, MainFree
  <2>9. RestoredInv'
    <3> SUFFICES ASSUME currentUser # None, pc[currentUser] = "past"
                 PROVE  /\ ~SigningOut'
                        /\ \A l \in 1..Len(listeners) :
                              /\ listeners'[l].prev = who[currentUser] => signedIn'
                              /\ listeners'[l].prev = who[currentUser] \/ Coming(l)'
      BY <1>18, <2>3 DEF RestoredInv, RunInitial, sdkVars
    <3>1. ~SigningOut /\ pc' = pc /\ ok' = ok /\ cursor' = cursor
      BY <1>18 DEF RestoredInv, RunInitial, sdkVars
    <3>2. ~SigningOut'
      BY <3>1 DEF SigningOut
    <3>3. ASSUME NEW l \in 1..Len(listeners)
          PROVE  /\ listeners[l].prev = who[currentUser] => signedIn
                 /\ listeners[l].prev = who[currentUser] \/ Coming(l)
      BY DEF RestoredInv
    <3>4. signedIn => signedIn'
      BY <2>2, <2>4
    <3>5. listeners'[h].prev = who[currentUser] /\ signedIn'
      BY <2>1, <2>2, <2>3, <2>4, <3>3
    <3>6. ASSUME NEW l \in 1..Len(listeners), l # h, Coming(l) PROVE Coming(l)'
      BY <2>1, <3>1, <3>6 DEF Coming
    <3>7. QED
      BY <2>3, <3>2, <3>3, <3>4, <3>5, <3>6
  <2>10. EnsuredInv'
    BY <1>18, <2>1, <2>2, <2>3, <2>4 DEF PcInv, UserInv, EnsuredInv, RunInitial, sdkVars
  <2>11. QED
    BY <2>7, <2>8, <2>9, <2>10
<1>19. ASSUME Deliver PROVE SessionInv'
  <2> DEFINE h == cursor
  <2>1. h \in 1..Len(listeners) /\ Invoke(h)
    BY <1>19 DEF CursorInv, Deliver
  <2>2. /\ UidOf(currentUser) = IF currentUser = None THEN None ELSE who[currentUser]
        /\ currentUser # None => who[currentUser] \in Uids /\ who[currentUser] # None
    BY DEF UserInv, Installed, UidOf
  <2>3. /\ Len(listeners') = Len(listeners) /\ Len(listeners) \in Nat
        /\ listeners'[h].prev = UidOf(currentUser)
        /\ \A l \in 1..Len(listeners) : l # h => listeners'[l] = listeners[l]
    BY <2>1 DEF Invoke
  <2>4. /\ signedIn' = IF listeners[h].first \/ listeners[h].prev # UidOf(currentUser)
                        THEN UidOf(currentUser) # None ELSE signedIn
        /\ ensured \subseteq ensured'
        /\ /\ listeners[h].first \/ listeners[h].prev # UidOf(currentUser)
           /\ UidOf(currentUser) # None
           => UidOf(currentUser) \in ensured'
    BY <2>1 DEF Invoke
  <2> HIDE DEF h
  <2>7. BootInv'
    <3>1. pc'[Boot] = pc[Boot] /\ UNCHANGED <<lastNotified, currentUser, token, refreshed>>
      BY <1>19 DEF Deliver, sdkVars
    <3>2. \A l \in 1..Len(listeners') :
              \/ l \in 1..Len(listeners) /\ listeners'[l].prev = listeners[l].prev
              \/ listeners'[l].prev = UidOf(currentUser)
      BY <2>3
    <3>3. currentUser = None => UidOf(currentUser) = None
      BY <2>2
    <3>4. QED
      BY <2>3, <3>1, <3>2, <3>3 DEF BootInv, Booted, TokenOf
  <2>8. SignInInv'
    BY <1>19, <2>1, <2>2, <2>3, <2>4 DEF PcInv, UserInv, SignInInv, SigningOut, Deliver,
       sdkVars
  <2>9. RestoredInv'
    BY <1>19, <2>1, <2>2, <2>3, <2>4 DEF PcInv, BootFirst, Booted, BootInv, UserInv,
       RestoredInv, SigningOut, Coming, Deliver, sdkVars, h
  <2>10. EnsuredInv'
    <3>1. /\ \A o \in Credentials : pc'[o] = pc[o]
          /\ UNCHANGED <<who, ok>>
      BY <1>19 DEF Deliver
    <3>2. \A l \in 1..Len(listeners') : listeners'[l].prev # None =>
              listeners'[l].prev \in ensured'
      BY <2>1, <2>2, <2>3, <2>4 DEF EnsuredInv
    <3>3. QED
      BY <2>4, <3>1, <3>2 DEF EnsuredInv
  <2>11. QED
    BY <2>7, <2>8, <2>9, <2>10
<1>20. ASSUME RunPost PROVE SessionInv'
  <2>1. /\ \A b : InQ(mainQ, b) /\ b # Head(mainQ) => InQ(mainQ', b)
        /\ Head(mainQ) # SignedInBlock /\ \A l : Head(mainQ) # InitialBlock(l)
    BY <1>20, QueueTail DEF RunPost, SignedInBlock, InitialBlock
  <2>2. BootInv'
    BY <1>20, <2>1 DEF TokenOf, PcInv, BootFirst, BootInv, Booted, RunPost, sdkVars, appVars,
       MainFree
  <2>3. SignInInv'
    BY <1>20, <2>1 DEF PcInv, UserInv, SignInInv, SigningOut, RunPost, sdkVars, appVars,
       MainFree
  <2>4. RestoredInv'
    BY <1>20, <2>1 DEF PcInv, BootFirst, Booted, BootInv, UserInv, RestoredInv,
       SigningOut, Coming, RunPost, sdkVars, appVars, MainFree
  <2>5. EnsuredInv'
    BY <1>20, <2>1 DEF PcInv, UserInv, EnsuredInv, RunPost, sdkVars, appVars
  <2>6. QED
    BY <2>2, <2>3, <2>4, <2>5
<1>21. ASSUME RunCompletion PROVE SessionInv'
  <2> DEFINE o == Head(mainQ).op
  <2>1. /\ o \in Credentials /\ pc[o] = "queued"
        /\ \A b : InQ(mainQ, b) /\ b # Head(mainQ) => InQ(Tail(mainQ), b)
        /\ Head(mainQ) # SignedInBlock /\ Head(mainQ) # PostBlock
        /\ \A l : Head(mainQ) # InitialBlock(l)
        /\ Tail(mainQ) \in Seq(Block)
    <3>1. mainQ # <<>> /\ Head(mainQ).kind = "completion"
      BY <1>21 DEF RunCompletion
    <3>2. /\ Head(mainQ) = mainQ[1] /\ 1 \in 1..Len(mainQ) /\ Tail(mainQ) \in Seq(Block)
          /\ \A b : InQ(mainQ, b) /\ b # Head(mainQ) => InQ(Tail(mainQ), b)
      BY <3>1, QueueTail
    <3>3. o \in Credentials /\ pc[o] = "queued"
      BY <3>1, <3>2 DEF QueueInv
    <3>4. /\ Head(mainQ) # SignedInBlock /\ Head(mainQ) # PostBlock
          /\ \A l : Head(mainQ) # InitialBlock(l)
      BY <3>1 DEF PostBlock, SignedInBlock, InitialBlock
    <3>5. QED
      BY <3>2, <3>3, <3>4
  <2>2. /\ \A b : InQ(mainQ, b) /\ b # Head(mainQ) => InQ(mainQ', b)
        /\ ok[o] /\ o \in SignIns => InQ(mainQ', SignedInBlock)
    BY <1>21, <2>1, QueueAppend, BlockTypes DEF RunCompletion
  <2>4. BootInv'
    BY <1>21, <2>1, <2>2 DEF TokenOf, PcInv, BootFirst, BootInv, Booted, RunCompletion, sdkVars,
       MainFree
  <2>5. SignInInv'
    BY <1>21, <2>1, <2>2 DEF PcInv, UserInv, SignInInv, SigningOut, RunCompletion, sdkVars
  <2>6. RestoredInv'
    BY <1>21, <2>1, <2>2 DEF PcInv, BootFirst, Booted, BootInv, UserInv, RestoredInv,
       SigningOut, Coming, RunCompletion, sdkVars
  <2>7. EnsuredInv'
    BY <1>21, <2>1, <2>2 DEF PcInv, UserInv, EnsuredInv, RunCompletion, sdkVars
  <2>8. QED
    BY <2>4, <2>5, <2>6, <2>7
<1>22. ASSUME RunSignedIn PROVE SessionInv'
  <2>1. /\ \A b : InQ(mainQ, b) /\ b # Head(mainQ) => InQ(mainQ', b)
        /\ Head(mainQ) # PostBlock /\ \A l : Head(mainQ) # InitialBlock(l)
    BY <1>22, QueueTail DEF RunSignedIn, PostBlock, InitialBlock
  <2>2. BootInv'
    BY <1>22, <2>1 DEF TokenOf, PcInv, BootFirst, BootInv, Booted, RunSignedIn, sdkVars
  <2>3. SignInInv'
    BY <1>22, <2>1 DEF PcInv, UserInv, SignInInv, SigningOut, RunSignedIn, sdkVars, MainFree
  <2>4. RestoredInv'
    BY <1>22, <2>1 DEF PcInv, BootFirst, Booted, BootInv, UserInv, RestoredInv,
       SigningOut, Coming, RunSignedIn, sdkVars, MainFree
  <2>5. EnsuredInv'
    BY <1>22, <2>1 DEF PcInv, UserInv, EnsuredInv, RunSignedIn, sdkVars
  <2>6. QED
    BY <2>2, <2>3, <2>4, <2>5
<1>23. ASSUME Relaunch PROVE SessionInv'
  <2>1. BootInv'
    BY <1>23 DEF TokenOf, PcInv, BootFirst, BootInv, Booted, Relaunch
  <2>2. SignInInv'
    BY <1>23 DEF PcInv, UserInv, SignInInv, SigningOut, Relaunch
  <2>3. RestoredInv'
    BY <1>23 DEF PcInv, BootFirst, Booted, BootInv, UserInv, RestoredInv, SigningOut,
       Coming, Relaunch
  <2>4. EnsuredInv'
    BY <1>23 DEF PcInv, UserInv, EnsuredInv, Relaunch
  <2>5. QED
    BY <2>1, <2>2, <2>3, <2>4
<1>24. ASSUME NEW r \in Refreshes, RefreshToken(r) PROVE SessionInv'
  <2>1. BootInv'
    BY <1>24 DEF PcInv, BootFirst, BootInv, Booted, RefreshToken, sdkVars, appVars
  <2>2. SignInInv'
    BY <1>24 DEF PcInv, UserInv, SignInInv, SigningOut, RefreshToken, sdkVars, appVars
  <2>3. RestoredInv'
    BY <1>24 DEF PcInv, BootFirst, Booted, BootInv, UserInv, RestoredInv, SigningOut,
       Coming, RefreshToken, sdkVars, appVars
  <2>4. EnsuredInv'
    BY <1>24 DEF PcInv, UserInv, EnsuredInv, RefreshToken, sdkVars, appVars
  <2>5. QED
    BY <2>1, <2>2, <2>3, <2>4
<1>. QED
  BY <1>1, <1>2, <1>3, <1>4, <1>5, <1>6, <1>7, <1>8, <1>9, <1>10, <1>11, <1>12, <1>13,
     <1>14, <1>15, <1>16, <1>17, <1>18, <1>19, <1>20, <1>21, <1>22, <1>23, <1>24
     DEF Next, People, TapSignIn, TapSignUp, RunMainQueue, UpdateCurrentUser

-----------------------------------------------------------------------------
(* A step that changes no variable keeps the invariant. *)
LEMMA Stutter == IInv /\ UNCHANGED vars => IInv'
<1> SUFFICES ASSUME IInv, UNCHANGED vars PROVE IInv'
  OBVIOUS
<1> USE DEF vars
<1>1. TypeOK' /\ PcInv' /\ BootFirst' /\ CursorInv' /\ UserInv'
  BY DEF IInv, StructInv, TypeOK, PcInv, BootFirst, Booted, CursorInv, UserInv
<1>2. QueueInv'
  BY DEF IInv, StructInv, QueueInv
<1>3. SessionInv'
  BY DEF TokenOf, IInv, SessionInv, BootInv, Booted, SignInInv, SigningOut, RestoredInv, Coming,
     EnsuredInv
<1>4. QED
  BY <1>1, <1>2, <1>3 DEF IInv, StructInv

(* IInv holds initially and every step preserves it. *)
LEMMA Inductive == Spec => []IInv
<1>1. Init => IInv
  BY StructInit, SessionInit DEF IInv
<1>2. IInv /\ [Next]_vars => IInv'
  BY StructNext, SessionNext, Stutter DEF IInv
<1>3. QED
  BY <1>1, <1>2, PTL DEF Spec

(* Every variable of the session keeps its type: in particular a completion  *)
(* handler always runs for a request that exists and has a uid.              *)
THEOREM TypeCorrect == Spec => []TypeOK
<1>1. IInv => TypeOK
  BY DEF IInv, StructInv
<1>2. QED
  BY <1>1, Inductive, PTL

(* However requests, sign-outs, refused tokens and restarts interleave, a    *)
(* session that began with signIn or was restored is on the screen once all  *)
(* threads have come to rest (ContentView's branch on vm.signedIn).          *)
THEOREM SignInAlwaysShown == Spec => []SignInShown
<1>1. IInv => SignInShown
  <2> SUFFICES ASSUME IInv, Quiescent, currentUser # None,
                      currentUser \in SignIns \/ pc[currentUser] = "past"
               PROVE  signedIn
    BY DEF SignInShown
  <2>1. currentUser \in Ops /\ \A b : ~InQ(mainQ, b)
    BY DEF IInv, StructInv, TypeOK, Quiescent, InQ, Ops, Credentials
  <2>2. CASE pc[currentUser] = "past"
    <3>1. /\ 1 \in 1..Len(listeners) /\ ~Coming(1)
      BY <2>1 DEF IInv, StructInv, TypeOK, Quiescent, Booted, MainFree, Coming
    <3>2. QED
      BY <2>2, <3>1 DEF IInv, SessionInv, RestoredInv
  <2>3. CASE currentUser \in SignIns /\ pc[currentUser] # "past"
    <3>1. pc[currentUser] = "answered"
      BY <2>1, <2>3 DEF IInv, StructInv, UserInv, Installed, Quiescent
    <3>2. QED
      BY <2>1, <2>3, <3>1 DEF IInv, SessionInv, SignInInv
  <2>4. QED
    BY <2>2, <2>3
<1>2. QED
  BY <1>1, Inductive, PTL

(* Whoever is signed in when all threads are at rest, by whatever route, has *)
(* gone through createOrUpdateUserInFirestore in this launch.                *)
THEOREM ProfileAlwaysEnsured == Spec => []ProfileEnsured
<1>1. IInv => ProfileEnsured
  <2> SUFFICES ASSUME IInv, Quiescent, currentUser # None
               PROVE  who[currentUser] \in ensured
    BY DEF ProfileEnsured
  <2>1. /\ currentUser \in Credentials /\ currentUser \in Ops
        /\ \A b : ~InQ(mainQ, b) /\ pc[currentUser] \in {"answered", "past"}
    BY DEF IInv, StructInv, TypeOK, UserInv, Installed, Quiescent, InQ, Ops
  <2>2. CASE pc[currentUser] = "past"
    <3>1. /\ 1 \in 1..Len(listeners) /\ ~Coming(1)
      BY <2>1 DEF IInv, StructInv, TypeOK, Quiescent, Booted, MainFree, Coming
    <3>2. listeners[1].prev = who[currentUser]
      BY <2>2, <3>1 DEF IInv, SessionInv, RestoredInv
    <3>3. who[currentUser] # None
      BY <2>1, <2>2, SessionAssumption DEF IInv, StructInv, UserInv
    <3>4. QED
      BY <3>1, <3>2, <3>3 DEF IInv, SessionInv, EnsuredInv
  <2>3. CASE pc[currentUser] = "answered"
    BY <2>1, <2>3 DEF IInv, StructInv, UserInv, SessionInv, EnsuredInv
  <2>4. QED
    BY <2>1, <2>2, <2>3
<1>2. QED
  BY <1>1, Inductive, PTL
=============================================================================
