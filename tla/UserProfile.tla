---------------------------- MODULE UserProfile ----------------------------
(***************************************************************************)
(* The profile document users/{uid}: FirebaseLoginViewModel creates it when *)
(* somebody signs in (createOrUpdateUserInFirestore), UpdateUserView loads  *)
(* it and saves the name, and with it the name of the device.               *)
(*                                                                          *)
(* Signing in and out are single steps here (AuthSession has their detail): *)
(* a sign-in calls createOrUpdateUserInFirestore from the auth listener and *)
(* again from its own completion handler, a restored session only from the  *)
(* listener.                                                                 *)
(*                                                                          *)
(* A name is Blank or the uid of the person who typed it: that is enough to *)
(* see whose name a document holds.  createdAt is the number of the         *)
(* creation.                                                                 *)
(***************************************************************************)
EXTENDS Firestore

CONSTANTS ProfilePath,   \* the place of users/{uid}
          Blank,         \* the empty string
          MaxSignIns,    \* bound: sign-ins and relaunches, over all clients
          MaxUpdates,    \* bound: taps of the update button, over all clients
          MaxViews,      \* bound: openings of UpdateUserView, over all clients
          Known,         \* uids whose profile exists before any client runs
          Overlap        \* TRUE: people act while a sign-in is still under way

(* A client is also the place users/{uid}/devices/device_{id} of that device. *)
ASSUME ProfileAssumption ==
    /\ ProfilePath \notin Clients /\ Paths = Clients \cup {ProfilePath}
    /\ Blank \notin Users /\ Absent \notin Users
    /\ MaxSignIns \in Nat /\ MaxUpdates \in Nat /\ MaxViews \in Nat
    /\ Known \subseteq Uids
    /\ Overlap \in BOOLEAN

VARIABLES
    view,       \* per client: UpdateUserView
    saved,      \* history, per uid: the name reported as saved, None once a
                \*   later save is under way
    signIns, updates, views,   \* counters for the bounds
    creations                  \* profiles created so far

appVars == <<view, saved, signIns, updates, views, creations>>
vars == <<fsVars, appVars>>

Profile(u)      == <<ProfilePath, u>>
DeviceDoc(c, u) == <<c, u>>

Fields == {"uid", "name", "email", "createdAt"}

(* Absent is no document. *)
ASSUME DocumentAssumption ==
    \A F \in SUBSET (Fields \cup {"deviceName"}) :
        Absent \notin [F -> Users \cup {Blank} \cup Nat \cup Clients]

(* What createOrUpdateUserInFirestore writes: displayName is nil for an      *)
(* account made with e-mail and password.                                    *)
NewProfile(u, n) ==
    [f \in Fields |-> IF f = "name" THEN Blank
                      ELSE IF f = "createdAt" THEN n ELSE u]

(* A profile made earlier, whose owner has saved a name. *)
StoredProfile(u) == [NewProfile(u, 0) EXCEPT !["name"] = u]

(* data?["name"] as? String ?? "" *)
NameOf(doc) == IF "name" \in DOMAIN doc THEN doc["name"] ELSE Blank

(* The states of UpdateUserView: no numbers its instances, viewer is the     *)
(* person in front of it, name the text field.                               *)
Closed == [stage |-> "closed", no |-> 0, viewer |-> None, name |-> Blank]

(* Whose handler a read or write is: ensure of createOrUpdateUserInFirestore, *)
(* fetch of fetchUserInfo, name of updateUserInfo.  The handlers of the other *)
(* writes only print or alert; their tag is None.                            *)
Tag(kind, u, no, name) == [kind |-> kind, uid |-> u, no |-> no, name |-> name]

EnsureProfile(c, u) == GetDocument(c, Profile(u), Tag("ensure", u, 0, Blank))

Init ==
    /\ FirestoreInit
    /\ server = [d \in Docs |-> IF d[1] = ProfilePath /\ d[2] \in Known
                                THEN StoredProfile(d[2]) ELSE Absent]
    /\ view = [c \in Clients |-> Closed]
    /\ saved = [u \in Uids |-> None]
    /\ signIns = 0 /\ updates = 0 /\ views = 0 /\ creations = 0

-----------------------------------------------------------------------------
(* Sessions.                                                                 *)

(* The handlers of an earlier sign-in have not all run. *)
Ensuring(c) ==
    \/ \E i \in 1..Len(reads[c]) : reads[c][i].tag.kind = "ensure"
    \/ \E i \in 1..Len(calls[c]) : calls[c][i].tag.kind = "ensure"

(* The auth listener has run; the completion handler of the request follows *)
(* on the main queue.                                                        *)
SignIn(c, u) ==
    /\ signIns < MaxSignIns
    /\ Overlap \/ (user[c] = None /\ view[c].stage = "closed" /\ ~Ensuring(c))
    /\ signIns' = signIns + 1
    /\ HandleCredentialChange(c, u)
    /\ EnsureProfile(c, u)
    /\ calls' = [calls EXCEPT ![c] =
                    Append(@, [kind |-> "completion", tag |-> Tag("ensure", u, 0, Blank),
                               ok |-> TRUE, docs |-> <<>>])]
    /\ UNCHANGED <<server, cache, online, view, saved, updates, views, creations>>

(* A refused token signs the user out behind the open menu. *)
ForcedSignOut(c) ==
    /\ user[c] # None
    /\ HandleCredentialChange(c, None)
    /\ UNCHANGED <<server, cache, online, reads, calls, appVars>>

(* The menu's sign-out also closes the menu and the view opened from it. *)
SignOut(c) ==
    /\ view[c].stage = "menu" /\ user[c] # None
    /\ HandleCredentialChange(c, None)
    /\ view' = [view EXCEPT ![c] = Closed]
    /\ UNCHANGED <<server, cache, online, reads, calls, saved, signIns, updates,
                   views, creations>>

(* The process dies and is started again; Auth restores the session. *)
Relaunch(c) ==
    /\ signIns < MaxSignIns
    /\ signIns' = signIns + 1
    /\ queue' = [queue EXCEPT ![c] = Persisted(@)]
    /\ sent' = [sent EXCEPT ![c] = 0]
    /\ reads' = [reads EXCEPT ![c] =
                    IF user[c] = None THEN <<>>
                    ELSE <<Read({Profile(user[c])}, TRUE, Tag("ensure", user[c], 0, Blank))>>]
    /\ calls' = [calls EXCEPT ![c] = <<>>]
    /\ view' = [view EXCEPT ![c] = Closed]
    /\ UNCHANGED <<server, cache, user, online, saved, updates, views, creations>>

-----------------------------------------------------------------------------
(* The menu and UpdateUserView.                                              *)

OpenMenu(c) ==
    /\ view[c].stage = "closed" /\ views < MaxViews
    /\ user[c] # None
    /\ Overlap \/ \A i \in 1..Len(calls[c]) : calls[c][i].kind # "completion"
    /\ view' = [view EXCEPT ![c] = [Closed EXCEPT !.stage = "menu", !.viewer = user[c]]]
    /\ UNCHANGED <<fsVars, saved, signIns, updates, views, creations>>

CloseMenu(c) ==
    /\ view[c].stage # "closed"
    /\ view' = [view EXCEPT ![c] = Closed]
    /\ UNCHANGED <<fsVars, saved, signIns, updates, views, creations>>

(* UpdateUserView appears and fetchUserInfo runs: it reads the profile of    *)
(* the current user; without one it shows an alert and the empty form.       *)
OpenView(c) ==
    /\ view[c].stage = "menu" /\ views < MaxViews
    /\ views' = views + 1
    /\ IF user[c] = None
       THEN view' = [view EXCEPT ![c].stage = "form"] /\ UNCHANGED reads
       ELSE /\ view' = [view EXCEPT ![c].stage = "loading", ![c].no = views + 1]
            /\ GetDocument(c, Profile(user[c]), Tag("fetch", user[c], views + 1, Blank))
    /\ UNCHANGED <<server, cache, queue, sent, user, online, calls, saved,
                   signIns, updates, creations>>

(* updateUserInfo, with the name as loaded or as typed by the viewer.  With  *)
(* nobody signed in it only shows an alert.                                  *)
TapUpdate(c, name) ==
    /\ view[c].stage = "form" /\ updates < MaxUpdates
    /\ user[c] # None
    /\ name \in {view[c].name, view[c].viewer}
    /\ updates' = updates + 1
    /\ view' = [view EXCEPT ![c].name = name]
    /\ SetData(c, Profile(user[c]), [f \in {"name"} |-> name], TRUE,
               Tag("name", user[c], updates + 1, name))
    /\ saved' = [saved EXCEPT ![user[c]] = None]
    /\ UNCHANGED <<server, cache, sent, user, online, reads, calls, signIns,
                   views, creations>>

-----------------------------------------------------------------------------
(* Completion handlers, one at a time from the head of the main queue.       *)

NextCall(c, kind, tagKind) ==
    /\ calls[c] # <<>>
    /\ Head(calls[c]).kind = kind /\ Head(calls[c]).tag.kind = tagKind
    /\ calls' = [calls EXCEPT ![c] = Tail(@)]

(* signIn's and signUp's completion call createOrUpdateUserInFirestore. *)
RunCompletion(c) ==
    /\ NextCall(c, "completion", "ensure")
    /\ EnsureProfile(c, Head(calls[c]).tag.uid)
    /\ UNCHANGED <<server, cache, queue, sent, user, online, appVars>>

(* Mutation: the profile is created only after a successful read. *)
RunEnsureIfRead(c) ==
    LET call == Head(calls[c])
        u == call.tag.uid
    IN  /\ NextCall(c, "read", "ensure")
        /\ IF ~call.ok \/ Profile(u) \in DOMAIN call.docs THEN UNCHANGED <<queue, creations>>
           ELSE /\ creations' = creations + 1
                /\ SetData(c, Profile(u), NewProfile(u, creations + 1), FALSE, None)
        /\ UNCHANGED <<server, cache, sent, user, online, reads, view, saved,
                       signIns, updates, views>>

(* createOrUpdateUserInFirestore: a document that was not read, for whatever *)
(* reason, is written anew.                                                  *)
RunEnsure(c) ==
    LET call == Head(calls[c])
        u == call.tag.uid
    IN  /\ NextCall(c, "read", "ensure")
        /\ IF call.ok /\ Profile(u) \in DOMAIN call.docs THEN UNCHANGED <<queue, creations>>
           ELSE /\ creations' = creations + 1
                /\ SetData(c, Profile(u), NewProfile(u, creations + 1), FALSE, None)
        /\ UNCHANGED <<server, cache, sent, user, online, reads, view, saved,
                       signIns, updates, views>>

(* Mutation: the view's state outlives the view that asked. *)
RunFetchForAnyView(c) ==
    LET call == Head(calls[c])
        d == Profile(call.tag.uid)
    IN  /\ NextCall(c, "read", "fetch")
        /\ view' = IF view[c].stage = "closed" THEN view
                   ELSE [view EXCEPT ![c].stage = "form",
                             ![c].name = IF call.ok /\ d \in DOMAIN call.docs
                                         THEN NameOf(call.docs[d]) ELSE @]
        /\ UNCHANGED <<server, cache, queue, sent, user, online, reads, saved,
                       signIns, updates, views, creations>>

(* fetchUserInfo: the form opens whatever the outcome.  A handler of a view  *)
(* that is gone changes nothing.                                             *)
RunFetch(c) ==
    LET call == Head(calls[c])
        d == Profile(call.tag.uid)
    IN  /\ NextCall(c, "read", "fetch")
        /\ view' = IF view[c].no # call.tag.no THEN view
                   ELSE [view EXCEPT ![c].stage = "form",
                             ![c].name = IF call.ok /\ d \in DOMAIN call.docs
                                         THEN NameOf(call.docs[d]) ELSE @]
        /\ UNCHANGED <<server, cache, queue, sent, user, online, reads, saved,
                       signIns, updates, views, creations>>

(* updateUserInfo's handler: on success the device is written too and the    *)
(* success is announced.                                                     *)
RunNameSaved(c) ==
    LET call == Head(calls[c])
        u == call.tag.uid
    IN  /\ NextCall(c, "write", "name")
        /\ IF call.ok
           THEN /\ SetData(c, DeviceDoc(c, u), [f \in {"deviceName"} |-> c], TRUE, None)
                /\ saved' = IF call.tag.no = updates
                             THEN [saved EXCEPT ![u] = call.tag.name] ELSE saved
           ELSE UNCHANGED <<queue, saved>>
        /\ UNCHANGED <<server, cache, sent, user, online, reads, view, signIns,
                       updates, views, creations>>

RunCall(c) ==
    RunCompletion(c) \/ RunEnsure(c) \/ RunFetch(c) \/ RunNameSaved(c)

People(c) ==
    \/ \E u \in Uids : SignIn(c, u)
    \/ SignOut(c) \/ ForcedSignOut(c) \/ Relaunch(c)
    \/ OpenMenu(c) \/ CloseMenu(c) \/ OpenView(c)
    \/ \E name \in Uids \cup {Blank} : TapUpdate(c, name)

Next ==
    \E c \in Clients :
        \/ People(c) \/ RunCall(c)
        \/ FirestoreStep(c) /\ UNCHANGED appVars

(* Handlers run, a read ends with the server's answer or, offline, with the  *)
(* cache's, a lost connection comes back.  Connections that keep breaking    *)
(* still get a write through at some time: strong fairness.                  *)
SdkStep(A) == A /\ UNCHANGED appVars

Fairness ==
    \A c \in Clients :
        /\ WF_vars(RunCall(c))
        /\ WF_vars(SdkStep(GoOnline(c)))
        /\ SF_vars(SdkStep(Commit(c)))
        /\ SF_vars(SdkStep(Acknowledge(c)))
        /\ SF_vars(SdkStep(Reject(c)))
        /\ \A d \in Docs :
               WF_vars(SdkStep(Synchronise(c, {d}) \/ ReadFromCache(c, {d})
                                 \/ ReadDenied(c, {d})))

Spec == Init /\ [][Next]_vars
FairSpec == Spec /\ Fairness

-----------------------------------------------------------------------------
(* Properties.                                                               *)

(* The type of the state: pending writes are writes of documents, no more of *)
(* them are on their way than there are (the pipeline never outruns its      *)
(* queue, whoever signs in or out), and documents have the fields the app    *)
(* writes.                                                                   *)
TypeOK ==
    /\ user \in [Clients -> Users]
    /\ \A c \in Clients, u \in Users : \A i \in 1..Len(queue[c][u]) :
           queue[c][u][i].doc \in Docs
    /\ \A c \in Clients : sent[c] \in 0..Len(Active(c))
    /\ \A d \in Docs : server[d] = Absent \/ DOMAIN server[d] \subseteq Fields \cup {"deviceName"}
    /\ \A c \in Clients : view[c].name \in Uids \cup {Blank}
    /\ saved \in [Uids -> Users \cup {Blank}]

(* A profile on the server has all its fields: the name that UpdateUserView  *)
(* merges never gets there before the document createOrUpdateUserInFirestore *)
(* writes, offline, across restarts and after lost acknowledgements.         *)
CompleteProfile ==
    \A u \in Uids : server[Profile(u)] # Absent => DOMAIN server[Profile(u)] = Fields

(* A profile never holds a name that somebody else typed or that was loaded  *)
(* from somebody else's profile, when one device changes hands between       *)
(* fetchUserInfo, updateUserInfo and their handlers.                         *)
NameOwn ==
    \A u \in Uids : server[Profile(u)] # Absent => NameOf(server[Profile(u)]) \in {Blank, u}

(* Writes of u's profile, or reports about them, are still under way. *)
Unsettled(u) ==
    \/ \E c \in Clients : \E v \in Users : \E i \in 1..Len(queue[c][v]) :
          queue[c][v][i].doc = Profile(u)
    \/ \E c \in Clients : \E i \in 1..Len(calls[c]) :
          calls[c][i].tag.uid = u /\ calls[c][i].tag.kind = "name"

(* A name that UpdateUserView reported as saved ("Informacion actualizada    *)
(* exitosamente") is the name on the server once everything has settled.     *)
SavedNameKept ==
    \A u \in Uids : saved[u] # None /\ ~Unsettled(u) =>
        server[Profile(u)] # Absent /\ NameOf(server[Profile(u)]) = saved[u]

(* createOrUpdateUserInFirestore creates a profile only if there is none: an *)
(* existing one keeps its date of creation.                                  *)
ExistingKept ==
    [][\A u \in Uids : server[Profile(u)] # Absent =>
         server'[Profile(u)]["createdAt"] = server[Profile(u)]["createdAt"]]_vars

(* Whoever stays signed in has a profile sooner or later: the handler of     *)
(* createOrUpdateUserInFirestore writes one whatever its read brought.       *)
ProfileEventually ==
    \A c \in Clients, u \in Uids :
        (user[c] = u) ~> (server[Profile(u)] # Absent \/ user[c] # u)

(* No pending write blocks the queue of whoever stays signed in: writes the  *)
(* server refuses (HandleWriteError) are dropped, the others get through.    *)
WritesSettle ==
    \A c \in Clients, u \in Uids :
        (user[c] = u /\ queue[c][u] # <<>>) ~> (queue[c][u] = <<>> \/ user[c] # u)
=============================================================================
