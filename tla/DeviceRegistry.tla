--------------------------- MODULE DeviceRegistry ---------------------------
(***************************************************************************)
(* DeviceSelectionView and QRCodeScannerView: the list of everybody's       *)
(* devices (users/{uid}/devices/{id}), read in two stages and refreshed     *)
(* after each change; registering a scanned device; deleting a listed one;  *)
(* and, of UpdateUserView, the device document that a saved name is          *)
(* followed by, at whatever time the save is acknowledged.                   *)
(*                                                                          *)
(* A device document is the pair of its id and its owner; so is a row of    *)
(* the list.  What the documents contain, and in which order and how often  *)
(* the list shows a row, does not matter here.                               *)
(***************************************************************************)
EXTENDS Firestore, SequencesExt

CONSTANTS DeviceIds,     \* ids of device documents.  A code may say any of them;
                         \*   a client is also its own id, device_{identifierForVendor}
          ProfilePath,   \* the place of users/{uid}
          MaxAppears,    \* bound: appearances of the list, over all clients
          MaxScans,      \* bound: codes reported by the camera
          MaxDeletes,    \* bound: taps of a trash button
          MaxNames       \* bound: names saved

ASSUME RegistryAssumption ==
    /\ Clients \subseteq DeviceIds
    /\ ProfilePath \notin DeviceIds /\ Paths = DeviceIds \cup {ProfilePath}
    /\ IsFiniteSet(Uids)
    /\ Absent \notin Users
    /\ MaxAppears \in Nat /\ MaxScans \in Nat /\ MaxDeletes \in Nat /\ MaxNames \in Nat

VARIABLES
    view,       \* per client: DeviceSelectionView
    appears, scans, deletes, names,   \* counters for the bounds
    latest,     \* history, per document: number of the last request about it
    deleted,    \* history: deletions announced, unless the device was
                \*   registered again
    named,      \* history, per client: documents updateDeviceName wrote since
                \*   the list was last emptied
    faults      \* history: the server refused a write, or a read got no
                \*   answer from it

counters == <<appears, scans, deletes, names>>
appVars == <<view, counters, latest, deleted, named, faults>>
vars == <<fsVars, appVars>>

UserDocs    == {ProfilePath} \X Uids     \* the collection users
Devices(u)  == DeviceIds \X {u}          \* the collection users/{u}/devices
AllDevices  == DeviceIds \X Uids

Fields(c) == [f \in {"deviceName"} |-> c]

(* A document that is there is not Absent, and a handler is not None. *)
ASSUME ValueAssumption ==
    /\ \A c \in Clients \cup {None} : Fields(c) # Absent
    /\ None \notin [kind : {"registered", "deleted", "named"}, no : Nat, op : Nat,
                   row : AllDevices, doc : AllDevices]

(* no numbers the instances of the view; scanner is "closing" while the      *)
(* sheet goes away and the camera still runs.                                *)
Closed == [open |-> FALSE, no |-> 0, rows |-> {}, scanner |-> "off"]

(* Whose handler a call is: users and devices of fetchDevices, registered of *)
(* registerDevice, deleted of deleteDevice (the row shown and the document   *)
(* deleted), named of updateDeviceName, which belongs to no list.            *)
Tag(kind, no, op, row, doc) ==
    [kind |-> kind, no |-> no, op |-> op, row |-> row, doc |-> doc]

(* The number of the next request to write a device document. *)
NextOp == scans + deletes + names + 1

FetchTag(no) == Tag("users", no, 0, None, None)

FetchDevices(c, no) == GetDocuments(c, UserDocs, FetchTag(no))

(* The list can be tapped when no sheet covers it. *)
MayTap(c) == view[c].open /\ view[c].scanner = "off"

Init ==
    /\ FirestoreInit
    /\ \A c \in Clients : online[c]
    /\ \E D \in SUBSET AllDevices :
           server = [d \in Docs |-> IF d \in D \cup UserDocs THEN Fields(None) ELSE Absent]
    /\ view = [c \in Clients |-> Closed]
    /\ appears = 0 /\ scans = 0 /\ deletes = 0 /\ names = 0
    /\ latest = [d \in AllDevices |-> 0] /\ deleted = {}
    /\ named = [c \in Clients |-> {}] /\ faults = FALSE

-----------------------------------------------------------------------------
(* Sessions: single steps, as in UserProfile.                                *)

SignIn(c, u) ==
    /\ user[c] = None /\ ~view[c].open
    /\ HandleCredentialChange(c, u)
    /\ UNCHANGED <<server, cache, online, reads, calls, appVars>>

(* A refused token signs the user out behind the open view. *)
ForcedSignOut(c) ==
    /\ user[c] # None
    /\ HandleCredentialChange(c, None)
    /\ UNCHANGED <<server, cache, online, reads, calls, appVars>>

-----------------------------------------------------------------------------
(* The view.                                                                 *)

(* onAppear: a new view, or the same one when RouteMapView is left. *)
Appear(c) ==
    /\ appears < MaxAppears /\ view[c].scanner = "off"
    /\ appears' = appears + 1
    /\ view' = IF view[c].open THEN view
               ELSE [view EXCEPT ![c].open = TRUE, ![c].no = appears + 1]
    /\ FetchDevices(c, view'[c].no)
    /\ UNCHANGED <<server, cache, queue, sent, user, online, calls, scans,
                   deletes, names, latest, deleted, named, faults>>

CloseView(c) ==
    /\ view[c].open /\ view[c].scanner = "off"
    /\ view' = [view EXCEPT ![c] = Closed]
    /\ UNCHANGED <<fsVars, counters, latest, deleted, named, faults>>

OpenScanner(c) ==
    /\ MayTap(c)
    /\ scans < MaxScans
    /\ view' = [view EXCEPT ![c].scanner = "on"]
    /\ UNCHANGED <<fsVars, counters, latest, deleted, named, faults>>

(* The sheet is swiped away or the camera fails; or it has gone after a scan. *)
ScannerOff(c) ==
    /\ view[c].scanner # "off"
    /\ view' = [view EXCEPT ![c].scanner = "off"]
    /\ UNCHANGED <<fsVars, counters, latest, deleted, named, faults>>

(* metadataOutput reports a code: the sheet is told to close and             *)
(* registerDevice runs.  Nothing keeps the next frame from doing it again.   *)
Scan(c, id) ==
    /\ view[c].scanner \in {"on", "closing"}
    /\ scans < MaxScans
    /\ scans' = scans + 1
    /\ view' = [view EXCEPT ![c].scanner = "closing"]
    /\ IF user[c] = None THEN UNCHANGED <<queue, latest, deleted>>
       ELSE LET d == <<id, user[c]>>
                op == NextOp
            IN  /\ SetData(c, d, Fields(c), FALSE,
                           Tag("registered", view[c].no, op, d, d))
                /\ latest' = [latest EXCEPT ![d] = op]
                /\ deleted' = {e \in deleted : d \notin {e.row, e.doc}}
    /\ UNCHANGED <<server, cache, sent, user, online, reads, calls, appears, deletes,
                   names, named, faults>>

(* Mutation: deleteDevice does not check that somebody is signed in. *)
TapDeleteUnchecked(c, row) ==
    /\ MayTap(c) /\ deletes < MaxDeletes
    /\ row \in view[c].rows
    /\ deletes' = deletes + 1
    /\ Delete(c, <<row[1], user[c]>>,
              Tag("deleted", view[c].no, NextOp, row, <<row[1], user[c]>>))
    /\ UNCHANGED <<server, cache, sent, user, online, reads, calls, view,
                   appears, scans, names, latest, deleted, named, faults>>

(* deleteDevice: the id of the row, under the current user.  With nobody     *)
(* signed in it only shows an alert.                                         *)
TapDelete(c, row) ==
    /\ MayTap(c) /\ deletes < MaxDeletes
    /\ user[c] # None
    /\ row \in view[c].rows
    /\ deletes' = deletes + 1
    /\ LET d == <<row[1], user[c]>>
           op == NextOp
       IN  /\ Delete(c, d, Tag("deleted", view[c].no, op, row, d))
           /\ latest' = [latest EXCEPT ![d] = op]
    /\ UNCHANGED <<server, cache, sent, user, online, reads, calls, view,
                   appears, scans, names, deleted, named, faults>>

(* updateUserInfo's handler, for a name saved in UpdateUserView, however late *)
(* it is called: updateDeviceName writes the document of this device.  (The  *)
(* name itself, and a handler called when its user is gone, whose write the  *)
(* server refuses, are in UserProfile.)                                      *)
UpdateDeviceName(c) ==
    /\ names < MaxNames
    /\ user[c] # None
    /\ names' = names + 1
    /\ LET d == <<c, user[c]>>
           op == NextOp
       IN  /\ SetData(c, d, Fields(c), TRUE, Tag("named", 0, op, d, d))
           /\ latest' = [latest EXCEPT ![d] = op]
           /\ deleted' = {e \in deleted : d \notin {e.row, e.doc}}
           /\ named' = [named EXCEPT ![c] = @ \cup {d}]
    /\ UNCHANGED <<server, cache, sent, user, online, reads, calls, view,
                   appears, scans, deletes, faults>>

-----------------------------------------------------------------------------
(* Handlers, from the head of the main queue.                                *)

NextCall(c, kind) ==
    /\ calls[c] # <<>> /\ Head(calls[c]).tag.kind = kind
    /\ calls' = [calls EXCEPT ![c] = Tail(@)]

(* The view that asked is still there. *)
Asked(c, call) == view[c].open /\ view[c].no = call.tag.no

(* fetchDevices, first handler: the list is emptied and the devices of each  *)
(* user are asked for.  After an error there are no users.                   *)
RunUsers(c) ==
    LET call == Head(calls[c])
    IN  /\ NextCall(c, "users")
        /\ view' = IF call.ok /\ Asked(c, call)
                   THEN [view EXCEPT ![c].rows = {}] ELSE view
        /\ named' = IF call.ok /\ Asked(c, call)
                    THEN [named EXCEPT ![c] = {}] ELSE named
        /\ \E users \in SetToSeqs(DOMAIN call.docs) :
               reads' = [reads EXCEPT ![c] =
                            @ \o [i \in 1..Len(users) |->
                                     Read(Devices(users[i][2]), FALSE,
                                          Tag("devices", call.tag.no, 0, None, None))]]
        /\ UNCHANGED <<server, cache, queue, sent, user, online, counters, latest,
                       deleted, faults>>

(* fetchDevices, second handler: the devices of one user are appended. *)
RunDevices(c) ==
    LET call == Head(calls[c])
    IN  /\ NextCall(c, "devices")
        /\ view' = IF Asked(c, call)
                   THEN [view EXCEPT ![c].rows = @ \cup DOMAIN call.docs]
                   ELSE view
        /\ UNCHANGED <<server, cache, queue, sent, user, online, reads, counters,
                       latest, deleted, named, faults>>

(* Mutation: the list is not read again after a registration. *)
RunRegisteredWithoutRefresh(c) ==
    /\ NextCall(c, "registered")
    /\ UNCHANGED <<server, cache, queue, sent, user, online, reads, appVars>>

(* registerDevice's handler: on success the list is read again. *)
RunRegistered(c) ==
    LET call == Head(calls[c])
    IN  /\ NextCall(c, "registered")
        /\ IF call.ok THEN FetchDevices(c, call.tag.no) ELSE UNCHANGED reads
        /\ UNCHANGED <<server, cache, queue, sent, user, online, appVars>>

Announced(tag) ==
    IF latest[tag.doc] = tag.op
    THEN deleted \cup {[row |-> tag.row, doc |-> tag.doc]} ELSE deleted

(* Mutation: the deletion is announced without looking at the error. *)
RunDeletedIgnoresError(c) ==
    LET call == Head(calls[c])
    IN  /\ NextCall(c, "deleted")
        /\ FetchDevices(c, call.tag.no)
        /\ deleted' = Announced(call.tag)
        /\ UNCHANGED <<server, cache, queue, sent, user, online, view, counters,
                       latest, named, faults>>

(* deleteDevice's handler: on success it says so and reads the list again. *)
RunDeleted(c) ==
    LET call == Head(calls[c])
    IN  /\ NextCall(c, "deleted")
        /\ IF call.ok THEN FetchDevices(c, call.tag.no) /\ deleted' = Announced(call.tag)
           ELSE UNCHANGED <<reads, deleted>>
        /\ UNCHANGED <<server, cache, queue, sent, user, online, view, counters,
                       latest, named, faults>>

(* updateDeviceName's handler says no more than that, and does not read the  *)
(* list again.                                                               *)
RunNamed(c) ==
    /\ NextCall(c, "named")
    /\ UNCHANGED <<server, cache, queue, sent, user, online, reads, appVars>>

RunCall(c) ==
    RunUsers(c) \/ RunDevices(c) \/ RunRegistered(c) \/ RunDeleted(c) \/ RunNamed(c)

People(c) ==
    \/ \E u \in Uids : SignIn(c, u)
    \/ ForcedSignOut(c) \/ Appear(c) \/ CloseView(c) \/ OpenScanner(c) \/ ScannerOff(c)
    \/ \E id \in DeviceIds : Scan(c, id)
    \/ \E row \in AllDevices : TapDelete(c, row)
    \/ UpdateDeviceName(c)

Next ==
    \E c \in Clients :
        \/ People(c) \/ RunCall(c)
        \/ (Answers(c) \/ GoOffline(c) \/ GoOnline(c)) /\ UNCHANGED appVars
        \/ Faults(c) /\ faults' = TRUE /\ UNCHANGED <<view, counters, latest, deleted, named>>

Spec == Init /\ [][Next]_vars

-----------------------------------------------------------------------------
(* Properties.                                                               *)

(* The type of the state: every pending write and every row is about a       *)
(* device of an account, whoever signs out behind the view.                  *)
TypeOK ==
    /\ \A c \in Clients, u \in Users : \A i \in 1..Len(queue[c][u]) :
           queue[c][u][i].doc \in AllDevices
    /\ \A c \in Clients : /\ view[c].rows \subseteq AllDevices
                           /\ view[c].scanner \in {"off", "on", "closing"}
    /\ \A e \in deleted : e.row \in AllDevices /\ e.doc \in AllDevices
    /\ latest \in [AllDevices -> 0..(MaxScans + MaxDeletes + MaxNames)]
    /\ named \in [Clients -> SUBSET AllDevices]

(* The list of c is open and nothing is under way that would change it. *)
Rest(c) ==
    /\ ~faults
    /\ view[c].open /\ reads[c] = <<>> /\ calls[c] = <<>>
    /\ \A u \in Users : queue[c][u] = <<>>

Registered == {d \in AllDevices : server[d] # Absent}

(* fetchDevices ends with no device in the list that is not registered, and  *)
(* with every registered one, except what updateDeviceName wrote since the    *)
(* list was last emptied, however reads, registrations, deletions, repeated  *)
(* scans, names saved, lost connections and sign-outs on the device overlap. *)
(* (A device that is registered when its owner's saved name is acknowledged  *)
(* is missing from an open list until that is read again.)                   *)
ListComplete ==
    \A c \in Clients : Rest(c) =>
        /\ view[c].rows \subseteq Registered
        /\ Registered \ view[c].rows \subseteq named[c]

(* The document that deleteDevice deleted, and announced as deleted, is not  *)
(* on the server, although deletions are sent again after lost connections   *)
(* and may be refused.                                                       *)
TargetGone == \A e \in deleted : server[e.doc] = Absent

(* The device whose trash button was tapped and that was announced as        *)
(* deleted ("Dispositivo eliminado exitosamente") is not on the server.      *)
DeletedGone == \A e \in deleted : server[e.row] = Absent
=============================================================================
