--------------------------- MODULE RouteHistory ---------------------------
(***************************************************************************)
(* RouteMapView: the route a device took on a day, loaded when the person   *)
(* taps the button.                                                          *)
(*                                                                          *)
(* Here a uid is the id of a device and a path a day.  The points of one     *)
(* device and day (documents of LocationHistory) are one document, their     *)
(* number its field: only this query reads them, so they get into the cache  *)
(* together, and its order by timestamp lets a route only grow at its end.   *)
(* The app reads LocationHistory and does not write it.                      *)
(***************************************************************************)
EXTENDS Firestore

CONSTANTS MaxPoints,   \* bound: points per device and day
          MaxViews,    \* bound: routes opened, over all clients
          MaxLoads     \* bound: taps on the button, over all clients

ASSUME RouteAssumption ==
    /\ {MaxPoints, MaxViews, MaxLoads} \subseteq Nat
    /\ Absent \notin [{"points"} -> Nat]     \* no document is a document

VARIABLES
    view,      \* per client: RouteMapView
    views,     \* counter for the bound, and the identity of views
    loads,     \* counter for the bound
    shown,     \* history: per client, device and day, the points ever shown
    asked,     \* history: per client, what the open view last loaded or tries to
               \*   load; None before the first tap and after a load that failed
    overlapped \* history: per client, the open view was tapped while it loaded

appVars == <<view, views, loads, shown, asked, overlapped>>
vars == <<fsVars, appVars>>

Number(doc) == IF doc = Absent THEN 0 ELSE doc["points"]
Data(n)     == [f \in {"points"} |-> n]

(* The points that the document of a device and day stands for. *)
Points(d, doc) == {d} \X (1..Number(doc))

(* locations: the points on the map; center: the route whose first point the *)
(* region is centered on.                                                    *)
NewView(device, date, id) ==
    [open |-> TRUE, id |-> id, device |-> device, selectedDate |-> date,
     route |-> None, locations |-> {}, center |-> None]

Init ==
    /\ FirestoreInit
    /\ \A c \in Clients : online[c]
    /\ server = [d \in Docs |-> Absent]
    /\ view = [c \in Clients |-> [open |-> FALSE]]
    /\ views = 0 /\ loads = 0
    /\ shown = [c \in Clients |-> [d \in Docs |-> {}]]
    /\ asked = [c \in Clients |-> None]
    /\ overlapped = [c \in Clients |-> FALSE]

-----------------------------------------------------------------------------
(* External: another program records a point. *)
Record(d) ==
    /\ Number(server[d]) < MaxPoints
    /\ server' = [server EXCEPT ![d] = Data(Number(@) + 1)]
    /\ UNCHANGED <<cache, queue, sent, user, online, reads, calls, appVars>>

(* The list's link; a view starts with the day it is made on. *)
Open(c, device, date) ==
    /\ ~view[c].open /\ views < MaxViews
    /\ view' = [view EXCEPT ![c] = NewView(device, date, views + 1)]
    /\ views' = views + 1
    /\ asked' = [asked EXCEPT ![c] = None]
    /\ overlapped' = [overlapped EXCEPT ![c] = FALSE]
    /\ UNCHANGED <<fsVars, loads, shown>>

Close(c) ==
    /\ view[c].open
    /\ view' = [view EXCEPT ![c] = [open |-> FALSE]]
    /\ UNCHANGED <<fsVars, views, loads, shown, asked, overlapped>>

SelectDate(c, date) ==
    /\ view[c].open /\ view[c].selectedDate # date
    /\ view' = [view EXCEPT ![c].selectedDate = date]
    /\ UNCHANGED <<fsVars, views, loads, shown, asked, overlapped>>

(* Loads of the open view that have not ended. *)
Loading(c) ==
    \/ \E i \in 1..Len(reads[c]) : reads[c][i].tag.view = view[c].id
    \/ \E i \in 1..Len(calls[c]) : calls[c][i].tag.view = view[c].id

(* Mutation: the query lacks whereField("deviceId", isEqualTo: deviceId). *)
QueryAnyDevice(d) == {e \in Docs : e[1] = d[1]}

(* The documents of one day and device. *)
Query(d) == {d}

(* fetchLocationHistory, up to the call of getDocuments. *)
FetchLocationHistory(c) ==
    LET d == <<view[c].selectedDate, view[c].device>>
    IN  /\ view[c].open /\ loads < MaxLoads
        /\ loads' = loads + 1
        /\ GetDocuments(c, Query(d), [view |-> view[c].id, query |-> d])
        /\ asked' = [asked EXCEPT ![c] = d]
        /\ overlapped' = [overlapped EXCEPT ![c] = @ \/ Loading(c)]
        /\ UNCHANGED <<server, cache, queue, sent, user, online, calls, view, views, shown>>

(* Mutation: the handler assigns the state of the view that is open. *)
TappedAny(c, call) == view[c].open

(* The view that was tapped is still open: its state is what people see. *)
Tapped(c, call) == view[c].open /\ view[c].id = call.tag.view

(* The handler, from the head of the main queue. *)
RunRoute(c) ==
    /\ calls[c] # <<>>
    /\ calls' = [calls EXCEPT ![c] = Tail(@)]
    /\ LET call == Head(calls[c])
           d == call.tag.query
           found == UNION {Points(e, call.docs[e]) : e \in DOMAIN call.docs}
       IN  \/ /\ Tapped(c, call) /\ call.ok
              /\ view' = [view EXCEPT ![c].route = d, ![c].locations = found,
                                      ![c].center = IF found = {} THEN @ ELSE d]
              /\ shown' = [shown EXCEPT ![c][d] = @ \cup found]
              /\ UNCHANGED asked
           \/ /\ Tapped(c, call) /\ ~call.ok
              /\ asked' = [asked EXCEPT ![c] = None]
              /\ UNCHANGED <<view, shown>>
           \/ /\ ~Tapped(c, call)
              /\ UNCHANGED <<view, shown, asked>>
    /\ UNCHANGED <<server, cache, queue, sent, user, online, reads, views, loads,
                   overlapped>>

Next ==
    \/ \E d \in Docs : Record(d)
    \/ \E c \in Clients :
          \/ \E device \in Uids, date \in Paths : Open(c, device, date)
          \/ \E date \in Paths : SelectDate(c, date)
          \/ Close(c) \/ FetchLocationHistory(c) \/ RunRoute(c)
          \/ FirestoreStep(c) /\ UNCHANGED appVars

Spec == Init /\ [][Next]_vars

-----------------------------------------------------------------------------
(* Properties.                                                               *)

(* The type of the state; nothing is shown that was not recorded. *)
TypeOK ==
    \A c \in Clients :
        /\ asked[c] \in Docs \cup {None}
        /\ \A d \in Docs : shown[c][d] \subseteq Points(d, server[d])
        /\ view[c].open =>
               /\ view[c].id \in 1..views
               /\ {view[c].route, view[c].center} \subseteq Docs \cup {None}

(* The map shows the route of the day that was loaded last, of the device    *)
(* the view is about, and is centered on it, if people wait for a load to    *)
(* end before they tap again: whatever views were opened and left while they *)
(* loaded, whatever the connection did.                                       *)
RouteOfLastLoad ==
    \A c \in Clients :
        view[c].open /\ asked[c] # None /\ ~overlapped[c] /\ ~Loading(c) =>
            /\ view[c].route = asked[c]
            /\ view[c].route[2] = view[c].device
            /\ view[c].locations # {} => view[c].center = view[c].route

(* The route of a day never loses a point, however loads overlap and whether *)
(* fetchLocationHistory got it from the server or, offline, from the cache.  *)
RouteNeverShrinks ==
    \A c \in Clients : view[c].open /\ view[c].route # None =>
        view[c].locations = shown[c][view[c].route]
=============================================================================
