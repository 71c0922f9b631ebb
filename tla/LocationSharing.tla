-------------------------- MODULE LocationSharing --------------------------
(***************************************************************************)
(* LocationManager and MapView: a device publishes its position under       *)
(* locations/user_{uid} and shows everybody's positions, which a snapshot   *)
(* listener on that collection keeps current.                                *)
(*                                                                          *)
(* MapView holds its LocationManager as an ObservedObject with an initial   *)
(* value: each evaluation of the body that contains MapView() makes another *)
(* one.  None ever goes away, because the listener's closure keeps it, and  *)
(* each goes on publishing; the map observes the one made last.              *)
(*                                                                          *)
(* Left out: the titles of the markers, and with them listenForDeviceOwners, *)
(* and the camera.                                                           *)
(***************************************************************************)
EXTENDS Firestore, Functions

CONSTANTS LocationPath,  \* the place of locations/user_{uid}
          MaxSignIns,    \* bound: sign-ins, over all clients
          MaxMoves,      \* bound: changes of position, over all clients
          MaxManagers,   \* bound: LocationManagers, over all clients
          MaxCalls       \* bound: snapshots on a main queue

ASSUME LocationAssumption ==
    /\ Paths = {LocationPath}
    /\ None \notin [device : Clients, n : Nat]
    /\ Absent \notin [{"position"} -> [device : Clients, n : Nat]]
    /\ {MaxSignIns, MaxMoves, MaxManagers, MaxCalls} \subseteq Nat
    /\ MaxManagers <= MaxCalls

VARIABLES
    managers,   \* per client: its LocationManagers, oldest first
    map,        \* per client: MapView
    raised,     \* per client: the snapshot of locations the listeners last got
    position,   \* per client: where the device is, None until it knows
    signIns, moves   \* counters for the bounds

appVars == <<managers, map, raised, position, signIns, moves>>
vars == <<fsVars, appVars>>

Location(u) == <<LocationPath, u>>

(* A position: the device that took it and a number. *)
Fix(c, n) == [device |-> c, n |-> n]

Data(at) == [f \in {"position"} |-> at]

NewManager == [current |-> None, deviceLocations |-> <<>>, listening |-> TRUE]

(* manager: the one the map observes; stale: updateUIView is due. *)
Hidden == [shown |-> FALSE, manager |-> 0, markers |-> {}, stale |-> FALSE]

Marker(title, at) == [title |-> title, at |-> at]

SnapshotCall(m, docs) == ReadCall(m, TRUE, docs)

Init ==
    /\ FirestoreInit
    /\ \A c \in Clients : online[c]
    /\ server = [d \in Docs |-> Absent]
    /\ managers = [c \in Clients |-> <<>>]
    /\ map = [c \in Clients |-> Hidden]
    /\ raised = [c \in Clients |-> <<>>]
    /\ position = [c \in Clients |-> None]
    /\ signIns = 0 /\ moves = 0

-----------------------------------------------------------------------------
(* LocationManagers come with the views.                                     *)

Started == FoldFunction(LAMBDA ms, n : Len(ms) + n, 0, managers)

(* Mutation: a listener that joins others waits for the next change. *)
AddQueryListenerUninformed(c, m) == UNCHANGED calls

(* A listener that joins others of its query gets what they have. *)
AddQueryListener(c, m) ==
    calls' = IF raised[c] = <<>> THEN calls
             ELSE [calls EXCEPT ![c] = Append(@, SnapshotCall(m, raised[c]))]

(* LocationManager.init: it listens to locations. *)
StartManager(c) ==
    /\ Started < MaxManagers
    /\ managers' = [managers EXCEPT ![c] = Append(@, NewManager)]
    /\ AddQueryListener(c, Len(managers[c]) + 1)

(* ContentView turns to a new map. *)
SignIn(c, u) ==
    /\ user[c] = None /\ signIns < MaxSignIns
    /\ signIns' = signIns + 1
    /\ HandleCredentialChange(c, u)
    /\ StartManager(c)
    /\ map' = [map EXCEPT ![c] = [Hidden EXCEPT !.shown = TRUE, !.stale = TRUE,
                                                !.manager = Len(managers[c]) + 1]]
    /\ UNCHANGED <<server, cache, online, reads, raised, position, moves>>

(* Back to the sign-in form; the LocationManagers stay. *)
SignOut(c) ==
    /\ user[c] # None
    /\ HandleCredentialChange(c, None)
    /\ map' = [map EXCEPT ![c] = Hidden]
    /\ UNCHANGED <<server, cache, online, reads, calls, managers, raised,
                   position, signIns, moves>>

(* ContentView's body is evaluated again when the menu opens or closes. *)
Render(c) ==
    /\ map[c].shown
    /\ StartManager(c)
    /\ map' = [map EXCEPT ![c].manager = Len(managers[c]) + 1, ![c].stale = TRUE]
    /\ UNCHANGED <<server, cache, queue, sent, user, online, reads, raised,
                   position, signIns, moves>>

(* MenuView's list makes the destination of its map link right away. *)
RenderMenu(c) ==
    /\ map[c].shown
    /\ StartManager(c)
    /\ UNCHANGED <<server, cache, queue, sent, user, online, reads, map, raised,
                   position, signIns, moves>>

-----------------------------------------------------------------------------
(* Positions.                                                                *)

Move(c) ==
    /\ moves < MaxMoves
    /\ moves' = moves + 1
    /\ position' = [position EXCEPT ![c] = Fix(c, moves + 1)]
    /\ UNCHANGED <<fsVars, managers, map, raised, signIns>>

(* The map is drawn anew if the manager it observes was assigned to. *)
Published(c, m, assigned) ==
    map' = [map EXCEPT ![c].stale =
                @ \/ (assigned /\ map[c].shown /\ map[c].manager = m)]

(* Mutation: the position is kept to itself while the connection is down. *)
DidUpdateLocationsOnline(c, m) ==
    /\ managers[c][m].current # position[c]
    /\ managers' = [managers EXCEPT ![c][m].current = position[c]]
    /\ IF user[c] = None \/ ~online[c] THEN UNCHANGED queue
       ELSE SetData(c, Location(user[c]), Data(position[c]), TRUE, None)
    /\ Published(c, m, TRUE)
    /\ UNCHANGED <<server, cache, sent, user, online, reads, calls, raised,
                   position, signIns, moves>>

(* didUpdateLocations and saveLocationToFirestore. *)
DidUpdateLocations(c, m) ==
    /\ managers[c][m].current # position[c]
    /\ managers' = [managers EXCEPT ![c][m].current = position[c]]
    /\ IF user[c] = None THEN UNCHANGED queue
       ELSE SetData(c, Location(user[c]), Data(position[c]), TRUE, None)
    /\ Published(c, m, TRUE)
    /\ UNCHANGED <<server, cache, sent, user, online, reads, calls, raised,
                   position, signIns, moves>>

-----------------------------------------------------------------------------
(* The snapshot listener, in the SDK.                                        *)

(* The managers whose listener was not dropped, in order. *)
Listening(c) ==
    LET f[m \in 0..Len(managers[c])] ==
            IF m = 0 THEN <<>>
            ELSE IF managers[c][m].listening THEN Append(f[m - 1], m) ELSE f[m - 1]
    IN  f[Len(managers[c])]

(* The server sends what has changed in the collection. *)
Watch(c) ==
    /\ online[c] /\ Listening(c) # <<>> /\ cache[c] # server
    /\ ApplyRemoteEvent(c, Docs)
    /\ UNCHANGED <<server, sent, user, online, reads, calls, appVars>>

(* Each change of the local documents raises a snapshot for all listeners.   *)
(* (Changes that follow each other closely may share one here.)              *)
EmitSnapshot(c) ==
    LET docs == Snapshot(c, Docs, cache[c])
        to == Listening(c)
    IN  /\ to # <<>> /\ docs # raised[c] /\ Len(calls[c]) + Len(to) <= MaxCalls
        /\ raised' = [raised EXCEPT ![c] = docs]
        /\ calls' = [calls EXCEPT ![c] =
                        @ \o [i \in 1..Len(to) |-> SnapshotCall(to[i], docs)]]
        /\ UNCHANGED <<server, cache, queue, sent, user, online, reads, managers,
                       map, position, signIns, moves>>

(* The server refuses the query: its listeners are dropped, after a call that *)
(* only prints the error.                                                     *)
ListenDenied(c) ==
    /\ online[c] /\ "read" \in Denials /\ Listening(c) # <<>>
    /\ managers' = [managers EXCEPT ![c] =
                        [m \in DOMAIN @ |-> [managers[c][m] EXCEPT !.listening = FALSE]]]
    /\ raised' = [raised EXCEPT ![c] = <<>>]
    /\ UNCHANGED <<fsVars, map, position, signIns, moves>>

-----------------------------------------------------------------------------
(* On the main queue.                                                        *)

Positions(docs) == [d \in DOMAIN docs |-> docs[d]["position"]]

(* listenForDeviceLocations: positions are added or replaced, never removed. *)
RunLocations(c) ==
    /\ calls[c] # <<>>
    /\ calls' = [calls EXCEPT ![c] = Tail(@)]
    /\ LET call == Head(calls[c])
       IN  /\ managers' = [managers EXCEPT ![c][call.tag].deviceLocations =
                               Merged(Positions(call.docs), @)]
           /\ Published(c, call.tag, call.docs # <<>>)
    /\ UNCHANGED <<server, cache, queue, sent, user, online, reads, raised,
                   position, signIns, moves>>

MyMarker(manager) ==
    IF manager.current = None THEN {} ELSE {Marker(<<"Mi ubicacion">>, manager.current)}

DeviceMarkers(manager) ==
    {Marker(d, manager.deviceLocations[d]) : d \in DOMAIN manager.deviceLocations}

(* updateUIView, updateMarkers: markers are added to those on the map. *)
UpdateUIView(c) ==
    LET manager == managers[c][map[c].manager]
    IN  /\ map[c].stale
        /\ map' = [map EXCEPT ![c].stale = FALSE,
                       ![c].markers = @ \cup MyMarker(manager) \cup DeviceMarkers(manager)]
        /\ UNCHANGED <<fsVars, managers, raised, position, signIns, moves>>

Next ==
    \E c \in Clients :
        \/ \E u \in Uids : SignIn(c, u)
        \/ SignOut(c) \/ Render(c) \/ RenderMenu(c) \/ Move(c)
        \/ \E m \in 1..Len(managers[c]) : DidUpdateLocations(c, m)
        \/ Watch(c) \/ EmitSnapshot(c) \/ ListenDenied(c)
        \/ RunLocations(c) \/ UpdateUIView(c)
        \/ FirestoreStep(c) /\ UNCHANGED appVars

SdkStep(A) == A /\ UNCHANGED appVars

(* As in UserProfile; besides, each LocationManager hears of a new position, *)
(* a changed collection is sent and raised, and a stale map drawn.           *)
Fairness ==
    \A c \in Clients :
        /\ \A m \in 1..MaxManagers :
               WF_vars(m <= Len(managers[c]) /\ DidUpdateLocations(c, m))
        /\ WF_vars(EmitSnapshot(c)) /\ WF_vars(RunLocations(c)) /\ WF_vars(UpdateUIView(c))
        /\ WF_vars(SdkStep(GoOnline(c)))
        /\ SF_vars(Watch(c)) /\ SF_vars(SdkStep(Commit(c))) /\ SF_vars(SdkStep(Acknowledge(c)))

Spec == Init /\ [][Next]_vars
FairSpec == Spec /\ Fairness

-----------------------------------------------------------------------------
(* Properties.                                                               *)

(* The type of the state; a position that is published or shown was taken.   *)
TypeOK ==
    /\ user \in [Clients -> Users]
    /\ \A c \in Clients : sent[c] \in 0..Len(Active(c))
    /\ \A c \in Clients : position[c] \in {None} \cup {Fix(c, n) : n \in 1..moves}
    /\ \A c \in Clients : \A i \in 1..Len(managers[c]) :
           /\ managers[c][i].current = None \/ managers[c][i].current.device = c
           /\ DOMAIN managers[c][i].deviceLocations \subseteq Docs
    /\ \A c \in Clients : map[c].shown => map[c].manager \in 1..Len(managers[c])
    /\ \A c \in Clients : \A k \in map[c].markers : k.at.n \in 1..moves

Observed(c) == managers[c][map[c].manager]

Watching(c) == map[c].shown /\ Observed(c).listening

(* Nothing is under way on client c, nor between it and the server. *)
Rest(c) ==
    /\ Active(c) = <<>> /\ calls[c] = <<>> /\ ~map[c].stale
    /\ raised[c] = Snapshot(c, Docs, cache[c])
    /\ \A m \in 1..Len(managers[c]) : managers[c][m].current = position[c]

(* The map shows a marker where the server says a person is, whichever of    *)
(* its LocationManagers it observes by now, after whatever sign-ins, resent  *)
(* writes and late snapshots.                                                *)
MapCurrent ==
    \A c \in Clients : Watching(c) /\ Rest(c) /\ cache[c] = server =>
        \A d \in Docs : server[d] # Absent =>
            Marker(d, server[d]["position"]) \in map[c].markers

(* A person's position on the server is the one of a device, and the latest  *)
(* of that device if the person is still signed in there: what an earlier    *)
(* session left behind in a queue does not prevail.                          *)
OwnPositionPublished ==
    \A c \in Clients, u \in Uids : user[c] = u /\ position[c] # None /\ Rest(c) =>
        LET doc == server[Location(u)]
        IN  doc # Absent /\ (doc["position"].device = c => doc["position"] = position[c])

(* The position of whoever stays signed in reaches every map that is open    *)
(* and whose listener is not refused, unless another of the person's devices *)
(* replaces it, although connections break.                                  *)
PositionsSpread ==
    \A c, e \in Clients, u \in Uids : c # e =>
        (user[c] = u /\ position[c] # None)
            ~> \/ user[c] # u \/ ~Watching(e)
               \/ \E d \in {Location(u)} \cap DOMAIN Observed(e).deviceLocations :
                      LET at == Observed(e).deviceLocations[d]
                      IN  at.device # c \/ at = position[c]
=============================================================================
