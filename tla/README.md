# FirebaseLogin: specifications, checks and proofs

TLA+ specifications of the iOS app in `src/FirebaseLogin/FirebaseLogin` (SwiftUI,
about 1,270 lines) over the two SDKs it embeds, FirebaseAuth and Cloud Firestore
(`src/FirebaseLogin/Pods`). People sign in with e-mail and password, share their
location on a map, register devices by QR code and look at the route of a day.
The app has no tests. Nearly all it does happens in callbacks, so what can go
wrong is the order in which they run; that is what is modelled here.

## 1. The system

| Component | State | Operations | Interacts with |
|---|---|---|---|
| `FirebaseLoginViewModel` | `signedIn` | `listenToAuthState`, `signIn`, `signUp`, `signOut`, `createOrUpdateUserInFirestore` | called by the screens; callbacks from Auth and Firestore on the main queue |
| `ContentView`, `SignInView`, `SignUpView`, `MenuView` | `showingMenu`, the branch on `signedIn` | taps, `onAppear` | view model |
| FirebaseAuth SDK | `currentUser`, `lastNotifiedUserToken`, keychain, listeners | start-up, `updateCurrentUser`, notification, forced sign-out | requests run in tasks of their own; listeners and completions on the main queue |
| `UpdateUserView` | `name`, `email`, `isLoading` | `fetchUserInfo`, `updateUserInfo`, `updateDeviceName` | Firestore `users/{uid}`, `users/{uid}/devices/device_{id}` |
| Firestore SDK | cache, one queue of pending writes per user, write pipeline, reads under way, snapshot listeners | `getDocument(s)`, `addSnapshotListener`, `setData`, `delete`, credential change, stream restart | server, persistent store, handlers on the main queue |
| `LocationManager`, `MapView` | `currentLocation`, `deviceLocations`, `deviceOwners`, markers | `didUpdateLocations`, a listener and a read, `updateMarkers` | Firestore `locations`, `users` |
| `DeviceSelectionView`, `QRCodeScannerView` | `devices`, sheet and alert | `fetchDevices`, `registerDevice`, `deleteDevice`, `metadataOutput` | Firestore `users/*/devices/*`, camera |
| `RouteMapView` | `locations`, `mapRegion`, `selectedDate` | `fetchLocationHistory` | Firestore `LocationHistory`; opened from `DeviceSelectionView` |
| `MainMenuView`, `DeviceListView` | – | logout, `fetchDevices` | nothing refers to them |

The hard behaviour:

- **Several threads write Auth's user.** A sign-in or sign-up is a Swift task; it
  runs `updateCurrentUser` neither on the main thread nor on Auth's work queue.
  A sign-out runs on the main thread, a forced sign-out wherever a token refresh
  failed. A refresh that succeeds (Firestore asks for a token with every connection,
  which also starts Auth's refresh timer) looks at the current user, stores it again
  and posts, in a task of its own. None of them takes a lock.
- **Three writers of `signedIn`.** The auth listener, `signOut`, and a block that
  `signIn`'s completion handler dispatches. The listener is skipped when the uid
  is the one it saw last.
- **Failures and restarts.** The keychain may refuse; the process may be killed
  between any two steps; a sign-up may create the account and still fail.
- **Firestore answers late, from the cache, or with an error**, writes wait in a
  persistent queue, are sent again after a lost connection, and belong to the
  user who was active when they were queued.
- **LocationManagers pile up.** `MapView` makes its `LocationManager` where it is
  declared, so each evaluation of a body with `MapView()` in it makes another; the
  listener's closure keeps it, and it goes on publishing in every later session.

What makes the components right: screen, session and keychain agree when nothing
is under way; every request is answered; whoever is signed in has a complete
profile; a name that was announced as saved stays; nobody's data land in
somebody else's profile; maps show people where they are; the route on the screen
is the one that was asked for. `PROJECT.json` lists the hazards line by line.

## 2. Modules

| Module | Models |
|---|---|
| `AuthSession` | view model, session screens and Auth SDK on one device |
| `Session` | abstract specification: stored account, user, screen; `AuthSession` implements it |
| `AuthSessionMC`, `LocationSharingMC` | symmetry for TLC |
| `AuthSessionProofs`, `AuthSessionCalmProofs` | theorems about `AuthSession`: for all people, for patient people |
| `FirestoreProofs` | lemmas about the operators of `Firestore` |
| `UserProfileProofs`, `UserProfileCalmProofs` | theorems about `UserProfile`: types and names, the document for patient people |
| `DeviceRegistryProofs`, `LocationSharingProofs`, `RouteHistoryProofs` | theorems about those modules |
| `Firestore` | documents, pending writes, reads and connections of the Firestore SDK, for any app |
| `UserProfile` | the profile document; EXTENDS `Firestore` and adds the app's handlers |
| `DeviceRegistry` | the device list, registration and deletion; EXTENDS `Firestore` |
| `LocationSharing` | `LocationManager`, `MapView` and the SDK's snapshot listener; EXTENDS `Firestore` |
| `RouteHistory` | `RouteMapView`; EXTENDS `Firestore` |

### AuthSession

`pc[t]` is the next step of a thread `t`: a request (`SignIns`, `SignUps`), a
refused token (`Revocations`), a token refresh that is answered (`Refreshes`), the
main thread, or Auth's start-up. The steps of
`updateCurrentUser` (`Save`, `Assign`, `ReadToken`, `Compare`, `Publish`) are
separate actions and interleave freely. `mainQ` is `DispatchQueue.main`; one block
or one tap runs at a time, and Auth's `signOut` keeps the main thread busy until
it returns (`TapSignOut` … `SignOutReturns`). A `User` object is
named by the request that created it; `who` gives its uid. Its token is that name with
the number of its refreshes (`TokenOf`), so a refresh is a change to be notified.

| Action | Code |
|---|---|
| `Appear` | `ContentView.onAppear`, `listenToAuthState` |
| `TapSignIn`, `TapSignUp` | the buttons of `SignInView` and `SignUpView`, up to the call of the server |
| `RpcSucceeds`, `RpcFails`, `Callback` | `internalSignInUser`, `internalCreateUserWithEmail`, `signInFlowAuthDataResultCallback` |
| `LoadStored`, `BootDone` | `protectedDataInitialization` |
| `Revoke` | `signOutIfTokenIsInvalid`, `signOutByForce` |
| `RefreshToken`, then `Save` … `Publish` without `Assign` | `internalGetTokenAsync`, `updateKeychain(withUser:)` |
| `OpenMenu`, `CloseMenu`, `TapSignOut`, `SignOutReturns` | `ContentView`, `MenuView`, `vm.signOut` |
| `RunInitial`, `RunPost`, `Deliver` (with `Invoke`) | the SDK's listener wrapper and the closure of `listenToAuthState` |
| `RunCompletion`, `RunSignedIn` | completion handlers of `signIn` and `signUp`, and the block the former dispatches |
| `Relaunch` | the process is killed and started again; server and keychain remain |

Simplifications: the check `currentUser != nil` of a sign-out and the first
comparison in `updateCurrentUser` are one step. Passwords and the validity of
text fields are left to the server's answer. After start-up failed to read the
keychain (`"unread"`), the second attempt when the device is unlocked is not
modelled. The restored `User` keeps the name of the request that created it.
A refresh begins where the server has answered it and `updateKeychain` has found its
user current; when it finds another one it does nothing. `Publish` records the token
and appends the notification in one step.

`Overlap` says what people do. `TRUE`: they tap at any moment the screen lets
them. `FALSE`: they wait until a request has been answered and its blocks have
run. People cannot wait for a token refresh, which they know nothing of.
`RefreshRaces` says whether one may be under way while a sign-in, sign-up, sign-out
or start-up changes the user. In the code it may (`TRUE`); `FALSE` is the assumption
under which keychain and last notified token can be relied on at all, and it is named
wherever a run or a theorem makes it.

`Session` says what all this is for, with three variables and four actions:
`Store` (an account, or none, is written to the device), `Adopt` (the user becomes
the stored account), `Show` (the screen becomes what the user says) and `Restart`.
Its liveness is that screen and user agree again and again. The mapping takes
`stored` to the uid of the keychain's user, `user` to that of `currentUser` and
`screen` to `signedIn`. With `Overlap = FALSE`, `RefreshRaces = FALSE` and no refused
tokens `AuthSession`
implements it (`ImplementsSession`): no step assigns a user that was not saved
first, none shows what is not so, and a keychain that refuses changes nothing.
With overlapping requests it does not: `map_unauthenticated` is a wrong `Show`. With a
refresh that races a sign-out it does not either: after `save(nil)`, `save(u)`,
`assign(nil)` the user adopted is not the one stored (`session_undone`).

### Firestore, UserProfile and DeviceRegistry

`queue[c][u]` are the pending writes of user `u` on client `c`, `sent[c]` how many
of the active queue the server has committed without the client knowing. `Commit`
and `Acknowledge` are separate: a stream that restarts in between
(`GoOffline`, `HandleCredentialChange`, a relaunch) sends the write again.
`seen` marks a committed write whose effect a snapshot has already put in the
cache: `LocalStore::ApplyBatchResult` compares versions to the same end.
Reads online wait for the server (`wait_for_sync_when_online`) and see it under
the pending writes; offline they get the cached document under the pending
writes, or an error if there is none. Reads of one document share a query and are
answered together.

`UserProfile` takes a sign-in as one step: Auth posts its internal notification,
which Firestore's credentials follow, before it calls the app's listener, and the
completion handler comes after that on the main queue. The security rules of the
project are not in the repository; `Permitted` (external) assumes that only the
owner writes what is filed under a uid. `Denials` says whether the server may refuse
reads, or writes, at will.
Names are `Blank` or the uid of whoever typed them. `saved` is a history variable:
the name last announced by "Información actualizada exitosamente.".
With `Overlap = FALSE` nobody signs in on a device while handlers of its last
sign-in are outstanding, nobody opens the menu before the completion handler has
run, and sign-in needs the closed sign-in screen. The assumption is needed: a read
that is answered while nobody is signed in, and handled in the next session, queues
a blank profile behind a name that is still pending, and `SavedNameKept` fails.

`DeviceRegistry` has the two stages of `fetchDevices` as two handlers, `RunUsers`
(which empties the list) and `RunDevices` (which adds the devices of one user). Users
are taken in any order, and the rows are a set: the order is the server's, and
duplicates are spoken of below.
`Scan` is `metadataOutput` with `registerDevice`; while the scanner sheet is
`"closing"` the camera can report again. `deleted` is a history variable: the row
and the document of each deletion that was announced. Every user has a profile
document here. People tap whenever no sheet covers the list. `faults` is a history
variable: a read or write was refused, or answered from the cache, in which case
the list need not be complete (`ListComplete`) but `TargetGone` still holds.
`UpdateDeviceName` is the third writer of device documents, on the same client: when
the name saved in `UpdateUserView` is acknowledged, at any time, its handler writes the
document of this device, whose id is the client here. `RunNamed`, its own handler, does
not read the list again; `named` is a history variable with what was written like that
since the list was last emptied. The name itself, and a handler that is called when
its user is gone, whose write the server refuses, are in `UserProfile`.

### LocationSharing

`managers[c]` are the `LocationManager`s a client has made so far, in order;
`map[c].manager` is the one its map observes. `SignIn`, `Render` (the body of
`ContentView`, when the menu opens or closes) and `RenderMenu` (the body of
`MenuView`, whose link has a `MapView()` as its destination) each start one.
`Move` gives the device a new position, which each manager hears of separately
(`DidUpdateLocations`) and writes under whoever is signed in at that moment.

The snapshot listener: `Watch` brings the server's changes into the cache,
`EmitSnapshot` raises a snapshot whenever the local documents differ from the last
one raised, whatever changed them (an answer, a write, an acknowledgement, another
user's queue), and appends a handler for each listener to the main queue;
`AddQueryListener` gives a listener that joins others their snapshot at once;
`ListenDenied` drops all listeners. `RunLocations` is the closure of
`listenForDeviceLocations`, which adds and replaces positions and removes none.
`UpdateUIView` draws when an observed property was assigned. A marker is drawn for
each position again and again; equal markers are one here. None is ever removed or
updated, although comments in `MapView.swift` (19, 40) speak of it: a device that moves
leaves a marker at each place where it was, and `MapCurrent` says that one is right.

Left out: `listenForDeviceOwners` and the titles of markers, which are all it is
for. (Owners are stored by `{uid}` and looked up by `user_{uid}`, so no title names
an owner.) `MapView` is a `UIViewRepresentable`, whose `body` is never evaluated.

### RouteHistory

`view[c]` is the `RouteMapView` that is open, with an identity: a handler assigns
the state of the view that was tapped, and what a closed view gets nobody sees.
The points of one device and day are modelled as one document whose field is their
number, since only this query reads them; a point is the document and its own number
(`Points`). `route` and `locations` say which points are on the map, `center` the route whose first point it is centered on. Another
program records points (`Record`, external). `shown`, `asked` and `overlapped` are
history variables: the points ever shown, what the last tap asked for, and
whether somebody tapped while the view was loading.

## 3. Runs

| Run | Instance | Shows |
|---|---|---|
| `session_overlap` | 1 sign-in, 1 sign-up, 1 token refreshed or refused, 2 launches, 1 account, overlapping | `TypeOK`, `ProfileEnsured`, `SignInShown`: the last block of a sign-in or the listener always puts the session on the screen |
| `session_calm` | 1 sign-in, 1 sign-up, 1 refresh that does not race, 2 accounts, 2 listeners, 2 launches, one request at a time, fairness | `SessionShown`, `MapOnlyIfAuthenticated`, `SessionDurable`, `NotificationCurrent`, `RequestAnswered`, `ImplementsSession` |
| `profile_kept` | 1 device, 2 people, 2 sign-ins or relaunches, 2 views, 2 saves | `TypeOK`, `NameOwn`, `CompleteProfile`, `SavedNameKept` |
| `profile_live` | 2 people, 2 overlapping sign-ins, fairness | `ProfileEventually`, `WritesSettle` |
| `registry_overlap` | 1 device and 1 account, 2 ids, 2 scans, 1 deletion, 1 saved name, overlapping, broken connections, refused writes | `TypeOK`, `ListComplete`, `TargetGone` |
| `location` | 2 devices, 2 accounts, 2 sign-ins, 2 moves, 2 managers | `TypeOK`, `MapCurrent`, `OwnPositionPublished` |
| `location_live` | 2 devices, 1 account, 2 sign-ins, 1 move, 2 managers, refused listeners, fairness | `PositionsSpread` |
| `route` | 2 devices, 2 days, 2 views, 3 loads, overlapping, refused reads | `TypeOK`, `RouteOfLastLoad`, `RouteNeverShrinks` |

Four more runs show where the code does not do what its comments say:

- `map_unauthenticated` – `ContentView.swift:13` "Mostrar el mapa si está
  autenticado". `signIn`'s dispatched `signedIn = true` looks at nothing; when two
  sign-ins overlap, the person can sign out before the second block runs and the
  map stays. (A token that is refused at that moment does it with one sign-in.)
- `session_undone` – `Auth.swift:1790` "No-op if the user is no longer signed in",
  `Auth.swift:144` "This class is thread-safe." `updateKeychain` looks, then saves.
  A sign-out in between empties the keychain and the refresh fills it again: nobody
  is signed in, the form is on the screen, and the next launch restores the person.
  One patient sign-out is enough. The same race leaves a token of that user as the
  last one notified.
- `profile_overwritten` – `FirebaseLoginViewModel.swift:37` "Si el documento no
  existe, crearlo". A read that fails, offline for instance, is handled like a
  missing document and the existing profile is replaced, name and date included.
- `registry_foreign` – `DeviceSelectionView.swift:145` "Función para eliminar un
  dispositivo". The list shows everybody's devices, but the deletion goes to the
  current user's collection: another person's device is announced as deleted and
  stays. `TargetGone` is what does hold.

`SignInShown` speaks of sign-ins and restored sessions because sign-ups are
exposed: one that completes during a sign-out of the same account leaves
`signedIn = false` although somebody is signed in, since the listener sees the same
uid as before and is not called, and `signUp`, unlike `signIn`, dispatches no block
of its own. For patient people `SessionShown` covers sign-ups too.
`RouteOfLastLoad` excludes people who tap again while the view loads: the handler
does not compare the day with `selectedDate`, and the earlier route can come last.
`OwnPositionPublished` and `PositionsSpread` allow for a person with two devices,
which overwrite each other's position: the server then has that of either, even
of one that has signed out.

`ListComplete` compares the rows as a set: two refreshes under way empty the list
twice and then append everything twice. It excepts `named`: a name saved earlier may be
acknowledged while the list is open; its handler then registers this device
(`UpdateUserView.swift:133`) and, unlike `registerDevice`, does not read the list again.
While the connection holds, such duplicates
and devices missing because of `updateDeviceName` are what can go wrong with one
client; offline, the list is what the cache has.

Bounds. Two requests are what it takes for an overwritten `currentUser`, a
swallowed notification or a repeated uid (an account that is made and then signed in
to). Two listeners and two launches are the
smallest numbers where a listener or a launch is not the only one. One refresh is
enough to undo a sign-out and to be notified in the wrong order; `MaxTokens` keeps
`session_overlap` to one token, refreshed or refused. For several, and for refreshes that race
the requests of patient people, there are the theorems below. One save is
needed for a name to be lost, a second for an older one to come back; two
sign-ins or relaunches let a write be sent again in a later session, with or
without its handler. Two scans and a deletion
give three refreshes that overlap with the first reading of the list, and a device that
is registered, deleted and registered again; a name saved before or after the list is
emptied tells what `named` excuses from what it does not; the second id is a device
that only a code brings. Several accounts are in `registry_foreign`
and in the theorems. Two sign-ins
and two moves are what it takes for a position left in a queue to meet a newer one;
two managers let a map turn to one that joins a listener, or two devices have a
map each. `MaxCalls` lets the main queue hold a snapshot for each manager; those
that come meanwhile share the next. Two views and three loads: a load left behind
in a closed view, one from the server and one from the cache; one point per route
is enough for it to get shorter. Symmetry (devices, accounts, requests of a kind)
is used in runs without liveness only. Deadlock is not checked:
the bounds stop people, and a device at rest does nothing.

Fairness. `AuthSession`: threads go on, servers or time-outs answer, the first
view appears (weak). `RunMainQueue` is strongly fair, since sign-outs that the
keychain refuses can occupy the main thread again and again, but its run loop
turns to the queue in between. `UserProfile`: handlers run, a lost connection
comes back and a read ends (weak); a connection that keeps breaking still gets a
write through some day (strong: the streams back off and reconnect without limit).
`LocationSharing`: besides, each manager hears of a new position, snapshots are
raised and maps drawn (weak), and a connection that keeps breaking brings changes of
the collection some day (strong, for the same reason). Taps, refreshed or refused tokens, kills and disconnections are never obliged to happen.

Every property has a mutant: an operator beside the definition it replaces,
headed "Mutation:", with a plausible bug that makes the property fail.

## 4. Proofs

All theorems hold for every set of clients, accounts, requests, devices and days and
for every value of the bounds. What they assume of the constants is what the
modules' named assumptions say (kinds of requests are disjoint; `None` and `Absent`
are no account, position, document or tag of a write, of which `DocumentAssumption`
and `ValueAssumption` speak; bounds are naturals), which TLC evaluates on
every run, and the hypotheses listed here. Every invariant and action property of a
passing run is stated by one of them.

| Module | Theorem | Property | Hypothesis |
|---|---|---|---|
| `AuthSessionProofs` | `TypeCorrect`, `SignInAlwaysShown`, `ProfileAlwaysEnsured` | `TypeOK`, `SignInShown`, `ProfileEnsured` | – |
| `AuthSessionCalmProofs` | `CalmSessionShown`, `CalmMapOnlyIfAuthenticated` | `SessionShown`, `MapOnlyIfAuthenticated` | `~Overlap`, no refused tokens |
| | `CalmSessionDurable`, `CalmNotificationCurrent` | `SessionDurable`, `NotificationCurrent` | the same and `~RefreshRaces` |
| | `CalmSessionRefined` | the safety part of `Session` | the same and `~RefreshRaces` |
| `UserProfileProofs` | `ProfileTypeCorrect` | `TypeOK` | – |
| | `CalmNameOwn` | `NameOwn` | `~Overlap` |
| `UserProfileCalmProofs` | `CalmCompleteProfile` | `CompleteProfile` | `~Overlap`, writes are not refused at will |
| | `CalmSavedNameKept` | `SavedNameKept` | one client, `~Overlap`, nothing is refused at will |
| `DeviceRegistryProofs` | `RegistryTypeCorrect` | `TypeOK` | – |
| | `OneClientTargetGone`, `OneClientListComplete` | `TargetGone`, `ListComplete` | one client |
| `LocationSharingProofs` | `LocationTypeCorrect`, `MapAlwaysCurrent` | `TypeOK`, `MapCurrent` | – |
| | `PositionAlwaysPublished` | `OwnPositionPublished` | writes are not refused at will |
| `RouteHistoryProofs` | `RouteTypeCorrect`, `RouteOfLastLoadHolds`, `RouteNeverShrinksHolds` | `TypeOK`, `RouteOfLastLoad`, `RouteNeverShrinks` | – |

The hypotheses are those of the runs, and needed. With overlapping requests or
refused tokens the four properties of patient people fail (`map_unauthenticated`
is one of the ways), and with refreshes that race a sign-out the two about keychain and
notified token (`session_undone`); with overlapping sign-ins a view can be opened for the person
before, and a blank profile can be queued behind a name. With two clients the other
one may commit an older registration of the device after the deletion was announced,
change the devices behind a list that nobody reads again, or create the profile once
more over a saved name. A server that refuses a write at will leaves no position, and
if it refuses the profile and takes the name, a profile with a name only; a read that
it refuses is handled like a missing document (`profile_overwritten`).
`ListComplete` speaks of runs in which nothing was refused or answered from the cache
so far (`faults`): after that the list may lack what a read did not bring.

### AuthSession, all people

The three properties speak of a device at rest and are not inductive. The
invariant `IInv` has two layers.

`StructInv`: which steps each kind of thread can be at (`PcInv`); nobody gets to
the user before start-up is over (`BootFirst`); a completion block belongs to a
waiting request and is queued once, a first call of a listener to a listener that
exists (`QueueInv`); the notification in progress is within the listeners
(`CursorInv`); a current or stored user was made by a request that got that far
without error (`UserInv`).

`SessionInv`: what is still to come for the current session. If it began with a
sign-in, that request has not been answered, or its block is in the queue, or the
map is on the screen and no sign-out is beyond its assignment (`SignInInv`). If it
was restored, each listener has seen its uid, and then the map is on the screen,
or a notification is on its way to that listener (`RestoredInv`, with `BootInv`
for the steps of start-up). A uid that a listener has seen, or whose request was
answered without error, has been ensured (`EnsuredInv`).

`StructNext` and `SessionNext` have one step per action.

### AuthSession, patient people

`CalmInv` is kept on top of `IInv`, with refreshes at any moment. At most one request or
sign-out is under way, and the block that `signIn` dispatches belongs to the last one
(`OneAtATime`, from which `Exclusive`: at most one thread, refreshes aside, is inside
`updateCurrentUser`). So what a thread has installed is still there when it goes on
(`InstalledInv`). A token that is compared or was recorded is one of a user that was
installed, and a request posts its own (`TokenInv`): a refresh can record an older
token, but not that of a request that is still to post. A sign-up's account is new to
every listener (`FreshInv`), which is why its notification is not swallowed
(`SignUpInv`). `MapInv`: a map without a user lasts only until the sign-out returns.

`QuietInv` needs `~RefreshRaces`. A refresh stores the current user, and nobody changes
it meanwhile (`RefreshInv`). Keychain and `currentUser` differ only between saving and
assigning, or before the keychain was read (`DurableInv`); `lastNotifiedUserToken`
belongs to another user than the current one only while a thread is on its way to post
the change (`NotifiedInv`).

`CalmSessionRefined` maps each step to `Store`, `Adopt`, `Show` or `Restart` of
`Session`, or to none: `DurableInv` says that `Assign` adopts what is stored,
`InstalledInv` that the dispatched block shows what is so.

### Firestore

`Among`, `LocalView`, `Listening` are recursive functions over queues. What is needed
about them is proved by induction over the queue's length in the form of `UpTo`: a set
that has 0, and with `i - 1` also `i`, has all of `0..n` (from `LeastNat`: a non-empty
set of naturals has a least element; `Greatest`: a bounded one a greatest). `Recursion` says that such a function exists.
`AmongElements`: it selects the reads of the queries asked for and no others;
`AmongOrder`: it keeps their order.
`LocalViewIn`: a local document is of the kind that the cached one and the pending
writes are of; `LocalViewUnwritten`, `LocalViewEmpty`: with nothing pending for it, it
is the cached one; `LocalViewWritten`, `LocalViewLast`: with something pending that
leaves a document there is one, and a last write that replaces it is what it shows.
`ResolveEffect`: a read that is answered leaves the reads and has its handler at the
end of the main queue; other reads stay. `ResolveOrder`, `ResolveLater`: reads and
handlers keep their order, and the new handlers come after those that were there.

### The app over Firestore

Each module has a `StateInv`, the type of all variables, queues and handlers included;
what is sent never exceeds the active queue.

- `UserProfile`: `StateInv` says which names each place may hold, in the server, in
  caches, in pending writes and in answers that have not been handled. `ViewInv`:
  whoever is in front of the view is signed in, or nobody is. `FetchInv`: a read
  that a view made, still waiting or answered, is about the person in front of
  that view, if the view is still open; an answer for an earlier view is ignored.
- `UserProfile`, the document (`CalmInv`): `DocumentInv` says that
  `createOrUpdateUserInFirestore` writes all fields and `updateUserInfo` the name
  (`WriteInv`), that a name waits behind such a document or the server has one
  (`MergeInv`), and that what was committed, or is in a cache, is on the server
  (`KnownInv`). A name is queued from the form, and `EnsureInv` says what the form
  comes after: whoever is signed in has a profile that a read would find, in the cache
  or pending, or its read, its handler or the completion handler that calls for it is
  still to come; `fetchUserInfo`'s read and handler stay behind them; and an answer
  that has found a document is still right. Nothing here needs one client: the server
  never loses a profile.
- `UserProfile`, the saved name (`SavedInv`): saves are numbered. The last one, while it
  is pending, is the last pending write of the profile, and the server has its name once
  it was committed; while it is reported, or announced, nothing of the profile is
  pending and the server has its name (`SavingOf`). During all of that no answer of
  `createOrUpdateUserInFirestore` is left that has found nothing, which is where a
  blank name would come from.
- `DeviceRegistry`, deletions: operations on a device are numbered. `QueueInv`: pending
  writes of a document wait in its owner's queue in the order of their numbers;
  `CommittedInv`, `AcknowledgedInv`, `AnnouncedInv`: a deletion that was committed,
  acknowledged or announced leaves no document unless a later operation was asked
  for, and what is pending is later than it. So a deletion that is sent a second
  time, or a registration that is, cannot undo what came after it.
- `DeviceRegistry`, the list: `LastInv`: the server has what the last committed
  pending write of a document left. A device is `Wanted` if the last pending write of
  it, or else the server, says so; commit and acknowledgement do not change this, only
  a scan, a deletion and `updateDeviceName` do. The handlers of the first two read the
  list again; what the third makes wanted is in `named`. `ListOf`: what is
  in the list, and what an answer still to be handled will add, is wanted; what is
  wanted is in the list or in `named`, or its owner's devices are being asked for; unless the list
  will be emptied and read again after the handler in question (`RefreshAfter`: a read
  of the users, a handler that does or calls it, or a pending write of this view).
  While an account that is not signed in has writes pending, `ListOf` need not hold:
  they wait, and the list is not at rest (`Stuck`); nobody changes accounts under the
  open view.
- `LocationSharing`: `Linked`: handlers and maps refer to managers that exist.
  `Heard`: a manager that listens knows all positions of the snapshot raised last, or
  a handler will bring it that snapshot, and no older one after it. `Drawn`: a map that
  is not stale shows what its manager knows. At rest the snapshot raised last is the
  server's collection, which is `MapCurrent`. `Owned`: positions and pending writes
  of a device are its own, so that the server permits them. `Current`: when all
  managers of a signed-in device have its position, the last pending write has it,
  and if the server committed all of them, its document is that position or another
  device's. `Move` and a new manager make the premise false;
  `DidUpdateLocations` appends the write.
- `RouteHistory`: what was shown is in the cache, what is in the cache was recorded
  (`CacheInv`); an answer has all the points that were shown, and a later one no fewer
  (`AnswersInv`); without overlapping taps all loads of the open view are of what was
  asked for (`LoadInv`, with `IdInv`: identities of views are given once).

### Only model-checked

Liveness (`RequestAnswered`, `ProfileEventually`, `WritesSettle`, `PositionsSpread`, the
liveness part of `ImplementsSession`): fairness and ENABLED are out of the prover's
reach. The four counterexamples of section 3 are TLC's.

## 5. Not modelled

QR generation and styling: no state. `MainMenuView` and `DeviceListView`:
unreachable. `listenForDeviceOwners`, titles of markers and the camera: drawing. In
the SDKs, what the app does not use: other sign-in providers, multi-factor, shared
keychains, transactions, persistence formats, back-off timing, the time at which a token
is due; and the vendored
code under them (gRPC, BoringSSL, abseil, leveldb, Google Maps). Two devices with
one account: `Clients` is a parameter, but with two the race for the first
profile breaks `SavedNameKept`, and the rest is too large to be of use as it is.

The cache of Firestore is never collected in the model, while the SDK drops documents
that were not used for long once it exceeds 100 MB (`firestore_client.cc:223`):
`RouteNeverShrinks`, offline, holds below that size. `PositionsSpread` is about
listeners that were not refused; a refused one is dropped for good.

## 6. Plan

Done: all components of the app that keep state; `Session` and its refinement; the
theorems above. To come:

1. Two devices with one account: what of `SavedNameKept` is left (the name announced
   last on either of them, or blank), and `ListComplete` after the next refresh.
2. Liveness of `DeviceRegistry`: a registered device reaches the list.
