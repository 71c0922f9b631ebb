----------------------- MODULE LocationSharingProofs -----------------------
(***************************************************************************)
(* What LocationSharing keeps true for every number of clients, accounts,   *)
(* moves and LocationManagers: its type, that a map at rest shows everybody *)
(* where the server says, and that the server has the latest position of    *)
(* whoever is signed in.                                                     *)
(***************************************************************************)
EXTENDS LocationSharing, FirestoreProofs, TLAPS

(* The positions taken so far. *)
Taken == [device : Clients, n : 1..moves]

(* The types of state in which only positions of T occur. *)
Document(T) == [{"position"} -> T]
Content(T)  == {Absent} \cup Document(T)
Answer(T)   == UNION {[D -> Document(T)] : D \in SUBSET Docs}
Writes(T)   == [doc : Docs, data : Document(T), merge : {TRUE}, tag : {None}, seen : BOOLEAN]
Handlers(T) == [kind : {"read"}, tag : Nat, ok : {TRUE}, docs : Answer(T)]
Known(T)    == UNION {[D -> T] : D \in SUBSET Docs}
Managers(T) == [current : T \cup {None}, deviceLocations : Known(T), listening : BOOLEAN]
Titles      == Docs \cup {<<"Mi ubicacion">>}
Maps(T)     == [shown : BOOLEAN, manager : Nat, markers : SUBSET [title : Titles, at : T],
                stale : BOOLEAN]

SdkState(T) ==
    /\ server \in [Docs -> Content(T)]
    /\ cache \in [Clients -> [Docs -> Content(T)]]
    /\ queue \in [Clients -> [Users -> Seq(Writes(T))]]
    /\ sent \in [Clients -> Nat]
    /\ user \in [Clients -> Users]
    /\ \A c \in Clients : sent[c] <= Len(Active(c))
    /\ reads = [c \in Clients |-> <<>>]
    /\ calls \in [Clients -> Seq(Handlers(T))]

AppState(T) ==
    /\ managers \in [Clients -> Seq(Managers(T))]
    /\ map \in [Clients -> Maps(T)]
    /\ raised \in [Clients -> Answer(T)]
    /\ position \in [Clients -> T \cup {None}]
    /\ moves \in Nat

StateInv == \E T \in {Taken} : SdkState(T) /\ AppState(T)

(* Handlers and maps refer to LocationManagers that exist; whoever is signed *)
(* in has one.                                                               *)
Linked(c) ==
    /\ \A i \in 1..Len(calls[c]) : calls[c][i].tag \in 1..Len(managers[c])
    /\ map[c].shown => map[c].manager \in 1..Len(managers[c])
    /\ map[c].stale => map[c].shown
    /\ user[c] # None => 1 \in 1..Len(managers[c])

(* The map shows what its manager knows, or is about to. *)
Drawn(c) == map[c].shown /\ ~map[c].stale => DeviceMarkers(Observed(c)) \subseteq map[c].markers

(* A manager that listens knows the positions of the snapshot raised last,   *)
(* or its handler will bring it that snapshot and none after it.             *)
Knows(known, docs) == \A d \in DOMAIN docs : d \in DOMAIN known /\ known[d] = docs[d]["position"]

Awaits(s, m, docs) ==
    \E i \in 1..Len(s) : /\ s[i].tag = m
                         /\ \A j \in i..Len(s) : s[j].tag = m => s[j].docs = docs

HeardBy(c, m) ==
    managers[c][m].listening =>
        \/ Awaits(calls[c], m, raised[c])
        \/ /\ \A i \in 1..Len(calls[c]) : calls[c][i].tag # m
           /\ Knows(managers[c][m].deviceLocations, raised[c])

Heard(c) == \A m \in 1..Len(managers[c]) : HeardBy(c, m)

MapInv == \A c \in Clients : Linked(c) /\ Drawn(c) /\ Heard(c)

(* A device publishes its own positions, under the uid that is signed in. *)
Owned(c) ==
    /\ position[c] # None => position[c].device = c
    /\ \A m \in 1..Len(managers[c]) :
           managers[c][m].current # None => /\ position[c] # None
                                            /\ managers[c][m].current.device = c
    /\ \A u \in Users : \A i \in 1..Len(queue[c][u]) :
           queue[c][u][i].doc = Location(u) /\ queue[c][u][i].data["position"].device = c

(* When all managers of a device have heard of its position, the last of the *)
(* pending writes has it; once the server has committed all of them, its     *)
(* document is this device's position or another device's.                   *)
Informed(c) ==
    /\ user[c] # None /\ position[c] # None
    /\ \A m \in 1..Len(managers[c]) : managers[c][m].current = position[c]

Latest(c) ==
    LET doc == server[Location(user[c])]
    IN  doc # Absent /\ (doc["position"].device = c => doc["position"] = position[c])

Current(c) ==
    Informed(c) =>
        /\ Active(c) # <<>> => Active(c)[Len(Active(c))].data["position"] = position[c]
        /\ sent[c] = Len(Active(c)) => Latest(c)

OwnedInv   == \A c \in Clients : Owned(c)
CurrentInv == \A c \in Clients : Current(c)

-----------------------------------------------------------------------------
(* Documents and queues. *)

(* All documents have the one field: a merge leaves what it writes. *)
LEMMA WriteFields ==
    ASSUME NEW T, NEW w \in Writes(T)
    PROVE  /\ w.doc \in Docs /\ w.data \in Document(T) /\ w.data \in Content(T) /\ w.tag = None
           /\ \A x \in Content(T) : Apply(w, x) = w.data
<1>1. /\ w.doc \in Docs /\ w.data \in Document(T) /\ w.tag = None
  BY DEF Writes
<1>2. ASSUME NEW x \in Content(T) PROVE Apply(w, x) = w.data
  <2>1. CASE x = Absent
    BY <2>1 DEF Apply
  <2>2. CASE x # Absent
    <3>1. x \in Document(T)
      BY <2>2 DEF Content
    <3> DEFINE y == Merged(w.data, x)
    <3>2. y = [f \in {"position"} |-> w.data[f]]
      BY <1>1, <3>1 DEF Merged, Document
    <3>3. w.data = [f \in {"position"} |-> w.data[f]]
      BY <1>1 DEF Document
    <3>4. y = w.data
      BY <3>2, <3>3
    <3>5. QED
      BY <3>4 DEF Apply
  <2>3. QED
    BY <2>1, <2>2
<1>3. QED
  BY <1>1, <1>2 DEF Content

LEMMA SnapshotAnswer ==
    ASSUME NEW T, SdkState(T), NEW c \in Clients, NEW base \in [Docs -> Content(T)]
    PROVE  Snapshot(c, Docs, base) \in Answer(T)
<1>1. queue[c][user[c]] \in Seq(Writes(T)) /\ Len(queue[c][user[c]]) \in Nat
  BY DEF SdkState
<1>2. ASSUME NEW d \in Docs PROVE LocalView(c, d, base[d]) \in Content(T)
  <2> DEFINE S == Content(T)
  <2>1. base[d] \in S
    OBVIOUS
  <2>2. ASSUME NEW i \in 1..Len(queue[c][user[c]]), NEW x \in S
        PROVE  Apply(queue[c][user[c]][i], x) \in S
    <3>1. queue[c][user[c]][i] \in Writes(T)
      BY <1>1
    <3>2. QED
      BY <3>1, WriteFields
  <2> HIDE DEF S
  <2>3. LocalView(c, d, base[d]) \in S
    BY <1>1, <2>1, <2>2, LocalViewIn
  <2>4. QED
    BY <2>3 DEF S
<1> DEFINE v == [d \in Docs |-> LocalView(c, d, base[d])]
           E == {e \in Docs : v[e] # Absent}
<1>3. \A d \in Docs : v[d] \in Content(T)
  BY <1>2
<1>4. Snapshot(c, Docs, base) = [d \in E |-> v[d]]
  BY DEF Snapshot
<1> HIDE DEF v
<1>5. E \in SUBSET Docs /\ [d \in E |-> v[d]] \in [E -> Document(T)]
  BY <1>3 DEF Content
<1>6. QED
  BY <1>4, <1>5 DEF Answer

(* The same writes, whatever snapshots have seen of them. *)
SameWrites(p, q) ==
    /\ Len(p) = Len(q)
    /\ \A i \in 1..Len(q) : p[i].doc = q[i].doc /\ p[i].data = q[i].data

LEMMA SameItself == \A q : SameWrites(q, q)
  BY DEF SameWrites

LEMMA MarkWrite ==
    ASSUME NEW T, NEW w \in Writes(T), NEW b \in BOOLEAN
    PROVE  /\ [w EXCEPT !.seen = b] \in Writes(T)
           /\ [w EXCEPT !.seen = b].doc = w.doc /\ [w EXCEPT !.seen = b].data = w.data
  BY DEF Writes

LEMMA MarkedQueue ==
    ASSUME NEW T, NEW q \in Seq(Writes(T)), NEW p, NEW b \in [1..Len(q) -> BOOLEAN],
           p = [i \in 1..Len(q) |-> [q[i] EXCEPT !.seen = b[i]]]
    PROVE  p \in Seq(Writes(T)) /\ SameWrites(p, q)
<1>1. Len(q) \in Nat /\ \A i \in 1..Len(q) : q[i] \in Writes(T)
  OBVIOUS
<1>2. \A i \in 1..Len(q) : p[i] \in Writes(T) /\ p[i].doc = q[i].doc /\ p[i].data = q[i].data
  BY <1>1, MarkWrite
<1>3. p = [i \in 1..Len(q) |-> p[i]]
  OBVIOUS
<1>4. p \in Seq(Writes(T)) /\ Len(p) = Len(q)
  BY <1>1, <1>2, <1>3
<1>5. QED
  BY <1>2, <1>4 DEF SameWrites

LEMMA UnseenSame ==
    ASSUME NEW T, NEW q \in Seq(Writes(T))
    PROVE  Unseen(q) \in Seq(Writes(T)) /\ SameWrites(Unseen(q), q)
<1> DEFINE b == [i \in 1..Len(q) |-> FALSE]
           p == Unseen(q)
<1>1. DOMAIN q = 1..Len(q) /\ p = [i \in DOMAIN q |-> [q[i] EXCEPT !.seen = FALSE]]
  BY DEF Unseen
<1>2. b \in [1..Len(q) -> BOOLEAN] /\ \A i \in 1..Len(q) : b[i] = FALSE
  OBVIOUS
<1> HIDE DEF b, p
<1>3. p = [i \in 1..Len(q) |-> [q[i] EXCEPT !.seen = b[i]]]
  BY <1>1, <1>2
<1>4. p \in Seq(Writes(T)) /\ SameWrites(p, q)
  BY <1>2, <1>3, MarkedQueue
<1>5. QED
  BY <1>4 DEF p

LEMMA SeenSame ==
    ASSUME NEW T, NEW q \in Seq(Writes(T)), NEW n, NEW D
    PROVE  Seen(q, n, D) \in Seq(Writes(T)) /\ SameWrites(Seen(q, n, D), q)
<1> DEFINE b(i) == q[i].seen \/ (i <= n /\ q[i].doc \in D)
           g == [i \in 1..Len(q) |-> b(i)]
           p == Seen(q, n, D)
<1>1. p = [i \in 1..Len(q) |-> [q[i] EXCEPT !.seen = b(i)]]
  BY DEF Seen
<1>2. \A i : b(i) \in BOOLEAN
  OBVIOUS
<1> HIDE DEF b, p
<1>3. g \in [1..Len(q) -> BOOLEAN] /\ p = [i \in 1..Len(q) |-> [q[i] EXCEPT !.seen = g[i]]]
  BY <1>1, <1>2
<1> HIDE DEF g
<1>4. p \in Seq(Writes(T)) /\ SameWrites(p, q)
  BY <1>3, MarkedQueue
<1>5. QED
  BY <1>4 DEF p

(* One queue is marked; the others stay. *)
LEMMA QueueMarked ==
    ASSUME NEW T, SdkState(T), NEW c \in Clients, NEW q \in Seq(Writes(T)),
           SameWrites(q, queue[c][user[c]]), queue' = [queue EXCEPT ![c][user[c]] = q]
    PROVE  /\ queue' \in [Clients -> [Users -> Seq(Writes(T))]]
           /\ \A e \in Clients, u \in Users : SameWrites(queue'[e][u], queue[e][u])
<1>1. queue \in [Clients -> [Users -> Seq(Writes(T))]] /\ user[c] \in Users
  BY DEF SdkState
<1>2. /\ queue' \in [Clients -> [Users -> Seq(Writes(T))]] /\ queue'[c][user[c]] = q
      /\ \A e \in Clients, u \in Users : e # c \/ u # user[c] => queue'[e][u] = queue[e][u]
  BY <1>1, QueueUpdate
<1>3. QED
  BY <1>2, SameItself

LEMMA QueueUnseen ==
    ASSUME NEW T, SdkState(T), NEW c \in Clients, queue' = [queue EXCEPT ![c][user[c]] = Unseen(@)]
    PROVE  /\ queue' \in [Clients -> [Users -> Seq(Writes(T))]]
           /\ \A e \in Clients, u \in Users : SameWrites(queue'[e][u], queue[e][u])
<1> DEFINE q == Unseen(queue[c][user[c]])
<1>1. queue[c][user[c]] \in Seq(Writes(T)) /\ queue' = [queue EXCEPT ![c][user[c]] = q]
  BY DEF SdkState
<1>2. q \in Seq(Writes(T)) /\ SameWrites(q, queue[c][user[c]])
  BY <1>1, UnseenSame
<1> HIDE DEF q
<1>3. QED
  BY <1>1, <1>2, QueueMarked

-----------------------------------------------------------------------------
(* The managers that listen: Listening selects them and no others. *)
LEMMA ListeningElements ==
    ASSUME NEW c, Len(managers[c]) \in Nat
    PROVE  /\ Listening(c) \in Seq(1..Len(managers[c]))
           /\ \A x : InSeq(Listening(c), x) <=> x \in 1..Len(managers[c]) /\ managers[c][x].listening
<1> DEFINE n == Len(managers[c])
           S == 1..n
           L(i) == managers[c][i].listening
           f == CHOOSE f : f = [i \in 0..n |->
                    IF i = 0 THEN <<>> ELSE IF L(i) THEN Append(f[i - 1], i) ELSE f[i - 1]]
           g == [i \in 1..n |-> [s \in Seq(S) |-> IF L(i) THEN Append(s, i) ELSE s]]
<1>1. Listening(c) = f[n]
  BY DEF Listening
<1>2. n \in Nat /\ S = 1..n
  OBVIOUS
<1> HIDE DEF n, L, S
<1>3. <<>> \in Seq(S) /\ g \in [1..n -> [Seq(S) -> Seq(S)]]
  <2>1. \A i \in S : \A s \in Seq(S) : (IF L(i) THEN Append(s, i) ELSE s) \in Seq(S)
    OBVIOUS
  <2>2. QED
    BY <1>2, <2>1
<1>4. \E h \in [0..n -> Seq(S)] : h[0] = <<>> /\ \A i \in 1..n : h[i] = g[i][h[i - 1]]
  <2> DEFINE U == Seq(S)
             x == <<>>
  <2>0. n \in Nat /\ x \in U /\ g \in [1..n -> [U -> U]]
    BY <1>2, <1>3
  <2> HIDE DEF g, U, x
  <2>1. \E h : Steps(h, n, U, x, g)
    BY <2>0, Recursion
  <2>2. QED
    BY <2>1 DEF Steps, U, x
<1>5. \E h : h = [i \in 0..n |->
                    IF i = 0 THEN <<>> ELSE IF L(i) THEN Append(h[i - 1], i) ELSE h[i - 1]]
  <2>1. PICK h \in [0..n -> Seq(S)] : h[0] = <<>> /\ \A i \in 1..n : h[i] = g[i][h[i - 1]]
    BY <1>4
  <2>2. ASSUME NEW i \in 1..n PROVE h[i] = IF L(i) THEN Append(h[i - 1], i) ELSE h[i - 1]
    <3>1. h[i - 1] \in Seq(S)
      BY <1>2
    <3>2. g[i] = [s \in Seq(S) |-> IF L(i) THEN Append(s, i) ELSE s]
      OBVIOUS
    <3>3. g[i][h[i - 1]] = IF L(i) THEN Append(h[i - 1], i) ELSE h[i - 1]
      BY <3>1, <3>2
    <3>4. QED
      BY <2>1, <3>3
  <2>3. ASSUME NEW i \in 0..n
        PROVE  h[i] = IF i = 0 THEN <<>> ELSE IF L(i) THEN Append(h[i - 1], i) ELSE h[i - 1]
    <3>1. CASE i = 0
      BY <2>1, <3>1
    <3>2. CASE i \in 1..n
      <4>1. i # 0
        BY <3>2
      <4>2. QED
        BY <2>2, <3>2, <4>1
    <3>3. QED
      BY <1>2, <3>1, <3>2
  <2>4. h = [i \in 0..n |-> h[i]]
    OBVIOUS
  <2>5. QED
    BY <2>3, <2>4
<1>6. f = [i \in 0..n |->
              IF i = 0 THEN <<>> ELSE IF L(i) THEN Append(f[i - 1], i) ELSE f[i - 1]]
  BY <1>5
<1> HIDE DEF f, g
<1>7. f[0] = <<>> /\ \A i \in 1..n : f[i] = IF L(i) THEN Append(f[i - 1], i) ELSE f[i - 1]
  <2>1. 0 \in 0..n /\ \A i \in 1..n : i \in 0..n /\ i # 0
    BY <1>2
  <2>2. f[0] = <<>>
    BY <1>6, <2>1
  <2>3. ASSUME NEW i \in 1..n PROVE f[i] = IF L(i) THEN Append(f[i - 1], i) ELSE f[i - 1]
    BY <1>6, <2>1
  <2>4. QED
    BY <2>2, <2>3
<1> DEFINE Good(i) == f[i] \in Seq(S) /\ \A x : InSeq(f[i], x) <=> x \in 1..i /\ L(x)
           X == {i \in 0..n : Good(i)}
<1>8. Good(0)
  BY <1>7 DEF InSeq
<1>9. ASSUME NEW i \in 1..n, Good(i - 1) PROVE Good(i)
  <2>1. i \in S /\ f[i - 1] \in Seq(S)
    BY <1>2, <1>9
  <2>2. \A x : x \in 1..i <=> x \in 1..(i - 1) \/ x = i
    BY <1>2
  <2>3. CASE L(i)
    <3>1. f[i] = Append(f[i - 1], i)
      BY <1>7, <2>3
    <3>2. f[i] \in Seq(S) /\ \A x : InSeq(f[i], x) <=> InSeq(f[i - 1], x) \/ x = i
      BY <2>1, <3>1, AppendElements
    <3>3. QED
      BY <1>9, <2>2, <2>3, <3>2
  <2>4. CASE ~L(i)
    BY <1>7, <1>9, <2>2, <2>4
  <2>5. QED
    BY <2>3, <2>4
<1>10. n \in X
  <2>1. 0 \in X /\ \A i \in 1..n : i - 1 \in X => i \in X
    <3> HIDE DEF Good
    <3>1. QED
      BY <1>2, <1>8, <1>9
  <2> HIDE DEF X
  <2>2. 0..n \subseteq X
    BY <1>2, <2>1, UpTo
  <2>3. QED
    BY <1>2, <2>2
<1>11. QED
  BY <1>1, <1>2, <1>10 DEF n, L

-----------------------------------------------------------------------------
(* Parts of steps. *)

LEMMA CredentialType ==
    ASSUME NEW T, SdkState(T), NEW c \in Clients, NEW v \in Users, HandleCredentialChange(c, v)
    PROVE  /\ queue' \in [Clients -> [Users -> Seq(Writes(T))]]
           /\ \A e \in Clients, u \in Users : SameWrites(queue'[e][u], queue[e][u])
           /\ user' \in [Clients -> Users] /\ user'[c] = v
           /\ sent' \in [Clients -> Nat] /\ sent'[c] = 0
           /\ \A e \in Clients : e # c => user'[e] = user[e] /\ sent'[e] = sent[e]
           /\ \A e \in Clients : sent'[e] <= Len(queue'[e][user'[e]])
<1>1. /\ queue' \in [Clients -> [Users -> Seq(Writes(T))]]
      /\ \A e \in Clients, u \in Users : SameWrites(queue'[e][u], queue[e][u])
  BY QueueUnseen DEF HandleCredentialChange
<1>2. /\ user' \in [Clients -> Users] /\ user'[c] = v
      /\ sent' \in [Clients -> Nat] /\ sent'[c] = 0
      /\ \A e \in Clients : e # c => user'[e] = user[e] /\ sent'[e] = sent[e]
  BY DEF HandleCredentialChange, SdkState
<1>3. ASSUME NEW e \in Clients PROVE sent'[e] <= Len(queue'[e][user'[e]])
  <2>1. queue'[e][user'[e]] \in Seq(Writes(T))
    BY <1>1, <1>2
  <2>2. CASE e = c
    BY <1>2, <2>1, <2>2
  <2>3. CASE e # c
    <3>1. Len(queue'[e][user'[e]]) = Len(queue[e][user[e]])
      BY <1>1, <1>2, <2>3 DEF SameWrites, SdkState
    <3>2. QED
      BY <1>2, <2>3, <3>1 DEF SdkState, Active
  <2>4. QED
    BY <2>2, <2>3
<1>4. QED
  BY <1>1, <1>2, <1>3

(* Managers are kept in their places. *)
LEMMA ManagerType ==
    ASSUME NEW T, AppState(T), NEW c \in Clients
    PROVE  /\ managers[c] \in Seq(Managers(T)) /\ Len(managers[c]) \in Nat
           /\ \A m \in 1..Len(managers[c]) : managers[c][m] \in Managers(T)
           /\ map[c] \in Maps(T) /\ raised[c] \in Answer(T)
  BY DEF AppState

(* LocationManager.init: one more manager, and the snapshot its listener     *)
(* gets at once.                                                             *)
StartEffect(T, c) ==
    /\ managers' \in [Clients -> Seq(Managers(T))]
    /\ \A e \in Clients : e # c => managers'[e] = managers[e] /\ calls'[e] = calls[e]
    /\ Len(managers'[c]) = Len(managers[c]) + 1
    /\ \A m \in 1..Len(managers[c]) : managers'[c][m] = managers[c][m]
    /\ managers'[c][Len(managers[c]) + 1] = NewManager
    /\ calls' \in [Clients -> Seq(Handlers(T))]
    /\ \/ raised[c] = <<>> /\ calls'[c] = calls[c]
       \/ /\ Len(calls'[c]) = Len(calls[c]) + 1
          /\ \A i \in 1..Len(calls[c]) : calls'[c][i] = calls[c][i]
          /\ calls'[c][Len(calls[c]) + 1].tag = Len(managers[c]) + 1
          /\ calls'[c][Len(calls[c]) + 1].docs = raised[c]

LEMMA NewManagerType == \A T : NewManager \in Managers(T)
<1> TAKE T
<1>1. <<>> \in [{} -> T] /\ {} \in SUBSET Docs
  OBVIOUS
<1>2. <<>> \in Known(T)
  BY <1>1 DEF Known
<1>3. QED
  BY <1>2 DEF NewManager, Managers

LEMMA SnapshotCallType ==
    ASSUME NEW T, NEW m \in Nat, NEW docs \in Answer(T)
    PROVE  /\ SnapshotCall(m, docs) \in Handlers(T)
           /\ SnapshotCall(m, docs).tag = m /\ SnapshotCall(m, docs).docs = docs
  BY DEF SnapshotCall, ReadCall, Handlers

LEMMA StartType ==
    ASSUME NEW T, SdkState(T), AppState(T), NEW c \in Clients, StartManager(c)
    PROVE  StartEffect(T, c)
<1> DEFINE n == Len(managers[c]) + 1
           s == Append(managers[c], NewManager)
           k == SnapshotCall(n, raised[c])
           t == Append(calls[c], k)
<1>1. /\ managers[c] \in Seq(Managers(T)) /\ Len(managers[c]) \in Nat /\ raised[c] \in Answer(T)
      /\ managers \in [Clients -> Seq(Managers(T))]
      /\ calls \in [Clients -> Seq(Handlers(T))] /\ calls[c] \in Seq(Handlers(T))
  BY DEF SdkState, AppState
<1>2. /\ managers' = [managers EXCEPT ![c] = s]
      /\ \/ raised[c] = <<>> /\ calls' = calls
         \/ calls' = [calls EXCEPT ![c] = t]
  BY DEF StartManager, AddQueryListener
<1>3. NewManager \in Managers(T)
  BY NewManagerType
<1>4. /\ s \in Seq(Managers(T)) /\ Len(s) = n /\ s[n] = NewManager
      /\ \A m \in 1..Len(managers[c]) : s[m] = managers[c][m]
  BY <1>1, <1>3
<1>5. n \in Nat
  BY <1>1
<1>6. k \in Handlers(T) /\ k.tag = n /\ k.docs = raised[c]
  BY <1>1, <1>5, SnapshotCallType
<1> HIDE DEF k
<1>7. /\ t \in Seq(Handlers(T)) /\ Len(t) = Len(calls[c]) + 1 /\ t[Len(calls[c]) + 1] = k
      /\ \A i \in 1..Len(calls[c]) : t[i] = calls[c][i]
  BY <1>1, <1>6
<1> HIDE DEF s, t, n
<1>8. /\ managers' \in [Clients -> Seq(Managers(T))] /\ managers'[c] = s
      /\ \A e \in Clients : e # c => managers'[e] = managers[e]
  BY <1>1, <1>2, <1>4
<1>9. CASE raised[c] = <<>> /\ calls' = calls
  BY <1>1, <1>4, <1>8, <1>9 DEF StartEffect, n
<1>10. CASE calls' = [calls EXCEPT ![c] = t]
  <2>1. /\ calls' \in [Clients -> Seq(Handlers(T))] /\ calls'[c] = t
        /\ \A e \in Clients : e # c => calls'[e] = calls[e]
    BY <1>1, <1>7, <1>10
  <2>2. QED
    BY <1>4, <1>6, <1>7, <1>8, <2>1 DEF StartEffect, n
<1>11. QED
  BY <1>2, <1>9, <1>10

(* @Published: the map is stale if its manager was assigned to. *)
PublishEffect(T, c, m, assigned) ==
    /\ map' \in [Clients -> Maps(T)]
    /\ \A e \in Clients : e # c => map'[e] = map[e]
    /\ map'[c].shown = map[c].shown /\ map'[c].manager = map[c].manager
    /\ map'[c].markers = map[c].markers
    /\ map'[c].stale <=> map[c].stale \/ (assigned /\ map[c].shown /\ map[c].manager = m)

LEMMA PublishType ==
    ASSUME NEW T, AppState(T), NEW c \in Clients, NEW m, NEW assigned, Published(c, m, assigned)
    PROVE  PublishEffect(T, c, m, assigned)
<1> DEFINE b == map[c].stale \/ (assigned /\ map[c].shown /\ map[c].manager = m)
           x == [map[c] EXCEPT !.stale = b]
<1>1. map' = [map EXCEPT ![c] = x]
  BY DEF Published
<1>2. b \in BOOLEAN /\ (b <=> map[c].stale \/ (assigned /\ map[c].shown /\ map[c].manager = m))
  OBVIOUS
<1> HIDE DEF b
<1>3. map \in [Clients -> Maps(T)] /\ map[c] \in Maps(T)
  BY DEF AppState
<1>4. /\ x \in Maps(T) /\ x.stale = b /\ x.shown = map[c].shown /\ x.manager = map[c].manager
      /\ x.markers = map[c].markers
  BY <1>2, <1>3 DEF Maps
<1> HIDE DEF x
<1>5. map' \in [Clients -> Maps(T)] /\ map'[c] = x /\ \A e \in Clients : e # c => map'[e] = map[e]
  BY <1>1, <1>3, <1>4
<1>6. QED
  BY <1>2, <1>4, <1>5 DEF PublishEffect

(* One manager is replaced. *)
ReplaceEffect(T, c, m, x) ==
    /\ managers' \in [Clients -> Seq(Managers(T))]
    /\ \A e \in Clients : e # c => managers'[e] = managers[e]
    /\ Len(managers'[c]) = Len(managers[c]) /\ managers'[c][m] = x
    /\ \A j \in 1..Len(managers[c]) : j # m => managers'[c][j] = managers[c][j]

LEMMA ManagerReplaced ==
    ASSUME NEW T, AppState(T), NEW c \in Clients, NEW m \in 1..Len(managers[c]),
           NEW x \in Managers(T),
           managers' = [managers EXCEPT ![c] = [managers[c] EXCEPT ![m] = x]]
    PROVE  ReplaceEffect(T, c, m, x)
<1> DEFINE s == [managers[c] EXCEPT ![m] = x]
<1>1. /\ managers \in [Clients -> Seq(Managers(T))] /\ managers[c] \in Seq(Managers(T))
      /\ managers' = [managers EXCEPT ![c] = s]
  BY DEF AppState
<1>2. /\ s \in Seq(Managers(T)) /\ Len(s) = Len(managers[c]) /\ s[m] = x
      /\ \A j \in 1..Len(managers[c]) : j # m => s[j] = managers[c][j]
  BY <1>1
<1> HIDE DEF s
<1>3. QED
  BY <1>1, <1>2 DEF ReplaceEffect

-----------------------------------------------------------------------------
(* Maps and snapshots. *)

(* What does not concern a client leaves its map alone. *)
LEMMA MapUntouched ==
    ASSUME NEW e \in Clients, Linked(e), Drawn(e), Heard(e),
           calls'[e] = calls[e], managers'[e] = managers[e], map'[e] = map[e],
           raised'[e] = raised[e], user'[e] = user[e] \/ user'[e] = None
    PROVE  Linked(e)' /\ Drawn(e)' /\ Heard(e)'
<1>1. Linked(e)'
  BY DEF Linked
<1>2. Drawn(e)'
  BY DEF Drawn, Observed, DeviceMarkers, Marker
<1>3. Heard(e)'
  <2>1. ASSUME NEW m \in 1..Len(managers[e]) PROVE HeardBy(e, m)'
    <3>1. HeardBy(e, m)
      BY DEF Heard
    <3>2. QED
      BY <3>1 DEF HeardBy
  <2>2. QED
    BY <2>1 DEF Heard
<1>4. QED
  BY <1>1, <1>2, <1>3

(* One more manager listens. *)
LEMMA StartHeard ==
    ASSUME NEW T, SdkState(T), AppState(T), NEW c \in Clients, Linked(c), Heard(c),
           StartEffect(T, c), UNCHANGED raised
    PROVE  /\ Heard(c)' /\ 1 \in 1..Len(managers'[c])
           /\ \A i \in 1..Len(calls'[c]) : calls'[c][i].tag \in 1..Len(managers'[c])
<1> DEFINE k == Len(calls[c]) + 1
<1>0. PICK n : n = Len(managers[c]) + 1
  OBVIOUS
<1>1. /\ Len(managers[c]) \in Nat /\ Len(calls[c]) \in Nat
  BY DEF SdkState, AppState
<1>2. /\ Len(managers'[c]) = n /\ managers'[c][n] = NewManager
      /\ \A m \in 1..Len(managers[c]) : managers'[c][m] = managers[c][m]
      /\ \/ raised[c] = <<>> /\ calls'[c] = calls[c]
         \/ /\ Len(calls'[c]) = k
            /\ \A i \in 1..Len(calls[c]) : calls'[c][i] = calls[c][i]
            /\ calls'[c][k].tag = n /\ calls'[c][k].docs = raised[c]
  BY <1>0 DEF StartEffect
<1>3. \A i \in 1..Len(calls[c]) : calls[c][i].tag \in 1..Len(managers[c]) /\ calls[c][i].tag # n
  BY <1>0, <1>1 DEF Linked
<1>4. ASSUME NEW m \in 1..Len(managers[c]) PROVE HeardBy(c, m)'
  <2>1. HeardBy(c, m) /\ managers'[c][m] = managers[c][m] /\ m # n
    BY <1>0, <1>1, <1>2 DEF Heard
  <2>2. CASE calls'[c] = calls[c]
    BY <2>1, <2>2 DEF HeardBy, Awaits, Knows
  <2>3. CASE /\ Len(calls'[c]) = k /\ calls'[c][k].tag = n
             /\ \A i \in 1..Len(calls[c]) : calls'[c][i] = calls[c][i]
    <3>1. ASSUME Awaits(calls[c], m, raised[c]) PROVE Awaits(calls'[c], m, raised[c])
      <4>1. PICK i \in 1..Len(calls[c]) :
                /\ calls[c][i].tag = m
                /\ \A j \in i..Len(calls[c]) : calls[c][j].tag = m => calls[c][j].docs = raised[c]
        BY <3>1 DEF Awaits
      <4>2. \A j \in i..k : j \in i..Len(calls[c]) \/ j = k
        BY <1>1
      <4>3. \A j \in i..Len(calls[c]) : calls'[c][j] = calls[c][j]
        BY <1>1, <2>3
      <4>4. i \in 1..Len(calls'[c]) /\ calls'[c][i].tag = m
        BY <1>1, <2>3, <4>1
      <4>5. \A j \in i..Len(calls'[c]) : calls'[c][j].tag = m => calls'[c][j].docs = raised[c]
        BY <2>1, <2>3, <4>1, <4>2, <4>3
      <4>6. QED
        BY <4>4, <4>5 DEF Awaits
    <3>2. ASSUME \A i \in 1..Len(calls[c]) : calls[c][i].tag # m
          PROVE  \A i \in 1..Len(calls'[c]) : calls'[c][i].tag # m
      <4>1. \A i \in 1..k : i \in 1..Len(calls[c]) \/ i = k
        BY <1>1
      <4>2. QED
        BY <2>1, <2>3, <3>2, <4>1
    <3>3. QED
      BY <2>1, <3>1, <3>2 DEF HeardBy
  <2>4. QED
    BY <1>2, <2>2, <2>3
<1>5. HeardBy(c, n)'
  <2>1. CASE raised[c] = <<>> /\ calls'[c] = calls[c]
    <3>1. Knows(managers'[c][n].deviceLocations, raised'[c])
      BY <2>1 DEF Knows
    <3>2. \A i \in 1..Len(calls'[c]) : calls'[c][i].tag # n
      BY <1>3, <2>1
    <3>3. QED
      BY <3>1, <3>2 DEF HeardBy
  <2>2. CASE Len(calls'[c]) = k /\ calls'[c][k].tag = n /\ calls'[c][k].docs = raised[c]
    <3>1. k \in 1..Len(calls'[c]) /\ \A j \in k..Len(calls'[c]) : j = k
      BY <1>1, <2>2
    <3>2. Awaits(calls'[c], n, raised'[c])
      BY <2>2, <3>1 DEF Awaits
    <3>3. QED
      BY <3>2 DEF HeardBy
  <2>3. QED
    BY <1>2, <2>1, <2>2
<1>6. n \in Nat /\ \A m \in 1..n : m \in 1..Len(managers[c]) \/ m = n
  BY <1>0, <1>1
<1>7. Heard(c)'
  BY <1>2, <1>4, <1>5, <1>6 DEF Heard
<1>8. ASSUME NEW i \in 1..Len(calls'[c]) PROVE calls'[c][i].tag \in 1..n
  <2>1. n \in 1..n /\ \A m \in 1..Len(managers[c]) : m \in 1..n
    BY <1>0, <1>1
  <2>2. CASE calls'[c] = calls[c]
    BY <1>3, <2>1, <2>2
  <2>3. CASE /\ Len(calls'[c]) = k /\ calls'[c][k].tag = n
             /\ \A j \in 1..Len(calls[c]) : calls'[c][j] = calls[c][j]
    <3>1. i \in 1..Len(calls[c]) \/ i = k
      BY <1>1, <2>3
    <3>2. QED
      BY <1>3, <2>1, <2>3, <3>1
  <2>4. QED
    BY <1>2, <2>2, <2>3
<1>9. QED
  BY <1>0, <1>1, <1>2, <1>7, <1>8

(* A step of client c. *)
LEMMA MapOfOne ==
    ASSUME MapInv, NEW c \in Clients, Linked(c)', Drawn(c)', Heard(c)',
           \A e \in Clients : e # c => /\ calls'[e] = calls[e] /\ managers'[e] = managers[e]
                                       /\ map'[e] = map[e] /\ raised'[e] = raised[e]
                                       /\ user'[e] = user[e]
    PROVE  MapInv'
<1>1. ASSUME NEW e \in Clients PROVE Linked(e)' /\ Drawn(e)' /\ Heard(e)'
  <2>1. CASE e = c
    BY <2>1
  <2>2. CASE e # c
    BY <2>2, MapUntouched DEF MapInv
  <2>3. QED
    BY <2>1, <2>2
<1>2. QED
  BY <1>1 DEF MapInv

LEMMA MapSame ==
    ASSUME MapInv, UNCHANGED <<calls, managers, map, raised>>,
           \A e \in Clients : user'[e] = user[e] \/ user'[e] = None
    PROVE  MapInv'
<1>1. ASSUME NEW e \in Clients PROVE Linked(e)' /\ Drawn(e)' /\ Heard(e)'
  BY MapUntouched DEF MapInv
<1>2. QED
  BY <1>1 DEF MapInv

(* SignIn, Render and RenderMenu start a manager; the map turns to it, or    *)
(* stays as it is.                                                           *)
LEMMA StartMap ==
    ASSUME NEW T, SdkState(T), AppState(T), MapInv, NEW c \in Clients, StartManager(c),
           UNCHANGED raised, \A e \in Clients : e # c => user'[e] = user[e],
           NEW x \in Maps(T),
           \/ map' = map
           \/ map' = [map EXCEPT ![c] = x] /\ x.shown /\ x.stale /\ x.manager = Len(managers[c]) + 1
    PROVE  /\ MapInv' /\ map' \in [Clients -> Maps(T)]
           /\ managers' \in [Clients -> Seq(Managers(T))] /\ calls' \in [Clients -> Seq(Handlers(T))]
<1>1. StartEffect(T, c)
  BY StartType
<1>2. /\ Heard(c)' /\ 1 \in 1..Len(managers'[c])
      /\ \A i \in 1..Len(calls'[c]) : calls'[c][i].tag \in 1..Len(managers'[c])
  BY <1>1, StartHeard DEF MapInv
<1>3. /\ Len(managers'[c]) = Len(managers[c]) + 1 /\ Len(managers[c]) \in Nat
      /\ \A m \in 1..Len(managers[c]) : managers'[c][m] = managers[c][m]
      /\ \A e \in Clients : e # c => managers'[e] = managers[e] /\ calls'[e] = calls[e]
      /\ managers' \in [Clients -> Seq(Managers(T))] /\ calls' \in [Clients -> Seq(Handlers(T))]
  BY <1>1 DEF StartEffect, AppState
<1>4. map \in [Clients -> Maps(T)]
  BY DEF AppState
<1>5. CASE map' = map
  <2>1. Linked(c) /\ Drawn(c)
    BY DEF MapInv
  <2>2. Linked(c)'
    BY <1>2, <1>3, <1>5, <2>1 DEF Linked
  <2>3. Drawn(c)'
    <3>1. map[c].shown => Observed(c)' = Observed(c)
      BY <1>3, <1>5, <2>1 DEF Linked, Observed
    <3>2. QED
      BY <1>5, <2>1, <3>1 DEF Drawn, DeviceMarkers, Marker
  <2>4. QED
    BY <1>2, <1>3, <1>4, <1>5, <2>2, <2>3, MapOfOne
<1>6. CASE map' = [map EXCEPT ![c] = x] /\ x.shown /\ x.stale /\ x.manager = Len(managers[c]) + 1
  <2>1. /\ map' \in [Clients -> Maps(T)] /\ map'[c] = x /\ \A e \in Clients : e # c => map'[e] = map[e]
    BY <1>4, <1>6
  <2>2. Linked(c)'
    <3>1. x.manager \in 1..Len(managers'[c])
      BY <1>3, <1>6
    <3>2. QED
      BY <1>2, <1>6, <2>1, <3>1 DEF Linked
  <2>3. Drawn(c)'
    BY <1>6, <2>1 DEF Drawn
  <2>4. QED
    BY <1>2, <1>3, <2>1, <2>2, <2>3, MapOfOne
<1>7. QED
  BY <1>5, <1>6

LEMMA SignInMap ==
    ASSUME NEW T, SdkState(T), AppState(T), MapInv, NEW c \in Clients, NEW u \in Uids, SignIn(c, u)
    PROVE  SdkState(T)' /\ AppState(T)' /\ MapInv'
<1> DEFINE h == [Hidden EXCEPT !.shown = TRUE]
           y == [h EXCEPT !.stale = TRUE]
           x == [y EXCEPT !.manager = Len(managers[c]) + 1]
<1>1. /\ HandleCredentialChange(c, u) /\ StartManager(c) /\ map' = [map EXCEPT ![c] = x]
      /\ UNCHANGED <<server, cache, reads, raised, position, moves>>
  BY DEF SignIn
<1>2. u \in Users /\ Len(managers[c]) + 1 \in Nat
  BY DEF Users, AppState
<1>3. h \in Maps(T) /\ h.shown
  BY DEF Maps, Hidden
<1> HIDE DEF h
<1>4. y \in Maps(T) /\ y.shown /\ y.stale
  BY <1>3 DEF Maps
<1> HIDE DEF y
<1>5. x \in Maps(T) /\ x.shown /\ x.stale /\ x.manager = Len(managers[c]) + 1
  BY <1>2, <1>4 DEF Maps
<1> HIDE DEF x
<1>6. /\ queue' \in [Clients -> [Users -> Seq(Writes(T))]]
      /\ user' \in [Clients -> Users] /\ sent' \in [Clients -> Nat]
      /\ \A e \in Clients : e # c => user'[e] = user[e]
      /\ \A e \in Clients : sent'[e] <= Len(queue'[e][user'[e]])
  BY <1>1, <1>2, CredentialType
<1>7. /\ MapInv' /\ map' \in [Clients -> Maps(T)]
      /\ managers' \in [Clients -> Seq(Managers(T))] /\ calls' \in [Clients -> Seq(Handlers(T))]
  BY <1>1, <1>5, <1>6, StartMap
<1>8. SdkState(T)'
  BY <1>1, <1>6, <1>7 DEF SdkState, Active
<1>9. AppState(T)'
  BY <1>1, <1>7 DEF AppState
<1>10. QED
  BY <1>7, <1>8, <1>9

LEMMA SignOutMap ==
    ASSUME NEW T, SdkState(T), AppState(T), MapInv, NEW c \in Clients, SignOut(c)
    PROVE  SdkState(T)' /\ AppState(T)' /\ MapInv'
<1>1. /\ HandleCredentialChange(c, None) /\ map' = [map EXCEPT ![c] = Hidden] /\ None \in Users
      /\ UNCHANGED <<server, cache, reads, calls, managers, raised, position, moves>>
  BY DEF SignOut, Users
<1>2. /\ queue' \in [Clients -> [Users -> Seq(Writes(T))]]
      /\ user' \in [Clients -> Users] /\ user'[c] = None /\ sent' \in [Clients -> Nat]
      /\ \A e \in Clients : e # c => user'[e] = user[e]
      /\ \A e \in Clients : sent'[e] <= Len(queue'[e][user'[e]])
  BY <1>1, CredentialType
<1>3. Hidden \in Maps(T) /\ ~Hidden.shown /\ ~Hidden.stale
  BY DEF Maps, Hidden
<1>4. /\ map' \in [Clients -> Maps(T)] /\ map'[c] = Hidden
      /\ \A e \in Clients : e # c => map'[e] = map[e]
  BY <1>1, <1>3 DEF AppState
<1>5. MapInv'
  <2>1. Linked(c)'
    BY <1>1, <1>2, <1>3, <1>4 DEF MapInv, Linked
  <2>2. Drawn(c)'
    BY <1>3, <1>4 DEF Drawn
  <2>3. Heard(c)'
    <3>1. ASSUME NEW m \in 1..Len(managers[c]) PROVE HeardBy(c, m)'
      <4>1. HeardBy(c, m)
        BY DEF MapInv, Heard
      <4>2. QED
        BY <1>1, <4>1 DEF HeardBy
    <3>2. QED
      BY <1>1, <3>1 DEF Heard
  <2>4. QED
    BY <1>1, <1>2, <1>4, <2>1, <2>2, <2>3, MapOfOne
<1>6. SdkState(T)'
  BY <1>1, <1>2 DEF SdkState, Active
<1>7. AppState(T)'
  BY <1>1, <1>4 DEF AppState
<1>8. QED
  BY <1>5, <1>6, <1>7

LEMMA RenderMap ==
    ASSUME NEW T, SdkState(T), AppState(T), MapInv, NEW c \in Clients, Render(c) \/ RenderMenu(c)
    PROVE  SdkState(T)' /\ AppState(T)' /\ MapInv'
<1> DEFINE y == [map[c] EXCEPT !.manager = Len(managers[c]) + 1]
           x == [y EXCEPT !.stale = TRUE]
<1>1. /\ StartManager(c) /\ map[c].shown
      /\ UNCHANGED <<server, cache, queue, sent, user, reads, raised, position, moves>>
  BY DEF Render, RenderMenu
<1>2. map' = map \/ map' = [map EXCEPT ![c] = x]
  BY DEF Render, RenderMenu
<1>3. Len(managers[c]) + 1 \in Nat /\ map[c] \in Maps(T)
  BY DEF AppState
<1>4. y \in Maps(T) /\ y.shown /\ y.manager = Len(managers[c]) + 1
  BY <1>1, <1>3 DEF Maps
<1> HIDE DEF y
<1>5. x \in Maps(T) /\ x.shown /\ x.stale /\ x.manager = Len(managers[c]) + 1
  BY <1>4 DEF Maps
<1> HIDE DEF x
<1>6. /\ MapInv' /\ map' \in [Clients -> Maps(T)]
      /\ managers' \in [Clients -> Seq(Managers(T))] /\ calls' \in [Clients -> Seq(Handlers(T))]
  BY <1>1, <1>2, <1>5, StartMap
<1>7. SdkState(T)'
  BY <1>1, <1>6 DEF SdkState, Active
<1>8. AppState(T)'
  BY <1>1, <1>6 DEF AppState
<1>9. QED
  BY <1>6, <1>7, <1>8

(* saveLocationToFirestore: one more pending write. *)
WriteEffect(T, c) ==
    /\ queue' \in [Clients -> [Users -> Seq(Writes(T))]]
    /\ \A e \in Clients, u \in Users : e # c \/ u # user[c] => queue'[e][u] = queue[e][u]
    /\ Len(queue'[c][user[c]]) = Len(queue[c][user[c]]) + 1
    /\ \A i \in 1..Len(queue[c][user[c]]) : queue'[c][user[c]][i] = queue[c][user[c]][i]
    /\ queue'[c][user[c]][Len(queue[c][user[c]]) + 1].doc = Location(user[c])
    /\ queue'[c][user[c]][Len(queue[c][user[c]]) + 1].data["position"] = position[c]

LEMMA AskedWrite ==
    ASSUME NEW T, SdkState(T), NEW c \in Clients, user[c] # None, position[c] \in T,
           SetData(c, Location(user[c]), Data(position[c]), TRUE, None)
    PROVE  WriteEffect(T, c)
<1> DEFINE d == Location(user[c])
           data == Data(position[c])
           w == Write(d, data, TRUE, None)
           q == queue[c][user[c]]
           p == Append(q, w)
<1>1. d \in Docs /\ user[c] \in Users
  BY LocationAssumption DEF SdkState, Users, Location, Docs
<1>2. data \in Document(T) /\ data["position"] = position[c]
  BY DEF Data, Document
<1>3. /\ queue \in [Clients -> [Users -> Seq(Writes(T))]] /\ q \in Seq(Writes(T))
      /\ queue' = [queue EXCEPT ![c][user[c]] = p]
  BY <1>1 DEF SdkState, SetData
<1> HIDE DEF d, data
<1>4. w \in Writes(T) /\ w.doc = d /\ w.data = data
  BY <1>1, <1>2 DEF Write, Writes
<1> HIDE DEF w, q
<1>5. /\ p \in Seq(Writes(T)) /\ Len(p) = Len(q) + 1 /\ p[Len(q) + 1] = w
      /\ \A i \in 1..Len(q) : p[i] = q[i]
  BY <1>3, <1>4
<1> HIDE DEF p
<1>6. /\ queue' \in [Clients -> [Users -> Seq(Writes(T))]] /\ queue'[c][user[c]] = p
      /\ \A e \in Clients, u \in Users : e # c \/ u # user[c] => queue'[e][u] = queue[e][u]
  BY <1>1, <1>3, <1>5, QueueUpdate
<1>7. QED
  BY <1>2, <1>4, <1>5, <1>6 DEF WriteEffect, q, d

(* didUpdateLocations: a manager hears of the position, and publishes it if  *)
(* somebody is signed in.                                                    *)
UpdateEffect(T, c, m) ==
    /\ position[c] \in T /\ position[c] # None
    /\ managers' \in [Clients -> Seq(Managers(T))]
    /\ \A e \in Clients : e # c => managers'[e] = managers[e]
    /\ Len(managers'[c]) = Len(managers[c])
    /\ managers'[c][m].current = position[c]
    /\ managers'[c][m].deviceLocations = managers[c][m].deviceLocations
    /\ managers'[c][m].listening = managers[c][m].listening
    /\ \A j \in 1..Len(managers[c]) : j # m => managers'[c][j] = managers[c][j]
    /\ PublishEffect(T, c, m, TRUE)
    /\ (user[c] = None /\ queue' = queue) \/ (user[c] # None /\ WriteEffect(T, c))
    /\ UNCHANGED <<server, cache, sent, user, reads, calls, raised, position, moves>>

LEMMA UpdateType ==
    ASSUME NEW T, SdkState(T), AppState(T), NEW c \in Clients, Owned(c),
           NEW m \in 1..Len(managers[c]), DidUpdateLocations(c, m)
    PROVE  UpdateEffect(T, c, m)
<1> DEFINE x == [managers[c][m] EXCEPT !.current = position[c]]
<1>1. /\ managers[c][m].current # position[c]
      /\ managers' = [managers EXCEPT ![c][m] = x]
      /\ Published(c, m, TRUE)
      /\ UNCHANGED <<server, cache, sent, user, reads, calls, raised, position, moves>>
  BY DEF DidUpdateLocations
<1>2. position[c] # None /\ position[c] \in T /\ managers[c][m] \in Managers(T)
  BY <1>1 DEF Owned, AppState
<1>3. /\ x \in Managers(T) /\ x.current = position[c] /\ x.listening = managers[c][m].listening
      /\ x.deviceLocations = managers[c][m].deviceLocations
  BY <1>2 DEF Managers
<1> HIDE DEF x
<1>4. /\ managers' \in [Clients -> Seq(Managers(T))]
      /\ \A e \in Clients : e # c => managers'[e] = managers[e]
      /\ Len(managers'[c]) = Len(managers[c]) /\ managers'[c][m] = x
      /\ \A j \in 1..Len(managers[c]) : j # m => managers'[c][j] = managers[c][j]
  <2>1. x \in Managers(T) /\ managers' = [managers EXCEPT ![c] = [managers[c] EXCEPT ![m] = x]]
    BY <1>1, <1>3
  <2>2. ReplaceEffect(T, c, m, x)
    BY ONLY AppState(T), c \in Clients, m \in 1..Len(managers[c]), <2>1, ManagerReplaced
  <2>3. QED
    BY <2>2 DEF ReplaceEffect
<1>5. PublishEffect(T, c, m, TRUE)
  BY <1>1, PublishType
<1>6. (user[c] = None /\ queue' = queue) \/ (user[c] # None /\ WriteEffect(T, c))
  BY <1>2, AskedWrite DEF DidUpdateLocations
<1>7. QED
  BY <1>1, <1>2, <1>3, <1>4, <1>5, <1>6 DEF UpdateEffect

LEMMA UpdateMap ==
    ASSUME NEW T, SdkState(T), AppState(T), MapInv, NEW c \in Clients,
           NEW m \in 1..Len(managers[c]), UpdateEffect(T, c, m)
    PROVE  SdkState(T)' /\ AppState(T)' /\ MapInv'
<1>1. /\ managers' \in [Clients -> Seq(Managers(T))]
      /\ \A e \in Clients : e # c => managers'[e] = managers[e]
      /\ Len(managers'[c]) = Len(managers[c])
      /\ managers'[c][m].deviceLocations = managers[c][m].deviceLocations
      /\ managers'[c][m].listening = managers[c][m].listening
      /\ \A j \in 1..Len(managers[c]) : j # m => managers'[c][j] = managers[c][j]
      /\ UNCHANGED <<server, cache, sent, user, reads, calls, raised, position, moves>>
  BY DEF UpdateEffect
<1>2. /\ map' \in [Clients -> Maps(T)] /\ \A e \in Clients : e # c => map'[e] = map[e]
      /\ map'[c].shown = map[c].shown /\ map'[c].manager = map[c].manager
      /\ map'[c].markers = map[c].markers
      /\ map'[c].stale <=> map[c].stale \/ (map[c].shown /\ map[c].manager = m)
  BY DEF UpdateEffect, PublishEffect
<1>3. Linked(c) /\ Drawn(c) /\ Heard(c)
  BY DEF MapInv
<1>4. Linked(c)'
  BY <1>1, <1>2, <1>3 DEF Linked
<1>5. Drawn(c)'
  <2>1. CASE map[c].shown /\ ~map[c].stale /\ map[c].manager # m
    <3>1. map[c].manager \in 1..Len(managers[c])
      BY <1>3, <2>1 DEF Linked
    <3>2. Observed(c)' = Observed(c)
      BY <1>1, <1>2, <2>1, <3>1 DEF Observed
    <3>3. QED
      BY <1>2, <1>3, <2>1, <3>2 DEF Drawn, DeviceMarkers, Marker
  <2>2. CASE ~(map[c].shown /\ ~map[c].stale /\ map[c].manager # m)
    BY <1>2, <2>2 DEF Drawn
  <2>3. QED
    BY <2>1, <2>2
<1>6. ASSUME NEW j \in 1..Len(managers[c]) PROVE HeardBy(c, j)'
  <2>1. /\ HeardBy(c, j) /\ managers'[c][j].listening = managers[c][j].listening
        /\ managers'[c][j].deviceLocations = managers[c][j].deviceLocations
    BY <1>1, <1>3 DEF Heard
  <2>2. QED
    BY <1>1, <2>1 DEF HeardBy
<1>7. Heard(c)'
  BY <1>1, <1>6 DEF Heard
<1>8. MapInv'
  BY <1>1, <1>2, <1>4, <1>5, <1>7, MapOfOne
<1>9. /\ queue' \in [Clients -> [Users -> Seq(Writes(T))]]
      /\ \A e \in Clients : sent[e] <= Len(queue'[e][user[e]])
  <2>1. CASE queue' = queue
    BY <2>1 DEF SdkState, Active
  <2>2. CASE WriteEffect(T, c)
    <3>1. ASSUME NEW e \in Clients PROVE sent[e] <= Len(queue'[e][user[e]])
      <4>1. /\ sent[e] \in Nat /\ user[e] \in Users /\ sent[e] <= Len(queue[e][user[e]])
            /\ Len(queue[e][user[e]]) \in Nat
        BY DEF SdkState, Active
      <4>2. CASE e = c
        <5>1. Len(queue'[c][user[c]]) = Len(queue[c][user[c]]) + 1
          BY <2>2 DEF WriteEffect
        <5>2. QED
          BY <4>1, <4>2, <5>1
      <4>3. CASE e # c
        <5>1. queue'[e][user[e]] = queue[e][user[e]]
          BY <2>2, <4>1, <4>3 DEF WriteEffect
        <5>2. QED
          BY <4>1, <5>1
      <4>4. QED
        BY <4>2, <4>3
    <3>2. queue' \in [Clients -> [Users -> Seq(Writes(T))]]
      BY <2>2 DEF WriteEffect
    <3>3. QED
      BY <3>1, <3>2
  <2>3. QED
    BY <2>1, <2>2 DEF UpdateEffect
<1>10. SdkState(T)'
  BY <1>1, <1>9 DEF SdkState, Active
<1>11. AppState(T)'
  BY <1>1, <1>2 DEF AppState
<1>12. QED
  BY <1>8, <1>10, <1>11

LEMMA WatchMap ==
    ASSUME NEW T, SdkState(T), AppState(T), MapInv, NEW c \in Clients, Watch(c)
    PROVE  /\ SdkState(T)' /\ AppState(T)' /\ MapInv'
           /\ \A e \in Clients, u \in Users : SameWrites(queue'[e][u], queue[e][u])
<1> DEFINE q == Seen(queue[c][user[c]], sent[c], Docs)
           s == [d \in Docs |-> IF d \in Docs THEN server[d] ELSE cache[c][d]]
<1>1. /\ cache' = [cache EXCEPT ![c] = s] /\ queue' = [queue EXCEPT ![c][user[c]] = q]
      /\ UNCHANGED <<server, sent, user, reads, calls, managers, map, raised, position, moves>>
  BY DEF Watch, ApplyRemoteEvent, appVars
<1>2. queue[c][user[c]] \in Seq(Writes(T)) /\ s \in [Docs -> Content(T)]
  BY DEF SdkState
<1>3. q \in Seq(Writes(T)) /\ SameWrites(q, queue[c][user[c]])
  BY <1>2, SeenSame
<1> HIDE DEF q, s
<1>4. /\ queue' \in [Clients -> [Users -> Seq(Writes(T))]]
      /\ \A e \in Clients, u \in Users : SameWrites(queue'[e][u], queue[e][u])
  BY <1>1, <1>3, QueueMarked
<1>5. \A e \in Clients : sent[e] <= Len(queue'[e][user[e]])
  BY <1>4 DEF SdkState, Active, SameWrites
<1>6. cache' \in [Clients -> [Docs -> Content(T)]]
  BY <1>1, <1>2 DEF SdkState
<1>7. SdkState(T)'
  BY <1>1, <1>4, <1>5, <1>6 DEF SdkState, Active
<1>8. AppState(T)' /\ MapInv'
  BY <1>1, MapSame DEF AppState
<1>9. QED
  BY <1>4, <1>7, <1>8

(* A snapshot is raised: every manager that listens will get it. *)
LEMMA EmitMap ==
    ASSUME NEW T, SdkState(T), AppState(T), MapInv, NEW c \in Clients, EmitSnapshot(c)
    PROVE  SdkState(T)' /\ AppState(T)' /\ MapInv'
<1>1. PICK docs : docs = Snapshot(c, Docs, cache[c])
  OBVIOUS
<1>2. PICK to : to = Listening(c)
  OBVIOUS
<1> DEFINE t == [i \in 1..Len(to) |-> SnapshotCall(to[i], docs)]
           s == calls[c]
           k == s \o t
<1>3. /\ raised' = [raised EXCEPT ![c] = docs] /\ calls' = [calls EXCEPT ![c] = k]
      /\ UNCHANGED <<server, cache, queue, sent, user, reads, managers, map, position, moves>>
  BY <1>1, <1>2 DEF EmitSnapshot
<1>4. /\ cache[c] \in [Docs -> Content(T)] /\ calls \in [Clients -> Seq(Handlers(T))]
      /\ s \in Seq(Handlers(T)) /\ Len(managers[c]) \in Nat
  BY DEF SdkState, AppState
<1>5. docs \in Answer(T)
  BY <1>1, <1>4, SnapshotAnswer
<1>6. /\ to \in Seq(1..Len(managers[c])) /\ Len(to) \in Nat
      /\ \A m \in 1..Len(managers[c]) : managers[c][m].listening => \E i \in 1..Len(to) : to[i] = m
  BY <1>2, <1>4, ListeningElements DEF InSeq
<1>7. \A i \in 1..Len(to) : /\ t[i] \in Handlers(T) /\ to[i] \in 1..Len(managers[c])
                            /\ t[i].tag = to[i] /\ t[i].docs = docs
  <2>1. ASSUME NEW i \in 1..Len(to)
        PROVE  /\ t[i] \in Handlers(T) /\ to[i] \in 1..Len(managers[c])
               /\ t[i].tag = to[i] /\ t[i].docs = docs
    <3>1. to[i] \in 1..Len(managers[c]) /\ to[i] \in Nat /\ t[i] = SnapshotCall(to[i], docs)
      BY <1>4, <1>6
    <3>2. QED
      BY <1>5, <3>1, SnapshotCallType
  <2>2. QED
    BY <2>1
<1>8. t \in Seq(Handlers(T)) /\ Len(t) = Len(to)
  BY <1>6, <1>7
<1> HIDE DEF t
<1>9. /\ k \in Seq(Handlers(T)) /\ Len(s) \in Nat /\ Len(k) = Len(s) + Len(t)
      /\ \A i \in 1..Len(s) : k[i] = s[i]
      /\ \A i \in 1..Len(t) : k[Len(s) + i] = t[i]
      /\ \A i \in (Len(s) + 1)..Len(k) : i - Len(s) \in 1..Len(t) /\ k[i] = t[i - Len(s)]
  BY <1>4, <1>8, ConcatElements
<1> HIDE DEF k
<1>10. /\ calls' \in [Clients -> Seq(Handlers(T))] /\ calls'[c] = k
       /\ \A e \in Clients : e # c => calls'[e] = calls[e]
  BY <1>3, <1>4, <1>9
<1>11. /\ raised' \in [Clients -> Answer(T)] /\ raised'[c] = docs
       /\ \A e \in Clients : e # c => raised'[e] = raised[e]
  BY <1>3, <1>5 DEF AppState
<1>12. Linked(c)'
  <2>1. ASSUME NEW i \in 1..Len(k) PROVE k[i].tag \in 1..Len(managers[c])
    <3>1. CASE i \in 1..Len(s)
      BY <1>9, <3>1 DEF MapInv, Linked
    <3>2. CASE i \in (Len(s) + 1)..Len(k)
      <4>1. PICK j \in 1..Len(to) : k[i] = t[j]
        BY ONLY <1>8, <1>9, <3>2
      <4>2. QED
        BY ONLY <1>7, <4>1
    <3>3. QED
      BY <1>6, <1>8, <1>9, <3>1, <3>2
  <2>2. QED
    BY <1>3, <1>10, <2>1 DEF MapInv, Linked
<1>13. Drawn(c)'
  BY <1>3 DEF MapInv, Drawn, Observed, DeviceMarkers, Marker
<1>14. ASSUME NEW m \in 1..Len(managers[c]), managers[c][m].listening PROVE Awaits(k, m, docs)
  <2>1. PICK i \in 1..Len(to) : to[i] = m
    BY <1>6, <1>14
  <2>2. Len(s) + i \in 1..Len(k) /\ k[Len(s) + i].tag = m
    <3>1. i \in 1..Len(t) /\ i \in Nat /\ i >= 1 /\ i <= Len(t) /\ t[i].tag = m
      BY <1>6, <1>7, <1>8, <2>1
    <3>2. k[Len(s) + i] = t[i]
      BY <1>9, <3>1
    <3> HIDE DEF s
    <3>3. Len(s) + i \in 1..Len(k)
      BY <1>6, <1>8, <1>9, <3>1
    <3>4. QED
      BY <3>1, <3>2, <3>3
  <2>3. ASSUME NEW j \in (Len(s) + i)..Len(k) PROVE k[j].docs = docs
    <3>1. j \in (Len(s) + 1)..Len(k)
      BY <1>6, <1>8, <1>9
    <3>2. PICK n \in 1..Len(to) : k[j] = t[n]
      BY ONLY <1>8, <1>9, <3>1
    <3>3. QED
      BY ONLY <1>7, <3>2
  <2>4. QED
    BY <2>2, <2>3 DEF Awaits
<1>15. Heard(c)'
  <2>1. ASSUME NEW m \in 1..Len(managers[c]) PROVE HeardBy(c, m)'
    BY <1>3, <1>10, <1>11, <1>14 DEF HeardBy
  <2>2. QED
    BY <1>3, <2>1 DEF Heard
<1>16. MapInv'
  BY <1>3, <1>10, <1>11, <1>12, <1>13, <1>15, MapOfOne
<1>17. SdkState(T)'
  BY <1>3, <1>10 DEF SdkState, Active
<1>18. AppState(T)'
  BY <1>3, <1>11 DEF AppState
<1>19. QED
  BY <1>16, <1>17, <1>18

(* The query is refused: nobody listens any more. *)
LEMMA DeniedMap ==
    ASSUME NEW T, SdkState(T), AppState(T), MapInv, NEW c \in Clients, ListenDenied(c)
    PROVE  /\ SdkState(T)' /\ AppState(T)' /\ MapInv'
           /\ \A e \in Clients : Len(managers'[e]) = Len(managers[e])
           /\ \A e \in Clients : \A m \in 1..Len(managers[e]) :
                  managers'[e][m].current = managers[e][m].current
<1> DEFINE s == [m \in 1..Len(managers[c]) |-> [managers[c][m] EXCEPT !.listening = FALSE]]
<1>1. /\ managers[c] \in Seq(Managers(T)) /\ Len(managers[c]) \in Nat
      /\ managers \in [Clients -> Seq(Managers(T))]
  BY DEF AppState
<1>2. /\ managers' = [managers EXCEPT ![c] = s] /\ raised' = [raised EXCEPT ![c] = <<>>]
      /\ UNCHANGED <<server, cache, queue, sent, user, reads, calls, map, position, moves>>
  <2>1. DOMAIN managers[c] = 1..Len(managers[c])
    BY <1>1
  <2>2. managers' = [managers EXCEPT ![c] =
                        [m \in DOMAIN managers[c] |-> [managers[c][m] EXCEPT !.listening = FALSE]]]
    BY DEF ListenDenied
  <2>3. QED
    BY <2>1, <2>2 DEF ListenDenied, fsVars
<1>3. ASSUME NEW m \in 1..Len(managers[c])
      PROVE  /\ s[m] \in Managers(T) /\ ~s[m].listening /\ s[m].current = managers[c][m].current
             /\ s[m].deviceLocations = managers[c][m].deviceLocations
  <2> DEFINE x == [managers[c][m] EXCEPT !.listening = FALSE]
  <2>1. managers[c][m] \in Managers(T) /\ s[m] = x
    BY <1>1
  <2>2. /\ x \in Managers(T) /\ ~x.listening /\ x.current = managers[c][m].current
        /\ x.deviceLocations = managers[c][m].deviceLocations
    BY <2>1 DEF Managers
  <2>3. QED
    BY <2>1, <2>2
<1>4. s \in Seq(Managers(T)) /\ Len(s) = Len(managers[c])
  BY <1>1, <1>3
<1> HIDE DEF s
<1>5. /\ managers' \in [Clients -> Seq(Managers(T))] /\ managers'[c] = s
      /\ \A e \in Clients : e # c => managers'[e] = managers[e]
  BY <1>1, <1>2, <1>4
<1>6. <<>> \in Answer(T)
  <2>1. <<>> \in [{} -> Document(T)] /\ {} \in SUBSET Docs
    OBVIOUS
  <2>2. QED
    BY <2>1 DEF Answer
<1>7. raised' \in [Clients -> Answer(T)] /\ \A e \in Clients : e # c => raised'[e] = raised[e]
  BY <1>2, <1>6 DEF AppState
<1>8. Linked(c)'
  BY <1>2, <1>4, <1>5 DEF MapInv, Linked
<1>9. Drawn(c)'
  <2>1. CASE map[c].shown
    <3>1. map[c].manager \in 1..Len(managers[c])
      BY <2>1 DEF MapInv, Linked
    <3>2. Observed(c)'.deviceLocations = Observed(c).deviceLocations
      BY <1>2, <1>3, <1>5, <3>1 DEF Observed
    <3>3. QED
      BY <1>2, <3>2 DEF MapInv, Drawn, DeviceMarkers, Marker
  <2>2. CASE ~map[c].shown
    BY <1>2, <2>2 DEF Drawn
  <2>3. QED
    BY <2>1, <2>2
<1>10. Heard(c)'
  <2>1. ASSUME NEW m \in 1..Len(managers[c]) PROVE HeardBy(c, m)'
    BY <1>3, <1>5 DEF HeardBy
  <2>2. QED
    BY <1>4, <1>5, <2>1 DEF Heard
<1>11. MapInv'
  BY <1>2, <1>5, <1>7, <1>8, <1>9, <1>10, MapOfOne
<1>12. SdkState(T)'
  BY <1>2 DEF SdkState, Active
<1>13. AppState(T)'
  BY <1>2, <1>5, <1>7 DEF AppState
<1>14. ASSUME NEW e \in Clients
       PROVE  /\ Len(managers'[e]) = Len(managers[e])
              /\ \A m \in 1..Len(managers[e]) : managers'[e][m].current = managers[e][m].current
  BY <1>3, <1>4, <1>5
<1>15. QED
  BY <1>11, <1>12, <1>13, <1>14

(* The first handler is taken: others of the same manager follow, or it was  *)
(* the one that brought the snapshot.                                        *)
LEMMA AwaitsTail ==
    ASSUME NEW S, NEW s \in Seq(S), s # <<>>, NEW m, NEW docs, Awaits(s, m, docs)
    PROVE  \/ Awaits(Tail(s), m, docs)
           \/ /\ s[1].tag = m /\ s[1].docs = docs
              /\ \A i \in 1..Len(Tail(s)) : Tail(s)[i].tag # m
<1>0. PICK t : t = Tail(s)
  OBVIOUS
<1>1. /\ Len(s) \in Nat /\ 1 \in 1..Len(s) /\ Len(t) = Len(s) - 1 /\ Len(t) \in Nat
      /\ \A i \in 1..Len(t) : i + 1 \in 1..Len(s) /\ t[i] = s[i + 1]
  BY <1>0, TailElements
<1>2. PICK i \in 1..Len(s) : /\ s[i].tag = m
                             /\ \A j \in i..Len(s) : s[j].tag = m => s[j].docs = docs
  BY DEF Awaits
<1>3. ASSUME NEW k \in 1..Len(t), t[k].tag = m, i <= k + 1 PROVE Awaits(t, m, docs)
  <2>1. ASSUME NEW j \in k..Len(t), t[j].tag = m PROVE t[j].docs = docs
    <3>1. j \in 1..Len(t) /\ j + 1 \in i..Len(s)
      BY <1>1, <1>3
    <3>2. QED
      BY <1>1, <1>2, <2>1, <3>1
  <2>2. QED
    BY <1>3, <2>1 DEF Awaits
<1>4. CASE i # 1
  <2>1. i - 1 \in 1..Len(t) /\ (i - 1) + 1 = i
    BY <1>1, <1>4
  <2>2. t[i - 1].tag = m
    BY <1>1, <1>2, <2>1
  <2>3. Awaits(t, m, docs)
    BY <1>3, <2>1, <2>2
  <2>4. QED
    BY <1>0, <2>3
<1>5. CASE i = 1
  <2>1. s[1].tag = m /\ s[1].docs = docs
    BY <1>1, <1>2, <1>5
  <2>2. CASE \E k \in 1..Len(t) : t[k].tag = m
    <3>1. PICK k \in 1..Len(t) : t[k].tag = m
      BY <2>2
    <3>2. i <= k + 1
      BY <1>1, <1>5
    <3>3. QED
      BY <1>0, <1>3, <3>1, <3>2
  <2>3. CASE ~\E k \in 1..Len(t) : t[k].tag = m
    BY <1>0, <2>1, <2>3
  <2>4. QED
    BY <2>2, <2>3
<1>6. QED
  BY <1>4, <1>5

LEMMA MergedPositions ==
    ASSUME NEW T, NEW docs \in Answer(T), NEW known \in Known(T)
    PROVE  /\ Merged(Positions(docs), known) \in Known(T)
           /\ Knows(Merged(Positions(docs), known), docs)
           /\ docs = <<>> => Merged(Positions(docs), known) = known
<1>1. PICK D \in SUBSET Docs : docs \in [D -> Document(T)]
  BY DEF Answer
<1>2. PICK E \in SUBSET Docs : known \in [E -> T]
  BY DEF Known
<1> DEFINE p == Positions(docs)
           x == Merged(p, known)
<1>3. DOMAIN docs = D /\ p \in [D -> T] /\ \A d \in D : p[d] = docs[d]["position"]
  BY <1>1 DEF Positions, Document
<1> HIDE DEF p
<1>4. x = [d \in D \cup E |-> IF d \in D THEN p[d] ELSE known[d]]
  BY <1>2, <1>3 DEF Merged
<1> HIDE DEF x
<1>5. x \in [D \cup E -> T] /\ D \cup E \in SUBSET Docs
  BY <1>2, <1>3, <1>4
<1>6. x \in Known(T)
  BY <1>5 DEF Known
<1>7. Knows(x, docs)
  BY <1>3, <1>4, <1>5 DEF Knows
<1>8. ASSUME docs = <<>> PROVE x = known
  <2>1. D = {}
    BY <1>3, <1>8
  <2>2. x = [d \in E |-> known[d]]
    BY <1>4, <2>1
  <2>3. QED
    BY <1>2, <2>2
<1>9. QED
  BY <1>6, <1>7, <1>8 DEF x, p

(* listenForDeviceLocations: a manager gets a snapshot. *)
LEMMA RunMap ==
    ASSUME NEW T, SdkState(T), AppState(T), MapInv, NEW c \in Clients, RunLocations(c)
    PROVE  /\ SdkState(T)' /\ AppState(T)' /\ MapInv'
           /\ \A e \in Clients : Len(managers'[e]) = Len(managers[e])
           /\ \A e \in Clients : \A m \in 1..Len(managers[e]) :
                  managers'[e][m].current = managers[e][m].current
<1>0. PICK s : s = calls[c]
  OBVIOUS
<1>1. /\ s \in Seq(Handlers(T)) /\ s # <<>> /\ calls \in [Clients -> Seq(Handlers(T))]
      /\ calls' = [calls EXCEPT ![c] = Tail(s)]
      /\ UNCHANGED <<server, cache, queue, sent, user, reads, raised, position, moves>>
  BY <1>0 DEF RunLocations, SdkState
<1>2. PICK t : t = Tail(s)
  OBVIOUS
<1>3. /\ Head(s) = s[1] /\ s[1] \in Handlers(T) /\ t \in Seq(Handlers(T))
      /\ 1 \in 1..Len(s) /\ \A i \in 1..Len(t) : i + 1 \in 1..Len(s) /\ t[i] = s[i + 1]
  BY <1>1, <1>2, TailElements
<1>4. PICK m : m = s[1].tag
  OBVIOUS
<1>5. PICK docs : docs = s[1].docs
  OBVIOUS
<1>6. /\ m \in 1..Len(managers[c]) /\ docs \in Answer(T)
  BY <1>0, <1>3, <1>4, <1>5 DEF MapInv, Linked, Handlers
<1>7. PICK known : known = managers[c][m].deviceLocations
  OBVIOUS
<1>8. /\ managers[c][m] \in Managers(T) /\ known \in Known(T)
      /\ managers \in [Clients -> Seq(Managers(T))]
  <2>1. managers[c][m] \in Managers(T) /\ managers \in [Clients -> Seq(Managers(T))]
    BY <1>6 DEF AppState
  <2>2. QED
    BY <1>7, <2>1 DEF Managers
<1>9. PICK new : new = Merged(Positions(docs), known)
  OBVIOUS
<1>10. new \in Known(T) /\ Knows(new, docs) /\ (docs = <<>> => new = known)
  BY <1>6, <1>8, <1>9, MergedPositions
<1> DEFINE x == [managers[c][m] EXCEPT !.deviceLocations = new]
<1>11. managers' = [managers EXCEPT ![c] = [managers[c] EXCEPT ![m] = x]]
  BY <1>0, <1>3, <1>4, <1>5, <1>7, <1>9 DEF RunLocations
<1>12. Published(c, m, docs # <<>>)
  BY <1>0, <1>3, <1>4, <1>5 DEF RunLocations
<1>13. /\ x \in Managers(T) /\ x.deviceLocations = new /\ x.current = managers[c][m].current
       /\ x.listening = managers[c][m].listening
  BY <1>8, <1>10 DEF Managers
<1> HIDE DEF x
<1>14. ReplaceEffect(T, c, m, x)
  BY <1>6, <1>11, <1>13, ManagerReplaced
<1>15. /\ managers' \in [Clients -> Seq(Managers(T))]
       /\ \A e \in Clients : e # c => managers'[e] = managers[e]
       /\ Len(managers'[c]) = Len(managers[c]) /\ managers'[c][m] = x
       /\ \A j \in 1..Len(managers[c]) : j # m => managers'[c][j] = managers[c][j]
  BY <1>14 DEF ReplaceEffect
<1>16. PublishEffect(T, c, m, docs # <<>>)
  BY <1>12, PublishType
<1>17. /\ map' \in [Clients -> Maps(T)] /\ \A e \in Clients : e # c => map'[e] = map[e]
       /\ map'[c].shown = map[c].shown /\ map'[c].manager = map[c].manager
       /\ map'[c].markers = map[c].markers
       /\ map'[c].stale <=> map[c].stale \/ (docs # <<>> /\ map[c].shown /\ map[c].manager = m)
  BY <1>16 DEF PublishEffect
<1>18. /\ calls' \in [Clients -> Seq(Handlers(T))] /\ calls'[c] = t
       /\ \A e \in Clients : e # c => calls'[e] = calls[e]
  BY <1>1, <1>2, <1>3
<1>19. Linked(c) /\ Drawn(c) /\ Heard(c)
  BY DEF MapInv
<1>20. Linked(c)'
  <2>1. \A i \in 1..Len(t) : t[i].tag \in 1..Len(managers[c])
    BY <1>0, <1>3, <1>19 DEF Linked
  <2>2. QED
    BY <1>1, <1>15, <1>17, <1>18, <1>19, <2>1 DEF Linked
<1>21. Drawn(c)'
  <2>1. CASE map[c].shown /\ ~map[c].stale /\ (docs = <<>> \/ map[c].manager # m)
    <3>1. map[c].manager \in 1..Len(managers[c])
      BY <1>19, <2>1 DEF Linked
    <3>2. Observed(c)'.deviceLocations = Observed(c).deviceLocations
      BY <1>7, <1>10, <1>13, <1>15, <1>17, <2>1, <3>1 DEF Observed
    <3>3. QED
      BY <1>17, <1>19, <2>1, <3>2 DEF Drawn, DeviceMarkers, Marker
  <2>2. CASE ~(map[c].shown /\ ~map[c].stale /\ (docs = <<>> \/ map[c].manager # m))
    BY <1>17, <2>2 DEF Drawn
  <2>3. QED
    BY <2>1, <2>2
<1>22. Heard(c)'
  <2>0. PICK r : r = raised[c]
    OBVIOUS
  <2>1. ASSUME NEW j \in 1..Len(managers[c]), managers'[c][j].listening
        PROVE  \/ Awaits(t, j, r)
               \/ /\ \A i \in 1..Len(t) : t[i].tag # j
                  /\ Knows(managers'[c][j].deviceLocations, r)
    <3>1. managers[c][j].listening
      BY <1>13, <1>15, <2>1
    <3>2. \/ Awaits(s, j, r)
          \/ (\A i \in 1..Len(s) : s[i].tag # j) /\ Knows(managers[c][j].deviceLocations, r)
      BY <1>0, <1>19, <2>0, <3>1 DEF Heard, HeardBy
    <3>3. CASE Awaits(s, j, r)
      <4>1. \/ Awaits(t, j, r)
            \/ s[1].tag = j /\ s[1].docs = r /\ \A i \in 1..Len(t) : t[i].tag # j
        BY <1>1, <1>2, <3>3, AwaitsTail
      <4>2. CASE s[1].tag = j /\ s[1].docs = r /\ \A i \in 1..Len(t) : t[i].tag # j
        <5>1. j = m /\ r = docs
          BY <1>4, <1>5, <4>2
        <5>2. QED
          BY <1>10, <1>13, <1>15, <4>2, <5>1
      <4>3. QED
        BY <4>1, <4>2
    <3>4. CASE (\A i \in 1..Len(s) : s[i].tag # j) /\ Knows(managers[c][j].deviceLocations, r)
      <4>1. j # m
        BY <1>3, <1>4, <3>4
      <4>2. \A i \in 1..Len(t) : t[i].tag # j
        BY <1>3, <3>4
      <4>3. QED
        BY <1>15, <3>4, <4>1, <4>2
    <3>5. QED
      BY <3>2, <3>3, <3>4
  <2>2. ASSUME NEW j \in 1..Len(managers[c]) PROVE HeardBy(c, j)'
    BY <1>1, <1>18, <2>0, <2>1 DEF HeardBy
  <2>3. QED
    BY <1>15, <2>2 DEF Heard
<1>23. MapInv'
  BY <1>1, <1>15, <1>17, <1>18, <1>20, <1>21, <1>22, MapOfOne
<1>24. SdkState(T)'
  BY <1>1, <1>18 DEF SdkState, Active
<1>25. AppState(T)'
  BY <1>1, <1>15, <1>17 DEF AppState
<1>26. ASSUME NEW e \in Clients
       PROVE  /\ Len(managers'[e]) = Len(managers[e])
              /\ \A j \in 1..Len(managers[e]) : managers'[e][j].current = managers[e][j].current
  BY <1>13, <1>15
<1>27. QED
  BY <1>23, <1>24, <1>25, <1>26

(* updateUIView: the map shows what its manager knows. *)
LEMMA DrawMap ==
    ASSUME NEW T, SdkState(T), AppState(T), MapInv, NEW c \in Clients, UpdateUIView(c)
    PROVE  SdkState(T)' /\ AppState(T)' /\ MapInv'
<1>0. PICK k : k = managers[c][map[c].manager]
  OBVIOUS
<1>1. PICK M : M = map[c].markers \cup MyMarker(k) \cup DeviceMarkers(k)
  OBVIOUS
<1> DEFINE y == [map[c] EXCEPT !.stale = FALSE]
           x == [y EXCEPT !.markers = M]
<1>2. map[c] \in Maps(T) /\ map \in [Clients -> Maps(T)] /\ Linked(c) /\ Heard(c)
  BY DEF AppState, MapInv
<1>3. map[c].shown /\ map[c].manager \in 1..Len(managers[c])
  BY <1>2 DEF UpdateUIView, Linked
<1>4. k \in Managers(T)
  BY <1>0, <1>3 DEF AppState
<1>5. M \in SUBSET [title : Titles, at : T]
  <2>1. map[c].markers \in SUBSET [title : Titles, at : T]
    BY <1>2 DEF Maps
  <2>2. MyMarker(k) \in SUBSET [title : Titles, at : T]
    BY <1>4 DEF MyMarker, Marker, Managers, Titles
  <2>3. DeviceMarkers(k) \in SUBSET [title : Titles, at : T]
    <3>1. k.deviceLocations \in Known(T)
      BY <1>4 DEF Managers
    <3>2. PICK D \in SUBSET Docs : k.deviceLocations \in [D -> T]
      BY <3>1 DEF Known
    <3>3. ASSUME NEW d \in D PROVE Marker(d, k.deviceLocations[d]) \in [title : Titles, at : T]
      <4>1. d \in Titles /\ k.deviceLocations[d] \in T
        BY <3>2 DEF Titles
      <4>2. QED
        BY <4>1 DEF Marker
    <3>4. DeviceMarkers(k) = {Marker(d, k.deviceLocations[d]) : d \in D}
      BY <3>2 DEF DeviceMarkers
    <3>5. QED
      BY <3>3, <3>4
  <2>4. QED
    BY <1>1, <2>1, <2>2, <2>3
<1>6. map' = [map EXCEPT ![c] = x]
  BY <1>0, <1>1 DEF UpdateUIView
<1>7. UNCHANGED <<server, cache, queue, sent, user, reads, calls, managers, raised, position, moves>>
  BY DEF UpdateUIView, fsVars
<1>8. /\ y \in Maps(T) /\ ~y.stale /\ y.shown = map[c].shown /\ y.manager = map[c].manager
  BY <1>2 DEF Maps
<1> HIDE DEF y
<1>9. /\ x \in Maps(T) /\ ~x.stale /\ x.shown = map[c].shown /\ x.manager = map[c].manager
      /\ x.markers = M
  BY <1>5, <1>8 DEF Maps
<1> HIDE DEF x
<1>10. /\ map' \in [Clients -> Maps(T)] /\ map'[c] = x
       /\ \A e \in Clients : e # c => map'[e] = map[e]
  BY <1>2, <1>6, <1>9
<1>11. Linked(c)'
  BY <1>2, <1>7, <1>9, <1>10 DEF Linked
<1>12. Drawn(c)'
  <2>1. Observed(c)' = k
    BY <1>0, <1>7, <1>9, <1>10 DEF Observed
  <2>2. DeviceMarkers(Observed(c))' = DeviceMarkers(k)
    BY <2>1 DEF DeviceMarkers, Marker
  <2>3. DeviceMarkers(k) \subseteq M
    BY <1>1
  <2>4. QED
    BY <1>9, <1>10, <2>2, <2>3 DEF Drawn
<1>13. Heard(c)'
  <2>1. ASSUME NEW m \in 1..Len(managers[c]) PROVE HeardBy(c, m)'
    <3>1. HeardBy(c, m)
      BY <1>2 DEF Heard
    <3>2. QED
      BY <1>7, <3>1 DEF HeardBy
  <2>2. QED
    BY <1>7, <2>1 DEF Heard
<1>14. MapInv'
  BY <1>7, <1>10, <1>11, <1>12, <1>13, MapOfOne
<1>15. SdkState(T)' /\ AppState(T)'
  BY <1>7, <1>10 DEF SdkState, Active, AppState
<1>16. QED
  BY <1>14, <1>15

-----------------------------------------------------------------------------
(* Steps of the SDK and of the server: no read waits, no write has a handler. *)

(* The server commits the next pending write: the owner's own position. *)
CommitEffect(T, c) ==
    /\ sent[c] + 1 \in 1..Len(Active(c)) /\ user[c] = Active(c)[sent[c] + 1].doc[2]
    /\ server' \in [Docs -> Content(T)]
    /\ server'[Active(c)[sent[c] + 1].doc] = Active(c)[sent[c] + 1].data
    /\ \A d \in Docs : d # Active(c)[sent[c] + 1].doc => server'[d] = server[d]
    /\ sent' \in [Clients -> Nat] /\ sent'[c] = sent[c] + 1
    /\ \A e \in Clients : e # c => sent'[e] = sent[e]
    /\ UNCHANGED <<cache, queue, user, reads, calls>>

LEMMA CommitType ==
    ASSUME NEW T, SdkState(T), NEW c \in Clients, Commit(c)
    PROVE  CommitEffect(T, c) /\ SdkState(T)'
<1>0. PICK w : w = Active(c)[sent[c] + 1]
  OBVIOUS
<1>1. /\ Active(c) \in Seq(Writes(T)) /\ Len(Active(c)) \in Nat /\ sent[c] \in Nat
      /\ sent[c] < Len(Active(c)) /\ server \in [Docs -> Content(T)] /\ sent \in [Clients -> Nat]
      /\ \A e \in Clients : sent[e] <= Len(Active(e))
  BY DEF SdkState, Active, Commit
<1>2. sent[c] + 1 \in 1..Len(Active(c)) /\ w \in Writes(T)
  BY <1>0, <1>1
<1>3. user[c] = w.doc[2] /\ server' = [server EXCEPT ![w.doc] = Apply(w, server[w.doc])]
  BY <1>0 DEF Commit, Permitted, Owner
<1>4. w.doc \in Docs /\ w.data \in Content(T) /\ Apply(w, server[w.doc]) = w.data
  BY <1>1, <1>2, WriteFields
<1>5. /\ server' \in [Docs -> Content(T)] /\ server'[w.doc] = w.data
      /\ \A d \in Docs : d # w.doc => server'[d] = server[d]
  BY <1>1, <1>3, <1>4
<1>6. /\ sent' = [sent EXCEPT ![c] = sent[c] + 1] /\ UNCHANGED <<cache, queue, user, reads, calls>>
  BY DEF Commit
<1>7. /\ sent' \in [Clients -> Nat] /\ sent'[c] = sent[c] + 1
      /\ \A e \in Clients : e # c => sent'[e] = sent[e]
  BY <1>1, <1>6
<1>8. \A e \in Clients : sent'[e] <= Len(Active(e))
  BY <1>1, <1>2, <1>7, SMTT(30)
<1>9. SdkState(T)'
  BY <1>5, <1>6, <1>7, <1>8 DEF SdkState, Active
<1>10. QED
  BY <1>0, <1>2, <1>3, <1>5, <1>6, <1>7, <1>9 DEF CommitEffect

(* The oldest pending write leaves the queue: it was committed, or refused. *)
DropEffect(T, c) ==
    /\ Len(Active(c)) \in Nat \ {0}
    /\ queue' \in [Clients -> [Users -> Seq(Writes(T))]]
    /\ \A e \in Clients, u \in Users : e # c \/ u # user[c] => queue'[e][u] = queue[e][u]
    /\ Len(queue'[c][user[c]]) = Len(Active(c)) - 1
    /\ \A i \in 1..(Len(Active(c)) - 1) : queue'[c][user[c]][i] = Active(c)[i + 1]
    /\ sent' \in [Clients -> Nat] /\ \A e \in Clients : e # c => sent'[e] = sent[e]
    /\ (sent[c] > 0 /\ sent'[c] = sent[c] - 1) \/ (sent[c] = 0 /\ sent'[c] = 0)
    /\ cache' \in [Clients -> [Docs -> Content(T)]]
    /\ UNCHANGED <<server, user, reads, calls>>

LEMMA DropType ==
    ASSUME NEW T, SdkState(T), NEW c \in Clients, Acknowledge(c) \/ Reject(c)
    PROVE  DropEffect(T, c) /\ SdkState(T)'
<1>0. PICK s : s = Active(c)
  OBVIOUS
<1>1. /\ s \in Seq(Writes(T)) /\ Len(s) \in Nat /\ sent[c] \in Nat /\ sent[c] <= Len(s)
      /\ sent \in [Clients -> Nat] /\ queue \in [Clients -> [Users -> Seq(Writes(T))]]
      /\ user \in [Clients -> Users] /\ cache \in [Clients -> [Docs -> Content(T)]]
      /\ s = queue[c][user[c]]
  BY <1>0 DEF SdkState, Active
<1>2. s # <<>>
  <2>1. CASE Acknowledge(c)
    BY <1>1, <2>1 DEF Acknowledge
  <2>2. CASE Reject(c)
    BY <1>0, <2>2 DEF Reject
  <2>3. QED
    BY <2>1, <2>2
<1>3. PICK w : w = Head(s)
  OBVIOUS
<1>4. PICK t : t = Tail(s)
  OBVIOUS
<1>5. /\ t \in Seq(Writes(T)) /\ w \in Writes(T) /\ Len(s) \in Nat \ {0} /\ Len(t) = Len(s) - 1
      /\ \A i \in 1..(Len(s) - 1) : t[i] = s[i + 1]
  BY <1>1, <1>2, <1>3, <1>4, TailElements
<1>6. w.tag = None /\ w.doc \in Docs /\ w.data \in Content(T)
      /\ \A x \in Content(T) : Apply(w, x) = w.data
  BY <1>5, WriteFields
<1>7. queue' = [queue EXCEPT ![c][user[c]] = t] /\ UNCHANGED <<server, user, reads, calls>>
  <2>1. CASE Acknowledge(c)
    BY <1>0, <1>1, <1>3, <1>4, <1>6, <2>1 DEF Acknowledge
  <2>2. CASE Reject(c)
    BY <1>0, <1>1, <1>3, <1>4, <1>6, <2>2 DEF Reject
  <2>3. QED
    BY <2>1, <2>2
<1>8. user[c] \in Users
  BY <1>1
<1>9. /\ queue' \in [Clients -> [Users -> Seq(Writes(T))]] /\ queue'[c][user[c]] = t
      /\ \A e \in Clients, u \in Users : e # c \/ u # user[c] => queue'[e][u] = queue[e][u]
  BY <1>1, <1>5, <1>7, <1>8, QueueUpdate
<1>10. /\ sent' \in [Clients -> Nat] /\ \A e \in Clients : e # c => sent'[e] = sent[e]
       /\ (sent[c] > 0 /\ sent'[c] = sent[c] - 1) \/ (sent[c] = 0 /\ sent'[c] = 0)
  <2>1. CASE Acknowledge(c)
    <3>1. sent[c] > 0 /\ sent' = [sent EXCEPT ![c] = sent[c] - 1] /\ sent[c] - 1 \in Nat
      BY <1>1, <2>1 DEF Acknowledge
    <3>2. QED
      BY <1>1, <3>1
  <2>2. CASE Reject(c)
    BY <1>1, <2>2 DEF Reject
  <2>3. QED
    BY <2>1, <2>2
<1>11. cache' \in [Clients -> [Docs -> Content(T)]]
  <2>1. CASE cache' = cache
    BY <1>1, <2>1
  <2>2. CASE Acknowledge(c) /\ cache' # cache
    <3>1. cache' = [cache EXCEPT ![c][w.doc] = Apply(w, cache[c][w.doc])]
      BY <1>0, <1>3, <2>2 DEF Acknowledge
    <3>2. Apply(w, cache[c][w.doc]) = w.data
      BY <1>1, <1>6
    <3>3. QED
      BY <1>1, <1>6, <3>1, <3>2
  <2>3. QED
    BY <2>1, <2>2 DEF Reject
<1>12. DropEffect(T, c)
  BY <1>0, <1>5, <1>7, <1>9, <1>10, <1>11 DEF DropEffect
<1>13. ASSUME NEW e \in Clients PROVE sent'[e] <= Len(queue'[e][user[e]])
  <2>1. CASE e = c
    BY <1>1, <1>5, <1>9, <1>10, <2>1
  <2>2. CASE e # c
    <3>1. queue'[e][user[e]] = queue[e][user[e]] /\ sent[e] <= Len(queue[e][user[e]])
      BY <1>1, <1>9, <2>2 DEF SdkState, Active
    <3>2. QED
      BY <1>10, <2>2, <3>1
  <2>3. QED
    BY <2>1, <2>2
<1>14. SdkState(T)'
  BY <1>1, <1>7, <1>9, <1>10, <1>11, <1>13 DEF SdkState, Active
<1>15. QED
  BY <1>12, <1>14

(* The connection breaks or is back. *)
LinkEffect(T, c) ==
    /\ queue' \in [Clients -> [Users -> Seq(Writes(T))]]
    /\ \A e \in Clients, u \in Users : SameWrites(queue'[e][u], queue[e][u])
    /\ sent' \in [Clients -> Nat] /\ \A e \in Clients : sent'[e] = sent[e] \/ sent'[e] = 0
    /\ UNCHANGED <<server, cache, user, reads, calls>>

LEMMA LinkType ==
    ASSUME NEW T, SdkState(T), NEW c \in Clients, GoOffline(c) \/ GoOnline(c)
    PROVE  LinkEffect(T, c) /\ SdkState(T)'
<1>1. /\ queue' \in [Clients -> [Users -> Seq(Writes(T))]]
      /\ \A e \in Clients, u \in Users : SameWrites(queue'[e][u], queue[e][u])
  <2>1. CASE GoOffline(c)
    BY <2>1, QueueUnseen DEF GoOffline
  <2>2. CASE GoOnline(c)
    BY <2>2, SameItself DEF GoOnline, SdkState
  <2>3. QED
    BY <2>1, <2>2
<1>2. /\ sent' \in [Clients -> Nat] /\ \A e \in Clients : sent'[e] = sent[e] \/ sent'[e] = 0
      /\ UNCHANGED <<server, cache, user, reads, calls>>
  <2>1. sent \in [Clients -> Nat] /\ 0 \in Nat
    BY DEF SdkState
  <2>2. CASE GoOffline(c)
    BY <2>1, <2>2 DEF GoOffline
  <2>3. CASE GoOnline(c)
    BY <2>1, <2>3 DEF GoOnline
  <2>4. QED
    BY <2>2, <2>3
<1>3. ASSUME NEW e \in Clients PROVE sent'[e] <= Len(queue'[e][user[e]])
  <2>1. /\ user[e] \in Users /\ Len(queue[e][user[e]]) \in Nat
        /\ sent[e] <= Len(queue[e][user[e]])
    BY DEF SdkState, Active
  <2>2. Len(queue'[e][user[e]]) = Len(queue[e][user[e]])
    BY <1>1, <2>1 DEF SameWrites
  <2>3. QED
    BY <1>2, <2>1, <2>2
<1>4. SdkState(T)'
  BY <1>1, <1>2, <1>3 DEF SdkState, Active
<1>5. QED
  BY <1>1, <1>2, <1>4 DEF LinkEffect

(* All steps of FirestoreStep. *)
LEMMA SdkCases ==
    ASSUME NEW T, SdkState(T), NEW c \in Clients, FirestoreStep(c)
    PROVE  /\ \/ CommitEffect(T, c)
              \/ (DropEffect(T, c) /\ (Acknowledge(c) \/ Reject(c)))
              \/ LinkEffect(T, c)
           /\ SdkState(T)' /\ UNCHANGED <<user, calls>>
<1>1. Queries(c) = {}
  BY DEF Queries, SdkState
<1>2. Commit(c) \/ Acknowledge(c) \/ Reject(c) \/ GoOffline(c) \/ GoOnline(c)
  BY <1>1 DEF FirestoreStep, Answers, Faults
<1>3. CASE Commit(c)
  BY <1>3, CommitType DEF CommitEffect
<1>4. CASE Acknowledge(c) \/ Reject(c)
  BY <1>4, DropType DEF DropEffect
<1>5. CASE GoOffline(c) \/ GoOnline(c)
  BY <1>5, LinkType DEF LinkEffect
<1>6. QED
  BY <1>2, <1>3, <1>4, <1>5

LEMMA SdkMap ==
    ASSUME NEW T, SdkState(T), AppState(T), MapInv, NEW c \in Clients, FirestoreStep(c),
           UNCHANGED appVars
    PROVE  SdkState(T)' /\ AppState(T)' /\ MapInv'
<1>1. SdkState(T)' /\ UNCHANGED <<user, calls, managers, map, raised, position, moves>>
  BY SdkCases DEF appVars
<1>2. QED
  BY <1>1, MapSame DEF AppState

-----------------------------------------------------------------------------
(* Own positions. *)

(* Client e knows and has to publish what it did before. *)
Still(e) ==
    /\ position'[e] = position[e] /\ user'[e] = user[e]
    /\ Len(managers'[e]) = Len(managers[e])
    /\ \A m \in 1..Len(managers[e]) : managers'[e][m].current = managers[e][m].current
    /\ \A u \in Users : SameWrites(queue'[e][u], queue[e][u])

LEMMA StillOwned ==
    ASSUME NEW e \in Clients, Owned(e), Still(e)
    PROVE  Owned(e)'
<1>1. /\ position'[e] # None => position'[e].device = e
      /\ \A m \in 1..Len(managers'[e]) :
             managers'[e][m].current # None => /\ position'[e] # None
                                               /\ managers'[e][m].current.device = e
  BY DEF Owned, Still
<1>2. ASSUME NEW u \in Users, NEW i \in 1..Len(queue'[e][u])
      PROVE  queue'[e][u][i].doc = Location(u) /\ queue'[e][u][i].data["position"].device = e
  BY SMTT(30) DEF Owned, Still, SameWrites
<1>3. QED
  BY <1>1, <1>2 DEF Owned, Location

LEMMA StillCurrent ==
    ASSUME NEW T, SdkState(T), SdkState(T)', NEW e \in Clients, Current(e), Still(e),
           sent'[e] = sent[e] \/ sent'[e] = 0, Informed(e) /\ Latest(e) => Latest(e)'
    PROVE  Current(e)'
<1>1. PICK s : s = queue[e][user[e]]
  OBVIOUS
<1>2. PICK t : t = queue'[e][user[e]]
  OBVIOUS
<1>3. /\ user[e] \in Users /\ s \in Seq(Writes(T)) /\ Len(s) \in Nat /\ sent[e] \in Nat
      /\ sent[e] <= Len(s)
  BY <1>1 DEF SdkState, Active
<1>4. /\ Active(e) = s /\ Active(e)' = t /\ Len(t) = Len(s)
      /\ \A i \in 1..Len(s) : t[i].data = s[i].data
  BY <1>1, <1>2, <1>3 DEF Still, SameWrites, Active
<1>5. SUFFICES ASSUME Informed(e)'
               PROVE  /\ t # <<>> => t[Len(t)].data["position"] = position[e]
                      /\ sent'[e] = Len(t) => Latest(e)'
  BY <1>4 DEF Current, Still
<1>6. Informed(e)
  BY <1>5 DEF Informed, Still
<1>7. /\ s # <<>> => s[Len(s)].data["position"] = position[e]
      /\ sent[e] = Len(s) => Latest(e)
  BY <1>4, <1>6 DEF Current
<1>8. ASSUME t # <<>> PROVE t[Len(t)].data["position"] = position[e]
  <2>1. Len(s) # 0
    <3>1. t \in Seq(Writes(T))
      BY <1>2, <1>3 DEF SdkState
    <3>2. QED
      BY <1>4, <1>8, <3>1
  <2>2. Len(s) \in 1..Len(s) /\ s # <<>>
    BY <1>3, <2>1
  <2>3. QED
    BY <1>4, <1>7, <2>2
<1>9. ASSUME sent'[e] = Len(t) PROVE Latest(e)'
  BY <1>3, <1>4, <1>6, <1>7, <1>9
<1>10. QED
  BY <1>8, <1>9

LEMMA LatestSame ==
    ASSUME NEW e \in Clients, Still(e), server' = server, Latest(e)
    PROVE  Latest(e)'
  BY DEF Latest, Still, Location

(* Nothing new for anybody. *)
LEMMA PositionsQuiet ==
    ASSUME NEW T, SdkState(T), SdkState(T)', OwnedInv, server' = server,
           \A e \in Clients : Still(e) /\ (sent'[e] = sent[e] \/ sent'[e] = 0)
    PROVE  OwnedInv' /\ (CurrentInv => CurrentInv')
<1>1. ASSUME NEW e \in Clients PROVE Owned(e)'
  BY StillOwned DEF OwnedInv
<1>2. ASSUME CurrentInv, NEW e \in Clients PROVE Current(e)'
  <2>1. Current(e) /\ Still(e) /\ (sent'[e] = sent[e] \/ sent'[e] = 0)
    BY <1>2 DEF CurrentInv
  <2>2. Informed(e) /\ Latest(e) => Latest(e)'
    BY <2>1, LatestSame
  <2>3. QED
    BY <2>1, <2>2, StillCurrent
<1>3. QED
  BY <1>1, <1>2 DEF OwnedInv, CurrentInv

(* Nothing new for others than c. *)
LEMMA PositionsOfOne ==
    ASSUME NEW T, SdkState(T), SdkState(T)', OwnedInv, server' = server, NEW c \in Clients,
           \A e \in Clients : e # c => Still(e) /\ sent'[e] = sent[e],
           Owned(c)', CurrentInv => Current(c)'
    PROVE  OwnedInv' /\ (CurrentInv => CurrentInv')
<1>1. ASSUME NEW e \in Clients PROVE Owned(e)'
  <2>1. CASE e = c
    BY <2>1
  <2>2. CASE e # c
    BY <2>2, StillOwned DEF OwnedInv
  <2>3. QED
    BY <2>1, <2>2
<1>2. ASSUME CurrentInv, NEW e \in Clients PROVE Current(e)'
  <2>1. CASE e = c
    BY <1>2, <2>1
  <2>2. CASE e # c
    <3>1. Current(e) /\ Still(e) /\ (sent'[e] = sent[e] \/ sent'[e] = 0)
      BY <1>2, <2>2 DEF CurrentInv
    <3>2. Informed(e) /\ Latest(e) => Latest(e)'
      BY <3>1, LatestSame
    <3>3. QED
      BY <3>1, <3>2, StillCurrent
  <2>3. QED
    BY <2>1, <2>2
<1>3. QED
  BY <1>1, <1>2 DEF OwnedInv, CurrentInv

(* Owned, when managers and writes are added that have no position or whose  *)
(* position is the device's, or writes go.                                   *)
LEMMA OwnedKept ==
    ASSUME NEW c \in Clients, Owned(c), position'[c] = position[c],
           \A m \in 1..Len(managers'[c]) :
               \/ managers'[c][m].current = None
               \/ managers'[c][m].current = position[c]
               \/ m \in 1..Len(managers[c]) /\ managers'[c][m].current = managers[c][m].current,
           \A u \in Users : \A i \in 1..Len(queue'[c][u]) :
               \/ \E j \in 1..Len(queue[c][u]) : /\ queue'[c][u][i].doc = queue[c][u][j].doc
                                                 /\ queue'[c][u][i].data = queue[c][u][j].data
               \/ /\ position[c] # None
                  /\ queue'[c][u][i].doc = Location(u)
                  /\ queue'[c][u][i].data["position"] = position[c]
    PROVE  Owned(c)'
<1>1. ASSUME NEW m \in 1..Len(managers'[c]), managers'[c][m].current # None
      PROVE  position[c] # None /\ managers'[c][m].current.device = c
  BY <1>1 DEF Owned
<1>2. ASSUME NEW u \in Users, NEW i \in 1..Len(queue'[c][u])
      PROVE  queue'[c][u][i].doc = Location(u) /\ queue'[c][u][i].data["position"].device = c
  <2>1. CASE \E j \in 1..Len(queue[c][u]) : /\ queue'[c][u][i].doc = queue[c][u][j].doc
                                            /\ queue'[c][u][i].data = queue[c][u][j].data
    BY <2>1 DEF Owned
  <2>2. CASE /\ position[c] # None /\ queue'[c][u][i].doc = Location(u)
             /\ queue'[c][u][i].data["position"] = position[c]
    BY <2>2 DEF Owned
  <2>3. QED
    BY <2>1, <2>2
<1>3. position'[c] # None => position'[c].device = c
  BY DEF Owned
<1>4. QED
  BY <1>1, <1>2, <1>3 DEF Owned, Location

(* Whoever starts a manager is not informed until that has a position. *)
LEMMA StartPositions ==
    ASSUME NEW T, SdkState(T), SdkState(T)', AppState(T), OwnedInv, NEW c \in Clients,
           StartManager(c), server' = server, position' = position,
           \A e \in Clients, u \in Users : SameWrites(queue'[e][u], queue[e][u]),
           \A e \in Clients : e # c => user'[e] = user[e] /\ sent'[e] = sent[e]
    PROVE  OwnedInv' /\ (CurrentInv => CurrentInv')
<1>0. PICK n : n = Len(managers[c])
  OBVIOUS
<1>1. /\ Len(managers'[c]) = n + 1 /\ n \in Nat
      /\ \A m \in 1..n : managers'[c][m] = managers[c][m]
      /\ managers'[c][n + 1].current = None
      /\ \A e \in Clients : e # c => managers'[e] = managers[e]
  BY <1>0, StartType DEF StartEffect, AppState, NewManager
<1>2. ~Informed(c)'
  <2>1. n + 1 \in 1..Len(managers'[c])
    BY <1>1
  <2>2. QED
    BY <1>1, <2>1 DEF Informed
<1>3. Owned(c)'
  <2>1. \A m \in 1..Len(managers'[c]) : m \in 1..n \/ m = n + 1
    BY <1>1
  <2>2. \A m \in 1..Len(managers'[c]) :
            \/ managers'[c][m].current = None
            \/ m \in 1..Len(managers[c]) /\ managers'[c][m].current = managers[c][m].current
    BY <1>0, <1>1, <2>1
  <2>3. \A u \in Users : \A i \in 1..Len(queue'[c][u]) :
            \E j \in 1..Len(queue[c][u]) : /\ queue'[c][u][i].doc = queue[c][u][j].doc
                                           /\ queue'[c][u][i].data = queue[c][u][j].data
    BY DEF SameWrites
  <2>4. Owned(c)
    BY DEF OwnedInv
  <2>5. QED
    BY <2>2, <2>3, <2>4, OwnedKept
<1>4. CurrentInv => Current(c)'
  BY <1>2 DEF Current
<1>5. \A e \in Clients : e # c => Still(e) /\ sent'[e] = sent[e]
  BY <1>1 DEF Still
<1>6. QED
  BY <1>3, <1>4, <1>5, PositionsOfOne

LEMMA SignInPositions ==
    ASSUME NEW T, SdkState(T), SdkState(T)', AppState(T), OwnedInv, NEW c \in Clients,
           NEW u \in Uids, SignIn(c, u)
    PROVE  OwnedInv' /\ (CurrentInv => CurrentInv')
<1>1. /\ HandleCredentialChange(c, u) /\ StartManager(c) /\ UNCHANGED <<server, position>>
      /\ u \in Users
  BY DEF SignIn, Users
<1>2. /\ \A e \in Clients, v \in Users : SameWrites(queue'[e][v], queue[e][v])
      /\ \A e \in Clients : e # c => user'[e] = user[e] /\ sent'[e] = sent[e]
  BY <1>1, CredentialType
<1>3. QED
  BY <1>1, <1>2, StartPositions

LEMMA RenderPositions ==
    ASSUME NEW T, SdkState(T), SdkState(T)', AppState(T), OwnedInv, NEW c \in Clients,
           Render(c) \/ RenderMenu(c)
    PROVE  OwnedInv' /\ (CurrentInv => CurrentInv')
<1>1. StartManager(c) /\ UNCHANGED <<server, queue, sent, user, position>>
  BY DEF Render, RenderMenu
<1>2. \A e \in Clients, v \in Users : SameWrites(queue'[e][v], queue[e][v])
  BY <1>1, SameItself
<1>3. \A e \in Clients : e # c => user'[e] = user[e] /\ sent'[e] = sent[e]
  BY <1>1
<1>4. QED
  BY <1>1, <1>2, <1>3, StartPositions

LEMMA SignOutPositions ==
    ASSUME NEW T, SdkState(T), SdkState(T)', OwnedInv, NEW c \in Clients, SignOut(c)
    PROVE  OwnedInv' /\ (CurrentInv => CurrentInv')
<1>1. /\ HandleCredentialChange(c, None) /\ UNCHANGED <<server, managers, position>>
      /\ None \in Users
  BY DEF SignOut, Users
<1>2. /\ \A e \in Clients, v \in Users : SameWrites(queue'[e][v], queue[e][v])
      /\ \A e \in Clients : e # c => user'[e] = user[e] /\ sent'[e] = sent[e]
      /\ user'[c] = None
  BY <1>1, CredentialType
<1>3. Owned(c)'
  <2>1. \A v \in Users : \A i \in 1..Len(queue'[c][v]) :
            \E j \in 1..Len(queue[c][v]) : /\ queue'[c][v][i].doc = queue[c][v][j].doc
                                           /\ queue'[c][v][i].data = queue[c][v][j].data
    BY <1>2 DEF SameWrites
  <2>2. Owned(c)
    BY DEF OwnedInv
  <2>3. QED
    BY <1>1, <2>1, <2>2, OwnedKept
<1>4. CurrentInv => Current(c)'
  BY <1>2 DEF Current, Informed
<1>5. \A e \in Clients : e # c => Still(e) /\ sent'[e] = sent[e]
  BY <1>1, <1>2 DEF Still
<1>6. QED
  BY <1>1, <1>3, <1>4, <1>5, PositionsOfOne

(* didUpdateLocations: the last pending write has the position. *)
LEMMA UpdatePositions ==
    ASSUME NEW T, SdkState(T), SdkState(T)', AppState(T), OwnedInv, NEW c \in Clients,
           NEW m \in 1..Len(managers[c]), UpdateEffect(T, c, m)
    PROVE  OwnedInv' /\ (CurrentInv => CurrentInv')
<1>1. /\ position[c] # None /\ UNCHANGED <<server, sent, user, position>>
      /\ \A e \in Clients : e # c => managers'[e] = managers[e]
      /\ Len(managers'[c]) = Len(managers[c]) /\ managers'[c][m].current = position[c]
      /\ \A j \in 1..Len(managers[c]) : j # m => managers'[c][j] = managers[c][j]
      /\ (user[c] = None /\ queue' = queue) \/ (user[c] # None /\ WriteEffect(T, c))
  BY DEF UpdateEffect
<1>2. PICK v : v = user[c]
  OBVIOUS
<1>3. PICK s : s = queue[c][v]
  OBVIOUS
<1>4. PICK t : t = queue'[c][v]
  OBVIOUS
<1>5. v \in Users /\ s \in Seq(Writes(T)) /\ Len(s) \in Nat /\ sent[c] \in Nat /\ sent[c] <= Len(s)
  BY <1>2, <1>3 DEF SdkState, Active
<1>6. \/ v = None /\ queue' = queue
      \/ /\ v # None
         /\ \A e \in Clients, u \in Users : e # c \/ u # v => queue'[e][u] = queue[e][u]
         /\ Len(t) = Len(s) + 1 /\ \A i \in 1..Len(s) : t[i] = s[i]
         /\ t[Len(s) + 1].doc = Location(v)
         /\ t[Len(s) + 1].data["position"] = position[c]
  BY <1>1, <1>2, <1>3, <1>4 DEF WriteEffect
<1>7. Owned(c)'
  <2>1. ASSUME NEW u \in Users, NEW i \in 1..Len(queue'[c][u])
        PROVE  \/ \E j \in 1..Len(queue[c][u]) : /\ queue'[c][u][i].doc = queue[c][u][j].doc
                                                 /\ queue'[c][u][i].data = queue[c][u][j].data
               \/ /\ position[c] # None
                  /\ queue'[c][u][i].doc = Location(u)
                  /\ queue'[c][u][i].data["position"] = position[c]
    <3>1. CASE queue'[c][u] = queue[c][u]
      BY <3>1
    <3>2. CASE queue'[c][u] # queue[c][u]
      <4>1. u = v /\ Len(t) = Len(s) + 1
        BY <1>6, <3>2
      <4>2. i \in 1..Len(s) \/ i = Len(s) + 1
        BY <1>4, <1>5, <4>1
      <4>3. QED
        BY <1>1, <1>3, <1>4, <1>6, <3>2, <4>1, <4>2
    <3>3. QED
      BY <3>1, <3>2
  <2>2. \A j \in 1..Len(managers'[c]) :
            \/ managers'[c][j].current = position[c]
            \/ j \in 1..Len(managers[c]) /\ managers'[c][j].current = managers[c][j].current
    BY <1>1
  <2>3. Owned(c) /\ position'[c] = position[c]
    BY <1>1 DEF OwnedInv
  <2>4. QED
    BY <2>1, <2>2, <2>3, OwnedKept
<1>8. Current(c)'
  <2>1. CASE v = None
    BY <1>1, <1>2, <2>1 DEF Current, Informed
  <2>2. CASE v # None
    <3>1. Active(c)' = t /\ Len(t) = Len(s) + 1
      BY <1>1, <1>2, <1>4, <1>6, <2>2 DEF Active
    <3>2. sent'[c] # Len(t)
      BY <1>1, <1>5, <3>1
    <3>3. t[Len(t)].data["position"] = position[c]
      BY <1>6, <2>2, <3>1
    <3>4. QED
      BY <1>1, <3>1, <3>2, <3>3 DEF Current
  <2>3. QED
    BY <2>1, <2>2
<1>9. \A e \in Clients : e # c => Still(e) /\ sent'[e] = sent[e]
  <2>1. \A e \in Clients, u \in Users : e # c => queue'[e][u] = queue[e][u]
    BY <1>6
  <2>2. QED
    BY <1>1, <2>1, SameItself DEF Still
<1>10. QED
  BY <1>1, <1>7, <1>8, <1>9, PositionsOfOne

(* Steps of listeners and maps. *)
LEMMA MapPositions ==
    ASSUME NEW T, SdkState(T), SdkState(T)', AppState(T), MapInv, OwnedInv, NEW c \in Clients,
           \/ Watch(c) \/ EmitSnapshot(c) \/ ListenDenied(c)
           \/ RunLocations(c) \/ UpdateUIView(c)
    PROVE  OwnedInv' /\ (CurrentInv => CurrentInv')
<1>1. UNCHANGED <<server, sent, user, position>>
  BY DEF Watch, EmitSnapshot, ListenDenied, RunLocations, UpdateUIView, appVars, fsVars
<1>2. \A e \in Clients, u \in Users : SameWrites(queue'[e][u], queue[e][u])
  <2>1. CASE Watch(c)
    BY <2>1, WatchMap
  <2>2. CASE EmitSnapshot(c) \/ ListenDenied(c) \/ RunLocations(c) \/ UpdateUIView(c)
    <3>1. queue' = queue
      BY <2>2 DEF EmitSnapshot, ListenDenied, RunLocations, UpdateUIView, fsVars
    <3>2. QED
      BY <3>1, SameItself
  <2>3. QED
    BY <2>1, <2>2
<1>3. /\ \A e \in Clients : Len(managers'[e]) = Len(managers[e])
      /\ \A e \in Clients : \A m \in 1..Len(managers[e]) :
             managers'[e][m].current = managers[e][m].current
  <2>1. CASE ListenDenied(c)
    BY <2>1, DeniedMap
  <2>2. CASE RunLocations(c)
    BY <2>2, RunMap
  <2>3. CASE Watch(c) \/ EmitSnapshot(c) \/ UpdateUIView(c)
    <3>1. managers' = managers
      BY <2>3 DEF Watch, EmitSnapshot, UpdateUIView, appVars
    <3>2. QED
      BY <3>1
  <2>4. QED
    BY <2>1, <2>2, <2>3
<1>4. \A e \in Clients : Still(e) /\ (sent'[e] = sent[e] \/ sent'[e] = 0)
  BY <1>1, <1>2, <1>3 DEF Still
<1>5. QED
  BY <1>1, <1>4, PositionsQuiet

(* A document is none at all: it has a position. *)
LEMMA DocumentThere ==
    ASSUME NEW T, T \subseteq [device : Clients, n : Nat], NEW x \in Document(T)
    PROVE  x # Absent
<1>1. x \in [{"position"} -> [device : Clients, n : Nat]]
  BY DEF Document
<1>2. QED
  BY <1>1, LocationAssumption

(* The server has a position of the device that wrote it: the latest one, if *)
(* it was the last pending write.                                            *)
LEMMA CommitPositions ==
    ASSUME NEW T, T \subseteq [device : Clients, n : Nat], SdkState(T), SdkState(T)', OwnedInv,
           NEW c \in Clients, CommitEffect(T, c), UNCHANGED appVars
    PROVE  OwnedInv' /\ (CurrentInv => CurrentInv')
<1>1. PICK s : s = Active(c)
  OBVIOUS
<1>2. PICK w : w = s[sent[c] + 1]
  OBVIOUS
<1>3. /\ sent[c] + 1 \in 1..Len(s) /\ user[c] = w.doc[2]
      /\ server' \in [Docs -> Content(T)] /\ server'[w.doc] = w.data
      /\ \A d \in Docs : d # w.doc => server'[d] = server[d]
      /\ sent'[c] = sent[c] + 1 /\ \A e \in Clients : e # c => sent'[e] = sent[e]
      /\ UNCHANGED <<queue, user>>
  BY <1>1, <1>2 DEF CommitEffect
<1>4. UNCHANGED <<managers, position>>
  BY DEF appVars
<1>5. /\ user[c] \in Users /\ s = queue[c][user[c]] /\ s \in Seq(Writes(T)) /\ Len(s) \in Nat
      /\ sent[c] \in Nat
  BY <1>1 DEF SdkState, Active
<1>6. /\ w.doc = Location(user[c]) /\ w.data["position"].device = c /\ w.data \in Document(T)
      /\ w.doc \in Docs
  <2>1. w \in Writes(T)
    <3>1. sent[c] + 1 \in 1..Len(s) /\ s \in Seq(Writes(T))
      BY <1>3, <1>5
    <3>2. \A k \in 1..Len(s) : s[k] \in Writes(T)
      BY ONLY <3>1
    <3>3. QED
      BY ONLY <1>2, <3>1, <3>2
  <2>2. w.doc \in Docs /\ w.data \in Document(T)
    BY <2>1, WriteFields
  <2>3. QED
    BY <1>2, <1>3, <1>5, <2>2 DEF OwnedInv, Owned
<1>7. w.data # Absent
  BY <1>6, DocumentThere
<1>8. ASSUME NEW e \in Clients PROVE Still(e)
  BY <1>3, <1>4, SameItself DEF Still
<1>9. ASSUME NEW e \in Clients PROVE Owned(e)'
  BY <1>8, StillOwned DEF OwnedInv
<1>10. ASSUME CurrentInv, NEW e \in Clients, e # c PROVE Current(e)'
  <2>1. ASSUME Informed(e), Latest(e) PROVE Latest(e)'
    <3>1. user[e] \in Uids /\ user'[e] = user[e] /\ position'[e] = position[e]
      BY <1>3, <1>4, <2>1 DEF Informed, SdkState, Users
    <3>2. PICK d : d = Location(user[e])
      OBVIOUS
    <3>3. d \in Docs /\ Location(user[e])' = d
      BY <3>1, <3>2, LocationAssumption DEF Location, Docs
    <3>4. CASE d = w.doc
      <4>1. server'[d] = w.data
        BY <1>3, <3>4
      <4>2. QED
        BY <1>6, <1>7, <1>10, <3>3, <4>1 DEF Latest
    <3>5. CASE d # w.doc
      <4>1. server'[d] = server[d]
        BY <1>3, <3>3, <3>5
      <4>2. QED
        BY <2>1, <3>1, <3>2, <3>3, <4>1 DEF Latest
    <3>6. QED
      BY <3>4, <3>5
  <2>2. Current(e) /\ Still(e) /\ sent'[e] = sent[e]
    BY <1>3, <1>8, <1>10 DEF CurrentInv
  <2>3. QED
    BY <2>1, <2>2, StillCurrent
<1>11. ASSUME CurrentInv PROVE Current(c)'
  <2>1. SUFFICES ASSUME Informed(c)'
                 PROVE  /\ s # <<>> => s[Len(s)].data["position"] = position[c]
                        /\ sent'[c] = Len(s) => Latest(c)'
    BY <1>1, <1>3, <1>4 DEF Current, Active
  <2>2. Informed(c)
    BY <1>3, <1>4, <2>1 DEF Informed
  <2>3. s # <<>> /\ s[Len(s)].data["position"] = position[c]
    <3>1. s # <<>>
      BY <1>3, <1>5
    <3>2. QED
      BY <1>1, <1>11, <2>2, <3>1 DEF CurrentInv, Current
  <2>4. ASSUME sent'[c] = Len(s) PROVE Latest(c)'
    <3>1. w = s[Len(s)]
      BY <1>2, <1>3, <2>4
    <3>2. server'[Location(user[c])] = w.data
      BY <1>3, <1>6
    <3>3. user'[c] = user[c] /\ position'[c] = position[c]
      BY <1>3, <1>4
    <3>4. QED
      BY <1>7, <2>3, <3>1, <3>2, <3>3 DEF Latest, Location
  <2>5. QED
    BY <2>3, <2>4
<1>12. QED
  BY <1>9, <1>10, <1>11 DEF OwnedInv, CurrentInv

(* A write is dropped when it was committed; the server refuses none that a  *)
(* device sends, unless it refuses at will.                                  *)
LEMMA DropPositions ==
    ASSUME NEW T, SdkState(T), SdkState(T)', OwnedInv, NEW c \in Clients,
           DropEffect(T, c), Acknowledge(c) \/ Reject(c), UNCHANGED appVars
    PROVE  OwnedInv' /\ (CurrentInv /\ "write" \notin Denials => CurrentInv')
<1>1. PICK s : s = Active(c)
  OBVIOUS
<1>2. PICK t : t = queue'[c][user[c]]
  OBVIOUS
<1>3. /\ Len(s) \in Nat \ {0} /\ Len(t) = Len(s) - 1
      /\ \A e \in Clients, u \in Users : e # c \/ u # user[c] => queue'[e][u] = queue[e][u]
      /\ \A i \in 1..(Len(s) - 1) : t[i] = s[i + 1]
      /\ \A e \in Clients : e # c => sent'[e] = sent[e]
      /\ (sent[c] > 0 /\ sent'[c] = sent[c] - 1) \/ (sent[c] = 0 /\ sent'[c] = 0)
      /\ UNCHANGED <<server, user>>
  BY <1>1, <1>2 DEF DropEffect
<1>4. UNCHANGED <<managers, position>>
  BY DEF appVars
<1>5. /\ user[c] \in Users /\ s = queue[c][user[c]] /\ s \in Seq(Writes(T)) /\ sent[c] \in Nat
      /\ t \in Seq(Writes(T))
  BY <1>1, <1>2, <1>3 DEF SdkState, Active
<1>6. \A e \in Clients : e # c => Still(e) /\ sent'[e] = sent[e]
  BY <1>3, <1>4, SameItself DEF Still
<1>7. Owned(c)'
  <2>1. ASSUME NEW u \in Users, NEW i \in 1..Len(queue'[c][u])
        PROVE  \E j \in 1..Len(queue[c][u]) : /\ queue'[c][u][i].doc = queue[c][u][j].doc
                                              /\ queue'[c][u][i].data = queue[c][u][j].data
    <3>1. CASE u # user[c]
      BY <1>3, <3>1
    <3>2. CASE u = user[c]
      <4>1. i \in 1..(Len(s) - 1) /\ i + 1 \in 1..Len(s)
        BY <1>2, <1>3, <3>2
      <4>2. queue'[c][u][i] = queue[c][u][i + 1] /\ i + 1 \in 1..Len(queue[c][u])
        BY <1>2, <1>3, <1>5, <3>2, <4>1
      <4>3. QED
        BY <4>2
    <3>3. QED
      BY <3>1, <3>2
  <2>2. Owned(c) /\ position'[c] = position[c]
    BY <1>4 DEF OwnedInv
  <2>3. \A m \in 1..Len(managers'[c]) :
            m \in 1..Len(managers[c]) /\ managers'[c][m].current = managers[c][m].current
    BY <1>4
  <2>4. QED
    BY <2>1, <2>2, <2>3, OwnedKept
<1>8. ASSUME CurrentInv, "write" \notin Denials PROVE Current(c)'
  <2>1. SUFFICES ASSUME Informed(c)'
                 PROVE  /\ t # <<>> => t[Len(t)].data["position"] = position[c]
                        /\ sent'[c] = Len(t) => Latest(c)'
    BY <1>2, <1>3, <1>4 DEF Current, Active
  <2>2. Informed(c)
    BY <1>3, <1>4, <2>1 DEF Informed
  <2>3. sent[c] > 0
    <3>1. ASSUME Reject(c) PROVE FALSE
      <4>1. 1 \in 1..Len(s) /\ Head(s) = s[1]
        BY <1>3, <1>5
      <4>2. s[1].doc = Location(user[c])
        BY <1>5, <4>1 DEF OwnedInv, Owned
      <4>3. Permitted(c, Head(s))
        BY <4>1, <4>2 DEF Permitted, Owner, Location
      <4>4. QED
        BY <1>1, <1>8, <3>1, <4>3 DEF Reject
    <3>2. QED
      BY <3>1 DEF Acknowledge
  <2>4. /\ s # <<>> => s[Len(s)].data["position"] = position[c]
        /\ sent[c] = Len(s) => Latest(c)
    BY <1>1, <1>8, <2>2 DEF CurrentInv, Current
  <2>5. ASSUME t # <<>> PROVE t[Len(t)].data["position"] = position[c]
    <3>1. Len(t) # 0
      BY <1>5, <2>5
    <3>2. Len(t) \in 1..(Len(s) - 1) /\ Len(t) + 1 = Len(s)
      BY <1>3, <3>1
    <3>3. t[Len(t)] = s[Len(s)] /\ s # <<>>
      BY <1>3, <3>2
    <3>4. QED
      BY <2>4, <3>3
  <2>6. ASSUME sent'[c] = Len(t) PROVE Latest(c)'
    <3>1. sent[c] = Len(s)
      BY <1>3, <1>5, <2>3, <2>6
    <3>2. user'[c] = user[c] /\ position'[c] = position[c] /\ server' = server
      BY <1>3, <1>4
    <3>3. QED
      BY <2>4, <3>1, <3>2 DEF Latest, Location
  <2>7. QED
    BY <2>5, <2>6
<1>9. CASE CurrentInv /\ "write" \notin Denials
  BY <1>3, <1>6, <1>7, <1>8, <1>9, PositionsOfOne
<1>10. CASE ~(CurrentInv /\ "write" \notin Denials)
  <2>1. ASSUME NEW e \in Clients PROVE Owned(e)'
    <3>1. CASE e = c
      BY <1>7, <3>1
    <3>2. CASE e # c
      BY <1>6, <3>2, StillOwned DEF OwnedInv
    <3>3. QED
      BY <3>1, <3>2
  <2>2. QED
    BY <1>10, <2>1 DEF OwnedInv
<1>11. QED
  BY <1>9, <1>10

LEMMA SdkPositions ==
    ASSUME NEW T, T \subseteq [device : Clients, n : Nat], SdkState(T), OwnedInv,
           NEW c \in Clients, FirestoreStep(c), UNCHANGED appVars
    PROVE  OwnedInv' /\ (CurrentInv /\ "write" \notin Denials => CurrentInv')
<1>1. /\ \/ CommitEffect(T, c)
         \/ (DropEffect(T, c) /\ (Acknowledge(c) \/ Reject(c)))
         \/ LinkEffect(T, c)
      /\ SdkState(T)'
  BY SdkCases
<1>2. CASE CommitEffect(T, c)
  BY <1>1, <1>2, CommitPositions
<1>3. CASE DropEffect(T, c) /\ (Acknowledge(c) \/ Reject(c))
  BY <1>1, <1>3, DropPositions
<1>4. CASE LinkEffect(T, c)
  <2>1. /\ \A e \in Clients, u \in Users : SameWrites(queue'[e][u], queue[e][u])
        /\ \A e \in Clients : sent'[e] = sent[e] \/ sent'[e] = 0
        /\ UNCHANGED <<server, user>>
    BY <1>4 DEF LinkEffect
  <2>2. UNCHANGED <<managers, position>>
    BY DEF appVars
  <2>3. \A e \in Clients : Still(e) /\ (sent'[e] = sent[e] \/ sent'[e] = 0)
    BY <2>1, <2>2 DEF Still
  <2>4. QED
    BY <1>1, <2>1, <2>3, PositionsQuiet
<1>5. QED
  BY <1>1, <1>2, <1>3, <1>4

-----------------------------------------------------------------------------
(* Moves: what was taken stays taken. *)

LEMMA DocumentsGrow ==
    ASSUME NEW T, NEW U, T \subseteq U
    PROVE  /\ Content(T) \subseteq Content(U) /\ Answer(T) \subseteq Answer(U)
           /\ Known(T) \subseteq Known(U)
           /\ Writes(T) \subseteq Writes(U) /\ Handlers(T) \subseteq Handlers(U)
<1>1. Document(T) \subseteq Document(U)
  BY DEF Document
<1>2. Content(T) \subseteq Content(U)
  BY <1>1 DEF Content
<1>3. Answer(T) \subseteq Answer(U)
  <2>1. ASSUME NEW x \in Answer(T) PROVE x \in Answer(U)
    <3>1. PICK D \in SUBSET Docs : x \in [D -> Document(T)]
      BY DEF Answer
    <3>2. x \in [D -> Document(U)]
      BY <1>1, <3>1
    <3>3. QED
      BY <3>2 DEF Answer
  <2>2. QED
    BY <2>1
<1>4. Known(T) \subseteq Known(U)
  <2>1. ASSUME NEW x \in Known(T) PROVE x \in Known(U)
    <3>1. PICK D \in SUBSET Docs : x \in [D -> T]
      BY DEF Known
    <3>2. x \in [D -> U]
      BY <3>1
    <3>3. QED
      BY <3>2 DEF Known
  <2>2. QED
    BY <2>1
<1>5. Writes(T) \subseteq Writes(U)
  BY <1>1 DEF Writes
<1>6. Handlers(T) \subseteq Handlers(U)
  BY <1>3 DEF Handlers
<1>7. QED
  BY <1>2, <1>3, <1>4, <1>5, <1>6

LEMMA ViewsGrow ==
    ASSUME NEW T, NEW U, T \subseteq U
    PROVE  Managers(T) \subseteq Managers(U) /\ Maps(T) \subseteq Maps(U)
<1>1. Known(T) \subseteq Known(U)
  BY DocumentsGrow
<1>2. Managers(T) \subseteq Managers(U)
  BY <1>1 DEF Managers
<1>3. [title : Titles, at : T] \subseteq [title : Titles, at : U]
  OBVIOUS
<1>4. SUBSET [title : Titles, at : T] \subseteq SUBSET [title : Titles, at : U]
  BY <1>3
<1> DEFINE M == SUBSET [title : Titles, at : T]
           N == SUBSET [title : Titles, at : U]
<1>5. M \subseteq N
  BY <1>4
<1>6. /\ Maps(T) = [shown : BOOLEAN, manager : Nat, markers : M, stale : BOOLEAN]
      /\ Maps(U) = [shown : BOOLEAN, manager : Nat, markers : N, stale : BOOLEAN]
  BY DEF Maps
<1> HIDE DEF M, N
<1>7. Maps(T) \subseteq Maps(U)
  BY <1>5, <1>6
<1>8. QED
  BY <1>2, <1>7

LEMMA FunctionsGrow ==
    ASSUME NEW D, NEW S, NEW R, S \subseteq R
    PROVE  [D -> S] \subseteq [D -> R] /\ Seq(S) \subseteq Seq(R)
  OBVIOUS

LEMMA StateGrows ==
    ASSUME NEW T, NEW U, T \subseteq U, SdkState(T), AppState(T)
    PROVE  SdkState(U) /\ AppState(U)
<1>1. /\ Content(T) \subseteq Content(U) /\ Answer(T) \subseteq Answer(U)
      /\ Writes(T) \subseteq Writes(U) /\ Handlers(T) \subseteq Handlers(U)
      /\ Managers(T) \subseteq Managers(U) /\ Maps(T) \subseteq Maps(U)
  BY DocumentsGrow, ViewsGrow
<1>2. server \in [Docs -> Content(U)]
  BY <1>1, FunctionsGrow DEF SdkState
<1>3. cache \in [Clients -> [Docs -> Content(U)]]
  <2>1. [Docs -> Content(T)] \subseteq [Docs -> Content(U)]
    BY <1>1, FunctionsGrow
  <2>2. QED
    BY <2>1, FunctionsGrow DEF SdkState
<1>4. queue \in [Clients -> [Users -> Seq(Writes(U))]]
  <2>1. Seq(Writes(T)) \subseteq Seq(Writes(U))
    BY <1>1, FunctionsGrow
  <2>2. [Users -> Seq(Writes(T))] \subseteq [Users -> Seq(Writes(U))]
    BY <2>1, FunctionsGrow
  <2>3. QED
    BY <2>2, FunctionsGrow DEF SdkState
<1>5. calls \in [Clients -> Seq(Handlers(U))]
  <2>1. Seq(Handlers(T)) \subseteq Seq(Handlers(U))
    BY <1>1, FunctionsGrow
  <2>2. QED
    BY <2>1, FunctionsGrow DEF SdkState
<1>6. SdkState(U)
  BY <1>2, <1>3, <1>4, <1>5 DEF SdkState
<1>7. managers \in [Clients -> Seq(Managers(U))]
  <2>1. Seq(Managers(T)) \subseteq Seq(Managers(U))
    BY <1>1, FunctionsGrow
  <2>2. QED
    BY <2>1, FunctionsGrow DEF AppState
<1>8. map \in [Clients -> Maps(U)] /\ raised \in [Clients -> Answer(U)]
  BY <1>1, FunctionsGrow DEF AppState
<1>9. position \in [Clients -> U \cup {None}] /\ moves \in Nat
  BY DEF AppState
<1>10. QED
  BY <1>6, <1>7, <1>8, <1>9 DEF AppState

LEMMA MoveStep ==
    ASSUME StateInv, MapInv, OwnedInv, NEW c \in Clients, Move(c)
    PROVE  StateInv' /\ MapInv' /\ OwnedInv' /\ (CurrentInv => CurrentInv')
<1>1. PICK T : T = Taken /\ SdkState(T) /\ AppState(T)
  BY DEF StateInv
<1>2. PICK k : k = moves + 1
  OBVIOUS
<1>3. PICK U : U = [device : Clients, n : 1..k]
  OBVIOUS
<1>4. moves \in Nat /\ k \in Nat /\ 1..moves \subseteq 1..k /\ k \in 1..k
  BY <1>1, <1>2 DEF AppState
<1>5. T \subseteq U /\ T = [device : Clients, n : 1..moves]
  BY <1>1, <1>3, <1>4 DEF Taken
<1>6. SdkState(U) /\ AppState(U)
  BY <1>1, <1>5, StateGrows
<1>7. /\ moves' = k /\ position' = [position EXCEPT ![c] = Fix(c, k)]
      /\ UNCHANGED <<server, cache, queue, sent, user, reads, calls, managers, map, raised>>
  BY <1>2 DEF Move, fsVars
<1>8. Fix(c, k) \in U /\ Fix(c, k).device = c /\ Fix(c, k).n = k
  BY <1>3, <1>4 DEF Fix
<1>9. position \in [Clients -> U \cup {None}]
  BY <1>6 DEF AppState
<1>10. /\ position' \in [Clients -> U \cup {None}] /\ position'[c] = Fix(c, k)
       /\ \A e \in Clients : e # c => position'[e] = position[e]
  BY <1>7, <1>8, <1>9
<1>11. SdkState(U)' /\ AppState(U)'
  BY <1>4, <1>6, <1>7, <1>10 DEF SdkState, Active, AppState
<1>12. StateInv'
  BY <1>3, <1>7, <1>11 DEF StateInv, Taken
<1>13. MapInv'
  BY <1>7, MapSame
<1>14. \A e \in Clients : e # c => Still(e) /\ sent'[e] = sent[e]
  BY <1>7, <1>10, SameItself DEF Still
<1>15. Fix(c, k) # None
  <2>1. U \subseteq [device : Clients, n : Nat]
    BY <1>3, <1>4
  <2>2. QED
    BY <1>8, <2>1, LocationAssumption
<1>16. Owned(c)'
  <2>1. Owned(c)
    BY DEF OwnedInv
  <2>2. QED
    BY <1>7, <1>8, <1>10, <1>15, <2>1 DEF Owned, Location
<1>17. ~Informed(c)'
  <2>1. SUFFICES ASSUME user[c] # None, managers[c][1].current = Fix(c, k), 1 \in 1..Len(managers[c])
                 PROVE  FALSE
    <3>1. user[c] # None => 1 \in 1..Len(managers[c])
      BY DEF MapInv, Linked
    <3>2. QED
      BY <1>7, <1>10, <3>1 DEF Informed
  <2>2. managers[c][1] \in Managers(T)
    BY <1>1, <2>1 DEF AppState
  <2>3. managers[c][1].current \in T \cup {None}
    BY <2>2 DEF Managers
  <2>4. Fix(c, k) \in T
    BY <1>15, <2>1, <2>3
  <2>5. k \in 1..moves
    BY <1>5, <1>8, <2>4
  <2>6. QED
    BY <1>2, <1>4, <2>5
<1>18. CurrentInv => Current(c)'
  BY <1>17 DEF Current
<1>19. server' = server
  BY <1>7
<1>20. OwnedInv' /\ (CurrentInv => CurrentInv')
  BY <1>6, <1>11, <1>14, <1>16, <1>18, <1>19, PositionsOfOne
<1>21. QED
  BY <1>12, <1>13, <1>20

-----------------------------------------------------------------------------
(* The invariant. *)

LocationInv == StateInv /\ MapInv /\ OwnedInv

LEMMA InitInv ==
    ASSUME Init
    PROVE  LocationInv /\ CurrentInv
<1>1. PICK T : T = Taken
  OBVIOUS
<1>2. /\ server = [d \in Docs |-> Absent] /\ cache = [c \in Clients |-> [d \in Docs |-> Absent]]
      /\ queue = [c \in Clients |-> [u \in Users |-> <<>>]] /\ sent = [c \in Clients |-> 0]
      /\ user = [c \in Clients |-> None] /\ reads = [c \in Clients |-> <<>>]
      /\ calls = [c \in Clients |-> <<>>] /\ managers = [c \in Clients |-> <<>>]
      /\ map = [c \in Clients |-> Hidden] /\ raised = [c \in Clients |-> <<>>]
      /\ position = [c \in Clients |-> None] /\ moves = 0
  BY DEF Init, FirestoreInit
<1>3. SdkState(T)
  <2>1. Absent \in Content(T) /\ None \in Users /\ <<>> \in Seq(Writes(T)) /\ <<>> \in Seq(Handlers(T))
    BY DEF Content, Users
  <2>2. /\ server \in [Docs -> Content(T)] /\ cache \in [Clients -> [Docs -> Content(T)]]
        /\ queue \in [Clients -> [Users -> Seq(Writes(T))]] /\ sent \in [Clients -> Nat]
        /\ user \in [Clients -> Users] /\ calls \in [Clients -> Seq(Handlers(T))]
    BY <1>2, <2>1
  <2>3. \A c \in Clients : sent[c] = 0 /\ Active(c) = <<>>
    BY <1>2, <2>1 DEF Active
  <2>4. QED
    BY <1>2, <2>2, <2>3 DEF SdkState
<1>4. AppState(T)
  <2>1. <<>> \in Answer(T)
    <3>1. <<>> \in [{} -> Document(T)] /\ {} \in SUBSET Docs
      OBVIOUS
    <3>2. QED
      BY <3>1 DEF Answer
  <2>2. Hidden \in Maps(T)
    BY DEF Hidden, Maps
  <2>3. QED
    BY <1>2, <2>1, <2>2 DEF AppState
<1>5. StateInv
  BY <1>1, <1>3, <1>4 DEF StateInv
<1>6. ASSUME NEW c \in Clients PROVE Linked(c) /\ Drawn(c) /\ Heard(c) /\ Owned(c) /\ Current(c)
  <2>1. /\ calls[c] = <<>> /\ managers[c] = <<>> /\ map[c] = Hidden /\ user[c] = None
        /\ position[c] = None /\ \A u \in Users : queue[c][u] = <<>>
    BY <1>2
  <2>2. ~Hidden.shown /\ ~Hidden.stale
    BY DEF Hidden
  <2>3. Linked(c) /\ Drawn(c) /\ Heard(c)
    BY <2>1, <2>2 DEF Linked, Drawn, Heard
  <2>4. Owned(c) /\ Current(c)
    BY <2>1 DEF Owned, Current, Informed
  <2>5. QED
    BY <2>3, <2>4
<1>7. QED
  BY <1>5, <1>6 DEF LocationInv, MapInv, OwnedInv, CurrentInv

LEMMA StepInv ==
    ASSUME LocationInv, [Next]_vars
    PROVE  LocationInv' /\ (CurrentInv /\ "write" \notin Denials => CurrentInv')
<1>0. StateInv /\ MapInv /\ OwnedInv
  BY DEF LocationInv
<1>1. PICK T : T = Taken /\ SdkState(T) /\ AppState(T)
  BY <1>0 DEF StateInv
<1>2. T \subseteq [device : Clients, n : Nat]
  BY <1>1 DEF Taken, AppState
<1>3. ASSUME SdkState(T)', AppState(T)', MapInv', moves' = moves,
             OwnedInv' /\ (CurrentInv /\ "write" \notin Denials => CurrentInv')
      PROVE  LocationInv' /\ (CurrentInv /\ "write" \notin Denials => CurrentInv')
  <2>1. StateInv'
    BY <1>1, <1>3 DEF StateInv, Taken
  <2>2. QED
    BY <1>3, <2>1 DEF LocationInv
<1>4. ASSUME NEW c \in Clients, NEW u \in Uids, SignIn(c, u)
      PROVE  LocationInv' /\ (CurrentInv /\ "write" \notin Denials => CurrentInv')
  <2>1. SdkState(T)' /\ AppState(T)' /\ MapInv'
    BY <1>0, <1>1, <1>4, SignInMap
  <2>2. OwnedInv' /\ (CurrentInv => CurrentInv')
    BY <1>0, <1>1, <1>4, <2>1, SignInPositions
  <2>3. moves' = moves
    BY <1>4 DEF SignIn
  <2>4. QED
    BY <1>3, <2>1, <2>2, <2>3
<1>5. ASSUME NEW c \in Clients, SignOut(c)
      PROVE  LocationInv' /\ (CurrentInv /\ "write" \notin Denials => CurrentInv')
  <2>1. SdkState(T)' /\ AppState(T)' /\ MapInv'
    BY <1>0, <1>1, <1>5, SignOutMap
  <2>2. OwnedInv' /\ (CurrentInv => CurrentInv')
    BY <1>0, <1>1, <1>5, <2>1, SignOutPositions
  <2>3. moves' = moves
    BY <1>5 DEF SignOut
  <2>4. QED
    BY <1>3, <2>1, <2>2, <2>3
<1>6. ASSUME NEW c \in Clients, Render(c) \/ RenderMenu(c)
      PROVE  LocationInv' /\ (CurrentInv /\ "write" \notin Denials => CurrentInv')
  <2>1. SdkState(T)' /\ AppState(T)' /\ MapInv'
    BY <1>0, <1>1, <1>6, RenderMap
  <2>2. OwnedInv' /\ (CurrentInv => CurrentInv')
    BY <1>0, <1>1, <1>6, <2>1, RenderPositions
  <2>3. moves' = moves
    BY <1>6 DEF Render, RenderMenu
  <2>4. QED
    BY <1>3, <2>1, <2>2, <2>3
<1>7. ASSUME NEW c \in Clients, Move(c)
      PROVE  LocationInv' /\ (CurrentInv /\ "write" \notin Denials => CurrentInv')
  BY <1>0, <1>7, MoveStep DEF LocationInv
<1>8. ASSUME NEW c \in Clients, NEW m \in 1..Len(managers[c]), DidUpdateLocations(c, m)
      PROVE  LocationInv' /\ (CurrentInv /\ "write" \notin Denials => CurrentInv')
  <2>1. Owned(c)
    BY <1>0 DEF OwnedInv
  <2>2. UpdateEffect(T, c, m)
    BY <1>1, <1>8, <2>1, UpdateType
  <2>3. SdkState(T)' /\ AppState(T)' /\ MapInv'
    BY <1>0, <1>1, <2>2, UpdateMap
  <2>4. OwnedInv' /\ (CurrentInv => CurrentInv')
    BY <1>0, <1>1, <2>2, <2>3, UpdatePositions
  <2>5. moves' = moves
    BY <1>8 DEF DidUpdateLocations
  <2>6. QED
    BY <1>3, <2>3, <2>4, <2>5
<1>9. ASSUME NEW c \in Clients,
             \/ Watch(c) \/ EmitSnapshot(c) \/ ListenDenied(c)
             \/ RunLocations(c) \/ UpdateUIView(c)
      PROVE  LocationInv' /\ (CurrentInv /\ "write" \notin Denials => CurrentInv')
  <2>1. SdkState(T)' /\ AppState(T)' /\ MapInv'
    BY <1>0, <1>1, <1>9, WatchMap, EmitMap, DeniedMap, RunMap, DrawMap
  <2>2. OwnedInv' /\ (CurrentInv => CurrentInv')
    BY <1>0, <1>1, <1>9, <2>1, MapPositions
  <2>3. moves' = moves
    BY <1>9 DEF Watch, EmitSnapshot, ListenDenied, RunLocations, UpdateUIView, appVars
  <2>4. QED
    BY <1>3, <2>1, <2>2, <2>3
<1>10. ASSUME NEW c \in Clients, FirestoreStep(c), UNCHANGED appVars
       PROVE  LocationInv' /\ (CurrentInv /\ "write" \notin Denials => CurrentInv')
  <2>1. SdkState(T)' /\ AppState(T)' /\ MapInv'
    BY <1>0, <1>1, <1>10, SdkMap
  <2>2. OwnedInv' /\ (CurrentInv /\ "write" \notin Denials => CurrentInv')
    BY <1>0, <1>1, <1>2, <1>10, SdkPositions
  <2>3. moves' = moves
    BY <1>10 DEF appVars
  <2>4. QED
    BY <1>3, <2>1, <2>2, <2>3
<1>11. CASE UNCHANGED vars
  <2>1. UNCHANGED <<server, cache, queue, sent, user, reads, calls, managers, map, raised,
                    position, moves>>
    BY <1>11 DEF vars, fsVars, appVars
  <2>2. SdkState(T)' /\ AppState(T)'
    BY <1>1, <2>1 DEF SdkState, Active, AppState
  <2>3. MapInv'
    BY <1>0, <2>1, MapSame
  <2>4. \A e \in Clients : Still(e) /\ (sent'[e] = sent[e] \/ sent'[e] = 0)
    BY <2>1, SameItself DEF Still
  <2>5. OwnedInv' /\ (CurrentInv => CurrentInv')
    BY <1>0, <1>1, <2>1, <2>2, <2>4, PositionsQuiet
  <2>6. QED
    BY <1>3, <2>1, <2>2, <2>3, <2>5
<1>12. QED
  BY <1>4, <1>5, <1>6, <1>7, <1>8, <1>9, <1>10, <1>11 DEF Next

-----------------------------------------------------------------------------
(* What it says. *)

(* Every state has its type: positions that are published, kept or shown     *)
(* were taken, a device has only its own, and the map observes a             *)
(* LocationManager that exists, whatever listeners are dropped and writes    *)
(* sent again.                                                               *)
THEOREM LocationTypeCorrect == Spec => []TypeOK
<1>1. ASSUME LocationInv PROVE TypeOK
  <2>1. PICK T : T = Taken /\ SdkState(T) /\ AppState(T)
    BY <1>1 DEF LocationInv, StateInv
  <2>2. \A c \in Clients : Linked(c) /\ Owned(c)
    BY <1>1 DEF LocationInv, MapInv, OwnedInv
  <2>3. user \in [Clients -> Users] /\ T = [device : Clients, n : 1..moves] /\ moves \in Nat
    BY <2>1 DEF SdkState, AppState, Taken
  <2>4. ASSUME NEW c \in Clients PROVE sent[c] \in 0..Len(Active(c))
    BY <2>1 DEF SdkState, Active
  <2>5. ASSUME NEW c \in Clients PROVE position[c] \in {None} \cup {Fix(c, n) : n \in 1..moves}
    <3>1. position[c] \in T \cup {None}
      BY <2>1 DEF AppState
    <3>2. CASE position[c] # None
      <4>1. position[c].device = c /\ position[c] \in [device : Clients, n : 1..moves]
        BY <2>2, <2>3, <3>1, <3>2 DEF Owned
      <4>2. position[c] = Fix(c, position[c].n) /\ position[c].n \in 1..moves
        BY <4>1 DEF Fix
      <4>3. QED
        BY <4>2
    <3>3. QED
      BY <3>2
  <2>6. ASSUME NEW c \in Clients, NEW i \in 1..Len(managers[c])
        PROVE  /\ managers[c][i].current = None \/ managers[c][i].current.device = c
               /\ DOMAIN managers[c][i].deviceLocations \subseteq Docs
    <3>1. managers[c][i] \in Managers(T)
      BY <2>1 DEF AppState
    <3>2. managers[c][i].deviceLocations \in Known(T)
      BY <3>1 DEF Managers
    <3>3. DOMAIN managers[c][i].deviceLocations \subseteq Docs
      BY <3>2 DEF Known
    <3>4. QED
      BY <2>2, <3>3 DEF Owned
  <2>7. ASSUME NEW c \in Clients PROVE map[c].shown => map[c].manager \in 1..Len(managers[c])
    BY <2>2 DEF Linked
  <2>8. ASSUME NEW c \in Clients, NEW k \in map[c].markers PROVE k.at.n \in 1..moves
    <3>1. map[c] \in Maps(T)
      BY <2>1 DEF AppState
    <3>2. k \in [title : Titles, at : T]
      BY <3>1 DEF Maps
    <3>3. QED
      BY <2>3, <3>2
  <2>9. QED
    BY <2>3, <2>4, <2>5, <2>6, <2>7, <2>8 DEF TypeOK
<1>2. Init => LocationInv
  BY InitInv
<1>3. LocationInv /\ [Next]_vars => LocationInv'
  BY StepInv
<1>4. QED
  BY <1>1, <1>2, <1>3, PTL DEF Spec

(* A map at rest shows everybody where the server says, whichever            *)
(* LocationManager it observes by now and whatever snapshots came late:      *)
(* a LocationManager that listens knows the snapshot raised last or has a    *)
(* handler with it before it, and the map draws what its manager knows.      *)
THEOREM MapAlwaysCurrent == Spec => []MapCurrent
<1>1. ASSUME LocationInv PROVE MapCurrent
  <2>1. SUFFICES ASSUME NEW c \in Clients, Watching(c), Rest(c), cache[c] = server,
                        NEW d \in Docs, server[d] # Absent
                 PROVE  Marker(d, server[d]["position"]) \in map[c].markers
    BY DEF MapCurrent
  <2>2. Linked(c) /\ Drawn(c) /\ Heard(c)
    BY <1>1 DEF LocationInv, MapInv
  <2>3. /\ Active(c) = <<>> /\ calls[c] = <<>> /\ ~map[c].stale /\ map[c].shown
        /\ raised[c] = Snapshot(c, Docs, cache[c]) /\ Observed(c).listening
    BY <2>1 DEF Rest, Watching
  <2>4. d \in DOMAIN raised[c] /\ raised[c][d] = server[d]
    <3>1. LocalView(c, d, cache[c][d]) = server[d]
      BY <2>1, <2>3, LocalViewEmpty DEF Active
    <3> DEFINE v == [x \in Docs |-> LocalView(c, x, cache[c][x])]
    <3>2. v[d] = server[d]
      BY <3>1
    <3>3. raised[c] = [x \in {y \in Docs : v[y] # Absent} |-> v[x]]
      BY <2>3 DEF Snapshot
    <3> HIDE DEF v
    <3>4. QED
      BY <2>1, <3>2, <3>3
  <2>5. PICK m : m = map[c].manager
    OBVIOUS
  <2>6. m \in 1..Len(managers[c]) /\ Observed(c) = managers[c][m]
    BY <2>2, <2>3, <2>5 DEF Linked, Observed
  <2>7. Knows(managers[c][m].deviceLocations, raised[c])
    <3>1. HeardBy(c, m)
      BY <2>2, <2>6 DEF Heard
    <3>2. ~Awaits(calls[c], m, raised[c])
      BY <2>3 DEF Awaits
    <3>3. QED
      BY <2>3, <2>6, <3>1, <3>2 DEF HeardBy
  <2>8. /\ d \in DOMAIN Observed(c).deviceLocations
        /\ Observed(c).deviceLocations[d] = server[d]["position"]
    BY <2>4, <2>6, <2>7 DEF Knows
  <2>9. Marker(d, server[d]["position"]) \in DeviceMarkers(Observed(c))
    BY <2>8 DEF DeviceMarkers
  <2>10. QED
    BY <2>2, <2>3, <2>9 DEF Drawn
<1>2. Init => LocationInv
  BY InitInv
<1>3. LocationInv /\ [Next]_vars => LocationInv'
  BY StepInv
<1>4. QED
  BY <1>1, <1>2, <1>3, PTL DEF Spec

(* Unless the server refuses writes at will, a person who is signed in on a  *)
(* device at rest is on the server: with the latest position of that device, *)
(* or with one of another device.  What an earlier session left in a queue,  *)
(* and what is sent twice, does not prevail: the position is always the last *)
(* of the pending writes.                                                    *)
THEOREM PositionAlwaysPublished ==
    ASSUME "write" \notin Denials
    PROVE  Spec => []OwnPositionPublished
<1>1. ASSUME LocationInv, CurrentInv PROVE OwnPositionPublished
  <2>1. SUFFICES ASSUME NEW c \in Clients, NEW u \in Uids, user[c] = u, position[c] # None, Rest(c)
                 PROVE  Latest(c)
    BY DEF OwnPositionPublished, Latest
  <2>2. PICK T : T = Taken /\ SdkState(T)
    BY <1>1 DEF LocationInv, StateInv
  <2>3. Informed(c) /\ Active(c) = <<>>
    BY <2>1, FirestoreAssumption DEF Rest, Informed
  <2>4. sent[c] = Len(Active(c))
    BY <2>2, <2>3 DEF SdkState
  <2>5. QED
    BY <1>1, <2>3, <2>4 DEF CurrentInv, Current
<1>2. Init => LocationInv /\ CurrentInv
  BY InitInv
<1>3. LocationInv /\ CurrentInv /\ [Next]_vars => LocationInv' /\ CurrentInv'
  BY StepInv
<1>4. QED
  BY <1>1, <1>2, <1>3, PTL DEF Spec
=============================================================================
