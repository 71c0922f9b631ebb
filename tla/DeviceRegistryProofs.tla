----------------------- MODULE DeviceRegistryProofs -----------------------
(***************************************************************************)
(* What DeviceRegistry keeps true for every number of accounts, devices,    *)
(* views and scans: its type, for any number of clients; and for one client *)
(* that a deletion is announced only when the document is gone, and that    *)
(* the list is complete at rest.                                            *)
(***************************************************************************)
EXTENDS DeviceRegistry, FirestoreProofs, FiniteSetTheorems, TLAPS

Contents == {Absent} \cup {Fields(c) : c \in Clients \cup {None}}
Scanners == {"off", "on", "closing"}
Views    == [open : BOOLEAN, no : Nat, rows : SUBSET AllDevices, scanner : Scanners]

(* Tags of the reads of fetchDevices, and of the writes. *)
ReadTag  == [kind : {"users", "devices"}, no : Nat, op : {0}, row : {None}, doc : {None}]
WriteTag == [kind : {"registered", "deleted", "named"}, no : Nat, op : Nat,
             row : AllDevices, doc : AllDevices]

Writes ==
    {w \in [doc : AllDevices, data : Contents, merge : BOOLEAN, tag : WriteTag, seen : BOOLEAN] :
        /\ w.tag.doc = w.doc /\ (w.tag.kind = "deleted" => w.data = Absent)
        /\ w.merge => w.data # Absent}

(* The documents that the answer of a read may have. *)
Collection(kind) == IF kind = "users" THEN UserDocs ELSE AllDevices

ListReads ==
    {r \in [docs : SUBSET Docs, one : {FALSE}, tag : ReadTag] :
        r.docs \subseteq Collection(r.tag.kind)}

Answer == UNION {[D -> Contents] : D \in SUBSET Docs}
ListCalls ==
    {k \in [kind : {"read"}, tag : ReadTag, ok : BOOLEAN, docs : Answer] :
        DOMAIN k.docs \subseteq Collection(k.tag.kind)}
WriteCalls == [kind : {"write"}, tag : WriteTag, ok : BOOLEAN, docs : {<<>>}]
Handlers   == ListCalls \cup WriteCalls

StateInv ==
    /\ server \in [Docs -> Contents]
    /\ cache \in [Clients -> [Docs -> Contents]]
    /\ queue \in [Clients -> [Users -> Seq(Writes)]]
    /\ sent \in [Clients -> Nat]
    /\ user \in [Clients -> Users]
    /\ \A c \in Clients : sent[c] <= Len(Active(c))
    /\ reads \in [Clients -> Seq(ListReads)]
    /\ calls \in [Clients -> Seq(Handlers)]
    /\ view \in [Clients -> Views]
    /\ appears \in Nat
    /\ scans \in 0..MaxScans
    /\ deletes \in 0..MaxDeletes
    /\ names \in 0..MaxNames
    /\ latest \in [AllDevices -> 0..(scans + deletes + names)]
    /\ deleted \subseteq [row : AllDevices, doc : AllDevices]
    /\ named \in [Clients -> SUBSET AllDevices]

(* The writes of a document wait in its owner's queue, in the order in which *)
(* they were asked for.                                                      *)
QueueInv ==
    \A c \in Clients, u \in Users : \A i \in 1..Len(queue[c][u]) :
        /\ queue[c][u][i].doc[2] = u
        /\ queue[c][u][i].tag.op <= latest[queue[c][u][i].doc]
        /\ \A j \in 1..Len(queue[c][u]) :
               i < j /\ queue[c][u][i].doc = queue[c][u][j].doc =>
                   queue[c][u][i].tag.op < queue[c][u][j].tag.op

(* A deletion the server committed, unless something was asked for later. *)
CommittedInv ==
    \A c \in Clients : \A i \in 1..Len(Active(c)) :
        i <= sent[c] /\ Active(c)[i].tag.kind = "deleted"
            /\ Active(c)[i].tag.op = latest[Active(c)[i].doc] =>
            server[Active(c)[i].doc] = Absent

(* The same of one whose handler k is called: what is pending is later. *)
Gone(c, k) ==
    /\ k.tag.op <= latest[k.tag.doc]
    /\ k.tag.op = latest[k.tag.doc] => server[k.tag.doc] = Absent
    /\ \A u \in Users : \A i \in 1..Len(queue[c][u]) :
           queue[c][u][i].doc = k.tag.doc => k.tag.op < queue[c][u][i].tag.op

AcknowledgedInv ==
    \A c \in Clients : \A k \in 1..Len(calls[c]) :
        calls[c][k].tag.kind = "deleted" /\ calls[c][k].ok => Gone(c, calls[c][k])

(* And of one that was announced: nothing that is pending brings it back. *)
AnnouncedInv ==
    \A e \in deleted :
        /\ server[e.doc] = Absent
        /\ \A c \in Clients, u \in Users : \A i \in 1..Len(queue[c][u]) :
               queue[c][u][i].doc = e.doc => queue[c][u][i].data = Absent

DeletionInv == QueueInv /\ CommittedInv /\ AcknowledgedInv /\ AnnouncedInv

-----------------------------------------------------------------------------
(* Places and documents. *)

LEMMA Places ==
    /\ UserDocs \subseteq Docs /\ AllDevices \subseteq Docs
    /\ \A u \in Uids : Devices(u) \subseteq AllDevices
    /\ \A d \in AllDevices : d \in Docs /\ d[1] \in DeviceIds /\ d[2] \in Uids
    /\ \A id \in DeviceIds, u \in Uids :
           <<id, u>> \in AllDevices /\ <<id, u>>[1] = id /\ <<id, u>>[2] = u
    /\ \A d \in UserDocs : d[2] \in Uids
  BY RegistryAssumption DEF UserDocs, AllDevices, Devices, Docs

(* Device documents have one field here: a merge leaves what it says too. *)
LEMMA WriteFields ==
    ASSUME NEW w \in Writes
    PROVE  /\ w.doc \in AllDevices /\ w.data \in Contents /\ w.tag \in WriteTag
           /\ w.tag.doc = w.doc /\ (w.tag.kind = "deleted" => w.data = Absent)
           /\ w.tag.op \in Nat /\ w.tag.kind \in {"registered", "deleted", "named"}
           /\ \A doc \in Contents : Apply(w, doc) = w.data
<1>1. /\ w.doc \in AllDevices /\ w.data \in Contents /\ w.tag \in WriteTag
      /\ w.tag.doc = w.doc /\ (w.tag.kind = "deleted" => w.data = Absent)
      /\ w.merge \in BOOLEAN
      /\ w.merge => w.data # Absent
  BY DEF Writes
<1>2. w.tag.op \in Nat /\ w.tag.kind \in {"registered", "deleted", "named"}
  BY <1>1 DEF WriteTag
<1>3. ASSUME NEW doc \in Contents PROVE Apply(w, doc) = w.data
  <2>1. CASE w.merge /\ doc # Absent
    <3>1. PICK c, e \in Clients \cup {None} : w.data = Fields(c) /\ doc = Fields(e)
      BY <1>1, <2>1 DEF Contents
    <3>2. Merged(Fields(c), Fields(e)) = Fields(c)
      BY DEF Merged, Fields
    <3>3. QED
      BY <2>1, <3>1, <3>2 DEF Apply
  <2>2. CASE ~(w.merge /\ doc # Absent)
    BY <2>2 DEF Apply
  <2>3. QED
    BY <2>1, <2>2
<1>4. QED
  BY <1>1, <1>2, <1>3

(* A snapshot holds documents of its query only. *)
LEMMA SnapshotAnswer ==
    ASSUME StateInv, NEW c \in Clients, NEW D \in SUBSET Docs, NEW base \in [Docs -> Contents]
    PROVE  Snapshot(c, D, base) \in Answer /\ DOMAIN Snapshot(c, D, base) \subseteq D
<1>1. queue[c][user[c]] \in Seq(Writes)
  BY DEF StateInv
<1>2. \A i \in 1..Len(queue[c][user[c]]), x \in Contents : Apply(queue[c][user[c]][i], x) \in Contents
  BY <1>1, WriteFields
<1>3. ASSUME NEW d \in D PROVE LocalView(c, d, base[d]) \in Contents
  <2>1. base[d] \in Contents /\ Len(queue[c][user[c]]) \in Nat
    BY <1>1
  <2>2. QED
    BY <1>2, <2>1, LocalViewIn
<1> DEFINE v == [d \in D |-> LocalView(c, d, base[d])]
           E == {e \in D : v[e] # Absent}
<1>4. v \in [D -> Contents]
  BY <1>3
<1>5. Snapshot(c, D, base) = [d \in E |-> v[d]]
  BY DEF Snapshot
<1> HIDE DEF v
<1>6. E \in SUBSET Docs /\ [d \in E |-> v[d]] \in [E -> Contents]
  BY <1>4
<1>7. Snapshot(c, D, base) \in Answer
  BY <1>5, <1>6 DEF Answer
<1>8. QED
  BY <1>5, <1>7

-----------------------------------------------------------------------------
(* Queues of writes. *)

(* The same writes, whatever snapshots have seen of them. *)
SameWrites(p, q) ==
    /\ Len(p) = Len(q)
    /\ \A i \in 1..Len(q) : p[i].doc = q[i].doc /\ p[i].data = q[i].data /\ p[i].tag = q[i].tag

LEMMA MarkWrite ==
    ASSUME NEW w \in Writes, NEW b \in BOOLEAN
    PROVE  /\ [w EXCEPT !.seen = b] \in Writes
           /\ [w EXCEPT !.seen = b].doc = w.doc /\ [w EXCEPT !.seen = b].data = w.data
           /\ [w EXCEPT !.seen = b].tag = w.tag
  BY DEF Writes

LEMMA UnseenSame ==
    ASSUME NEW q \in Seq(Writes)
    PROVE  Unseen(q) \in Seq(Writes) /\ SameWrites(Unseen(q), q)
<1>1. Len(q) \in Nat /\ DOMAIN q = 1..Len(q) /\ \A i \in 1..Len(q) : q[i] \in Writes
  OBVIOUS
<1> DEFINE p == [i \in 1..Len(q) |-> [q[i] EXCEPT !.seen = FALSE]]
<1>2. Unseen(q) = p
  BY <1>1 DEF Unseen
<1>3. \A i \in 1..Len(q) : /\ p[i] \in Writes /\ p[i].doc = q[i].doc
                           /\ p[i].data = q[i].data /\ p[i].tag = q[i].tag
  BY <1>1, MarkWrite
<1>4. p = [i \in 1..Len(q) |-> p[i]]
  OBVIOUS
<1> HIDE DEF p
<1>5. p \in Seq(Writes) /\ Len(p) = Len(q)
  BY <1>1, <1>3, <1>4
<1>6. QED
  BY <1>2, <1>3, <1>5 DEF SameWrites

LEMMA SeenSame ==
    ASSUME NEW q \in Seq(Writes), NEW n, NEW D
    PROVE  Seen(q, n, D) \in Seq(Writes) /\ SameWrites(Seen(q, n, D), q)
<1>1. Len(q) \in Nat /\ DOMAIN q = 1..Len(q) /\ \A i \in 1..Len(q) : q[i] \in Writes
  OBVIOUS
<1> DEFINE b(i) == q[i].seen \/ (i <= n /\ q[i].doc \in D)
           p == [i \in 1..Len(q) |-> [q[i] EXCEPT !.seen = b(i)]]
<1>2. Seen(q, n, D) = p
  BY <1>1 DEF Seen
<1>3. ASSUME NEW i \in 1..Len(q)
      PROVE  /\ p[i] \in Writes /\ p[i].doc = q[i].doc
             /\ p[i].data = q[i].data /\ p[i].tag = q[i].tag
  <2>1. b(i) \in BOOLEAN
    OBVIOUS
  <2>2. p[i] = [q[i] EXCEPT !.seen = b(i)]
    OBVIOUS
  <2> HIDE DEF b
  <2>3. QED
    BY <1>1, <2>1, <2>2, MarkWrite
<1>4. p = [i \in 1..Len(q) |-> p[i]]
  OBVIOUS
<1> HIDE DEF p
<1>5. p \in Seq(Writes) /\ Len(p) = Len(q)
  BY <1>1, <1>3, <1>4
<1>6. QED
  BY <1>2, <1>3, <1>5 DEF SameWrites

-----------------------------------------------------------------------------
(* The type of the state.                                                    *)

(* A step that asks for no write, commits and acknowledges none, and         *)
(* announces nothing.                                                        *)
Quiet ==
    /\ UNCHANGED <<server, latest, deleted>>
    /\ \A c \in Clients, u \in Users : SameWrites(queue'[c][u], queue[c][u])
    /\ \A c \in Clients : (sent'[c] = sent[c] /\ user'[c] = user[c]) \/ sent'[c] = 0
    /\ \A c \in Clients : \A k \in 1..Len(calls'[c]) :
           calls'[c][k].tag.kind = "deleted" /\ calls'[c][k].ok =>
               \E j \in 1..Len(calls[c]) : calls[c][j] = calls'[c][k]

LEMMA SameItself == \A q : SameWrites(q, q)
  BY DEF SameWrites

LEMMA TypeInit == Init => StateInv
<1> SUFFICES ASSUME Init PROVE StateInv
  OBVIOUS
<1> USE DEF Init, FirestoreInit
<1>1. server \in [Docs -> Contents]
  BY DEF Contents
<1>2. cache \in [Clients -> [Docs -> Contents]]
  BY DEF Contents
<1>3. queue \in [Clients -> [Users -> Seq(Writes)]] /\ sent \in [Clients -> Nat]
  OBVIOUS
<1>4. user \in [Clients -> Users] /\ \A c \in Clients : sent[c] <= Len(Active(c))
  BY DEF Active, Users
<1>5. reads \in [Clients -> Seq(ListReads)] /\ calls \in [Clients -> Seq(Handlers)]
  OBVIOUS
<1>6. view \in [Clients -> Views]
  BY DEF Views, Closed, Scanners
<1>7. /\ appears \in Nat /\ scans \in 0..MaxScans /\ deletes \in 0..MaxDeletes
      /\ names \in 0..MaxNames /\ named \in [Clients -> SUBSET AllDevices]
      /\ latest \in [AllDevices -> 0..(scans + deletes + names)]
      /\ deleted \subseteq [row : AllDevices, doc : AllDevices]
  BY RegistryAssumption
<1>8. QED
  BY <1>1, <1>2, <1>3, <1>4, <1>5, <1>6, <1>7 DEF StateInv

(* Another user, or nobody: the queues keep their writes. *)
LEMMA QueueKept ==
    ASSUME StateInv, NEW c \in Clients, queue' = [queue EXCEPT ![c][user[c]] = Unseen(@)]
    PROVE  /\ queue' \in [Clients -> [Users -> Seq(Writes)]]
           /\ \A e \in Clients, u \in Users : SameWrites(queue'[e][u], queue[e][u])
<1> DEFINE q == Unseen(queue[c][user[c]])
<1>1. /\ queue \in [Clients -> [Users -> Seq(Writes)]] /\ user[c] \in Users
      /\ queue[c][user[c]] \in Seq(Writes)
  BY DEF StateInv
<1>2. q \in Seq(Writes) /\ SameWrites(q, queue[c][user[c]])
  BY <1>1, UnseenSame
<1>3. queue' = [queue EXCEPT ![c][user[c]] = q]
  BY <1>1
<1> HIDE DEF q
<1>4. /\ queue' \in [Clients -> [Users -> Seq(Writes)]] /\ queue'[c][user[c]] = q
      /\ \A e \in Clients, u \in Users : e # c \/ u # user[c] => queue'[e][u] = queue[e][u]
  BY <1>1, <1>2, <1>3, QueueUpdate
<1>5. QED
  BY <1>2, <1>4, SameItself

LEMMA CredentialStep ==
    ASSUME StateInv, NEW c \in Clients, NEW v \in Users, HandleCredentialChange(c, v),
           UNCHANGED <<server, cache, online, reads, calls, appVars>>
    PROVE  StateInv' /\ Quiet
<1> USE DEF HandleCredentialChange, appVars, counters
<1>1. /\ queue' \in [Clients -> [Users -> Seq(Writes)]]
      /\ \A e \in Clients, u \in Users : SameWrites(queue'[e][u], queue[e][u])
  BY QueueKept
<1>2. /\ user' \in [Clients -> Users] /\ sent' \in [Clients -> Nat]
      /\ sent'[c] = 0 /\ \A e \in Clients : e # c => sent'[e] = sent[e] /\ user'[e] = user[e]
  BY DEF StateInv
<1>3. ASSUME NEW e \in Clients PROVE sent'[e] <= Len(queue'[e][user'[e]])
  <2>1. queue'[e][user'[e]] \in Seq(Writes)
    BY <1>1, <1>2
  <2>2. CASE e = c
    BY <1>2, <2>1, <2>2
  <2>3. CASE e # c
    <3>1. Len(queue'[e][user'[e]]) = Len(queue[e][user[e]])
      BY <1>1, <1>2, <2>3 DEF SameWrites, StateInv
    <3>2. QED
      BY <1>2, <2>3, <3>1 DEF StateInv, Active
  <2>4. QED
    BY <2>2, <2>3
<1>4. StateInv'
  BY <1>1, <1>2, <1>3 DEF StateInv, Active
<1>5. Quiet
  BY <1>1, <1>2 DEF Quiet
<1>6. QED
  BY <1>4, <1>5

(* fetchDevices asks for the users. *)
LEMMA FetchReads ==
    ASSUME StateInv, NEW c \in Clients, NEW no \in Nat, FetchDevices(c, no)
    PROVE  reads' \in [Clients -> Seq(ListReads)]
<1> DEFINE r == Read(UserDocs, FALSE, FetchTag(no))
<1>1. FetchTag(no) \in ReadTag /\ FetchTag(no).kind = "users"
  BY DEF FetchTag, Tag, ReadTag
<1>2. r \in ListReads
  BY <1>1, Places DEF Read, ListReads, Collection
<1>3. reads' = [reads EXCEPT ![c] = Append(@, r)]
  BY DEF FetchDevices, GetDocuments
<1> HIDE DEF r
<1>4. QED
  BY <1>2, <1>3 DEF StateInv

(* A handler leaves the main queue. *)
LEMMA Popped ==
    ASSUME StateInv, NEW c \in Clients, calls[c] # <<>>, calls' = [calls EXCEPT ![c] = Tail(@)]
    PROVE  /\ calls' \in [Clients -> Seq(Handlers)]
           /\ Head(calls[c]) \in Handlers /\ Head(calls[c]) = calls[c][1] /\ 1 \in 1..Len(calls[c])
           /\ \A e \in Clients : \A k \in 1..Len(calls'[e]) :
                  \E j \in 1..Len(calls[e]) : calls[e][j] = calls'[e][k]
<1>1. calls \in [Clients -> Seq(Handlers)] /\ calls[c] \in Seq(Handlers)
  BY DEF StateInv
<1>2. /\ Tail(calls[c]) \in Seq(Handlers) /\ Head(calls[c]) \in Handlers
      /\ Head(calls[c]) = calls[c][1] /\ 1 \in 1..Len(calls[c])
      /\ \A i \in 1..Len(Tail(calls[c])) : i + 1 \in 1..Len(calls[c]) /\ Tail(calls[c])[i] = calls[c][i + 1]
  BY <1>1, TailElements
<1>3. /\ calls' \in [Clients -> Seq(Handlers)] /\ calls'[c] = Tail(calls[c])
      /\ \A e \in Clients : e # c => calls'[e] = calls[e]
  BY <1>1, <1>2
<1>4. ASSUME NEW e \in Clients, NEW k \in 1..Len(calls'[e])
      PROVE  \E j \in 1..Len(calls[e]) : calls[e][j] = calls'[e][k]
  <2>1. CASE e = c
    BY <1>2, <1>3, <2>1
  <2>2. CASE e # c
    BY <1>3, <2>2
  <2>3. QED
    BY <2>1, <2>2
<1>5. QED
  BY <1>2, <1>3, <1>4

(* Whose handler it is. *)
LEMMA HandlerKinds ==
    ASSUME NEW k \in Handlers
    PROVE  /\ k.tag.no \in Nat
           /\ k.tag.kind \in {"users", "devices"} =>
                  k.docs \in Answer /\ DOMAIN k.docs \subseteq Collection(k.tag.kind)
           /\ k.tag.kind \in {"registered", "deleted", "named"} => k.tag \in WriteTag
<1>1. CASE k \in ListCalls
  BY <1>1 DEF ListCalls, ReadTag
<1>2. CASE k \in WriteCalls
  BY <1>2 DEF WriteCalls, WriteTag
<1>3. QED
  BY <1>1, <1>2 DEF Handlers

(* The view changes and nothing else. *)
LEMMA ViewStep ==
    ASSUME StateInv, NEW c \in Clients, CloseView(c) \/ OpenScanner(c) \/ ScannerOff(c)
    PROVE  StateInv' /\ Quiet
<1>1. UNCHANGED <<server, cache, queue, sent, user, reads, calls, counters, latest, deleted, named>>
  BY DEF CloseView, OpenScanner, ScannerOff, fsVars
<1>2. view' \in [Clients -> Views]
  <2>1. view \in [Clients -> Views]
    BY DEF StateInv
  <2>2. CASE CloseView(c)
    BY <2>1, <2>2 DEF CloseView, Closed, Views, Scanners
  <2>3. CASE OpenScanner(c)
    BY <2>1, <2>3 DEF OpenScanner, Views, Scanners
  <2>4. CASE ScannerOff(c)
    BY <2>1, <2>4 DEF ScannerOff, Views, Scanners
  <2>5. QED
    BY <2>2, <2>3, <2>4
<1>3. StateInv'
  BY <1>1, <1>2 DEF StateInv, Active, counters
<1>4. Quiet
  BY <1>1, SameItself DEF Quiet
<1>5. QED
  BY <1>3, <1>4

LEMMA AppearStep ==
    ASSUME StateInv, NEW c \in Clients, Appear(c)
    PROVE  StateInv' /\ Quiet
<1>1. /\ UNCHANGED <<server, cache, queue, sent, user, calls, scans, deletes, names, latest, deleted, named>>
      /\ appears' = appears + 1 /\ FetchDevices(c, view'[c].no)
      /\ view' = IF view[c].open THEN view
                 ELSE [view EXCEPT ![c].open = TRUE, ![c].no = appears + 1]
  BY DEF Appear
<1>2. view' \in [Clients -> Views]
  <2>1. view \in [Clients -> Views] /\ appears + 1 \in Nat
    BY DEF StateInv
  <2>2. CASE view[c].open
    BY <1>1, <2>1, <2>2
  <2>3. CASE ~view[c].open
    <3> DEFINE new == [view[c] EXCEPT !.open = TRUE]
    <3>1. new \in Views
      BY <2>1 DEF Views
    <3>2. view' = [view EXCEPT ![c] = [new EXCEPT !.no = appears + 1]]
      BY <1>1, <2>1, <2>3
    <3> HIDE DEF new
    <3>3. [new EXCEPT !.no = appears + 1] \in Views
      BY <2>1, <3>1 DEF Views
    <3>4. QED
      BY <2>1, <3>2, <3>3
  <2>4. QED
    BY <2>2, <2>3
<1>3. reads' \in [Clients -> Seq(ListReads)]
  <2>1. view'[c].no \in Nat
    BY <1>2 DEF Views
  <2>2. QED
    BY <1>1, <2>1, FetchReads
<1>4. StateInv'
  BY <1>1, <1>2, <1>3, SMTT(30) DEF StateInv, Active
<1>5. Quiet
  BY <1>1, SameItself DEF Quiet
<1>6. QED
  BY <1>4, <1>5

(* registerDevice with nobody signed in. *)
LEMMA IdleScanStep ==
    ASSUME StateInv, NEW c \in Clients, NEW id \in DeviceIds, Scan(c, id), user[c] = None
    PROVE  StateInv' /\ Quiet
<1>1. /\ UNCHANGED <<server, cache, queue, sent, user, reads, calls, appears, deletes, names, latest, deleted, named>>
      /\ scans < MaxScans /\ scans' = scans + 1
      /\ view' = [view EXCEPT ![c].scanner = "closing"]
  BY DEF Scan
<1>2. view' \in [Clients -> Views]
  BY <1>1 DEF StateInv, Views, Scanners
<1>3. scans' \in 0..MaxScans /\ latest' \in [AllDevices -> 0..(scans' + deletes' + names')]
  <2>1. /\ MaxScans \in Nat /\ MaxDeletes \in Nat /\ MaxNames \in Nat
        /\ scans \in 0..MaxScans /\ deletes \in 0..MaxDeletes /\ names \in 0..MaxNames
        /\ latest \in [AllDevices -> 0..(scans + deletes + names)]
    BY RegistryAssumption DEF StateInv
  <2>2. \A n : n \in 0..(scans + deletes + names) => n \in 0..(scans' + deletes' + names')
    BY <1>1, <2>1
  <2>3. QED
    BY <1>1, <2>1, <2>2
<1>4. StateInv'
  BY <1>1, <1>2, <1>3 DEF StateInv, Active
<1>5. Quiet
  BY <1>1, SameItself DEF Quiet
<1>6. QED
  BY <1>4, <1>5

(* A write is asked for: it is the last of the user's queue. *)
LEMMA AskedWrite ==
    ASSUME StateInv, NEW c \in Clients, NEW d \in AllDevices, NEW data \in Contents,
           NEW merge \in BOOLEAN, merge => data # Absent, NEW tag \in WriteTag, tag.doc = d, tag.kind = "deleted" => data = Absent,
           SetData(c, d, data, merge, tag)
    PROVE  /\ queue' \in [Clients -> [Users -> Seq(Writes)]]
           /\ queue'[c][user[c]] = Append(queue[c][user[c]], Write(d, data, merge, tag))
           /\ Write(d, data, merge, tag) \in Writes
           /\ \A e \in Clients, u \in Users : e # c \/ u # user[c] => queue'[e][u] = queue[e][u]
<1> DEFINE w == Write(d, data, merge, tag)
           q == Append(queue[c][user[c]], w)
<1>1. w \in Writes
  BY DEF Write, Writes
<1>2. /\ queue \in [Clients -> [Users -> Seq(Writes)]] /\ user[c] \in Users
      /\ queue[c][user[c]] \in Seq(Writes)
  BY DEF StateInv
<1>3. queue' = [queue EXCEPT ![c][user[c]] = q]
  BY <1>2 DEF SetData
<1> HIDE DEF w
<1>4. q \in Seq(Writes)
  BY <1>1, <1>2
<1> HIDE DEF q
<1>5. /\ queue' \in [Clients -> [Users -> Seq(Writes)]] /\ queue'[c][user[c]] = q
      /\ \A e \in Clients, u \in Users : e # c \/ u # user[c] => queue'[e][u] = queue[e][u]
  BY <1>2, <1>3, <1>4, QueueUpdate
<1>6. QED
  BY <1>1, <1>5 DEF q, w

(* The request of a step that asks for a write of d. *)
Requested(c, d, data, merge, tag) ==
    /\ tag \in WriteTag /\ tag.doc = d /\ (tag.kind = "deleted" => data = Absent)
    /\ tag.op = scans + deletes + names + 1 /\ data \in Contents
    /\ merge \in BOOLEAN /\ (merge => data # Absent)
    /\ d \in AllDevices /\ d[2] = user[c]
    /\ SetData(c, d, data, merge, tag)
    /\ latest' = [latest EXCEPT ![d] = scans + deletes + names + 1]
    /\ scans' + deletes' + names' = scans + deletes + names + 1
    /\ UNCHANGED <<server, cache, sent, user, reads, calls, appears>>

(* Its handler will read the list of c again. *)
Renewal(c, tag) == tag.kind # "named" /\ tag.no = view[c].no

LEMMA ScanRequests ==
    ASSUME StateInv, NEW c \in Clients, NEW id \in DeviceIds, Scan(c, id), user[c] # None
    PROVE  \E tag : /\ Requested(c, <<id, user[c]>>, Fields(c), FALSE, tag) /\ Renewal(c, tag)'
                    /\ deleted' = {e \in deleted : <<id, user[c]>> \notin {e.row, e.doc}}
<1> DEFINE d == <<id, user[c]>>
           tag == Tag("registered", view[c].no, scans + deletes + names + 1, d, d)
<1>1. d \in AllDevices /\ d[2] = user[c] /\ Fields(c) \in Contents
  BY Places DEF StateInv, Users, Contents
<1>2. /\ SetData(c, d, Fields(c), FALSE, tag)
      /\ latest' = [latest EXCEPT ![d] = scans + deletes + names + 1]
      /\ deleted' = {e \in deleted : d \notin {e.row, e.doc}}
      /\ scans' = scans + 1
      /\ UNCHANGED <<server, cache, sent, user, reads, calls, appears, deletes, names>>
  BY DEF Scan, NextOp
<1>3. view[c].no \in Nat /\ scans \in Nat /\ deletes \in Nat /\ names \in Nat
  BY RegistryAssumption DEF StateInv, Views
<1> HIDE DEF d
<1>4. /\ tag \in WriteTag /\ tag.doc = d /\ tag.kind = "registered"
      /\ tag.op = scans + deletes + names + 1 /\ tag.no = view[c].no
  BY <1>1, <1>3 DEF Tag, WriteTag
<1> HIDE DEF tag
<1>5. scans' + deletes' + names' = scans + deletes + names + 1
  BY <1>2, <1>3
<1>6. view'[c].no = view[c].no
  BY DEF StateInv, Views, Scan
<1>7. Requested(c, d, Fields(c), FALSE, tag)
  BY <1>1, <1>2, <1>4, <1>5 DEF Requested
<1>8. PICK t : t = tag
  OBVIOUS
<1>9. Renewal(c, t)'
  BY <1>4, <1>6, <1>8 DEF Renewal
<1>10. QED
  BY <1>2, <1>7, <1>8, <1>9 DEF d

LEMMA DeleteRequests ==
    ASSUME StateInv, NEW c \in Clients, NEW row \in AllDevices, TapDelete(c, row)
    PROVE  \E d, tag : /\ Requested(c, d, Absent, FALSE, tag) /\ Renewal(c, tag)'
                       /\ UNCHANGED deleted
<1> DEFINE d == <<row[1], user[c]>>
           tag == Tag("deleted", view[c].no, scans + deletes + names + 1, row, d)
<1>1. d \in AllDevices /\ d[2] = user[c] /\ Absent \in Contents
  BY Places DEF StateInv, Users, Contents, TapDelete
<1>2. /\ SetData(c, d, Absent, FALSE, tag)
      /\ latest' = [latest EXCEPT ![d] = scans + deletes + names + 1]
      /\ deletes' = deletes + 1
      /\ UNCHANGED <<server, cache, sent, user, reads, calls, appears, scans, names, deleted>>
  BY DEF TapDelete, Delete, NextOp
<1>3. view[c].no \in Nat /\ scans \in Nat /\ deletes \in Nat /\ names \in Nat
  BY RegistryAssumption DEF StateInv, Views
<1> HIDE DEF d
<1>4. /\ tag \in WriteTag /\ tag.doc = d /\ tag.op = scans + deletes + names + 1
      /\ tag.no = view[c].no /\ tag.kind = "deleted"
  BY <1>1, <1>3 DEF Tag, WriteTag
<1> HIDE DEF tag
<1>5. scans' + deletes' + names' = scans + deletes + names + 1
  BY <1>2, <1>3
<1>6. Requested(c, d, Absent, FALSE, tag)
  BY <1>1, <1>2, <1>4, <1>5 DEF Requested
<1>7. PICK t : t = tag
  OBVIOUS
<1>8. Renewal(c, t)'
  BY <1>4, <1>7 DEF Renewal, TapDelete
<1>9. QED
  BY <1>2, <1>6, <1>7, <1>8

LEMMA NameRequests ==
    ASSUME StateInv, NEW c \in Clients, UpdateDeviceName(c)
    PROVE  \E tag : /\ Requested(c, <<c, user[c]>>, Fields(c), TRUE, tag)
                    /\ deleted' = {e \in deleted : <<c, user[c]>> \notin {e.row, e.doc}}
                    /\ named' = [named EXCEPT ![c] = @ \cup {<<c, user[c]>>}]
<1> DEFINE d == <<c, user[c]>>
           tag == Tag("named", 0, scans + deletes + names + 1, d, d)
<1>1. /\ d \in AllDevices /\ d[2] = user[c] /\ Fields(c) \in Contents /\ Fields(c) # Absent
  BY Places, RegistryAssumption, ValueAssumption DEF StateInv, Users, Contents, UpdateDeviceName
<1>2. /\ SetData(c, d, Fields(c), TRUE, tag)
      /\ latest' = [latest EXCEPT ![d] = scans + deletes + names + 1]
      /\ deleted' = {e \in deleted : d \notin {e.row, e.doc}}
      /\ named' = [named EXCEPT ![c] = @ \cup {d}]
      /\ names' = names + 1
      /\ UNCHANGED <<server, cache, sent, user, reads, calls, appears, scans, deletes>>
  BY DEF UpdateDeviceName, NextOp
<1>3. scans \in Nat /\ deletes \in Nat /\ names \in Nat
  BY RegistryAssumption DEF StateInv
<1> HIDE DEF d
<1>4. /\ tag \in WriteTag /\ tag.doc = d /\ tag.op = scans + deletes + names + 1
      /\ tag.kind = "named"
  BY <1>1, <1>3 DEF Tag, WriteTag
<1> HIDE DEF tag
<1>5. scans' + deletes' + names' = scans + deletes + names + 1
  BY <1>2, <1>3
<1>6. Requested(c, d, Fields(c), TRUE, tag)
  BY <1>1, <1>2, <1>4, <1>5 DEF Requested
<1>7. QED
  BY <1>2, <1>6 DEF d

LEMMA RequestType ==
    ASSUME StateInv, NEW c \in Clients, NEW d, NEW data, NEW merge, NEW tag, Requested(c, d, data, merge, tag),
           view' \in [Clients -> Views], scans' \in 0..MaxScans, deletes' \in 0..MaxDeletes,
           names' \in 0..MaxNames, named' \in [Clients -> SUBSET AllDevices],
           deleted' \subseteq deleted
    PROVE  StateInv'
<1>1. /\ queue' \in [Clients -> [Users -> Seq(Writes)]]
      /\ queue'[c][user[c]] = Append(queue[c][user[c]], Write(d, data, merge, tag))
      /\ Write(d, data, merge, tag) \in Writes
      /\ \A e \in Clients, u \in Users : e # c \/ u # user[c] => queue'[e][u] = queue[e][u]
  BY AskedWrite DEF Requested
<1>2. /\ sent' = sent /\ user' = user /\ scans' + deletes' + names' = scans + deletes + names + 1
      /\ latest' = [latest EXCEPT ![d] = scans + deletes + names + 1] /\ d \in AllDevices
  BY DEF Requested
<1>3. ASSUME NEW e \in Clients PROVE sent'[e] <= Len(queue'[e][user'[e]])
  <2>1. queue[e][user[e]] \in Seq(Writes) /\ user[e] \in Users /\ sent[e] <= Len(queue[e][user[e]])
        /\ sent[e] \in Nat
    BY DEF StateInv, Active
  <2>2. CASE e = c
    <3>1. queue'[e][user'[e]] = Append(queue[e][user[e]], Write(d, data, merge, tag))
      BY <1>1, <1>2, <2>2
    <3>2. Len(Append(queue[e][user[e]], Write(d, data, merge, tag))) = Len(queue[e][user[e]]) + 1
      BY <1>1, <2>1
    <3>3. Len(queue[e][user[e]]) \in Nat
      BY <2>1
    <3>4. sent[e] <= Len(queue[e][user[e]]) + 1
      BY <2>1, <3>3
    <3>5. QED
      BY <1>2, <3>1, <3>2, <3>4
  <2>3. CASE e # c
    BY <1>1, <1>2, <2>1, <2>3
  <2>4. QED
    BY <2>2, <2>3
<1>4. latest' \in [AllDevices -> 0..(scans' + deletes' + names')]
  <2>1. scans \in Nat /\ deletes \in Nat /\ names \in Nat /\ latest \in [AllDevices -> 0..(scans + deletes + names)]
    BY RegistryAssumption DEF StateInv
  <2> DEFINE n == scans + deletes + names + 1
             N == 0..n
  <2>2. n \in N /\ 0..(scans + deletes + names) \subseteq N
    BY <2>1
  <2>3. scans' + deletes' + names' = n
    BY <1>2
  <2>4. latest \in [AllDevices -> N] /\ latest' = [latest EXCEPT ![d] = n]
    BY <1>2, <2>1, <2>2
  <2> HIDE DEF n
  <2>5. latest' \in [AllDevices -> N]
    BY <2>2, <2>4
  <2>6. QED
    BY <2>3, <2>5
<1>5. QED
  BY <1>1, <1>2, <1>3, <1>4 DEF StateInv, Requested, Active

(* fetchDevices, first handler: the devices of the users are asked for. *)
AsksDevices(c, no, users, new) ==
    /\ new \in Seq(ListReads) /\ Len(users) \in Nat /\ Len(new) = Len(users)
    /\ reads' = [reads EXCEPT ![c] = @ \o new]
    /\ \A i \in 1..Len(users) :
           /\ users[i] \in UserDocs
           /\ new[i] = Read(Devices(users[i][2]), FALSE, Tag("devices", no, 0, None, None))

LEMMA UserDocsFinite == IsFiniteSet(UserDocs)
<1>1. IsFiniteSet({ProfilePath})
  BY FS_Singleton
<1>2. QED
  BY <1>1, RegistryAssumption, FS_Product DEF UserDocs

LEMMA UsersAsked ==
    ASSUME StateInv, NEW c \in Clients, RunUsers(c), NEW call, call = Head(calls[c])
    PROVE  \E users \in SetToSeqs(DOMAIN call.docs) : \E new : AsksDevices(c, call.tag.no, users, new)
<1>1. /\ calls[c] # <<>> /\ call.tag.kind = "users" /\ calls' = [calls EXCEPT ![c] = Tail(@)]
  BY DEF RunUsers, NextCall
<1>2. PICK users \in SetToSeqs(DOMAIN call.docs) :
         reads' = [reads EXCEPT ![c] =
                      @ \o [i \in 1..Len(users) |->
                               Read(Devices(users[i][2]), FALSE,
                                    Tag("devices", call.tag.no, 0, None, None))]]
  BY DEF RunUsers
<1>3. call \in Handlers
  BY <1>1, Popped
<1>4. DOMAIN call.docs \subseteq UserDocs /\ call.tag.no \in Nat
  BY <1>1, <1>3, HandlerKinds DEF Collection
<1>5. Len(users) \in Nat /\ \A i \in 1..Len(users) : users[i] \in UserDocs
  <2>1. IsFiniteSet(DOMAIN call.docs)
    BY <1>4, UserDocsFinite, FS_Subset
  <2>2. Cardinality(DOMAIN call.docs) \in Nat
    BY <2>1, FS_CardinalityType
  <2>3. users \in [1..Cardinality(DOMAIN call.docs) -> DOMAIN call.docs]
    BY DEF SetToSeqs
  <2>4. QED
    BY <1>4, <2>2, <2>3
<1> DEFINE tag == Tag("devices", call.tag.no, 0, None, None)
           new == [i \in 1..Len(users) |-> Read(Devices(users[i][2]), FALSE, tag)]
<1>6. tag \in ReadTag /\ tag.kind = "devices"
  BY <1>4 DEF Tag, ReadTag
<1> HIDE DEF tag
<1>7. ASSUME NEW i \in 1..Len(users)
      PROVE  Read(Devices(users[i][2]), FALSE, tag) \in ListReads
  <2>1. Devices(users[i][2]) \subseteq AllDevices /\ AllDevices \subseteq Docs
    BY <1>5, Places
  <2>2. QED
    BY <1>6, <2>1 DEF Read, ListReads, Collection
<1>8. /\ \A i \in 1..Len(users) : new[i] = Read(Devices(users[i][2]), FALSE, tag)
      /\ new = [i \in 1..Len(users) |-> new[i]]
  OBVIOUS
<1>9. reads' = [reads EXCEPT ![c] = @ \o new]
  BY <1>2 DEF tag
<1> HIDE DEF new
<1>10. new \in Seq(ListReads) /\ Len(new) = Len(users)
  <2>1. \A i \in 1..Len(users) : new[i] \in ListReads
    BY <1>7, <1>8
  <2>2. new = [i \in 1..Len(users) |-> new[i]]
    BY <1>8
  <2>3. QED
    BY <1>5, <2>1, <2>2
<1>11. AsksDevices(c, call.tag.no, users, new)
  BY <1>5, <1>8, <1>9, <1>10 DEF AsksDevices, tag
<1>12. QED
  BY <1>11

(* Handlers of reads. *)
LEMMA RunUsersStep ==
    ASSUME StateInv, NEW c \in Clients, RunUsers(c)
    PROVE  StateInv' /\ Quiet
<1> DEFINE call == Head(calls[c])
<1>1. /\ calls[c] # <<>> /\ call.tag.kind = "users"
      /\ calls' = [calls EXCEPT ![c] = Tail(@)]
      /\ UNCHANGED <<server, cache, queue, sent, user, counters, latest, deleted>>
      /\ view' = IF call.ok /\ Asked(c, call) THEN [view EXCEPT ![c].rows = {}] ELSE view
      /\ named' \in {named, [named EXCEPT ![c] = {}]}
  BY DEF RunUsers, NextCall
<1>2. /\ calls' \in [Clients -> Seq(Handlers)]
      /\ \A e \in Clients : \A k \in 1..Len(calls'[e]) :
             \E j \in 1..Len(calls[e]) : calls[e][j] = calls'[e][k]
  BY <1>1, Popped
<1> HIDE DEF call
<1>3. PICK users, new : AsksDevices(c, call.tag.no, users, new)
  BY UsersAsked DEF call
<1>4. reads' \in [Clients -> Seq(ListReads)]
  <2>1. reads' = [reads EXCEPT ![c] = @ \o new] /\ new \in Seq(ListReads)
    BY <1>3 DEF AsksDevices
  <2>2. reads[c] \o new \in Seq(ListReads)
    BY <2>1 DEF StateInv
  <2>3. QED
    BY <2>1, <2>2 DEF StateInv
<1>5. view' \in [Clients -> Views]
  <2>1. view \in [Clients -> Views] /\ [view[c] EXCEPT !.rows = {}] \in Views
    BY DEF StateInv, Views
  <2>2. QED
    BY <1>1, <2>1
<1>6. named' \in [Clients -> SUBSET AllDevices]
  BY <1>1 DEF StateInv
<1>7. StateInv'
  BY <1>1, <1>2, <1>4, <1>5, <1>6 DEF StateInv, Active, counters
<1>8. Quiet
  BY <1>1, <1>2, SameItself DEF Quiet
<1>9. QED
  BY <1>7, <1>8

LEMMA RunDevicesStep ==
    ASSUME StateInv, NEW c \in Clients, RunDevices(c)
    PROVE  StateInv' /\ Quiet
<1> DEFINE call == Head(calls[c])
<1>1. /\ calls[c] # <<>> /\ call.tag.kind = "devices"
      /\ calls' = [calls EXCEPT ![c] = Tail(@)]
      /\ UNCHANGED <<server, cache, queue, sent, user, reads, counters, latest, deleted, named>>
      /\ view' = IF Asked(c, call) THEN [view EXCEPT ![c].rows = @ \cup DOMAIN call.docs] ELSE view
  BY DEF RunDevices, NextCall
<1>2. /\ calls' \in [Clients -> Seq(Handlers)] /\ call \in Handlers
      /\ \A e \in Clients : \A k \in 1..Len(calls'[e]) :
             \E j \in 1..Len(calls[e]) : calls[e][j] = calls'[e][k]
  BY <1>1, Popped
<1> HIDE DEF call
<1>3. DOMAIN call.docs \subseteq AllDevices
  BY <1>1, <1>2, HandlerKinds DEF Collection
<1>4. view' \in [Clients -> Views]
  <2> DEFINE rows == view[c].rows \cup DOMAIN call.docs
  <2>1. view \in [Clients -> Views] /\ rows \in SUBSET AllDevices
    BY <1>3 DEF StateInv, Views
  <2>2. view' = view \/ view' = [view EXCEPT ![c].rows = rows]
    BY <1>1
  <2> HIDE DEF rows
  <2>3. [view[c] EXCEPT !.rows = rows] \in Views
    BY <2>1 DEF Views
  <2>4. QED
    BY <2>1, <2>2, <2>3
<1>5. StateInv'
  BY <1>1, <1>2, <1>4 DEF StateInv, Active, counters
<1>6. Quiet
  BY <1>1, <1>2, SameItself DEF Quiet
<1>7. QED
  BY <1>5, <1>6

(* Handlers of writes; a deletion that is reported is dealt with below. *)
LEMMA RunWriteStep ==
    ASSUME StateInv, NEW c \in Clients, RunRegistered(c) \/ RunDeleted(c)
    PROVE  /\ StateInv'
           /\ Quiet \/ /\ RunDeleted(c) /\ Head(calls[c]).ok
                       /\ deleted' = Announced(Head(calls[c]).tag)
<1> DEFINE call == Head(calls[c])
<1>1. /\ calls[c] # <<>> /\ call.tag.kind \in {"registered", "deleted"}
      /\ calls' = [calls EXCEPT ![c] = Tail(@)]
      /\ UNCHANGED <<server, cache, queue, sent, user, view, counters, latest, named>>
      /\ FetchDevices(c, call.tag.no) \/ reads' = reads
  BY DEF RunRegistered, RunDeleted, NextCall, appVars
<1>2. \/ deleted' = deleted
      \/ RunDeleted(c) /\ call.ok /\ deleted' = Announced(call.tag)
  BY DEF RunRegistered, RunDeleted, appVars
<1>3. /\ calls' \in [Clients -> Seq(Handlers)] /\ call \in Handlers
      /\ \A e \in Clients : \A k \in 1..Len(calls'[e]) :
             \E j \in 1..Len(calls[e]) : calls[e][j] = calls'[e][k]
  BY <1>1, Popped
<1> HIDE DEF call
<1>4. call.tag.no \in Nat /\ call.tag \in WriteTag
  BY <1>1, <1>3, HandlerKinds
<1>5. reads' \in [Clients -> Seq(ListReads)]
  <2>1. CASE FetchDevices(c, call.tag.no)
    BY <1>4, <2>1, FetchReads
  <2>2. CASE reads' = reads
    BY <2>2 DEF StateInv
  <2>3. QED
    BY <1>1, <2>1, <2>2
<1>6. deleted' \subseteq [row : AllDevices, doc : AllDevices]
  <2>1. [row |-> call.tag.row, doc |-> call.tag.doc] \in [row : AllDevices, doc : AllDevices]
    BY <1>4 DEF WriteTag
  <2>2. Announced(call.tag) \subseteq [row : AllDevices, doc : AllDevices]
    BY <2>1 DEF Announced, StateInv
  <2>3. QED
    BY <1>2, <2>2 DEF StateInv
<1>7. StateInv'
  BY <1>1, <1>3, <1>5, <1>6 DEF StateInv, Active, counters
<1>8. CASE deleted' = deleted
  <2>1. Quiet
    BY <1>1, <1>3, <1>8, SameItself DEF Quiet
  <2>2. QED
    BY <1>7, <2>1
<1>9. QED
  BY <1>2, <1>7, <1>8 DEF call

LEMMA RunNamedStep ==
    ASSUME StateInv, NEW c \in Clients, RunNamed(c)
    PROVE  StateInv' /\ Quiet
<1>1. /\ calls[c] # <<>> /\ calls' = [calls EXCEPT ![c] = Tail(@)]
      /\ UNCHANGED <<server, cache, queue, sent, user, reads, view, counters, latest, deleted, named>>
  BY DEF RunNamed, NextCall, appVars
<1>2. /\ calls' \in [Clients -> Seq(Handlers)]
      /\ \A e \in Clients : \A k \in 1..Len(calls'[e]) :
             \E j \in 1..Len(calls[e]) : calls[e][j] = calls'[e][k]
  BY <1>1, Popped
<1>3. StateInv'
  BY <1>1, <1>2 DEF StateInv, Active, counters
<1>4. Quiet
  BY <1>1, <1>2, SameItself DEF Quiet
<1>5. QED
  BY <1>3, <1>4

-----------------------------------------------------------------------------
(* Steps of the SDK. *)

(* Who asks for a write, and the counters. *)
LEMMA ScanStep ==
    ASSUME StateInv, NEW c \in Clients, NEW id \in DeviceIds, Scan(c, id), user[c] # None
    PROVE  StateInv'
<1>1. /\ scans < MaxScans /\ scans' = scans + 1 /\ UNCHANGED <<deletes, names, named>>
      /\ view' = [view EXCEPT ![c].scanner = "closing"]
  BY DEF Scan
<1>2. view' \in [Clients -> Views]
  BY <1>1 DEF StateInv, Views, Scanners
<1>3. /\ scans' \in 0..MaxScans /\ deletes' \in 0..MaxDeletes /\ names' \in 0..MaxNames
      /\ named' \in [Clients -> SUBSET AllDevices]
  BY <1>1, RegistryAssumption DEF StateInv
<1>4. PICK tag : /\ Requested(c, <<id, user[c]>>, Fields(c), FALSE, tag)
                 /\ deleted' = {e \in deleted : <<id, user[c]>> \notin {e.row, e.doc}}
  BY ScanRequests
<1>5. deleted' \subseteq deleted
  BY <1>4
<1>6. QED
  BY <1>2, <1>3, <1>4, <1>5, RequestType

LEMMA TapDeleteStep ==
    ASSUME StateInv, NEW c \in Clients, NEW row \in AllDevices, TapDelete(c, row)
    PROVE  StateInv'
<1>1. /\ deletes < MaxDeletes /\ deletes' = deletes + 1
      /\ UNCHANGED <<scans, names, named, view>>
  BY DEF TapDelete
<1>2. view' \in [Clients -> Views]
  BY <1>1 DEF StateInv
<1>3. /\ scans' \in 0..MaxScans /\ deletes' \in 0..MaxDeletes /\ names' \in 0..MaxNames
      /\ named' \in [Clients -> SUBSET AllDevices]
  BY <1>1, RegistryAssumption DEF StateInv
<1>4. PICK d, tag : Requested(c, d, Absent, FALSE, tag) /\ UNCHANGED deleted
  BY DeleteRequests
<1>5. QED
  BY <1>2, <1>3, <1>4, RequestType

LEMMA NameStep ==
    ASSUME StateInv, NEW c \in Clients, UpdateDeviceName(c)
    PROVE  StateInv'
<1>1. /\ names < MaxNames /\ names' = names + 1 /\ UNCHANGED <<scans, deletes, view>>
  BY DEF UpdateDeviceName
<1>2. PICK tag : /\ Requested(c, <<c, user[c]>>, Fields(c), TRUE, tag)
                 /\ deleted' = {e \in deleted : <<c, user[c]>> \notin {e.row, e.doc}}
                 /\ named' = [named EXCEPT ![c] = @ \cup {<<c, user[c]>>}]
  BY NameRequests
<1>3. /\ scans' \in 0..MaxScans /\ deletes' \in 0..MaxDeletes /\ names' \in 0..MaxNames
      /\ view' \in [Clients -> Views]
  BY <1>1, RegistryAssumption DEF StateInv
<1>4. named' \in [Clients -> SUBSET AllDevices]
  <2>1. <<c, user[c]>> \in AllDevices
    BY <1>2 DEF Requested
  <2>2. named \in [Clients -> SUBSET AllDevices]
    BY DEF StateInv
  <2>3. named[c] \cup {<<c, user[c]>>} \in SUBSET AllDevices
    BY <2>1, <2>2
  <2>4. QED
    BY <1>2, <2>2, <2>3
<1>5. deleted' \subseteq deleted
  BY <1>2
<1>6. QED
  BY <1>2, <1>3, <1>4, <1>5, RequestType

LEMMA CommitStep ==
    ASSUME StateInv, NEW c \in Clients, Commit(c), UNCHANGED appVars
    PROVE  /\ StateInv'
           /\ sent[c] + 1 \in 1..Len(Active(c)) /\ Active(c)[sent[c] + 1] \in Writes
           /\ server' = [server EXCEPT ![Active(c)[sent[c] + 1].doc] = Active(c)[sent[c] + 1].data]
           /\ sent' = [sent EXCEPT ![c] = sent[c] + 1]
<1> DEFINE w == Active(c)[sent[c] + 1]
<1>1. /\ sent[c] < Len(Active(c)) /\ server' = [server EXCEPT ![w.doc] = Apply(w, @)]
      /\ sent' = [sent EXCEPT ![c] = @ + 1]
      /\ UNCHANGED <<cache, queue, user, reads, calls, view, appears, scans, deletes, names, latest, deleted, named>>
  BY DEF Commit, appVars, counters
<1>2. /\ Active(c) \in Seq(Writes) /\ sent[c] \in Nat /\ Len(Active(c)) \in Nat
  BY DEF StateInv, Active
<1>3. sent[c] + 1 \in 1..Len(Active(c)) /\ w \in Writes
  BY <1>1, <1>2
<1> HIDE DEF w
<1>4. w.doc \in Docs /\ w.data \in Contents /\ \A doc \in Contents : Apply(w, doc) = w.data
  BY <1>3, WriteFields, Places
<1>5. server \in [Docs -> Contents] /\ server' = [server EXCEPT ![w.doc] = w.data]
  BY <1>1, <1>4 DEF StateInv
<1>6. server' \in [Docs -> Contents]
  BY <1>4, <1>5
<1>7. sent' \in [Clients -> Nat] /\ \A e \in Clients : sent'[e] <= Len(queue'[e][user'[e]])
  BY <1>1, <1>2 DEF StateInv, Active
<1>8. StateInv'
  BY <1>1, <1>6, <1>7 DEF StateInv, Active
<1>9. sent' = [sent EXCEPT ![c] = sent[c] + 1]
  BY <1>1
<1>10. QED
  BY <1>3, <1>5, <1>8, <1>9 DEF w

(* The oldest write leaves the queue and its handler, if any, is called. *)
Left(c, ok) ==
    /\ Active(c) # <<>>
    /\ queue' = [queue EXCEPT ![c][user[c]] = Tail(queue[c][user[c]])]
    /\ \/ calls' = calls
       \/ calls' = [calls EXCEPT ![c] = Append(calls[c], WriteCall(Head(Active(c)).tag, ok))]
    /\ UNCHANGED <<server, user, reads, view, appears, scans, deletes, names, latest, deleted, named>>

LEMMA LeftType ==
    ASSUME StateInv, NEW c \in Clients, NEW ok \in BOOLEAN, Left(c, ok)
    PROVE  /\ queue' \in [Clients -> [Users -> Seq(Writes)]]
           /\ queue'[c][user[c]] = Tail(queue[c][user[c]])
           /\ \A e \in Clients, u \in Users : e # c \/ u # user[c] => queue'[e][u] = queue[e][u]
           /\ calls' \in [Clients -> Seq(Handlers)]
           /\ Head(Active(c)) \in Writes /\ Head(Active(c)) = Active(c)[1]
           /\ Len(Active(c)) \in Nat /\ 1 \in 1..Len(Active(c))
           /\ Len(queue'[c][user[c]]) = Len(Active(c)) - 1
           /\ \A i \in 1..Len(queue'[c][user[c]]) :
                  i + 1 \in 1..Len(Active(c)) /\ queue'[c][user[c]][i] = Active(c)[i + 1]
<1> DEFINE q == queue[c][user[c]]
           t == Tail(q)
           k == WriteCall(Head(Active(c)).tag, ok)
<1>1. /\ queue \in [Clients -> [Users -> Seq(Writes)]] /\ user[c] \in Users /\ q \in Seq(Writes)
      /\ q # <<>> /\ Active(c) = q
  BY DEF StateInv, Active, Left
<1> HIDE DEF q
<1>2. /\ t \in Seq(Writes) /\ Head(q) \in Writes /\ Head(q) = q[1]
      /\ Len(q) \in Nat /\ 1 \in 1..Len(q) /\ Len(t) = Len(q) - 1
      /\ \A i \in 1..Len(t) : i + 1 \in 1..Len(q) /\ t[i] = q[i + 1]
  BY <1>1, TailElements
<1>3. queue' = [queue EXCEPT ![c][user[c]] = t]
  BY DEF Left, q
<1> HIDE DEF t
<1>4. /\ queue' \in [Clients -> [Users -> Seq(Writes)]] /\ queue'[c][user[c]] = t
      /\ \A e \in Clients, u \in Users : e # c \/ u # user[c] => queue'[e][u] = queue[e][u]
  BY <1>1, <1>2, <1>3, QueueUpdate
<1>5. k \in Handlers
  <2>1. Head(Active(c)).tag \in WriteTag
    BY <1>1, <1>2, WriteFields
  <2>2. QED
    BY <2>1 DEF WriteCall, Handlers, WriteCalls
<1>6. calls' = calls \/ calls' = [calls EXCEPT ![c] = Append(calls[c], k)]
  BY DEF Left
<1> HIDE DEF k
<1>7. calls' \in [Clients -> Seq(Handlers)]
  <2>1. calls \in [Clients -> Seq(Handlers)] /\ Append(calls[c], k) \in Seq(Handlers)
    BY <1>5 DEF StateInv
  <2>2. QED
    BY <1>6, <2>1
<1>8. QED
  BY <1>1, <1>2, <1>4, <1>7 DEF t, q

LEMMA AcknowledgeStep ==
    ASSUME StateInv, NEW c \in Clients, Acknowledge(c), UNCHANGED appVars
    PROVE  /\ StateInv' /\ Left(c, TRUE)
           /\ sent[c] > 0 /\ sent' = [sent EXCEPT ![c] = sent[c] - 1]
<1> DEFINE w == Head(Active(c))
<1>1. /\ sent[c] > 0 /\ sent' = [sent EXCEPT ![c] = sent[c] - 1]
      /\ cache' = IF w.seen THEN cache ELSE [cache EXCEPT ![c][w.doc] = Apply(w, cache[c][w.doc])]
      /\ calls' = IF w.tag = None THEN calls
                  ELSE [calls EXCEPT ![c] = Append(calls[c], WriteCall(w.tag, TRUE))]
      /\ queue' = [queue EXCEPT ![c][user[c]] = Tail(queue[c][user[c]])]
      /\ UNCHANGED <<server, user, reads, view, appears, scans, deletes, names, latest, deleted, named>>
  BY DEF Acknowledge, appVars, counters
<1>2. Active(c) \in Seq(Writes) /\ sent[c] \in Nat /\ sent[c] <= Len(Active(c))
  BY DEF StateInv, Active
<1>3. Active(c) # <<>> /\ w \in Writes
  BY <1>1, <1>2
<1> HIDE DEF w
<1>4. w.doc \in Docs /\ w.data \in Contents /\ \A doc \in Contents : Apply(w, doc) = w.data
  BY <1>3, WriteFields, Places
<1>6. Left(c, TRUE)
  BY <1>1, <1>3 DEF Left, w
<1>7. cache' \in [Clients -> [Docs -> Contents]]
  <2>1. cache' = cache \/ cache' = [cache EXCEPT ![c][w.doc] = w.data]
    <3>1. cache[c][w.doc] \in Contents
      BY <1>4 DEF StateInv
    <3>2. QED
      BY <1>1, <1>4, <3>1
  <2>2. cache \in [Clients -> [Docs -> Contents]] /\ cache[c] \in [Docs -> Contents]
    BY DEF StateInv
  <2>3. [cache[c] EXCEPT ![w.doc] = w.data] \in [Docs -> Contents]
    BY <1>4, <2>2
  <2>4. QED
    BY <2>1, <2>2, <2>3
<1>8. sent' \in [Clients -> Nat]
  BY <1>1, <1>2 DEF StateInv
<1>9. ASSUME NEW e \in Clients PROVE sent'[e] <= Len(queue'[e][user'[e]])
  <2>1. sent[e] <= Len(queue[e][user[e]]) /\ user[e] \in Users /\ user' = user
    BY <1>1 DEF StateInv, Active
  <2>2. CASE e = c
    <3>1. Len(queue'[c][user[c]]) = Len(Active(c)) - 1 /\ Len(Active(c)) \in Nat
      BY <1>6, LeftType
    <3>2. sent'[c] = sent[c] - 1
      BY <1>1 DEF StateInv
    <3>3. QED
      BY <1>2, <2>1, <2>2, <3>1, <3>2
  <2>3. CASE e # c
    <3>1. queue'[e][user[e]] = queue[e][user[e]]
      BY <1>6, <2>1, <2>3, LeftType
    <3>2. sent'[e] = sent[e]
      BY <1>1, <2>3 DEF StateInv
    <3>3. QED
      BY <2>1, <3>1, <3>2
  <2>4. QED
    BY <2>2, <2>3
<1>10. StateInv'
  <2>1. queue' \in [Clients -> [Users -> Seq(Writes)]] /\ calls' \in [Clients -> Seq(Handlers)]
    BY <1>6, LeftType
  <2>2. QED
    BY <1>1, <1>7, <1>8, <1>9, <2>1 DEF StateInv, Active
<1>11. QED
  BY <1>1, <1>6, <1>10

LEMMA RejectStep ==
    ASSUME StateInv, NEW c \in Clients, Reject(c),
           UNCHANGED <<view, counters, latest, deleted, named>>
    PROVE  StateInv' /\ Left(c, FALSE) /\ sent[c] = 0 /\ sent' = sent
<1> DEFINE w == Head(Active(c))
<1>1. /\ sent[c] = 0 /\ sent' = sent /\ cache' = cache /\ Active(c) # <<>>
      /\ calls' = IF w.tag = None THEN calls
                  ELSE [calls EXCEPT ![c] = Append(calls[c], WriteCall(w.tag, FALSE))]
      /\ queue' = [queue EXCEPT ![c][user[c]] = Tail(queue[c][user[c]])]
      /\ UNCHANGED <<server, user, reads, view, appears, scans, deletes, names, latest, deleted, named>>
  BY DEF Reject, counters
<1> HIDE DEF w
<1>6. Left(c, FALSE)
  BY <1>1 DEF Left, w
<1>7. ASSUME NEW e \in Clients PROVE sent'[e] <= Len(queue'[e][user'[e]])
  <2>1. sent[e] <= Len(queue[e][user[e]]) /\ user[e] \in Users /\ user' = user
    BY <1>1 DEF StateInv, Active
  <2>2. CASE e = c
    <3>1. Len(queue'[c][user[c]]) = Len(Active(c)) - 1 /\ Len(Active(c)) \in Nat
          /\ 1 \in 1..Len(Active(c))
      BY <1>6, LeftType
    <3>2. QED
      BY <1>1, <2>1, <2>2, <3>1
  <2>3. CASE e # c
    <3>1. queue'[e][user[e]] = queue[e][user[e]]
      BY <1>6, <2>1, <2>3, LeftType
    <3>2. QED
      BY <1>1, <2>1, <3>1
  <2>4. QED
    BY <2>2, <2>3
<1>8. StateInv'
  <2>1. queue' \in [Clients -> [Users -> Seq(Writes)]] /\ calls' \in [Clients -> Seq(Handlers)]
    BY <1>6, LeftType
  <2>2. QED
    BY <1>1, <1>7, <2>1 DEF StateInv, Active
<1>9. QED
  BY <1>1, <1>6, <1>8

(* The handler of a read that is answered. *)
LEMMA AnswerHandler ==
    ASSUME NEW D \in SUBSET Docs, NEW ok, NEW docs \in Answer, DOMAIN docs \subseteq D
    PROVE  \A r \in ListReads : r.docs = D =>
               /\ ReadCall(r.tag, r.one \in ok, docs) \in Handlers
               /\ ReadCall(r.tag, r.one \in ok, docs).tag.kind # "deleted"
<1> SUFFICES ASSUME NEW r \in ListReads, r.docs = D
             PROVE  /\ ReadCall(r.tag, r.one \in ok, docs) \in Handlers
                    /\ ReadCall(r.tag, r.one \in ok, docs).tag.kind # "deleted"
  OBVIOUS
<1>1. r.tag \in ReadTag /\ D \subseteq Collection(r.tag.kind)
  BY DEF ListReads
<1> DEFINE b == r.one \in ok
<1>2. b \in BOOLEAN
  OBVIOUS
<1> HIDE DEF b
<1>3. PICK k : k = ReadCall(r.tag, b, docs)
  OBVIOUS
<1>4. k \in [kind : {"read"}, tag : ReadTag, ok : BOOLEAN, docs : Answer]
      /\ k.docs = docs /\ k.tag = r.tag
  BY <1>1, <1>2, <1>3 DEF ReadCall
<1>5. k \in Handlers
  BY <1>1, <1>4 DEF Handlers, ListCalls
<1>6. r.tag.kind # "deleted"
  BY <1>1 DEF ReadTag
<1>7. QED
  BY <1>3, <1>4, <1>5, <1>6 DEF b

(* Reads are answered; nothing else happens that matters to a deletion. *)
LEMMA ReadStep ==
    ASSUME StateInv, NEW c \in Clients, NEW D \in SUBSET Docs, NEW ok, NEW docs \in Answer,
           Resolve(c, D, ok, docs), DOMAIN docs \subseteq D,
           UNCHANGED <<server, sent, user, view, appears, scans, deletes, names, latest, deleted, named>>,
           cache' \in [Clients -> [Docs -> Contents]],
           queue' \in [Clients -> [Users -> Seq(Writes)]],
           \A e \in Clients, u \in Users : SameWrites(queue'[e][u], queue[e][u])
    PROVE  StateInv' /\ Quiet
<1>1. reads \in [Clients -> Seq(ListReads)] /\ calls \in [Clients -> Seq(Handlers)]
  BY DEF StateInv
<1>2. \A r \in ListReads : r.docs = D =>
          /\ ReadCall(r.tag, r.one \in ok, docs) \in Handlers
          /\ ReadCall(r.tag, r.one \in ok, docs).tag.kind # "deleted"
  BY AnswerHandler
<1>3. Resolved(ListReads, Handlers, c, D, ok, docs)
  BY <1>1, <1>2, ResolveEffect
<1>4. /\ reads' \in [Clients -> Seq(ListReads)] /\ calls' \in [Clients -> Seq(Handlers)]
      /\ \A e \in Clients : e # c => calls'[e] = calls[e]
      /\ Len(calls[c]) \in Nat /\ Len(calls'[c]) \in Nat
      /\ \A i \in 1..Len(calls[c]) : calls'[c][i] = calls[c][i]
      /\ \A i \in (Len(calls[c]) + 1)..Len(calls'[c]) :
             \E r \in ListReads : r.docs = D /\ calls'[c][i] = ReadCall(r.tag, r.one \in ok, docs)
  BY <1>3 DEF Resolved
<1>5. ASSUME NEW e \in Clients, NEW k \in 1..Len(calls'[e]), calls'[e][k].tag.kind = "deleted"
      PROVE  \E j \in 1..Len(calls[e]) : calls[e][j] = calls'[e][k]
  <2>1. CASE e # c
    BY <1>4, <2>1
  <2>2. CASE e = c /\ k \in 1..Len(calls[c])
    BY <1>4, <2>2
  <2>3. CASE e = c /\ k \in (Len(calls[c]) + 1)..Len(calls'[c])
    BY <1>2, <1>4, <1>5, <2>3
  <2>4. k \in 1..Len(calls[c]) \/ k \in (Len(calls[c]) + 1)..Len(calls'[c]) \/ e # c
    BY <1>4
  <2>5. QED
    BY <2>1, <2>2, <2>3, <2>4
<1>6. \A e \in Clients : sent'[e] <= Len(queue'[e][user'[e]])
  BY DEF StateInv, SameWrites, Active
<1>7. StateInv'
  BY <1>4, <1>6 DEF StateInv, Active
<1>8. Quiet
  BY <1>5 DEF Quiet
<1>9. QED
  BY <1>7, <1>8

(* The queries that are pending. *)
LEMMA QueryDocs ==
    ASSUME StateInv, NEW c \in Clients, NEW D \in Queries(c)
    PROVE  D \in SUBSET Docs
<1>1. PICK i \in 1..Len(reads[c]) : D = reads[c][i].docs
  BY DEF Queries
<1>2. reads[c][i] \in ListReads
  BY DEF StateInv
<1>3. QED
  BY <1>1, <1>2 DEF ListReads

LEMMA SynchroniseStep ==
    ASSUME StateInv, NEW c \in Clients, NEW D \in Queries(c), Synchronise(c, D), UNCHANGED appVars
    PROVE  StateInv' /\ Quiet
<1> DEFINE docs == Snapshot(c, D, server)
           q == Seen(queue[c][user[c]], sent[c], D)
<1>1. /\ Resolve(c, D, BOOLEAN, docs)
      /\ cache' = [cache EXCEPT ![c] = [d \in Docs |-> IF d \in D THEN server[d] ELSE cache[c][d]]]
      /\ queue' = [queue EXCEPT ![c][user[c]] = q]
      /\ UNCHANGED <<server, sent, user, view, appears, scans, deletes, names, latest, deleted, named>>
  BY DEF Synchronise, ApplyRemoteEvent, appVars, counters
<1>2. D \in SUBSET Docs
  BY QueryDocs
<1>3. docs \in Answer /\ DOMAIN docs \subseteq D
  BY <1>2, SnapshotAnswer DEF StateInv
<1>4. /\ queue \in [Clients -> [Users -> Seq(Writes)]] /\ user[c] \in Users
      /\ queue[c][user[c]] \in Seq(Writes)
  BY DEF StateInv
<1>5. q \in Seq(Writes) /\ SameWrites(q, queue[c][user[c]])
  BY <1>4, SeenSame
<1> HIDE DEF docs, q
<1>6. /\ queue' \in [Clients -> [Users -> Seq(Writes)]] /\ queue'[c][user[c]] = q
      /\ \A e \in Clients, u \in Users : e # c \/ u # user[c] => queue'[e][u] = queue[e][u]
  BY <1>1, <1>4, <1>5, QueueUpdate
<1>7. \A e \in Clients, u \in Users : SameWrites(queue'[e][u], queue[e][u])
  BY <1>5, <1>6, SameItself
<1>8. cache' \in [Clients -> [Docs -> Contents]]
  <2>1. /\ server \in [Docs -> Contents] /\ cache \in [Clients -> [Docs -> Contents]]
        /\ cache[c] \in [Docs -> Contents]
    BY DEF StateInv
  <2>2. [d \in Docs |-> IF d \in D THEN server[d] ELSE cache[c][d]] \in [Docs -> Contents]
    BY <2>1
  <2>3. QED
    BY <1>1, <2>1, <2>2
<1>9. QED
  BY <1>1, <1>2, <1>3, <1>6, <1>7, <1>8, ReadStep

LEMMA UnansweredStep ==
    ASSUME StateInv, NEW c \in Clients, NEW D \in Queries(c),
           ReadFromCache(c, D) \/ ReadDenied(c, D), UNCHANGED <<view, counters, latest, deleted, named>>
    PROVE  StateInv' /\ Quiet
<1>1. D \in SUBSET Docs
  BY QueryDocs
<1>2. /\ UNCHANGED <<server, cache, queue, sent, user, view, appears, scans, deletes, names, latest, deleted, named>>
  BY DEF ReadFromCache, ReadDenied, counters
<1>3. \E ok : \E docs \in Answer : Resolve(c, D, ok, docs) /\ DOMAIN docs \subseteq D
  <2>1. CASE ReadFromCache(c, D)
    <3> DEFINE docs == Snapshot(c, D, cache[c])
               ok == IF DOMAIN docs = {} THEN {FALSE} ELSE BOOLEAN
    <3>1. Resolve(c, D, ok, docs)
      BY <2>1 DEF ReadFromCache
    <3>2. docs \in Answer /\ DOMAIN docs \subseteq D
      BY <1>1, SnapshotAnswer DEF StateInv
    <3> HIDE DEF docs, ok
    <3>3. QED
      BY <3>1, <3>2
  <2>2. CASE ReadDenied(c, D)
    <3>1. Resolve(c, D, {}, <<>>)
      BY <2>2 DEF ReadDenied
    <3>2. <<>> \in [{} -> Contents] /\ {} \in SUBSET Docs /\ DOMAIN <<>> = {}
      OBVIOUS
    <3>3. <<>> \in Answer /\ DOMAIN <<>> \subseteq D
      BY <3>2 DEF Answer
    <3>4. QED
      BY <3>1, <3>3
  <2>3. QED
    BY <2>1, <2>2
<1>4. /\ cache' \in [Clients -> [Docs -> Contents]] /\ queue' \in [Clients -> [Users -> Seq(Writes)]]
      /\ \A e \in Clients, u \in Users : SameWrites(queue'[e][u], queue[e][u])
  BY <1>2, SameItself DEF StateInv
<1>5. QED
  BY <1>1, <1>2, <1>3, <1>4, ReadStep

LEMMA ConnectionStep ==
    ASSUME StateInv, NEW c \in Clients, GoOffline(c) \/ GoOnline(c), UNCHANGED appVars
    PROVE  StateInv' /\ Quiet
<1>1. UNCHANGED <<server, cache, user, reads, calls, view, appears, scans, deletes, names, latest, deleted, named>>
  BY DEF GoOffline, GoOnline, appVars, counters
<1>2. /\ queue' \in [Clients -> [Users -> Seq(Writes)]]
      /\ \A e \in Clients, u \in Users : SameWrites(queue'[e][u], queue[e][u])
  <2>1. CASE GoOffline(c)
    BY <2>1, QueueKept DEF GoOffline
  <2>2. CASE GoOnline(c)
    BY <2>2, SameItself DEF GoOnline, StateInv
  <2>3. QED
    BY <2>1, <2>2
<1>3. sent' \in [Clients -> Nat] /\ \A e \in Clients : sent'[e] = sent[e] \/ sent'[e] = 0
  <2>1. sent' = sent \/ sent' = [sent EXCEPT ![c] = 0]
    BY DEF GoOffline, GoOnline
  <2>2. sent \in [Clients -> Nat]
    BY DEF StateInv
  <2>3. QED
    BY <2>1, <2>2
<1>4. ASSUME NEW e \in Clients PROVE sent'[e] <= Len(queue'[e][user'[e]])
  <2>1. /\ user' = user /\ user[e] \in Users /\ queue[e][user[e]] \in Seq(Writes)
        /\ sent[e] <= Len(queue[e][user[e]])
    BY <1>1 DEF StateInv, Active
  <2>2. Len(queue'[e][user[e]]) = Len(queue[e][user[e]]) /\ Len(queue[e][user[e]]) \in Nat
    BY <1>2, <2>1 DEF SameWrites
  <2>3. QED
    BY <1>3, <2>1, <2>2
<1>5. StateInv'
  BY <1>1, <1>2, <1>3, <1>4 DEF StateInv, Active
<1>6. Quiet
  BY <1>1, <1>2, <1>3 DEF Quiet
<1>7. QED
  BY <1>5, <1>6

(* What can happen: a quiet step, or one of these. *)
Step(c) ==
    \/ Quiet
    \/ \E id \in DeviceIds : Scan(c, id) /\ user[c] # None
    \/ \E row \in AllDevices : TapDelete(c, row)
    \/ UpdateDeviceName(c)
    \/ Commit(c) /\ UNCHANGED appVars
    \/ Acknowledge(c) /\ UNCHANGED appVars
    \/ Reject(c) /\ UNCHANGED <<view, counters, latest, deleted, named>>
    \/ RunDeleted(c) /\ Head(calls[c]).ok /\ deleted' = Announced(Head(calls[c]).tag)

LEMMA TypeStep ==
    ASSUME StateInv, [Next]_vars
    PROVE  StateInv' /\ (Quiet \/ \E c \in Clients : Step(c))
<1>1. CASE UNCHANGED vars
  <2>1. UNCHANGED <<server, cache, queue, sent, user, reads, calls, view, appears, scans, deletes,
                    names, latest, deleted, named>>
    BY <1>1 DEF vars, fsVars, appVars, counters
  <2>2. StateInv'
    BY <2>1 DEF StateInv, Active
  <2>3. Quiet
    BY <2>1, SameItself DEF Quiet
  <2>4. QED
    BY <2>2, <2>3
<1>2. ASSUME NEW c \in Clients, People(c) PROVE StateInv' /\ Step(c)
  <2>1. ASSUME NEW u \in Uids, SignIn(c, u) PROVE StateInv' /\ Step(c)
    <3>1. u \in Users
      BY DEF Users
    <3>2. QED
      BY <2>1, <3>1, CredentialStep DEF SignIn, Step
  <2>2. CASE ForcedSignOut(c)
    <3>1. None \in Users
      BY DEF Users
    <3>2. QED
      BY <2>2, <3>1, CredentialStep DEF ForcedSignOut, Step
  <2>3. CASE Appear(c)
    BY <2>3, AppearStep DEF Step
  <2>4. CASE CloseView(c) \/ OpenScanner(c) \/ ScannerOff(c)
    BY <2>4, ViewStep DEF Step
  <2>5. ASSUME NEW id \in DeviceIds, Scan(c, id) PROVE StateInv' /\ Step(c)
    <3>1. CASE user[c] = None
      BY <2>5, <3>1, IdleScanStep DEF Step
    <3>2. CASE user[c] # None
      BY <2>5, <3>2, ScanStep DEF Step
    <3>3. QED
      BY <3>1, <3>2
  <2>6. ASSUME NEW row \in AllDevices, TapDelete(c, row) PROVE StateInv' /\ Step(c)
    BY <2>6, TapDeleteStep DEF Step
  <2>7. CASE UpdateDeviceName(c)
    BY <2>7, NameStep DEF Step
  <2>8. QED
    BY <1>2, <2>1, <2>2, <2>3, <2>4, <2>5, <2>6, <2>7 DEF People
<1>3. ASSUME NEW c \in Clients, RunCall(c) PROVE StateInv' /\ Step(c)
  <2>1. CASE RunUsers(c)
    BY <2>1, RunUsersStep DEF Step
  <2>2. CASE RunDevices(c)
    BY <2>2, RunDevicesStep DEF Step
  <2>3. CASE RunRegistered(c) \/ RunDeleted(c)
    BY <2>3, RunWriteStep DEF Step
  <2>4. CASE RunNamed(c)
    BY <2>4, RunNamedStep DEF Step
  <2>5. QED
    BY <1>3, <2>1, <2>2, <2>3, <2>4 DEF RunCall
<1>4. ASSUME NEW c \in Clients, Answers(c) \/ GoOffline(c) \/ GoOnline(c), UNCHANGED appVars
      PROVE  StateInv' /\ Step(c)
  <2>1. CASE Commit(c)
    BY <1>4, <2>1, CommitStep DEF Step
  <2>2. CASE Acknowledge(c)
    BY <1>4, <2>2, AcknowledgeStep DEF Step
  <2>3. ASSUME NEW D \in Queries(c), Synchronise(c, D) PROVE StateInv' /\ Step(c)
    BY <1>4, <2>3, SynchroniseStep DEF Step
  <2>4. CASE GoOffline(c) \/ GoOnline(c)
    BY <1>4, <2>4, ConnectionStep DEF Step
  <2>5. QED
    BY <1>4, <2>1, <2>2, <2>3, <2>4 DEF Answers
<1>5. ASSUME NEW c \in Clients, Faults(c), UNCHANGED <<view, counters, latest, deleted, named>>
      PROVE  StateInv' /\ Step(c)
  <2>1. CASE Reject(c)
    BY <1>5, <2>1, RejectStep DEF Step
  <2>2. ASSUME NEW D \in Queries(c), ReadFromCache(c, D) \/ ReadDenied(c, D)
        PROVE  StateInv' /\ Step(c)
    BY <1>5, <2>2, UnansweredStep DEF Step
  <2>3. QED
    BY <1>5, <2>1, <2>2 DEF Faults
<1>6. QED
  BY <1>1, <1>2, <1>3, <1>4, <1>5 DEF Next

LEMMA StateType == StateInv => TypeOK
<1> SUFFICES ASSUME StateInv PROVE TypeOK
  OBVIOUS
<1>1. ASSUME NEW c \in Clients, NEW u \in Users, NEW i \in 1..Len(queue[c][u])
      PROVE  queue[c][u][i].doc \in AllDevices
  <2>1. queue[c][u][i] \in Writes
    BY DEF StateInv
  <2>2. QED
    BY <2>1, WriteFields
<1>2. \A c \in Clients : view[c].rows \subseteq AllDevices /\ view[c].scanner \in {"off", "on", "closing"}
  BY DEF StateInv, Views, Scanners
<1>3. \A e \in deleted : e.row \in AllDevices /\ e.doc \in AllDevices
  BY DEF StateInv
<1>4. /\ latest \in [AllDevices -> 0..(MaxScans + MaxDeletes + MaxNames)]
      /\ named \in [Clients -> SUBSET AllDevices]
  <2>1. 0..(scans + deletes + names) \subseteq 0..(MaxScans + MaxDeletes + MaxNames)
    BY RegistryAssumption DEF StateInv
  <2>2. QED
    BY <2>1 DEF StateInv
<1>5. QED
  BY <1>1, <1>2, <1>3, <1>4 DEF TypeOK

(* Every pending write and every row of the list is about a device of an     *)
(* account, whoever signs in or out behind the view (registerDevice and      *)
(* deleteDevice check currentUser): for any clients, accounts and devices.   *)
THEOREM RegistryTypeCorrect == Spec => []TypeOK
<1>1. Init => StateInv
  BY TypeInit
<1>2. StateInv /\ [Next]_vars => StateInv'
  BY TypeStep
<1>3. StateInv => TypeOK
  BY StateType
<1>4. QED
  BY <1>1, <1>2, <1>3, PTL DEF Spec

-----------------------------------------------------------------------------
(* Deletions, with one client: the only writes are its own. *)

OneClient == \A c, e \in Clients : c = e

LEMMA WriteAt ==
    ASSUME StateInv, NEW c \in Clients, NEW u \in Users, NEW i \in 1..Len(queue[c][u])
    PROVE  /\ queue[c][u][i] \in Writes /\ queue[c][u][i].doc \in AllDevices
           /\ queue[c][u][i].tag.doc = queue[c][u][i].doc
           /\ (queue[c][u][i].tag.kind = "deleted" => queue[c][u][i].data = Absent)
           /\ queue[c][u][i].tag.op \in Nat
           /\ latest[queue[c][u][i].doc] \in Nat
           /\ latest[queue[c][u][i].doc] <= scans + deletes + names
<1>1. queue[c][u][i] \in Writes
  BY DEF StateInv
<1>2. \A d \in AllDevices : latest[d] \in 0..(scans + deletes + names)
  BY DEF StateInv
<1>3. \A d \in AllDevices : latest[d] \in Nat /\ latest[d] <= scans + deletes + names
  BY <1>2, RegistryAssumption DEF StateInv
<1>4. QED
  BY <1>1, <1>3, WriteFields

LEMMA QueueLength ==
    ASSUME StateInv, NEW c \in Clients, NEW u \in Users
    PROVE  Len(queue[c][u]) \in Nat
  BY DEF StateInv

LEMMA HandlerAt ==
    ASSUME StateInv, NEW c \in Clients, NEW n \in 1..Len(calls[c])
    PROVE  calls[c][n] \in Handlers
  BY DEF StateInv

(* q without its first k writes, whatever snapshots have seen of them. *)
Dropped(p, q, k) ==
    \A i \in 1..Len(p) :
        /\ i + k \in 1..Len(q)
        /\ p[i].doc = q[i + k].doc /\ p[i].data = q[i + k].data /\ p[i].tag = q[i + k].tag

Shorter ==
    \A c \in Clients, u \in Users : \E k \in {0, 1} : Dropped(queue'[c][u], queue[c][u], k)

LEMMA ShorterQueue ==
    ASSUME QueueInv, Shorter, UNCHANGED latest
    PROVE  QueueInv'
<1> SUFFICES ASSUME NEW c \in Clients, NEW u \in Users, NEW i \in 1..Len(queue'[c][u])
             PROVE  /\ queue'[c][u][i].doc[2] = u
                    /\ queue'[c][u][i].tag.op <= latest[queue'[c][u][i].doc]
                    /\ \A j \in 1..Len(queue'[c][u]) :
                           i < j /\ queue'[c][u][i].doc = queue'[c][u][j].doc =>
                               queue'[c][u][i].tag.op < queue'[c][u][j].tag.op
  BY DEF QueueInv
<1>1. PICK k \in {0, 1} : Dropped(queue'[c][u], queue[c][u], k)
  BY DEF Shorter
<1>2. /\ i + k \in 1..Len(queue[c][u]) /\ queue'[c][u][i].doc = queue[c][u][i + k].doc
      /\ queue'[c][u][i].tag = queue[c][u][i + k].tag
  BY <1>1 DEF Dropped
<1>3. queue'[c][u][i].doc[2] = u /\ queue'[c][u][i].tag.op <= latest[queue'[c][u][i].doc]
  BY <1>2 DEF QueueInv
<1>4. ASSUME NEW j \in 1..Len(queue'[c][u]), i < j, queue'[c][u][i].doc = queue'[c][u][j].doc
      PROVE  queue'[c][u][i].tag.op < queue'[c][u][j].tag.op
  <2>1. /\ j + k \in 1..Len(queue[c][u]) /\ queue'[c][u][j].doc = queue[c][u][j + k].doc
        /\ queue'[c][u][j].tag = queue[c][u][j + k].tag
    BY <1>1 DEF Dropped
  <2>2. i + k < j + k
    BY <1>4
  <2> DEFINE a == i + k
             b == j + k
  <2>3. /\ a \in 1..Len(queue[c][u]) /\ b \in 1..Len(queue[c][u]) /\ a < b
        /\ queue[c][u][a].doc = queue[c][u][b].doc
    BY <1>2, <1>4, <2>1, <2>2
  <2> HIDE DEF a, b
  <2>4. queue[c][u][a].tag.op < queue[c][u][b].tag.op
    BY <2>3 DEF QueueInv
  <2>5. QED
    BY <1>2, <2>1, <2>4 DEF a, b
<1>5. QED
  BY <1>3, <1>4

(* Pending writes go and no document comes back. *)
LEMMA ShorterAnnounced ==
    ASSUME AnnouncedInv, Shorter, UNCHANGED <<server, deleted>>
    PROVE  AnnouncedInv'
<1> SUFFICES ASSUME NEW e \in deleted
             PROVE  /\ server[e.doc] = Absent
                    /\ \A c \in Clients, u \in Users : \A i \in 1..Len(queue'[c][u]) :
                           queue'[c][u][i].doc = e.doc => queue'[c][u][i].data = Absent
  BY DEF AnnouncedInv
<1>1. server[e.doc] = Absent
  BY DEF AnnouncedInv
<1>2. ASSUME NEW c \in Clients, NEW u \in Users, NEW i \in 1..Len(queue'[c][u]),
             queue'[c][u][i].doc = e.doc
      PROVE  queue'[c][u][i].data = Absent
  <2>1. PICK k \in {0, 1} : Dropped(queue'[c][u], queue[c][u], k)
    BY DEF Shorter
  <2>2. /\ i + k \in 1..Len(queue[c][u]) /\ queue'[c][u][i].doc = queue[c][u][i + k].doc
        /\ queue'[c][u][i].data = queue[c][u][i + k].data
    BY <2>1 DEF Dropped
  <2>3. QED
    BY <1>2, <2>2 DEF AnnouncedInv
<1>3. QED
  BY <1>1, <1>2

LEMMA GoneKept ==
    ASSUME NEW c \in Clients, NEW k, Gone(c, k), Shorter, UNCHANGED <<server, latest>>
    PROVE  Gone(c, k)'
<1>1. ASSUME NEW u \in Users, NEW i \in 1..Len(queue'[c][u]), queue'[c][u][i].doc = k.tag.doc
      PROVE  k.tag.op < queue'[c][u][i].tag.op
  <2>1. PICK n \in {0, 1} : Dropped(queue'[c][u], queue[c][u], n)
    BY DEF Shorter
  <2>2. /\ i + n \in 1..Len(queue[c][u]) /\ queue'[c][u][i].doc = queue[c][u][i + n].doc
        /\ queue'[c][u][i].tag = queue[c][u][i + n].tag
    BY <2>1 DEF Dropped
  <2>3. QED
    BY <1>1, <2>2 DEF Gone
<1>2. QED
  BY <1>1 DEF Gone

LEMMA QuietShorter ==
    ASSUME StateInv, Quiet
    PROVE  Shorter
<1> SUFFICES ASSUME NEW c \in Clients, NEW u \in Users
             PROVE  \E k \in {0, 1} : Dropped(queue'[c][u], queue[c][u], k)
  BY DEF Shorter
<1>1. SameWrites(queue'[c][u], queue[c][u]) /\ Len(queue[c][u]) \in Nat
  BY DEF Quiet, StateInv
<1>2. Dropped(queue'[c][u], queue[c][u], 0)
  BY <1>1 DEF SameWrites, Dropped
<1>3. QED
  BY <1>2

(* Steps that ask for no write keep what is known of deletions. *)
LEMMA QuietDeletion ==
    ASSUME StateInv, StateInv', DeletionInv, Quiet
    PROVE  DeletionInv'
<1>1. Shorter /\ UNCHANGED <<server, latest, deleted>>
  BY QuietShorter DEF Quiet
<1>2. QueueInv' /\ AnnouncedInv'
  BY <1>1, ShorterQueue, ShorterAnnounced DEF DeletionInv
<1>3. ASSUME NEW c \in Clients, NEW n \in 1..Len(calls'[c]),
             calls'[c][n].tag.kind = "deleted", calls'[c][n].ok
      PROVE  Gone(c, calls[c][n])'
  <2>1. PICK j \in 1..Len(calls[c]) : calls[c][j] = calls'[c][n]
    BY <1>3 DEF Quiet
  <2>2. PICK k : k = calls'[c][n]
    OBVIOUS
  <2>3. Gone(c, k)
    BY <1>3, <2>1, <2>2 DEF DeletionInv, AcknowledgedInv
  <2>4. Gone(c, k)'
    BY <1>1, <2>3, GoneKept
  <2>5. QED
    BY <2>2, <2>4 DEF Gone
<1>4. AcknowledgedInv'
  BY <1>3 DEF AcknowledgedInv
<1>5. ASSUME NEW c \in Clients, NEW i \in 1..Len(queue'[c][user'[c]]), i <= sent'[c],
             queue'[c][user'[c]][i].tag.kind = "deleted",
             queue'[c][user'[c]][i].tag.op = latest[queue'[c][user'[c]][i].doc]
      PROVE  server[queue'[c][user'[c]][i].doc] = Absent
  <2>1. sent'[c] = sent[c] /\ user'[c] = user[c]
    BY <1>5 DEF Quiet
  <2>2. user[c] \in Users /\ SameWrites(queue'[c][user[c]], queue[c][user[c]])
    BY DEF Quiet, StateInv
  <2>3. /\ i \in 1..Len(queue[c][user[c]]) /\ queue'[c][user'[c]][i].doc = queue[c][user[c]][i].doc
        /\ queue'[c][user'[c]][i].tag = queue[c][user[c]][i].tag
    BY <2>1, <2>2 DEF SameWrites
  <2>4. QED
    BY <1>5, <2>1, <2>3 DEF DeletionInv, CommittedInv, Active
<1>6. CommittedInv'
  BY <1>1, <1>5 DEF CommittedInv, Active
<1>7. QED
  BY <1>2, <1>4, <1>6 DEF DeletionInv

(* The oldest write leaves: acknowledged, if the server has committed it. *)
LEMMA LeftDeletion ==
    ASSUME StateInv, StateInv', DeletionInv, NEW c \in Clients, NEW ok \in BOOLEAN, Left(c, ok),
           ok = TRUE => sent[c] > 0,
           \A e \in Clients : e # c => sent'[e] = sent[e],
           sent'[c] = 0 \/ sent'[c] = sent[c] - 1
    PROVE  DeletionInv'
<1> DEFINE w == Active(c)[1]
<1> DEFINE q == queue[c][user[c]]
           p == queue'[c][user[c]]
<1>1. /\ \A e \in Clients, u \in Users : e # c \/ u # user[c] => queue'[e][u] = queue[e][u]
      /\ w \in Writes /\ Head(Active(c)) = w /\ Len(q) \in Nat /\ 1 \in 1..Len(q) /\ w = q[1]
      /\ \A i \in 1..Len(p) : i + 1 \in 1..Len(q) /\ p[i] = q[i + 1]
  BY LeftType DEF Active
<1> HIDE DEF p, q, w
<1>2. UNCHANGED <<server, user, latest, deleted>>
  BY DEF Left
<1>3. Shorter
  <2> SUFFICES ASSUME NEW e \in Clients, NEW u \in Users
               PROVE  \E k \in {0, 1} : Dropped(queue'[e][u], queue[e][u], k)
    BY DEF Shorter
  <2>1. CASE e = c /\ u = user[c]
    <3>1. Dropped(p, q, 1)
      BY <1>1 DEF Dropped
    <3>2. QED
      BY <2>1, <3>1 DEF p, q
  <2>2. CASE e # c \/ u # user[c]
    <3>0. queue'[e][u] = queue[e][u]
      BY <1>1, <2>2
    <3>1. Len(queue[e][u]) \in Nat /\ queue'[e][u] = queue[e][u]
      BY <3>0, QueueLength
    <3>2. Dropped(queue'[e][u], queue[e][u], 0)
      BY <3>1 DEF Dropped
    <3>3. QED
      BY <3>2
  <2>3. QED
    BY <2>1, <2>2
<1>4. QueueInv' /\ AnnouncedInv'
  BY <1>2, <1>3, ShorterQueue, ShorterAnnounced DEF DeletionInv
<1>5. CommittedInv'
  <2> SUFFICES ASSUME NEW e \in Clients, NEW i \in 1..Len(queue'[e][user[e]]), i <= sent'[e],
                      queue'[e][user[e]][i].tag.kind = "deleted",
                      queue'[e][user[e]][i].tag.op = latest[queue'[e][user[e]][i].doc]
               PROVE  server[queue'[e][user[e]][i].doc] = Absent
    BY <1>2 DEF CommittedInv, Active
  <2>1. CASE e # c
    <3>1. queue'[e][user[e]] = queue[e][user[e]] /\ sent'[e] = sent[e]
      BY <1>1, <2>1 DEF StateInv
    <3>2. QED
      BY <3>1, ZenonT(40) DEF DeletionInv, CommittedInv, Active
  <2>2. CASE e = c
    <3>1. sent'[c] = sent[c] - 1 /\ sent[c] \in Nat
      BY <2>2 DEF StateInv
    <3>2. i \in 1..Len(p) /\ i + 1 <= sent[c]
      BY <2>2, <3>1 DEF p
    <3>3. i + 1 \in 1..Len(q) /\ queue'[e][user[e]][i] = q[i + 1]
      BY <1>1, <2>2, <3>2 DEF p
    <3>4. QED
      BY <2>2, <3>2, <3>3, ZenonT(40) DEF DeletionInv, CommittedInv, Active, q
  <2>3. QED
    BY <2>1, <2>2
<1>6. AcknowledgedInv'
  <2> SUFFICES ASSUME NEW e \in Clients, NEW n \in 1..Len(calls'[e]),
                      calls'[e][n].tag.kind = "deleted", calls'[e][n].ok
               PROVE  Gone(e, calls[e][n])'
    BY DEF AcknowledgedInv
  <2>1. PICK k : k = calls'[e][n]
    OBVIOUS
  <2>2. SUFFICES Gone(e, k)'
    BY <2>1 DEF Gone
  <2>3. CASE \E j \in 1..Len(calls[e]) : calls[e][j] = k
    <3>1. Gone(e, k)
      BY <2>1, <2>3 DEF DeletionInv, AcknowledgedInv
    <3>2. QED
      BY <1>2, <1>3, <3>1, GoneKept
  <2>4. CASE e = c /\ k = WriteCall(w.tag, ok)
    <3>1. k.tag = w.tag /\ w.tag.kind = "deleted" /\ ok = TRUE
      <4>1. k.tag = w.tag /\ k.ok = ok
        BY <2>4 DEF WriteCall
      <4>2. k.ok /\ k.tag.kind = "deleted"
        BY <2>1
      <4>3. QED
        BY <4>1, <4>2
    <3>2. q = queue[c][user[c]] /\ user[c] \in Users /\ Active(c) = q
      BY DEF Active, StateInv, q
    <3>3. w.doc[2] = user[c] /\ w.tag.op <= latest[w.doc] /\ w.tag.doc = w.doc
      BY <1>1, <3>2, WriteFields DEF DeletionInv, QueueInv
    <3>4. w.tag.op = latest[w.doc] => server[w.doc] = Absent
      <4>1. 1 <= sent[c]
        <5>1. sent[c] > 0 /\ sent[c] \in Nat
          BY <3>1 DEF StateInv
        <5>2. QED
          BY <5>1
      <4>2. QED
        BY <1>1, <3>1, <3>2, <4>1 DEF DeletionInv, CommittedInv
    <3>5. ASSUME NEW u \in Users, NEW i \in 1..Len(queue'[c][u]), queue'[c][u][i].doc = w.doc
          PROVE  w.tag.op < queue'[c][u][i].tag.op
      <4>1. queue'[c][u][i].doc[2] = u
        BY <1>4 DEF QueueInv
      <4>2. u = user[c]
        BY <3>3, <3>5, <4>1
      <4>3. i \in 1..Len(p) /\ queue'[c][u] = p
        BY <4>2 DEF p
      <4> DEFINE j == i + 1
      <4>4. j \in 1..Len(q) /\ p[i] = q[j] /\ 1 < j
        BY <1>1, <4>3
      <4> HIDE DEF j
      <4>5. q[1].doc = q[j].doc
        BY <1>1, <3>5, <4>3, <4>4
      <4>6. q[1].tag.op < q[j].tag.op
        BY <1>1, <3>2, <4>4, <4>5 DEF DeletionInv, QueueInv
      <4>7. QED
        BY <1>1, <4>3, <4>4, <4>6
    <3>6. Gone(c, k)'
      <4>1. k.tag.op <= latest'[k.tag.doc] /\ (k.tag.op = latest'[k.tag.doc] => server'[k.tag.doc] = Absent)
        BY <1>2, <3>1, <3>3, <3>4
      <4>2. \A u \in Users : \A i \in 1..Len(queue'[c][u]) :
                queue'[c][u][i].doc = k.tag.doc => k.tag.op < queue'[c][u][i].tag.op
        BY <3>1, <3>3, <3>5
      <4>3. QED
        BY <4>1, <4>2 DEF Gone
    <3>7. QED
      BY <2>4, <3>6
  <2>5. (\E j \in 1..Len(calls[e]) : calls[e][j] = k) \/ (e = c /\ k = WriteCall(w.tag, ok))
    <3> DEFINE new == WriteCall(w.tag, ok)
    <3>1. calls' = calls \/ calls' = [calls EXCEPT ![c] = Append(calls[c], new)]
      BY <1>1 DEF Left
    <3> HIDE DEF new
    <3>2. calls \in [Clients -> Seq(Handlers)] /\ calls[c] \in Seq(Handlers)
      BY DEF StateInv
    <3>3. CASE calls' = calls \/ e # c
      BY <2>1, <3>1, <3>2, <3>3
    <3>4. CASE calls' = [calls EXCEPT ![c] = Append(calls[c], new)] /\ e = c
      <4>1. calls'[c] = Append(calls[c], new)
        BY <3>2, <3>4
      <4>2. n \in 1..(Len(calls[c]) + 1) /\ Len(calls[c]) \in Nat
        BY <3>2, <3>4, <4>1
      <4>3. CASE n = Len(calls[c]) + 1
        BY <2>1, <3>2, <3>4, <4>1, <4>3 DEF new
      <4>4. CASE n \in 1..Len(calls[c])
        BY <2>1, <3>2, <3>4, <4>1, <4>4
      <4>5. QED
        BY <4>2, <4>3, <4>4
    <3>5. QED
      BY <3>1, <3>3, <3>4
  <2>6. QED
    BY <2>3, <2>4, <2>5
<1>7. QED
  BY <1>4, <1>5, <1>6 DEF DeletionInv

(* A new request is later than everything known of the document. *)
LEMMA RequestDeletion ==
    ASSUME StateInv, StateInv', DeletionInv, NEW c \in Clients, NEW d, NEW data, NEW merge, NEW tag,
           Requested(c, d, data, merge, tag),
           \A e \in deleted' : e \in deleted /\ (e.doc = d => data = Absent)
    PROVE  DeletionInv'
<1> DEFINE w == Write(d, data, merge, tag)
           q == queue[c][user[c]]
           op == scans + deletes + names + 1
<1>1. /\ queue'[c][user[c]] = Append(q, w) /\ w \in Writes
      /\ \A e \in Clients, u \in Users : e # c \/ u # user[c] => queue'[e][u] = queue[e][u]
  BY AskedWrite DEF Requested
<1>2. w.doc = d /\ w.data = data /\ w.tag = tag /\ tag.op = op /\ tag.doc = d
  BY DEF Write, Requested
<1>3. /\ d \in AllDevices /\ d[2] = user[c] /\ latest' = [latest EXCEPT ![d] = op]
      /\ UNCHANGED <<server, sent, user, calls>>
  BY DEF Requested
<1>4. scans \in Nat /\ deletes \in Nat /\ names \in Nat /\ q \in Seq(Writes) /\ user[c] \in Users
  BY RegistryAssumption DEF StateInv
<1>5. op \in Nat /\ scans + deletes + names \in Nat /\ scans + deletes + names < op
  BY <1>4
<1> HIDE DEF w, q, op
<1>6. /\ Len(q) \in Nat /\ Len(Append(q, w)) = Len(q) + 1
      /\ \A i \in 1..Len(q) : Append(q, w)[i] = q[i]
      /\ Append(q, w)[Len(q) + 1] = w
  BY <1>1, <1>4
<1>7. ASSUME NEW x \in AllDevices
      PROVE  /\ latest[x] \in Nat /\ latest[x] < op
             /\ (x = d => latest'[x] = op) /\ (x # d => latest'[x] = latest[x])
             /\ latest'[x] \in Nat /\ latest[x] <= latest'[x]
  <2>1. latest \in [AllDevices -> 0..(scans + deletes + names)]
    BY DEF StateInv
  <2>2. latest[x] \in Nat /\ latest[x] < op
    BY <1>5, <2>1
  <2>3. (x = d => latest'[x] = op) /\ (x # d => latest'[x] = latest[x])
    BY <1>3, <2>1
  <2>4. QED
    BY <1>5, <2>2, <2>3
(* A pending write is the new one or was there. *)
<1>8. ASSUME NEW e \in Clients, NEW u \in Users, NEW i \in 1..Len(queue'[e][u])
      PROVE  \/ i \in 1..Len(queue[e][u]) /\ queue'[e][u][i] = queue[e][u][i]
             \/ e = c /\ u = user[c] /\ i = Len(q) + 1 /\ queue'[e][u][i] = w
  <2>1. CASE e # c \/ u # user[c]
    BY <1>1, <2>1
  <2>2. CASE e = c /\ u = user[c]
    <3>1. queue'[e][u] = Append(q, w) /\ queue[e][u] = q
      BY <1>1, <2>2 DEF q
    <3>2. i \in 1..Len(q) \/ i = Len(q) + 1
      BY <1>6, <3>1
    <3>3. QED
      BY <1>6, <2>2, <3>1, <3>2
  <2>3. QED
    BY <2>1, <2>2
<1>9. ASSUME NEW e \in Clients, NEW u \in Users, NEW i \in 1..Len(queue[e][u])
      PROVE  /\ queue[e][u][i].doc \in AllDevices /\ queue[e][u][i].tag.op \in Nat
             /\ queue[e][u][i].doc[2] = u
             /\ queue[e][u][i].tag.op <= latest[queue[e][u][i].doc]
             /\ queue[e][u][i].tag.op < op
             /\ queue[e][u][i].tag.op <= latest'[queue[e][u][i].doc]
  <2>1. /\ queue[e][u][i].doc \in AllDevices /\ queue[e][u][i].tag.op \in Nat
    BY WriteAt
  <2>2. queue[e][u][i].tag.op <= latest[queue[e][u][i].doc] /\ queue[e][u][i].doc[2] = u
    BY DEF DeletionInv, QueueInv
  <2>3. QED
    BY <1>5, <1>7, <2>1, <2>2, SMTT(30)
<1>10. QueueInv'
  <2> SUFFICES ASSUME NEW e \in Clients, NEW u \in Users, NEW i \in 1..Len(queue'[e][u])
               PROVE  /\ queue'[e][u][i].doc[2] = u
                      /\ queue'[e][u][i].tag.op <= latest'[queue'[e][u][i].doc]
                      /\ \A j \in 1..Len(queue'[e][u]) :
                             i < j /\ queue'[e][u][i].doc = queue'[e][u][j].doc =>
                                 queue'[e][u][i].tag.op < queue'[e][u][j].tag.op
    BY DEF QueueInv
  <2>1. CASE i \in 1..Len(queue[e][u]) /\ queue'[e][u][i] = queue[e][u][i]
    <3>1. queue'[e][u][i].doc[2] = u /\ queue'[e][u][i].tag.op <= latest'[queue'[e][u][i].doc]
      BY <1>9, <2>1
    <3>2. ASSUME NEW j \in 1..Len(queue'[e][u]), i < j, queue'[e][u][i].doc = queue'[e][u][j].doc
          PROVE  queue'[e][u][i].tag.op < queue'[e][u][j].tag.op
      <4>1. CASE j \in 1..Len(queue[e][u]) /\ queue'[e][u][j] = queue[e][u][j]
        BY <2>1, <3>2, <4>1 DEF DeletionInv, QueueInv
      <4>2. CASE queue'[e][u][j] = w
        BY <1>2, <1>9, <2>1, <4>2
      <4>3. QED
        BY <1>8, <4>1, <4>2
    <3>3. QED
      BY <3>1, <3>2
  <2>2. CASE e = c /\ u = user[c] /\ i = Len(q) + 1 /\ queue'[e][u][i] = w
    <3>1. Len(queue'[e][u]) = Len(q) + 1
      BY <1>1, <1>6, <2>2
    <3>2. \A j \in 1..Len(queue'[e][u]) : ~(i < j)
      BY <1>6, <2>2, <3>1
    <3>3. w.doc[2] = u /\ w.tag.op <= latest'[w.doc]
      BY <1>2, <1>3, <1>5, <1>7, <2>2
    <3>4. QED
      BY <2>2, <3>2, <3>3
  <2>3. QED
    BY <1>8, <2>1, <2>2
<1>11. CommittedInv'
  <2> SUFFICES ASSUME NEW e \in Clients, NEW i \in 1..Len(queue'[e][user[e]]), i <= sent[e],
                      queue'[e][user[e]][i].tag.kind = "deleted",
                      queue'[e][user[e]][i].tag.op = latest'[queue'[e][user[e]][i].doc]
               PROVE  server[queue'[e][user[e]][i].doc] = Absent
    BY <1>3 DEF CommittedInv, Active
  <2>1. user[e] \in Users /\ sent[e] <= Len(queue[e][user[e]]) /\ sent[e] \in Nat
    BY DEF StateInv, Active
  <2>2. i \in 1..Len(queue[e][user[e]]) /\ queue'[e][user[e]][i] = queue[e][user[e]][i]
    <3>1. ~(e = c /\ user[e] = user[c] /\ i = Len(q) + 1)
      BY <1>6, <2>1 DEF q
    <3>2. QED
      BY <1>8, <2>1, <3>1
  <2> DEFINE x == queue[e][user[e]][i].doc
  <2>3. x \in AllDevices /\ queue[e][user[e]][i].tag.op < op
    BY <1>9, <2>1, <2>2
  <2>4. queue[e][user[e]][i].tag.op = latest'[x]
    BY <2>2
  <2>5. x # d
    BY <1>5, <1>7, <2>3, <2>4
  <2>6. queue[e][user[e]][i].tag.op = latest[x]
    BY <1>7, <2>3, <2>4, <2>5
  <2>7. QED
    BY <2>2, <2>6 DEF DeletionInv, CommittedInv, Active
<1>12. AcknowledgedInv'
  <2> SUFFICES ASSUME NEW e \in Clients, NEW n \in 1..Len(calls[e]),
                      calls[e][n].tag.kind = "deleted", calls[e][n].ok
               PROVE  Gone(e, calls[e][n])'
    BY <1>3 DEF AcknowledgedInv
  <2>1. PICK k : k = calls[e][n]
    OBVIOUS
  <2>2. Gone(e, k)
    BY <2>1 DEF DeletionInv, AcknowledgedInv
  <2>3. k.tag.doc \in AllDevices /\ k.tag.op \in Nat
    <3>1. k \in Handlers
      BY <2>1, HandlerAt
    <3>2. k.tag \in WriteTag
      BY <2>1, <3>1, HandlerKinds
    <3>3. QED
      BY <3>2 DEF WriteTag
  <2>4. k.tag.op <= latest[k.tag.doc]
    BY <2>2 DEF Gone
  <2>5. k.tag.op < op /\ k.tag.op <= latest'[k.tag.doc]
    BY <1>5, <1>7, <2>3, <2>4
  <2>6. k.tag.op = latest'[k.tag.doc] => server'[k.tag.doc] = Absent
    <3>1. CASE k.tag.doc = d
      BY <1>5, <1>7, <2>3, <2>5, <3>1
    <3>2. CASE k.tag.doc # d
      BY <1>3, <1>7, <2>2, <2>3, <3>2 DEF Gone
    <3>3. QED
      BY <3>1, <3>2
  <2>7. ASSUME NEW u \in Users, NEW i \in 1..Len(queue'[e][u]), queue'[e][u][i].doc = k.tag.doc
        PROVE  k.tag.op < queue'[e][u][i].tag.op
    <3>1. CASE i \in 1..Len(queue[e][u]) /\ queue'[e][u][i] = queue[e][u][i]
      BY <2>2, <2>7, <3>1 DEF Gone
    <3>2. CASE queue'[e][u][i] = w
      BY <1>2, <2>5, <3>2
    <3>3. QED
      BY <1>8, <3>1, <3>2
  <2>8. Gone(e, k)'
    BY <2>5, <2>6, <2>7 DEF Gone
  <2>9. QED
    BY <1>3, <2>1, <2>8 DEF Gone
<1>13. AnnouncedInv'
  <2> SUFFICES ASSUME NEW e \in deleted'
               PROVE  /\ server[e.doc] = Absent
                      /\ \A f \in Clients, u \in Users : \A i \in 1..Len(queue'[f][u]) :
                             queue'[f][u][i].doc = e.doc => queue'[f][u][i].data = Absent
    BY <1>3 DEF AnnouncedInv
  <2>1. e \in deleted /\ (e.doc = d => data = Absent)
    OBVIOUS
  <2>2. server[e.doc] = Absent
    BY <2>1 DEF DeletionInv, AnnouncedInv
  <2>3. ASSUME NEW f \in Clients, NEW u \in Users, NEW i \in 1..Len(queue'[f][u]),
               queue'[f][u][i].doc = e.doc
        PROVE  queue'[f][u][i].data = Absent
    <3>1. CASE i \in 1..Len(queue[f][u]) /\ queue'[f][u][i] = queue[f][u][i]
      BY <2>1, <2>3, <3>1 DEF DeletionInv, AnnouncedInv
    <3>2. CASE queue'[f][u][i] = w
      BY <1>2, <2>1, <2>3, <3>2
    <3>3. QED
      BY <1>8, <3>1, <3>2
  <2>4. QED
    BY <2>2, <2>3
<1>14. QED
  BY <1>10, <1>11, <1>12, <1>13 DEF DeletionInv

(* The server applies a write: nothing later was announced, acknowledged or  *)
(* committed of its document.                                                *)
LEMMA CommitDeletion ==
    ASSUME OneClient, StateInv, StateInv', DeletionInv, NEW c \in Clients, Commit(c), UNCHANGED appVars
    PROVE  DeletionInv'
<1> DEFINE n == sent[c] + 1
           w == Active(c)[n]
<1>1. /\ n \in 1..Len(Active(c)) /\ w \in Writes
      /\ server' = [server EXCEPT ![w.doc] = w.data] /\ sent' = [sent EXCEPT ![c] = n]
  BY CommitStep
<1>2. UNCHANGED <<queue, user, calls, latest, deleted>>
  BY DEF Commit, appVars
<1>3. /\ server \in [Docs -> Contents] /\ sent \in [Clients -> Nat] /\ sent[c] \in Nat
      /\ user[c] \in Users /\ Active(c) = queue[c][user[c]]
  BY DEF StateInv, Active
<1>4. w.doc \in AllDevices /\ w.doc \in Docs /\ w.tag.doc = w.doc
      /\ (w.tag.kind = "deleted" => w.data = Absent) /\ w.tag.op \in Nat
  BY <1>1, WriteFields, Places
<1>5. sent'[c] = n /\ \A i \in 1..Len(Active(c)) : i <= n => i <= sent[c] \/ i = n
  BY <1>1, <1>3
<1> HIDE DEF n, w
<1>6. server'[w.doc] = w.data /\ \A x \in Docs : x # w.doc => server'[x] = server[x]
  BY <1>1, <1>3, <1>4
<1>7. w = queue[c][user[c]][n] /\ n \in 1..Len(queue[c][user[c]])
  BY <1>1, <1>3 DEF w
<1>8. w.tag.op <= latest[w.doc] /\ w.doc[2] = user[c]
  BY <1>3, <1>7 DEF DeletionInv, QueueInv
<1>9. latest[w.doc] \in Nat
  BY <1>3, <1>7, WriteAt
<1>10. QueueInv'
  BY <1>2 DEF DeletionInv, QueueInv
<1>11. CommittedInv'
  <2> SUFFICES ASSUME NEW i \in 1..Len(Active(c)), i <= n,
                      Active(c)[i].tag.kind = "deleted",
                      Active(c)[i].tag.op = latest[Active(c)[i].doc]
               PROVE  server'[Active(c)[i].doc] = Absent
    BY <1>2, <1>5, ZenonT(40) DEF CommittedInv, Active, OneClient
  <2>1. CASE i = n
    BY <1>4, <1>6, <2>1 DEF w
  <2>2. CASE i <= sent[c] /\ i # n
    <3>1. /\ server[Active(c)[i].doc] = Absent
      BY <2>2 DEF DeletionInv, CommittedInv
    <3>2. Active(c)[i].doc \in Docs /\ Active(c)[i].tag.op \in Nat
      BY <1>3, WriteAt, Places, ZenonT(40)
    <3>3. Active(c)[i].doc # w.doc
      <4> SUFFICES ASSUME Active(c)[i].doc = w.doc PROVE FALSE
        OBVIOUS
      <4>1. i < n
        BY <1>1, <2>2
      <4>2. Active(c)[i].tag.op < w.tag.op
        <5>1. /\ i \in 1..Len(queue[c][user[c]])
              /\ queue[c][user[c]][i].doc = queue[c][user[c]][n].doc
          BY <1>3, <1>7
        <5>2. queue[c][user[c]][i].tag.op < queue[c][user[c]][n].tag.op
          BY <1>3, <1>7, <4>1, <5>1 DEF DeletionInv, QueueInv
        <5>3. QED
          BY <1>3, <1>7, <5>2
      <4>3. QED
        BY <1>4, <1>8, <1>9, <3>2, <4>2
    <3>4. QED
      BY <1>6, <3>1, <3>2, <3>3
  <2>3. QED
    BY <1>5, <2>1, <2>2
<1>12. AcknowledgedInv'
  <2> SUFFICES ASSUME NEW m \in 1..Len(calls[c]), calls[c][m].tag.kind = "deleted", calls[c][m].ok
               PROVE  Gone(c, calls[c][m])'
    BY <1>2 DEF AcknowledgedInv, OneClient
  <2>1. PICK k : k = calls[c][m]
    OBVIOUS
  <2>2. Gone(c, k)
    BY <2>1 DEF DeletionInv, AcknowledgedInv
  <2>3. k.tag.doc \in Docs /\ k.tag.op \in Nat
    <3>1. k \in Handlers
      BY <2>1, HandlerAt
    <3>2. k.tag \in WriteTag
      BY <2>1, <3>1, HandlerKinds
    <3>3. QED
      BY <3>2, Places DEF WriteTag
  <2>4. k.tag.op = latest[k.tag.doc] => server'[k.tag.doc] = Absent
    <3>1. CASE k.tag.doc = w.doc
      <4>1. k.tag.op < w.tag.op
        BY <1>3, <1>7, <2>2, <3>1 DEF Gone
      <4>2. QED
        BY <1>4, <1>8, <1>9, <2>3, <3>1, <4>1
    <3>2. CASE k.tag.doc # w.doc
      BY <1>6, <2>2, <2>3, <3>2 DEF Gone
    <3>3. QED
      BY <3>1, <3>2
  <2>5. Gone(c, k)'
    BY <1>2, <2>2, <2>4 DEF Gone
  <2>6. QED
    BY <1>2, <2>1, <2>5 DEF Gone
<1>13. AnnouncedInv'
  <2> SUFFICES ASSUME NEW e \in deleted PROVE server'[e.doc] = Absent
    BY <1>2 DEF AnnouncedInv, DeletionInv
  <2>1. e.doc \in Docs
    BY Places DEF StateInv
  <2>2. CASE e.doc = w.doc
    BY <1>3, <1>6, <1>7, <2>2 DEF DeletionInv, AnnouncedInv
  <2>3. CASE e.doc # w.doc
    BY <1>6, <2>1, <2>3 DEF DeletionInv, AnnouncedInv
  <2>4. QED
    BY <2>2, <2>3
<1>14. QED
  BY <1>10, <1>11, <1>12, <1>13 DEF DeletionInv

(* deleteDevice's handler: nothing is pending that would bring it back. *)
LEMMA AnnounceDeletion ==
    ASSUME OneClient, StateInv, StateInv', DeletionInv, NEW c \in Clients, RunDeleted(c),
           Head(calls[c]).ok, deleted' = Announced(Head(calls[c]).tag)
    PROVE  DeletionInv'
<1>1. /\ calls[c] # <<>> /\ Head(calls[c]).tag.kind = "deleted"
      /\ calls' = [calls EXCEPT ![c] = Tail(@)]
      /\ UNCHANGED <<server, queue, sent, user, latest>>
  BY DEF RunDeleted, NextCall
<1>2. /\ Head(calls[c]) \in Handlers /\ Head(calls[c]) = calls[c][1] /\ 1 \in 1..Len(calls[c])
      /\ \A e \in Clients : \A m \in 1..Len(calls'[e]) :
             \E j \in 1..Len(calls[e]) : calls[e][j] = calls'[e][m]
  BY <1>1, Popped
<1>3. PICK k : k = Head(calls[c])
  OBVIOUS
<1>4. Gone(c, k)
  <2>1. 1 \in 1..Len(calls[c]) /\ calls[c][1].tag.kind = "deleted" /\ calls[c][1].ok
    BY <1>1, <1>2
  <2>2. Gone(c, calls[c][1])
    BY <2>1 DEF DeletionInv, AcknowledgedInv
  <2>3. QED
    BY <1>2, <1>3, <2>2
<1>5. QueueInv' /\ CommittedInv'
  <2>1. QueueInv'
    BY <1>1 DEF DeletionInv, QueueInv
  <2>2. CommittedInv'
    BY <1>1 DEF DeletionInv, CommittedInv, Active
  <2>3. QED
    BY <2>1, <2>2
<1>6. AcknowledgedInv'
  <2> SUFFICES ASSUME NEW e \in Clients, NEW m \in 1..Len(calls'[e]),
                      calls'[e][m].tag.kind = "deleted", calls'[e][m].ok
               PROVE  Gone(e, calls[e][m])'
    BY DEF AcknowledgedInv
  <2>1. PICK j \in 1..Len(calls[e]) : calls[e][j] = calls'[e][m]
    BY <1>2
  <2>2. Gone(e, calls[e][j])
    BY <2>1 DEF DeletionInv, AcknowledgedInv
  <2>3. QED
    BY <1>1, <2>1, <2>2 DEF Gone
<1>7. AnnouncedInv'
  <2> SUFFICES ASSUME NEW e \in deleted'
               PROVE  /\ server[e.doc] = Absent
                      /\ \A u \in Users : \A i \in 1..Len(queue[c][u]) :
                             queue[c][u][i].doc = e.doc => queue[c][u][i].data = Absent
    BY <1>1 DEF AnnouncedInv, OneClient
  <2>1. CASE e \in deleted
    BY <2>1 DEF DeletionInv, AnnouncedInv
  <2>2. CASE latest[k.tag.doc] = k.tag.op /\ e = [row |-> k.tag.row, doc |-> k.tag.doc]
    <3>1. e.doc = k.tag.doc /\ server[e.doc] = Absent
      BY <1>4, <2>2 DEF Gone
    <3>2. ASSUME NEW u \in Users, NEW i \in 1..Len(queue[c][u]), queue[c][u][i].doc = e.doc
          PROVE  FALSE
      <4>1. k.tag.op < queue[c][u][i].tag.op
        BY <1>4, <3>1, <3>2 DEF Gone
      <4>2. queue[c][u][i].tag.op <= latest[queue[c][u][i].doc]
        BY DEF DeletionInv, QueueInv
      <4>3. queue[c][u][i].tag.op \in Nat /\ latest[queue[c][u][i].doc] \in Nat
        BY WriteAt
      <4>4. QED
        BY <2>2, <3>1, <3>2, <4>1, <4>2, <4>3
    <3>3. QED
      BY <3>1, <3>2
  <2>3. QED
    BY <1>3, <2>1, <2>2 DEF Announced
<1>8. QED
  BY <1>5, <1>6, <1>7 DEF DeletionInv

LEMMA DeletionInit == Init => DeletionInv
<1> SUFFICES ASSUME Init PROVE DeletionInv
  OBVIOUS
<1>1. /\ \A c \in Clients : calls[c] = <<>> /\ user[c] \in Users
      /\ \A c \in Clients, u \in Users : queue[c][u] = <<>>
      /\ deleted = {}
  BY DEF Init, FirestoreInit, Users
<1>2. QED
  BY <1>1 DEF DeletionInv, QueueInv, CommittedInv, AcknowledgedInv, AnnouncedInv, Active

LEMMA DeletionStep ==
    ASSUME OneClient, StateInv, StateInv', DeletionInv, NEW c \in Clients, Step(c)
    PROVE  DeletionInv'
<1>1. CASE Quiet
  BY <1>1, QuietDeletion
<1>2. ASSUME NEW id \in DeviceIds, Scan(c, id), user[c] # None PROVE DeletionInv'
  <2>1. PICK tag : /\ Requested(c, <<id, user[c]>>, Fields(c), FALSE, tag)
                   /\ deleted' = {e \in deleted : <<id, user[c]>> \notin {e.row, e.doc}}
    BY <1>2, ScanRequests
  <2>2. \A e \in deleted' : e \in deleted /\ (e.doc = <<id, user[c]>> => Fields(c) = Absent)
    BY <2>1
  <2>3. QED
    BY <2>1, <2>2, RequestDeletion
<1>3. ASSUME NEW row \in AllDevices, TapDelete(c, row) PROVE DeletionInv'
  <2>1. PICK d, tag : Requested(c, d, Absent, FALSE, tag) /\ UNCHANGED deleted
    BY <1>3, DeleteRequests
  <2>2. QED
    BY <2>1, RequestDeletion
<1>4. CASE Commit(c) /\ UNCHANGED appVars
  BY <1>4, CommitDeletion
<1>5. CASE Acknowledge(c) /\ UNCHANGED appVars
  <2>1. Left(c, TRUE) /\ sent[c] > 0 /\ sent' = [sent EXCEPT ![c] = sent[c] - 1]
    BY <1>5, AcknowledgeStep
  <2>2. sent'[c] = sent[c] - 1 /\ \A e \in Clients : e # c => sent'[e] = sent[e]
    BY <2>1 DEF StateInv
  <2>3. QED
    BY <2>1, <2>2, LeftDeletion
<1>6. CASE Reject(c) /\ UNCHANGED <<view, counters, latest, deleted, named>>
  <2>1. Left(c, FALSE) /\ sent[c] = 0 /\ sent' = sent
    BY <1>6, RejectStep
  <2>2. QED
    BY <2>1, LeftDeletion
<1>7. CASE RunDeleted(c) /\ Head(calls[c]).ok /\ deleted' = Announced(Head(calls[c]).tag)
  BY <1>7, AnnounceDeletion
<1>8. CASE UpdateDeviceName(c)
  <2>1. PICK tag : /\ Requested(c, <<c, user[c]>>, Fields(c), TRUE, tag)
                   /\ deleted' = {e \in deleted : <<c, user[c]>> \notin {e.row, e.doc}}
    BY <1>8, NameRequests
  <2>2. \A e \in deleted' : e \in deleted /\ (e.doc = <<c, user[c]>> => Fields(c) = Absent)
    BY <2>1
  <2>3. QED
    BY <2>1, <2>2, RequestDeletion
<1>9. QED
  BY <1>1, <1>2, <1>3, <1>4, <1>5, <1>6, <1>7, <1>8 DEF Step

(* On one device, for every number of accounts, devices, views and scans:   *)
(* the document whose deletion deleteDevice announced is not on the server,  *)
(* although deletions are sent again after lost connections and sign-outs,   *)
(* may be refused, and race registrations of the same device.                *)
THEOREM OneClientTargetGone ==
    ASSUME OneClient
    PROVE  Spec => []TargetGone
<1>1. Init => StateInv /\ DeletionInv
  BY TypeInit, DeletionInit
<1>2. StateInv /\ DeletionInv /\ [Next]_vars => StateInv' /\ DeletionInv'
  <2> SUFFICES ASSUME StateInv, DeletionInv, [Next]_vars PROVE StateInv' /\ DeletionInv'
    OBVIOUS
  <2>1. StateInv' /\ (Quiet \/ \E c \in Clients : Step(c))
    BY TypeStep
  <2>2. QED
    BY <2>1, DeletionStep, QuietDeletion
<1>3. DeletionInv => TargetGone
  BY DEF DeletionInv, AnnouncedInv, TargetGone
<1>4. QED
  BY <1>1, <1>2, <1>3, PTL DEF Spec
-----------------------------------------------------------------------------
(* ListComplete, for one client.                                             *)

(* k is the last write of its document that the server has committed. *)
LastSent(c, k) ==
    /\ k <= sent[c]
    /\ \A i \in 1..Len(Active(c)) :
           i <= sent[c] /\ Active(c)[i].doc = Active(c)[k].doc => i <= k

(* The server has what the last of the committed writes left. *)
LastInv ==
    \A c \in Clients : \A k \in 1..Len(Active(c)) :
        LastSent(c, k) => server[Active(c)[k].doc] = Active(c)[k].data

(* Steps that commit and acknowledge nothing. *)
LEMMA QuietLast ==
    ASSUME StateInv, LastInv, UNCHANGED server,
           \A c \in Clients, u \in Users : SameWrites(queue'[c][u], queue[c][u]),
           \A c \in Clients : (sent'[c] = sent[c] /\ user'[c] = user[c]) \/ sent'[c] = 0
    PROVE  LastInv'
<1> SUFFICES ASSUME NEW c \in Clients, NEW k \in 1..Len(queue'[c][user'[c]]), LastSent(c, k)'
             PROVE  server[queue'[c][user'[c]][k].doc] = queue'[c][user'[c]][k].data
  BY DEF LastInv, Active
<1>1. /\ k <= sent'[c]
      /\ \A i \in 1..Len(queue'[c][user'[c]]) :
             i <= sent'[c] /\ queue'[c][user'[c]][i].doc = queue'[c][user'[c]][k].doc => i <= k
  BY DEF LastSent, Active
<1>2. sent'[c] = sent[c] /\ user'[c] = user[c]
  BY <1>1
<1>3. SameWrites(queue'[c][user[c]], queue[c][user[c]])
  BY DEF StateInv
<1>4. /\ Len(queue'[c][user[c]]) = Len(queue[c][user[c]])
      /\ \A i \in 1..Len(queue[c][user[c]]) :
             /\ queue'[c][user[c]][i].doc = queue[c][user[c]][i].doc
             /\ queue'[c][user[c]][i].data = queue[c][user[c]][i].data
  BY <1>3 DEF SameWrites
<1>5. k \in 1..Len(queue[c][user[c]])
  BY <1>2, <1>4
<1>6. LastSent(c, k)
  BY <1>1, <1>2, <1>4, <1>5 DEF LastSent, Active
<1>7. server[queue[c][user[c]][k].doc] = queue[c][user[c]][k].data
  BY <1>5, <1>6 DEF LastInv, Active
<1>8. QED
  BY <1>2, <1>4, <1>5, <1>7

LEMMA CommitLast ==
    ASSUME OneClient, StateInv, LastInv, NEW c \in Clients, Commit(c), UNCHANGED appVars
    PROVE  LastInv'
<1> DEFINE n == sent[c] + 1
           w == Active(c)[n]
<1>1. /\ n \in 1..Len(Active(c)) /\ w \in Writes
      /\ server' = [server EXCEPT ![w.doc] = w.data] /\ sent' = [sent EXCEPT ![c] = n]
  BY CommitStep
<1>2. UNCHANGED <<queue, user>> /\ Active(c) = queue[c][user[c]]
  BY DEF Commit, Active
<1>3. server \in [Docs -> Contents] /\ sent[c] \in Nat /\ sent'[c] = n /\ w.doc \in Docs
  BY <1>1, WriteFields, Places DEF StateInv
<1>4. \A i \in 1..Len(Active(c)) : i <= n => i <= sent[c] \/ i = n
  BY <1>3
<1>5. n \in Nat /\ sent[c] < n
  BY <1>3
<1> HIDE DEF n, w
<1>6. server'[w.doc] = w.data /\ \A x \in Docs : x # w.doc => server'[x] = server[x]
  BY <1>1, <1>3
<1>7. ASSUME NEW k \in 1..Len(Active(c)), k <= n,
             \A i \in 1..Len(Active(c)) : i <= n /\ Active(c)[i].doc = Active(c)[k].doc => i <= k
      PROVE  server'[Active(c)[k].doc] = Active(c)[k].data
  <2>1. CASE k = n
    BY <1>6, <2>1 DEF w
  <2>2. CASE k # n
    <3>1. k <= sent[c] /\ k < n
      BY <1>4, <1>5, <1>7, <2>2
    <3>2. Active(c)[k].doc # w.doc
      BY <1>1, <1>5, <1>7, <3>1 DEF w
    <3>3. \A i \in 1..Len(Active(c)) : i <= sent[c] => i <= n
      BY <1>3, <1>5
    <3>4. LastSent(c, k)
      BY <1>7, <3>1, <3>3 DEF LastSent
    <3>5. server[Active(c)[k].doc] = Active(c)[k].data
      BY <3>4 DEF LastInv
    <3>6. Active(c)[k].doc \in Docs
      BY WriteAt, Places DEF Active, StateInv
    <3>7. QED
      BY <1>6, <3>2, <3>5, <3>6
  <2>3. QED
    BY <2>1, <2>2
<1>8. ASSUME NEW k \in 1..Len(queue[c][user[c]]), LastSent(c, k)'
      PROVE  server'[queue[c][user[c]][k].doc] = queue[c][user[c]][k].data
  <2>1. /\ k <= n
        /\ \A i \in 1..Len(queue[c][user[c]]) :
               i <= n /\ queue[c][user[c]][i].doc = queue[c][user[c]][k].doc => i <= k
    BY <1>2, <1>3, <1>8 DEF LastSent, Active
  <2>2. QED
    BY <1>2, <1>7, <2>1
<1>9. QED
  BY <1>2, <1>8, ZenonT(40) DEF LastInv, OneClient, Active

(* The oldest write leaves the queue. *)
LEMMA LeftLast ==
    ASSUME OneClient, StateInv, StateInv', LastInv, NEW c \in Clients, NEW ok \in BOOLEAN, Left(c, ok),
           sent'[c] = 0 \/ sent'[c] = sent[c] - 1
    PROVE  LastInv'
<1> DEFINE q == queue[c][user[c]]
           p == queue'[c][user[c]]
<1>1. /\ Len(q) \in Nat /\ Len(p) = Len(q) - 1
      /\ \A i \in 1..Len(p) : i + 1 \in 1..Len(q) /\ p[i] = q[i + 1]
  BY LeftType DEF Active
<1>2. /\ UNCHANGED <<server, user>> /\ Active(c) = q /\ sent[c] \in Nat
  BY DEF Left, Active, StateInv
<1>3. Active(c)' = p
  BY <1>2 DEF Active
<1> HIDE DEF p, q
<1>4. ASSUME NEW k \in 1..Len(p), LastSent(c, k)'
      PROVE  server'[p[k].doc] = p[k].data
  <2>1. k <= sent'[c] /\ \A i \in 1..Len(p) : i <= sent'[c] /\ p[i].doc = p[k].doc => i <= k
    BY <1>3, <1>4 DEF LastSent
  <2>2. sent'[c] = sent[c] - 1
    BY <2>1
  <2> DEFINE m == k + 1
  <2>3. m \in 1..Len(q) /\ p[k] = q[m] /\ m <= sent[c]
    BY <1>1, <1>2, <2>1, <2>2
  <2>4. ASSUME NEW i \in 1..Len(q), i <= sent[c], q[i].doc = q[m].doc PROVE i <= m
    <3>1. CASE i = 1
      BY <3>1
    <3>2. CASE i > 1
      <4>1. i - 1 \in 1..Len(p) /\ p[i - 1] = q[(i - 1) + 1] /\ (i - 1) + 1 = i
        BY <1>1, <3>2
      <4>2. i - 1 <= sent'[c] /\ p[i - 1].doc = p[k].doc
        BY <1>2, <2>2, <2>3, <2>4, <4>1
      <4>3. i - 1 <= k
        BY <2>1, <4>1, <4>2
      <4>4. QED
        BY <4>3
    <3>3. QED
      BY <3>1, <3>2
  <2> HIDE DEF m
  <2>5. LastSent(c, m)
    BY <1>2, <2>3, <2>4 DEF LastSent
  <2>6. server[q[m].doc] = q[m].data
    BY <1>2, <2>3, <2>5 DEF LastInv
  <2>7. QED
    BY <1>2, <2>3, <2>6
<1>5. QED
  BY <1>3, <1>4, ZenonT(40) DEF LastInv, OneClient

(* A new write is not committed yet. *)
LEMMA RequestLast ==
    ASSUME OneClient, StateInv, LastInv, NEW c \in Clients, NEW d, NEW data, NEW merge, NEW tag,
           Requested(c, d, data, merge, tag)
    PROVE  LastInv'
<1> DEFINE w == Write(d, data, merge, tag)
           q == queue[c][user[c]]
<1>1. queue'[c][user[c]] = Append(q, w) /\ w \in Writes
  BY AskedWrite DEF Requested
<1>2. /\ UNCHANGED <<server, sent, user>> /\ Active(c) = q /\ sent[c] \in Nat
      /\ sent[c] <= Len(q) /\ q \in Seq(Writes)
  BY DEF Requested, Active, StateInv
<1> HIDE DEF w, q
<1>3. Active(c)' = Append(q, w)
  BY <1>1, <1>2 DEF Active
<1>4. /\ Len(q) \in Nat /\ Len(Append(q, w)) = Len(q) + 1
      /\ \A i \in 1..Len(q) : Append(q, w)[i] = q[i]
  BY <1>1, <1>2
<1> DEFINE p == Append(q, w)
<1> HIDE DEF p
<1>5. ASSUME NEW k \in 1..Len(p), LastSent(c, k)'
      PROVE  server'[p[k].doc] = p[k].data
  <2>1. k <= sent[c] /\ \A i \in 1..Len(p) : i <= sent[c] /\ p[i].doc = p[k].doc => i <= k
    BY <1>2, <1>3, <1>5 DEF LastSent, p
  <2>2. k \in 1..Len(q) /\ p[k] = q[k]
    BY <1>2, <1>4, <2>1 DEF p
  <2>3. \A i \in 1..Len(q) : i <= sent[c] /\ q[i].doc = q[k].doc => i <= k
    BY <1>4, <2>1, <2>2 DEF p
  <2>4. LastSent(c, k)
    BY <1>2, <2>1, <2>3 DEF LastSent
  <2>5. QED
    BY <1>2, <2>2, <2>4 DEF LastInv
<1>6. QED
  BY <1>3, <1>5, ZenonT(40) DEF LastInv, OneClient, p

LEMMA LastStep ==
    ASSUME OneClient, StateInv, StateInv', LastInv, NEW c \in Clients, Step(c)
    PROVE  LastInv'
<1>1. CASE Quiet
  BY <1>1, QuietLast DEF Quiet
<1>2. ASSUME NEW id \in DeviceIds, Scan(c, id), user[c] # None PROVE LastInv'
  <2>1. PICK tag : Requested(c, <<id, user[c]>>, Fields(c), FALSE, tag)
    BY <1>2, ScanRequests
  <2>2. QED
    BY <2>1, RequestLast
<1>3. ASSUME NEW row \in AllDevices, TapDelete(c, row) PROVE LastInv'
  <2>1. PICK d, tag : Requested(c, d, Absent, FALSE, tag)
    BY <1>3, DeleteRequests
  <2>2. QED
    BY <2>1, RequestLast
<1>4. CASE Commit(c) /\ UNCHANGED appVars
  BY <1>4, CommitLast
<1>5. CASE Acknowledge(c) /\ UNCHANGED appVars
  <2>1. Left(c, TRUE) /\ sent' = [sent EXCEPT ![c] = sent[c] - 1]
    BY <1>5, AcknowledgeStep
  <2>2. sent'[c] = sent[c] - 1
    BY <2>1 DEF StateInv
  <2>3. QED
    BY <2>1, <2>2, LeftLast
<1>6. CASE Reject(c) /\ UNCHANGED <<view, counters, latest, deleted, named>>
  <2>1. Left(c, FALSE) /\ sent[c] = 0 /\ sent' = sent
    BY <1>6, RejectStep
  <2>2. QED
    BY <2>1, LeftLast
<1>7. CASE RunDeleted(c) /\ Head(calls[c]).ok /\ deleted' = Announced(Head(calls[c]).tag)
  <2>1. UNCHANGED <<server, queue, sent, user>>
    BY <1>7 DEF RunDeleted
  <2>2. QED
    BY <2>1, QuietLast, SameItself
<1>8. CASE UpdateDeviceName(c)
  <2>1. PICK tag : Requested(c, <<c, user[c]>>, Fields(c), TRUE, tag)
    BY <1>8, NameRequests
  <2>2. QED
    BY <2>1, RequestLast
<1>9. QED
  BY <1>1, <1>2, <1>3, <1>4, <1>5, <1>6, <1>7, <1>8 DEF Step

(* What c wants of d: the last pending write says so, or else the server. *)
LastWrite(c, d, k) ==
    /\ queue[c][d[2]][k].doc = d
    /\ \A i \in 1..Len(queue[c][d[2]]) : queue[c][d[2]][i].doc = d => i <= k

Unwritten(c, d) == \A i \in 1..Len(queue[c][d[2]]) : queue[c][d[2]][i].doc # d

Wanted(c, d) ==
    \/ \E k \in 1..Len(queue[c][d[2]]) : LastWrite(c, d, k) /\ queue[c][d[2]][k].data # Absent
    \/ Unwritten(c, d) /\ server[d] # Absent

(* Writes of an account that is not signed in: they wait while the view is   *)
(* open, so that the list is not at rest.                                    *)
Stuck(c) == \E u \in Uids : u # user[c] /\ Len(queue[c][u]) # 0

(* The list will be emptied and read again: fetchDevices was called, a       *)
(* handler after the first n will do or call it, or a write will be          *)
(* acknowledged.                                                             *)
Reading(c) ==
    \E i \in 1..Len(reads[c]) : reads[c][i].tag.kind = "users" /\ reads[c][i].tag.no = view[c].no

Renews(c, call) ==
    call.tag.no = view[c].no /\ call.tag.kind \in {"users", "registered", "deleted"}

Called(c, n) == \E i \in 1..Len(calls[c]) : i > n /\ Renews(c, calls[c][i])

Writing(c) == \E i \in 1..Len(Active(c)) : Renewal(c, Active(c)[i].tag)

RefreshAfter(c, n) == Reading(c) \/ Called(c, n) \/ Writing(c)

(* The devices of d's owner were asked for, or a handler has d. *)
Owned(c, call) == call.tag.kind = "devices" /\ call.tag.no = view[c].no

Asking(c, d) ==
    \/ \E i \in 1..Len(reads[c]) : Owned(c, reads[c][i]) /\ reads[c][i].docs = Devices(d[2])
    \/ \E i \in 1..Len(calls[c]) : Owned(c, calls[c][i]) /\ d \in DOMAIN calls[c][i].docs

(* Every account has a profile, and the profiles are read as a collection. *)
ReadInv ==
    /\ \A c \in Clients : \A i \in 1..Len(reads[c]) :
           reads[c][i].tag.kind = "users" => reads[c][i].docs = UserDocs
    /\ \A d \in UserDocs : server[d] # Absent

(* Nothing has failed: every profile was found. *)
CallInv ==
    \A c \in Clients : \A i \in 1..Len(calls[c]) :
        /\ calls[c][i].ok
        /\ calls[c][i].tag.kind = "users" => DOMAIN calls[c][i].docs = UserDocs

(* What is listed, or will be, is wanted; what is wanted is listed, or will  *)
(* be, or updateDeviceName wrote it; unless the list will be read again,     *)
(* after the handler in question.                                            *)
RowsWanted(c) == \A d \in view[c].rows : Wanted(c, d) \/ RefreshAfter(c, 0)

AnswersWanted(c) ==
    \A i \in 1..Len(calls[c]) : Owned(c, calls[c][i]) =>
        \A d \in DOMAIN calls[c][i].docs : Wanted(c, d) \/ RefreshAfter(c, i)

WantedListed(c) ==
    \A d \in AllDevices : Wanted(c, d) =>
        d \in view[c].rows \/ RefreshAfter(c, 0) \/ Asking(c, d) \/ d \in named[c]

ListOf(c) == RowsWanted(c) /\ AnswersWanted(c) /\ WantedListed(c)

Listed(c) == view[c].open => Stuck(c) \/ ListOf(c)

ListInv == ~faults => ReadInv /\ CallInv /\ \A c \in Clients : Listed(c)

(* At rest the list is what the server has. *)
LEMMA ListRests ==
    ASSUME StateInv, ListInv
    PROVE  ListComplete
<1> SUFFICES ASSUME NEW c \in Clients, Rest(c)
             PROVE  /\ view[c].rows \subseteq Registered
                    /\ Registered \ view[c].rows \subseteq named[c]
  BY DEF ListComplete
<1>1. /\ ~faults /\ view[c].open /\ Len(reads[c]) = 0 /\ Len(calls[c]) = 0
      /\ \A u \in Users : queue[c][u] = <<>>
  BY DEF Rest
<1>2. Len(Active(c)) = 0 /\ \A u \in Users : Len(queue[c][u]) = 0
  BY <1>1 DEF Active, StateInv
<1>3. ~Stuck(c)
  BY <1>2 DEF Stuck, Users
<1>4. ListOf(c)
  BY <1>1, <1>3 DEF ListInv, Listed
<1>5. ~RefreshAfter(c, 0) /\ \A d : ~Asking(c, d)
  BY <1>1, <1>2 DEF RefreshAfter, Reading, Called, Writing, Asking
<1>6. ASSUME NEW d \in AllDevices PROVE Wanted(c, d) <=> server[d] # Absent
  <2>1. Len(queue[c][d[2]]) = 0
    BY <1>2, Places DEF Users
  <2>2. QED
    BY <2>1 DEF Wanted, Unwritten
<1>7. view[c].rows \subseteq AllDevices
  BY DEF StateInv, Views
<1>8. \A d \in view[c].rows : Wanted(c, d)
  BY <1>4, <1>5 DEF ListOf, RowsWanted
<1>9. \A d \in AllDevices : Wanted(c, d) => d \in view[c].rows \/ d \in named[c]
  BY <1>4, <1>5 DEF ListOf, WantedListed
<1>10. QED
  BY <1>6, <1>7, <1>8, <1>9 DEF Registered

(* A list that will be read again may show anything. *)
LEMMA RenewedList ==
    ASSUME NEW c \in Clients, Reading(c)' \/ Writing(c)'
    PROVE  ListOf(c)'
<1>1. \A n : RefreshAfter(c, n)'
  BY DEF RefreshAfter
<1>2. QED
  BY <1>1 DEF ListOf, RowsWanted, AnswersWanted, WantedListed

(* Writes and server are the same for d. *)
LEMMA SameWanted ==
    ASSUME NEW c \in Clients, NEW d, SameWrites(queue'[c][d[2]], queue[c][d[2]]),
           server'[d] = server[d]
    PROVE  Wanted(c, d)' <=> Wanted(c, d)
<1>1. /\ Len(queue'[c][d[2]]) = Len(queue[c][d[2]])
      /\ \A i \in 1..Len(queue[c][d[2]]) :
             /\ queue'[c][d[2]][i].doc = queue[c][d[2]][i].doc
             /\ queue'[c][d[2]][i].data = queue[c][d[2]][i].data
  BY DEF SameWrites
<1>2. Unwritten(c, d)' <=> Unwritten(c, d)
  BY <1>1 DEF Unwritten
<1>3. ASSUME NEW k \in 1..Len(queue[c][d[2]]) PROVE LastWrite(c, d, k)' <=> LastWrite(c, d, k)
  BY <1>1 DEF LastWrite
<1>4. QED
  BY <1>1, <1>2, <1>3 DEF Wanted

(* The list and the handlers are about devices. *)
LEMMA ListDocs ==
    ASSUME StateInv, NEW c \in Clients
    PROVE  /\ view[c].rows \subseteq AllDevices
           /\ \A i \in 1..Len(calls[c]) : Owned(c, calls[c][i]) =>
                  DOMAIN calls[c][i].docs \subseteq AllDevices
<1>1. view[c].rows \subseteq AllDevices
  BY DEF StateInv, Views
<1>2. ASSUME NEW i \in 1..Len(calls[c]), Owned(c, calls[c][i])
      PROVE  DOMAIN calls[c][i].docs \subseteq AllDevices
  <2>1. calls[c][i] \in Handlers /\ calls[c][i].tag.kind = "devices"
    BY <1>2, HandlerAt DEF Owned
  <2>2. QED
    BY <2>1, HandlerKinds DEF Collection
<1>3. QED
  BY <1>1, <1>2

(* Handlers are added and none is called. *)
Grown(c) ==
    /\ Len(calls[c]) \in Nat /\ Len(calls'[c]) \in Nat /\ Len(calls[c]) <= Len(calls'[c])
    /\ \A i \in 1..Len(calls[c]) : calls'[c][i] = calls[c][i]

LEMMA KeepList ==
    ASSUME StateInv, NEW c \in Clients, ListOf(c), Grown(c),
           view'[c].rows = view[c].rows, view'[c].no = view[c].no, named'[c] = named[c],
           \A d \in AllDevices : Wanted(c, d)' <=> Wanted(c, d),
           \A n \in 0..Len(calls[c]) : RefreshAfter(c, n) => RefreshAfter(c, n)',
           \A i \in (Len(calls[c]) + 1)..Len(calls'[c]) : Owned(c, calls[c][i])' =>
               \A d \in DOMAIN calls'[c][i].docs : Wanted(c, d)' \/ RefreshAfter(c, i)',
           \A d \in AllDevices : Wanted(c, d) /\ Asking(c, d) => Asking(c, d)'
    PROVE  ListOf(c)'
<1>1. RowsWanted(c)'
  <2> SUFFICES ASSUME NEW d \in view[c].rows PROVE Wanted(c, d)' \/ RefreshAfter(c, 0)'
    BY DEF RowsWanted
  <2>1. d \in AllDevices /\ 0 \in 0..Len(calls[c])
    BY ListDocs DEF Grown
  <2>2. Wanted(c, d) \/ RefreshAfter(c, 0)
    BY DEF ListOf, RowsWanted
  <2>3. QED
    BY <2>1, <2>2
<1>2. AnswersWanted(c)'
  <2> SUFFICES ASSUME NEW i \in 1..Len(calls'[c]), Owned(c, calls[c][i])',
                      NEW d \in DOMAIN calls'[c][i].docs
               PROVE  Wanted(c, d)' \/ RefreshAfter(c, i)'
    BY DEF AnswersWanted
  <2>1. CASE i \in 1..Len(calls[c])
    <3>1. calls'[c][i] = calls[c][i] /\ Owned(c, calls[c][i]) /\ i \in 0..Len(calls[c])
      BY <2>1 DEF Grown, Owned
    <3>2. d \in AllDevices
      BY <2>1, <3>1, ListDocs
    <3>3. Wanted(c, d) \/ RefreshAfter(c, i)
      BY <2>1, <3>1 DEF ListOf, AnswersWanted
    <3>4. QED
      BY <3>1, <3>2, <3>3
  <2>2. CASE i \in (Len(calls[c]) + 1)..Len(calls'[c])
    BY <2>2
  <2>3. i \in 1..Len(calls[c]) \/ i \in (Len(calls[c]) + 1)..Len(calls'[c])
    BY DEF Grown
  <2>4. QED
    BY <2>1, <2>2, <2>3
<1>3. WantedListed(c)'
  <2> SUFFICES ASSUME NEW d \in AllDevices, Wanted(c, d)'
               PROVE  d \in view'[c].rows \/ RefreshAfter(c, 0)' \/ Asking(c, d)' \/ d \in named'[c]
    BY DEF WantedListed
  <2>1. Wanted(c, d) /\ 0 \in 0..Len(calls[c])
    BY DEF Grown
  <2>2. d \in view[c].rows \/ RefreshAfter(c, 0) \/ Asking(c, d) \/ d \in named[c]
    BY <2>1 DEF ListOf, WantedListed
  <2>3. QED
    BY <2>1, <2>2
<1>4. QED
  BY <1>1, <1>2, <1>3 DEF ListOf

(* The handlers and the reads stay as they are. *)
LEMMA SettledList ==
    ASSUME StateInv, NEW c \in Clients, ListOf(c), UNCHANGED <<reads, calls>>,
           view'[c].rows = view[c].rows, view'[c].no = view[c].no, named'[c] = named[c],
           \A d \in AllDevices : Wanted(c, d)' <=> Wanted(c, d),
           Writing(c) => Writing(c)'
    PROVE  ListOf(c)'
<1>1. Len(calls[c]) \in Nat
  BY DEF StateInv
<1>2. Grown(c)
  BY <1>1 DEF Grown
<1>3. Reading(c)' <=> Reading(c)
  BY DEF Reading
<1>4. \A n : Called(c, n)' <=> Called(c, n)
  BY DEF Called, Renews
<1>5. \A n : RefreshAfter(c, n) => RefreshAfter(c, n)'
  BY <1>3, <1>4 DEF RefreshAfter
<1>6. \A d : Asking(c, d) => Asking(c, d)'
  BY DEF Asking, Owned
<1>7. \A i \in (Len(calls[c]) + 1)..Len(calls'[c]) : FALSE
  BY <1>1
<1>8. QED
  BY <1>2, <1>5, <1>6, <1>7, KeepList

(* The user stays, or is signed out, and the queues of others are kept. *)
LEMMA StuckKept ==
    ASSUME NEW c \in Clients, Stuck(c), user'[c] \in {user[c], None},
           \A u \in Uids : u # user[c] => Len(queue'[c][u]) = Len(queue[c][u])
    PROVE  Stuck(c)'
<1>1. PICK u \in Uids : u # user[c] /\ Len(queue[c][u]) # 0
  BY DEF Stuck
<1>2. u # user'[c]
  BY <1>1, FirestoreAssumption
<1>3. QED
  BY <1>1, <1>2 DEF Stuck

(* The view changes: it is closed, or its rows stay. *)
LEMMA ViewListed ==
    ASSUME StateInv, NEW c \in Clients, Listed(c), UNCHANGED <<server, queue, user, reads, calls, named>>,
           \/ ~view'[c].open
           \/ /\ view'[c].open = view[c].open /\ view'[c].rows = view[c].rows
              /\ view'[c].no = view[c].no
    PROVE  Listed(c)'
<1> SUFFICES ASSUME view'[c].open PROVE Stuck(c)' \/ ListOf(c)'
  BY DEF Listed
<1>1. view[c].open /\ view'[c].rows = view[c].rows /\ view'[c].no = view[c].no
  OBVIOUS
<1>2. CASE Stuck(c)
  BY <1>2 DEF Stuck
<1>3. CASE ListOf(c)
  <2>1. \A d \in AllDevices : Wanted(c, d)' <=> Wanted(c, d)
    BY DEF Wanted, LastWrite, Unwritten
  <2>2. Writing(c) => Writing(c)'
    BY <1>1 DEF Writing, Renewal, Active
  <2>3. QED
    BY <1>1, <1>3, <2>1, <2>2, SettledList
<1>4. QED
  BY <1>1, <1>2, <1>3 DEF Listed

(* The queues keep their writes and the user stays. *)
LEMMA SameWriting ==
    ASSUME StateInv, NEW c \in Clients, user'[c] = user[c], view'[c].no = view[c].no,
           SameWrites(queue'[c][user[c]], queue[c][user[c]])
    PROVE  Writing(c) => Writing(c)'
<1> SUFFICES ASSUME Writing(c) PROVE Writing(c)'
  OBVIOUS
<1>1. PICK i \in 1..Len(queue[c][user[c]]) : Renewal(c, queue[c][user[c]][i].tag)
  BY DEF Writing, Renewal, Active
<1>2. i \in 1..Len(queue'[c][user[c]]) /\ queue'[c][user[c]][i].tag = queue[c][user[c]][i].tag
  BY <1>1 DEF SameWrites
<1>3. QED
  BY <1>1, <1>2 DEF Writing, Renewal, Active

LEMMA ConnectionListed ==
    ASSUME StateInv, NEW c \in Clients, Listed(c), GoOffline(c) \/ GoOnline(c), UNCHANGED appVars
    PROVE  Listed(c)'
<1>1. UNCHANGED <<server, user, reads, calls, view, named>>
  BY DEF GoOffline, GoOnline, appVars
<1>2. \A e \in Clients, u \in Users : SameWrites(queue'[e][u], queue[e][u])
  <2>1. CASE GoOffline(c)
    BY <2>1, QueueKept DEF GoOffline
  <2>2. CASE GoOnline(c)
    BY <2>2, SameItself DEF GoOnline
  <2>3. QED
    BY <2>1, <2>2
<1>3. \A u \in Uids : Len(queue'[c][u]) = Len(queue[c][u])
  BY <1>2 DEF SameWrites, Users
<1>4. ASSUME NEW d \in AllDevices PROVE Wanted(c, d)' <=> Wanted(c, d)
  <2>1. SameWrites(queue'[c][d[2]], queue[c][d[2]])
    BY <1>2, Places DEF Users
  <2>2. QED
    BY <1>1, <2>1, SameWanted
<1>5. Writing(c) => Writing(c)'
  BY <1>1, <1>2, SameWriting DEF StateInv
<1>6. CASE Stuck(c)
  BY <1>1, <1>3, <1>6, StuckKept DEF Listed
<1>7. CASE ListOf(c)
  BY <1>1, <1>4, <1>5, <1>7, SettledList DEF Listed
<1>8. QED
  BY <1>1, <1>6, <1>7 DEF Listed

(* Signed out behind the view: what was pending is stuck. *)
LEMMA SignOutListed ==
    ASSUME StateInv, NEW c \in Clients, Listed(c), ForcedSignOut(c)
    PROVE  Listed(c)'
<1>1. /\ UNCHANGED <<server, reads, calls, view, named>> /\ user[c] # None
      /\ user' = [user EXCEPT ![c] = None]
  BY DEF ForcedSignOut, HandleCredentialChange, appVars
<1>2. \A e \in Clients, u \in Users : SameWrites(queue'[e][u], queue[e][u])
  BY QueueKept DEF ForcedSignOut, HandleCredentialChange
<1>3. user'[c] = None /\ user[c] \in Uids
  BY <1>1 DEF StateInv, Users
<1>4. \A u \in Uids : Len(queue'[c][u]) = Len(queue[c][u])
  BY <1>2 DEF SameWrites, Users
<1>5. CASE Stuck(c)
  BY <1>1, <1>3, <1>4, <1>5, StuckKept DEF Listed
<1>6. CASE Len(queue[c][user[c]]) # 0
  <2>1. Stuck(c)'
    BY <1>3, <1>4, <1>6, FirestoreAssumption DEF Stuck
  <2>2. QED
    BY <2>1 DEF Listed
<1>7. CASE ListOf(c) /\ Len(queue[c][user[c]]) = 0
  <2>1. ASSUME NEW d \in AllDevices PROVE Wanted(c, d)' <=> Wanted(c, d)
    <3>1. SameWrites(queue'[c][d[2]], queue[c][d[2]])
      BY <1>2, Places DEF Users
    <3>2. QED
      BY <1>1, <3>1, SameWanted
  <2>2. ~Writing(c)
    BY <1>7 DEF Writing, Renewal, Active
  <2>3. QED
    BY <1>1, <1>7, <2>1, <2>2, SettledList DEF Listed
<1>8. QED
  BY <1>1, <1>5, <1>6, <1>7 DEF Listed

(* The server catches up with a pending write. *)
LEMMA CommitListed ==
    ASSUME StateInv, QueueInv, NEW c \in Clients, Listed(c), Commit(c), UNCHANGED appVars
    PROVE  Listed(c)'
<1> DEFINE n == sent[c] + 1
           w == Active(c)[n]
<1>1. /\ n \in 1..Len(Active(c)) /\ w \in Writes
      /\ server' = [server EXCEPT ![w.doc] = w.data]
  BY CommitStep
<1>2. UNCHANGED <<queue, user, reads, calls, view, named>> /\ Active(c) = queue[c][user[c]]
  BY DEF Commit, Active, appVars
<1>3. /\ server \in [Docs -> Contents] /\ w.doc \in Docs /\ user[c] \in Users
  BY <1>1, WriteFields, Places DEF StateInv
<1> HIDE DEF n, w
<1>4. \A x \in Docs : x # w.doc => server'[x] = server[x]
  BY <1>1, <1>3
<1>5. w = queue[c][user[c]][n] /\ n \in 1..Len(queue[c][user[c]])
  BY <1>1, <1>2 DEF w
<1>6. w.doc[2] = user[c]
  BY <1>3, <1>5 DEF QueueInv
<1>7. ASSUME NEW d \in AllDevices PROVE Wanted(c, d)' <=> Wanted(c, d)
  <2>1. CASE d # w.doc
    <3>1. server'[d] = server[d]
      BY <1>4, <2>1, Places
    <3>2. QED
      BY <1>2, <3>1, SameItself, SameWanted
  <2>2. CASE d = w.doc
    <3>1. ~Unwritten(c, d)
      BY <1>5, <1>6, <2>2 DEF Unwritten
    <3>2. ~Unwritten(c, d)'
      BY <1>2, <3>1 DEF Unwritten
    <3>3. \A k : LastWrite(c, d, k)' <=> LastWrite(c, d, k)
      BY <1>2 DEF LastWrite
    <3>4. QED
      BY <1>2, <3>1, <3>2, <3>3 DEF Wanted
  <2>3. QED
    BY <2>1, <2>2
<1>8. Writing(c) => Writing(c)'
  BY <1>2 DEF Writing, Renewal, Active
<1>9. CASE Stuck(c)
  BY <1>2, <1>9 DEF Stuck, Listed
<1>10. CASE ListOf(c)
  BY <1>2, <1>7, <1>8, <1>10, SettledList DEF Listed
<1>11. QED
  BY <1>2, <1>9, <1>10 DEF Listed

(* A write is asked for: its handler will read the list again. *)
LEMMA RequestListed ==
    ASSUME StateInv, NEW c \in Clients, NEW d, NEW data, NEW merge, NEW tag,
           Requested(c, d, data, merge, tag), Renewal(c, tag)'
    PROVE  Listed(c)'
<1> DEFINE w == Write(d, data, merge, tag)
           q == queue[c][user[c]]
<1>1. queue'[c][user[c]] = Append(q, w) /\ w \in Writes
  BY AskedWrite DEF Requested
<1>2. user' = user /\ q \in Seq(Writes) /\ w.tag = tag
  BY DEF Requested, StateInv, Write
<1> HIDE DEF w, q
<1>3. Active(c)' = Append(q, w)
  BY <1>1, <1>2 DEF Active
<1>4. Len(q) + 1 \in 1..Len(Append(q, w)) /\ Append(q, w)[Len(q) + 1] = w
  BY <1>1, <1>2
<1>5. Writing(c)'
  BY <1>2, <1>3, <1>4 DEF Writing, Renewal
<1>6. QED
  BY <1>5, RenewedList DEF Listed

(* updateDeviceName: the document is wanted from now on, and noted. *)
LEMMA NameListed ==
    ASSUME StateInv, NEW c \in Clients, Listed(c), UpdateDeviceName(c)
    PROVE  Listed(c)'
<1>d. PICK d : d = <<c, user[c]>>
  OBVIOUS
<1>1. PICK tag : /\ Requested(c, d, Fields(c), TRUE, tag)
                 /\ named' = [named EXCEPT ![c] = @ \cup {d}]
  BY <1>d, NameRequests
<1>w. PICK w : w = Write(d, Fields(c), TRUE, tag)
  OBVIOUS
<1> DEFINE q == queue[c][user[c]]
<1>2. /\ queue'[c][user[c]] = Append(q, w) /\ w \in Writes
      /\ \A e \in Clients, u \in Users : e # c \/ u # user[c] => queue'[e][u] = queue[e][u]
  BY <1>1, <1>w, AskedWrite DEF Requested
<1>3. /\ UNCHANGED <<server, user, reads, calls, view>> /\ q \in Seq(Writes) /\ user[c] \in Uids
      /\ d \in AllDevices /\ d[2] = user[c] /\ w.doc = d /\ w.data # Absent /\ w.tag.kind = tag.kind
  BY <1>1, <1>d, <1>w, ValueAssumption DEF UpdateDeviceName, StateInv, Users, Requested, Write
<1>4. named'[c] = named[c] \cup {d}
  BY <1>1 DEF StateInv
<1> HIDE DEF q
<1>5. /\ Len(q) \in Nat /\ Len(Append(q, w)) = Len(q) + 1
      /\ \A i \in 1..Len(q) : Append(q, w)[i] = q[i]
      /\ Append(q, w)[Len(q) + 1] = w
  BY <1>2, <1>3
<1>6. CASE Stuck(c)
  <2>1. \A u \in Uids : u # user[c] => Len(queue'[c][u]) = Len(queue[c][u])
    BY <1>2 DEF Users
  <2>2. QED
    BY <1>3, <1>6, <2>1, StuckKept DEF Listed
<1>7. CASE ListOf(c)
(* Other documents are wanted as before. *)
  <2>1. ASSUME NEW e \in AllDevices, e # d PROVE Wanted(c, e)' <=> Wanted(c, e)
    <3>1. CASE e[2] # user[c]
      <4>1. queue'[c][e[2]] = queue[c][e[2]]
        BY <1>2, <3>1, Places DEF Users
      <4>2. QED
        BY <1>3, <4>1, SameItself, SameWanted
    <3>2. CASE e[2] = user[c]
      <4> DEFINE p == Append(q, w)
      <4>1. queue[c][e[2]] = q /\ queue'[c][e[2]] = p
        BY <1>2, <3>2 DEF q
      <4>2. p[Len(q) + 1].doc # e /\ \A i \in 1..Len(p) : i \in 1..Len(q) \/ i = Len(q) + 1
        BY <1>3, <1>5, <2>1
      <4>3. \A i \in 1..Len(q) : i \in 1..Len(p) /\ p[i] = q[i]
        BY <1>5
      <4> HIDE DEF p
      <4>4. Unwritten(c, e)' <=> Unwritten(c, e)
        BY <4>1, <4>2, <4>3 DEF Unwritten
      <4>5. ASSUME NEW k \in 1..Len(q) PROVE LastWrite(c, e, k)' <=> LastWrite(c, e, k)
        BY <4>1, <4>2, <4>3 DEF LastWrite
      <4>6. \A k \in 1..Len(p) : LastWrite(c, e, k)' => k \in 1..Len(q)
        BY <4>1, <4>2 DEF LastWrite
      <4>7. QED
        BY <1>3, <4>1, <4>3, <4>4, <4>5, <4>6 DEF Wanted
    <3>3. QED
      BY <3>1, <3>2
  <2>2. Wanted(c, d)'
    <3>1. PICK k : k = Len(q) + 1
      OBVIOUS
    <3>2. /\ queue'[c][d[2]] = Append(q, w) /\ k \in 1..Len(Append(q, w)) /\ Append(q, w)[k] = w
          /\ \A i \in 1..Len(Append(q, w)) : i <= k
      BY <1>2, <1>3, <1>5, <3>1
    <3>3. LastWrite(c, d, k)'
      BY <1>3, <3>2 DEF LastWrite
    <3>4. QED
      BY <1>3, <3>2, <3>3 DEF Wanted
  <2>3. ASSUME NEW n, RefreshAfter(c, n) PROVE RefreshAfter(c, n)'
    <3>1. Reading(c) => Reading(c)'
      BY <1>3 DEF Reading
    <3>2. Called(c, n) => Called(c, n)'
      BY <1>3 DEF Called, Renews
    <3>3. Writing(c) => Writing(c)'
      <4>1. Active(c) = q /\ Active(c)' = Append(q, w)
        BY <1>2, <1>3 DEF Active, q
      <4>2. \A i \in 1..Len(q) : i \in 1..Len(Append(q, w)) /\ Append(q, w)[i] = q[i]
        BY <1>5
      <4>3. \A t : Renewal(c, t)' <=> Renewal(c, t)
        BY <1>3 DEF Renewal
      <4>4. QED
        BY <4>1, <4>2, <4>3 DEF Writing
    <3>4. QED
      BY <2>3, <3>1, <3>2, <3>3 DEF RefreshAfter
  <2>4. \A e \in AllDevices : Wanted(c, e) => Wanted(c, e)'
    BY <2>1, <2>2
  <2>5. RowsWanted(c)'
    <3> SUFFICES ASSUME NEW e \in view[c].rows PROVE Wanted(c, e)' \/ RefreshAfter(c, 0)'
      BY <1>3 DEF RowsWanted
    <3>1. e \in AllDevices /\ (Wanted(c, e) \/ RefreshAfter(c, 0))
      BY <1>7, ListDocs DEF ListOf, RowsWanted
    <3>2. QED
      BY <2>3, <2>4, <3>1
  <2>6. AnswersWanted(c)'
    <3> SUFFICES ASSUME NEW i \in 1..Len(calls[c]), Owned(c, calls[c][i]),
                        NEW e \in DOMAIN calls[c][i].docs
                 PROVE  Wanted(c, e)' \/ RefreshAfter(c, i)'
      BY <1>3 DEF AnswersWanted, Owned
    <3>1. e \in AllDevices /\ (Wanted(c, e) \/ RefreshAfter(c, i))
      BY <1>7, ListDocs DEF ListOf, AnswersWanted
    <3>2. QED
      BY <2>3, <2>4, <3>1
  <2>7. WantedListed(c)'
    <3> SUFFICES ASSUME NEW e \in AllDevices, Wanted(c, e)', e # d
                 PROVE  \/ e \in view'[c].rows \/ RefreshAfter(c, 0)' \/ Asking(c, e)'
                        \/ e \in named'[c]
      BY <1>4 DEF WantedListed
    <3>1. e \in view[c].rows \/ RefreshAfter(c, 0) \/ Asking(c, e) \/ e \in named[c]
      BY <1>7, <2>1 DEF ListOf, WantedListed
    <3>2. Asking(c, e) => Asking(c, e)'
      BY <1>3 DEF Asking, Owned
    <3>3. QED
      BY <1>3, <1>4, <2>3, <3>1, <3>2
  <2>8. QED
    BY <2>5, <2>6, <2>7 DEF Listed, ListOf
<1>8. QED
  BY <1>3, <1>6, <1>7 DEF Listed

(* fetchDevices is called by the view that is open. *)
LEMMA FetchListed ==
    ASSUME StateInv, NEW c \in Clients, NEW no, FetchDevices(c, no), view'[c].no = no
    PROVE  Listed(c)'
<1> DEFINE r == Read(UserDocs, FALSE, FetchTag(no))
<1>1. r.tag.kind = "users" /\ r.tag.no = no
  BY DEF Read, FetchTag, Tag
<1>2. reads' = [reads EXCEPT ![c] = Append(@, r)]
  BY DEF FetchDevices, GetDocuments
<1> HIDE DEF r
<1>3. reads'[c] = Append(reads[c], r) /\ reads[c] \in Seq(ListReads)
  BY <1>2 DEF StateInv
<1>4. Len(reads[c]) + 1 \in 1..Len(reads'[c]) /\ reads'[c][Len(reads[c]) + 1] = r
  BY <1>3
<1>5. Reading(c)'
  BY <1>1, <1>4 DEF Reading
<1>6. QED
  BY <1>5, RenewedList DEF Listed

(* The client hears of a write: what it wants of the document is now on the  *)
(* server, and the write's handler will read the list again.                 *)
LEMMA LeftWanted ==
    ASSUME StateInv, QueueInv, LastInv, NEW c \in Clients, Left(c, TRUE), sent[c] > 0,
           NEW d \in AllDevices
    PROVE  Wanted(c, d)' <=> Wanted(c, d)
<1> DEFINE q == queue[c][user[c]]
           p == queue'[c][user[c]]
<1>1. /\ Len(q) \in Nat /\ Len(p) = Len(q) - 1 /\ 1 \in 1..Len(q)
      /\ \A i \in 1..Len(p) : i + 1 \in 1..Len(q) /\ p[i] = q[i + 1]
      /\ \A u \in Users : u # user[c] => queue'[c][u] = queue[c][u]
  BY LeftType DEF Active
<1>2. server' = server /\ Active(c) = q /\ sent[c] \in Nat /\ d[2] \in Users
  BY Places DEF Left, Active, StateInv, Users
<1>3. CASE d[2] # user[c]
  BY <1>1, <1>2, <1>3, SameItself, SameWanted
<1>4. CASE d[2] = user[c]
  <2> HIDE DEF p, q
  <2>1. queue[c][d[2]] = q /\ queue'[c][d[2]] = p
    BY <1>4 DEF p, q
  <2>2. /\ Unwritten(c, d) <=> \A i \in 1..Len(q) : q[i].doc # d
        /\ Unwritten(c, d)' <=> \A i \in 1..Len(p) : p[i].doc # d
    BY <2>1 DEF Unwritten
  <2>3. /\ \A k : LastWrite(c, d, k) <=>
               q[k].doc = d /\ \A i \in 1..Len(q) : q[i].doc = d => i <= k
        /\ \A k : LastWrite(c, d, k)' <=>
               p[k].doc = d /\ \A i \in 1..Len(p) : p[i].doc = d => i <= k
    BY <2>1 DEF LastWrite
  <2>4. \A i \in 1..Len(q) : i = 1 \/ (i - 1 \in 1..Len(p) /\ p[i - 1] = q[i])
    <3> SUFFICES ASSUME NEW i \in 1..Len(q), i # 1
                 PROVE  i - 1 \in 1..Len(p) /\ p[i - 1] = q[i]
      OBVIOUS
    <3>1. i - 1 \in 1..Len(p) /\ (i - 1) + 1 = i
      BY <1>1
    <3>2. p[i - 1] = q[(i - 1) + 1]
      BY <1>1, <3>1
    <3>3. QED
      BY <3>1, <3>2
(* A later write is the last one before and after. *)
  <2>5. ASSUME NEW k \in 1..Len(p)
        PROVE  k + 1 \in 1..Len(q) /\ p[k] = q[k + 1] /\ (LastWrite(c, d, k)' <=> LastWrite(c, d, k + 1))
    <3>1. k + 1 \in 1..Len(q) /\ p[k] = q[k + 1]
      BY <1>1
    <3>2. ASSUME \A i \in 1..Len(p) : p[i].doc = d => i <= k, NEW i \in 1..Len(q), q[i].doc = d
          PROVE  i <= k + 1
      BY <2>4, <3>2
    <3>3. ASSUME \A i \in 1..Len(q) : q[i].doc = d => i <= k + 1, NEW i \in 1..Len(p), p[i].doc = d
          PROVE  i <= k
      <4>1. i + 1 \in 1..Len(q) /\ p[i] = q[i + 1]
        BY <1>1
      <4>2. i + 1 <= k + 1
        BY <3>3, <4>1
      <4>3. QED
        BY <4>2
    <3>4. QED
      BY <2>3, <3>1, <3>2, <3>3
(* The first write is the last one if no other is left. *)
  <2>6. LastWrite(c, d, 1) <=> q[1].doc = d /\ Unwritten(c, d)'
    <3>1. ASSUME Unwritten(c, d)', NEW i \in 1..Len(q), q[i].doc = d PROVE i <= 1
      BY <2>2, <2>4, <3>1
    <3>2. ASSUME LastWrite(c, d, 1), NEW i \in 1..Len(p), p[i].doc = d PROVE FALSE
      <4>1. i + 1 \in 1..Len(q) /\ p[i] = q[i + 1]
        BY <1>1
      <4>2. i + 1 <= 1
        BY <2>3, <3>2, <4>1
      <4>3. QED
        BY <4>2
    <3>3. QED
      BY <2>2, <2>3, <3>1, <3>2
  <2>7. LastWrite(c, d, 1) => server[d] = q[1].data
    <3> SUFFICES ASSUME LastWrite(c, d, 1) PROVE server[d] = q[1].data
      OBVIOUS
    <3>1. q[1].doc = d /\ \A i \in 1..Len(q) : q[i].doc = d => i <= 1
      BY <2>3
    <3>2. LastSent(c, 1)
      BY <1>2, <3>1 DEF LastSent
    <3>3. QED
      BY <1>1, <1>2, <3>1, <3>2 DEF LastInv
  <2>8. Unwritten(c, d) <=> q[1].doc # d /\ Unwritten(c, d)'
    BY <1>1, <2>2, <2>4
  <2>9. ASSUME Wanted(c, d) PROVE Wanted(c, d)'
    <3>1. CASE Unwritten(c, d) /\ server[d] # Absent
      BY <1>2, <2>8, <3>1 DEF Wanted
    <3>2. ASSUME NEW k \in 1..Len(q), LastWrite(c, d, k), q[k].data # Absent PROVE Wanted(c, d)'
      <4>1. CASE k = 1
        BY <1>2, <2>6, <2>7, <3>2, <4>1 DEF Wanted
      <4>2. CASE k # 1
        <5> DEFINE j == k - 1
        <5>1. j \in 1..Len(p) /\ p[j] = q[k] /\ j + 1 = k
          BY <2>4, <4>2
        <5> HIDE DEF j
        <5>2. LastWrite(c, d, j)'
          BY <2>5, <3>2, <5>1
        <5>3. QED
          BY <2>1, <3>2, <5>1, <5>2 DEF Wanted
      <4>3. QED
        BY <4>1, <4>2
    <3>3. QED
      BY <2>1, <2>9, <3>1, <3>2 DEF Wanted
  <2>10. ASSUME Wanted(c, d)' PROVE Wanted(c, d)
    <3>1. CASE Unwritten(c, d)' /\ server[d] # Absent
      <4>1. CASE q[1].doc # d
        BY <2>8, <3>1, <4>1 DEF Wanted
      <4>2. CASE q[1].doc = d
        <5>1. LastWrite(c, d, 1) /\ q[1].data # Absent
          BY <2>6, <2>7, <3>1, <4>2
        <5>2. QED
          BY <1>1, <2>1, <5>1 DEF Wanted
      <4>3. QED
        BY <4>1, <4>2
    <3>2. ASSUME NEW k \in 1..Len(p), LastWrite(c, d, k)', p[k].data # Absent PROVE Wanted(c, d)
      <4> DEFINE j == k + 1
      <4>1. j \in 1..Len(q) /\ p[k] = q[j] /\ LastWrite(c, d, j)
        BY <2>5, <3>2
      <4> HIDE DEF j
      <4>2. QED
        BY <2>1, <3>2, <4>1 DEF Wanted
    <3>3. QED
      BY <1>2, <2>1, <2>10, <3>1, <3>2 DEF Wanted
  <2>11. QED
    BY <2>9, <2>10
<1>5. QED
  BY <1>3, <1>4

LEMMA AcknowledgeListed ==
    ASSUME StateInv, QueueInv, LastInv, CallInv, NEW c \in Clients, Listed(c), Acknowledge(c),
           UNCHANGED appVars
    PROVE  Listed(c)'
<1> DEFINE q == queue[c][user[c]]
           p == queue'[c][user[c]]
           w == Head(Active(c))
           k == WriteCall(w.tag, TRUE)
<1>1. Left(c, TRUE) /\ sent[c] > 0
  BY AcknowledgeStep
<1>2. /\ Len(q) \in Nat /\ Len(p) = Len(q) - 1 /\ w = q[1] /\ w \in Writes
      /\ \A i \in 1..Len(p) : i + 1 \in 1..Len(q) /\ p[i] = q[i + 1]
      /\ \A u \in Users : u # user[c] => queue'[c][u] = queue[c][u]
  BY <1>1, LeftType DEF Active
<1>3. UNCHANGED <<user, reads, view, named>> /\ Active(c) = q
  BY <1>1 DEF Left, Active
<1>4. w.tag \in WriteTag /\ w.tag # None
  BY <1>2, WriteFields, ValueAssumption DEF WriteTag
<1>5. calls' = [calls EXCEPT ![c] = Append(@, k)]
  BY <1>4 DEF Acknowledge
<1>6. k.tag = w.tag /\ w.tag.kind \in {"registered", "deleted", "named"}
  BY <1>4 DEF WriteCall, WriteTag
<1> HIDE DEF w, k, p, q
<1>7. calls[c] \in Seq(Handlers) /\ calls'[c] = Append(calls[c], k)
  BY <1>5 DEF StateInv
<1>8. /\ Len(calls[c]) \in Nat /\ Len(calls'[c]) = Len(calls[c]) + 1
      /\ \A i \in 1..Len(calls[c]) : calls'[c][i] = calls[c][i]
      /\ calls'[c][Len(calls[c]) + 1] = k
  BY <1>7
<1>9. Grown(c)
  BY <1>8 DEF Grown
<1>10. \A u \in Uids : u # user[c] => Len(queue'[c][u]) = Len(queue[c][u])
  BY <1>2 DEF Users
<1>11. CASE Stuck(c)
  BY <1>3, <1>10, <1>11, StuckKept DEF Listed
<1>12. CASE ListOf(c)
  <2>1. \A d \in AllDevices : Wanted(c, d)' <=> Wanted(c, d)
    BY <1>1, LeftWanted
  <2>2. ASSUME NEW n \in 0..Len(calls[c]), RefreshAfter(c, n) PROVE RefreshAfter(c, n)'
    <3>1. CASE Reading(c)
      BY <1>3, <3>1 DEF RefreshAfter, Reading
    <3>2. CASE Called(c, n)
      <4>1. PICK i \in 1..Len(calls[c]) : i > n /\ Renews(c, calls[c][i])
        BY <3>2 DEF Called
      <4>2. i \in 1..Len(calls'[c]) /\ Renews(c, calls[c][i])'
        BY <1>3, <1>8, <4>1 DEF Renews
      <4>3. Called(c, n)'
        BY <4>1, <4>2 DEF Called
      <4>4. QED
        BY <4>3 DEF RefreshAfter
    <3>3. CASE Writing(c)
      <4>1. PICK i \in 1..Len(q) : Renewal(c, q[i].tag)
        BY <1>3, <3>3 DEF Writing
      <4>2. CASE i = 1
        <5>1. PICK m : m = Len(calls[c]) + 1
          OBVIOUS
        <5>2. m \in 1..Len(calls'[c]) /\ m > n /\ calls'[c][m] = k
          BY <1>8, <5>1
        <5>3. k.tag.no = view'[c].no /\ k.tag.kind \in {"users", "registered", "deleted"}
          BY <1>2, <1>3, <1>6, <4>1, <4>2 DEF Renewal
        <5>4. Called(c, n)'
          BY <5>2, <5>3 DEF Called, Renews
        <5>5. QED
          BY <5>4 DEF RefreshAfter
      <4>3. CASE i # 1
        <5>1. i - 1 \in 1..Len(p) /\ (i - 1) + 1 = i
          BY <1>2, <4>3
        <5>2. Renewal(c, p[i - 1].tag)
          BY <1>2, <4>1, <5>1
        <5>3. Writing(c)'
          BY <1>3, <5>1, <5>2 DEF Writing, Renewal, Active, p
        <5>4. QED
          BY <5>3 DEF RefreshAfter
      <4>4. QED
        BY <4>2, <4>3
    <3>4. QED
      BY <2>2, <3>1, <3>2, <3>3 DEF RefreshAfter
  <2>3. ASSUME NEW i \in (Len(calls[c]) + 1)..Len(calls'[c]) PROVE ~Owned(c, calls[c][i])'
    <3>1. calls'[c][i] = k
      BY <1>8
    <3>2. QED
      BY <1>6, <3>1 DEF Owned
  <2>4. ASSUME NEW d, Asking(c, d) PROVE Asking(c, d)'
    <3>1. CASE \E i \in 1..Len(reads[c]) : Owned(c, reads[c][i]) /\ reads[c][i].docs = Devices(d[2])
      BY <1>3, <3>1 DEF Asking, Owned
    <3>2. CASE \E i \in 1..Len(calls[c]) : Owned(c, calls[c][i]) /\ d \in DOMAIN calls[c][i].docs
      <4>1. PICK i \in 1..Len(calls[c]) : Owned(c, calls[c][i]) /\ d \in DOMAIN calls[c][i].docs
        BY <3>2
      <4>2. i \in 1..Len(calls'[c]) /\ calls'[c][i] = calls[c][i] /\ Owned(c, calls[c][i])'
        BY <1>3, <1>8, <4>1 DEF Owned
      <4>3. QED
        BY <4>1, <4>2 DEF Asking
    <3>3. QED
      BY <2>4, <3>1, <3>2 DEF Asking
  <2>5. QED
    BY <1>3, <1>9, <1>12, <2>1, <2>2, <2>3, <2>4, KeepList DEF Listed
<1>13. QED
  BY <1>3, <1>11, <1>12 DEF Listed

-----------------------------------------------------------------------------
(* Handlers are called.                                                      *)

(* The first handler goes; reads may be added. *)
HeadTaken(c) ==
    /\ Len(calls[c]) \in Nat /\ 1 \in 1..Len(calls[c]) /\ Len(calls'[c]) = Len(calls[c]) - 1
    /\ \A i \in 1..Len(calls'[c]) : i + 1 \in 1..Len(calls[c]) /\ calls'[c][i] = calls[c][i + 1]
    /\ \A i \in 1..Len(reads[c]) : i \in 1..Len(reads'[c]) /\ reads'[c][i] = reads[c][i]
    /\ UNCHANGED <<server, queue, user>>
    /\ view'[c].no = view[c].no

LEMMA ShiftedCall ==
    ASSUME NEW c \in Clients, HeadTaken(c), NEW i \in 1..Len(calls[c]), i # 1
    PROVE  \E j \in 1..Len(calls'[c]) : j + 1 = i /\ calls'[c][j] = calls[c][i]
<1>1. i - 1 \in 1..Len(calls'[c]) /\ (i - 1) + 1 = i
  BY DEF HeadTaken
<1>2. calls'[c][i - 1] = calls[c][(i - 1) + 1]
  BY <1>1 DEF HeadTaken
<1>3. QED
  BY <1>1, <1>2

LEMMA TakenRefresh ==
    ASSUME NEW c \in Clients, HeadTaken(c), NEW n \in Nat, RefreshAfter(c, n + 1)
    PROVE  RefreshAfter(c, n)'
<1>1. CASE Reading(c)
  <2>1. PICK i \in 1..Len(reads[c]) :
            reads[c][i].tag.kind = "users" /\ reads[c][i].tag.no = view[c].no
    BY <1>1 DEF Reading
  <2>2. Reading(c)'
    BY <2>1 DEF HeadTaken, Reading
  <2>3. QED
    BY <2>2 DEF RefreshAfter
<1>2. CASE Called(c, n + 1)
  <2>1. PICK i \in 1..Len(calls[c]) : i > n + 1 /\ Renews(c, calls[c][i])
    BY <1>2 DEF Called
  <2>2. i # 1
    BY <2>1
  <2>3. PICK j \in 1..Len(calls'[c]) : j + 1 = i /\ calls'[c][j] = calls[c][i]
    BY <2>2, ShiftedCall
  <2>4. j > n
    BY <2>1, <2>3
  <2>5. Renews(c, calls[c][j])'
    BY <2>1, <2>3 DEF Renews, HeadTaken
  <2>6. QED
    BY <2>4, <2>5 DEF Called, RefreshAfter
<1>3. CASE Writing(c)
  <2>1. Writing(c)'
    BY <1>3 DEF Writing, Renewal, Active, HeadTaken
  <2>2. QED
    BY <2>1 DEF RefreshAfter
<1>4. QED
  BY <1>1, <1>2, <1>3 DEF RefreshAfter

(* The first handler does not read the list again: another one will. *)
LEMMA PassedRefresh ==
    ASSUME NEW c \in Clients, HeadTaken(c), ~Renews(c, calls[c][1]), RefreshAfter(c, 0)
    PROVE  RefreshAfter(c, 0)'
<1>1. Called(c, 0) => Called(c, 0 + 1)
  BY DEF Called, HeadTaken
<1>2. RefreshAfter(c, 0 + 1) /\ 0 \in Nat
  BY <1>1 DEF RefreshAfter
<1>3. QED
  BY <1>2, TakenRefresh

LEMMA TakenWanted ==
    ASSUME NEW c \in Clients, HeadTaken(c), NEW d
    PROVE  Wanted(c, d)' <=> Wanted(c, d)
  BY DEF HeadTaken, Wanted, LastWrite, Unwritten

LEMMA TakenAnswers ==
    ASSUME NEW c \in Clients, HeadTaken(c), AnswersWanted(c)
    PROVE  AnswersWanted(c)'
<1> SUFFICES ASSUME NEW i \in 1..Len(calls'[c]), Owned(c, calls[c][i])',
                    NEW d \in DOMAIN calls'[c][i].docs
             PROVE  Wanted(c, d)' \/ RefreshAfter(c, i)'
  BY DEF AnswersWanted
<1>1. i + 1 \in 1..Len(calls[c]) /\ calls'[c][i] = calls[c][i + 1] /\ i \in Nat
  BY DEF HeadTaken
<1>2. Owned(c, calls[c][i + 1])
  BY <1>1 DEF Owned, HeadTaken
<1>3. Wanted(c, d) \/ RefreshAfter(c, i + 1)
  BY <1>1, <1>2 DEF AnswersWanted
<1>4. QED
  BY <1>1, <1>3, TakenRefresh, TakenWanted

(* The answers of the first handler get into the list; it does no more. *)
LEMMA TakenList ==
    ASSUME StateInv, NEW c \in Clients, ListOf(c), HeadTaken(c), ~Renews(c, calls[c][1]),
           \A d \in view'[c].rows :
               d \in view[c].rows \/ (Owned(c, calls[c][1]) /\ d \in DOMAIN calls[c][1].docs),
           \A d \in view[c].rows : d \in view'[c].rows,
           Owned(c, calls[c][1]) => \A d \in DOMAIN calls[c][1].docs : d \in view'[c].rows,
           named'[c] = named[c]
    PROVE  ListOf(c)'
<1>1. RowsWanted(c)'
  <2> SUFFICES ASSUME NEW d \in view'[c].rows PROVE Wanted(c, d)' \/ RefreshAfter(c, 0)'
    BY DEF RowsWanted
  <2>1. CASE d \in view[c].rows
    <3>1. Wanted(c, d) \/ RefreshAfter(c, 0)
      BY <2>1 DEF ListOf, RowsWanted
    <3>2. QED
      BY <3>1, PassedRefresh, TakenWanted
  <2>2. CASE Owned(c, calls[c][1]) /\ d \in DOMAIN calls[c][1].docs
    <3>1. 1 \in 1..Len(calls[c]) /\ 0 \in Nat /\ 0 + 1 = 1
      BY DEF HeadTaken
    <3>2. Wanted(c, d) \/ RefreshAfter(c, 0 + 1)
      BY <2>2, <3>1 DEF ListOf, AnswersWanted
    <3>3. QED
      BY <3>1, <3>2, TakenRefresh, TakenWanted
  <2>3. QED
    BY <2>1, <2>2
<1>2. AnswersWanted(c)'
  BY TakenAnswers DEF ListOf
<1>3. WantedListed(c)'
  <2> SUFFICES ASSUME NEW d \in AllDevices, Wanted(c, d)'
               PROVE  d \in view'[c].rows \/ RefreshAfter(c, 0)' \/ Asking(c, d)' \/ d \in named'[c]
    BY DEF WantedListed
  <2>1. Wanted(c, d)
    BY TakenWanted
  <2>2. d \in view[c].rows \/ RefreshAfter(c, 0) \/ Asking(c, d) \/ d \in named[c]
    BY <2>1 DEF ListOf, WantedListed
  <2>3. ASSUME NEW i \in 1..Len(reads[c]), Owned(c, reads[c][i]), reads[c][i].docs = Devices(d[2])
        PROVE  Asking(c, d)'
    <3>1. i \in 1..Len(reads'[c]) /\ reads'[c][i] = reads[c][i] /\ Owned(c, reads[c][i])'
      BY <2>3 DEF HeadTaken, Owned
    <3>2. QED
      BY <2>3, <3>1 DEF Asking
  <2>4. ASSUME NEW i \in 1..Len(calls[c]), Owned(c, calls[c][i]), d \in DOMAIN calls[c][i].docs
        PROVE  d \in view'[c].rows \/ Asking(c, d)'
    <3>1. CASE i = 1
      BY <2>4, <3>1
    <3>2. CASE i # 1
      <4>1. PICK j \in 1..Len(calls'[c]) : j + 1 = i /\ calls'[c][j] = calls[c][i]
        BY <3>2, ShiftedCall
      <4>2. Owned(c, calls[c][j])' /\ d \in DOMAIN calls'[c][j].docs
        BY <2>4, <4>1 DEF HeadTaken, Owned
      <4>3. QED
        BY <4>2 DEF Asking
    <3>3. QED
      BY <3>1, <3>2
  <2>5. QED
    BY <2>2, <2>3, <2>4, PassedRefresh DEF Asking
<1>4. QED
  BY <1>1, <1>2, <1>3 DEF ListOf

LEMMA TakenHead ==
    ASSUME StateInv, NEW c \in Clients, calls[c] # <<>>, calls' = [calls EXCEPT ![c] = Tail(@)],
           \A i \in 1..Len(reads[c]) : i \in 1..Len(reads'[c]) /\ reads'[c][i] = reads[c][i],
           UNCHANGED <<server, queue, user>>, view'[c].no = view[c].no
    PROVE  HeadTaken(c)
<1>1. calls[c] \in Seq(Handlers) /\ calls'[c] = Tail(calls[c])
  BY DEF StateInv
<1>2. /\ Len(calls[c]) \in Nat /\ 1 \in 1..Len(calls[c])
      /\ Len(Tail(calls[c])) = Len(calls[c]) - 1
      /\ \A i \in 1..Len(Tail(calls[c])) :
             i + 1 \in 1..Len(calls[c]) /\ Tail(calls[c])[i] = calls[c][i + 1]
  BY <1>1, TailElements
<1>3. QED
  BY <1>1, <1>2 DEF HeadTaken

LEMMA StuckStays ==
    ASSUME NEW c \in Clients, Stuck(c), UNCHANGED <<queue, user>>
    PROVE  Stuck(c)'
  BY DEF Stuck

(* fetchDevices, second handler. *)
LEMMA DevicesListed ==
    ASSUME StateInv, NEW c \in Clients, Listed(c), RunDevices(c)
    PROVE  Listed(c)'
<1>1. PICK call : call = Head(calls[c])
  OBVIOUS
<1>2. /\ calls[c] # <<>> /\ call.tag.kind = "devices"
      /\ calls' = [calls EXCEPT ![c] = Tail(@)]
      /\ UNCHANGED <<server, queue, user, reads, named>>
      /\ view' = IF Asked(c, call) THEN [view EXCEPT ![c].rows = @ \cup DOMAIN call.docs] ELSE view
  BY <1>1 DEF RunDevices, NextCall
<1>3. call = calls[c][1]
  BY <1>1, <1>2, Popped
<1>4. /\ view'[c].open = view[c].open /\ view'[c].no = view[c].no
      /\ Asked(c, call) => view'[c].rows = view[c].rows \cup DOMAIN call.docs
      /\ ~Asked(c, call) => view'[c].rows = view[c].rows
  BY <1>2 DEF StateInv, Views
<1>5. HeadTaken(c)
  BY <1>2, <1>4, TakenHead
<1>6. CASE Stuck(c)
  BY <1>2, <1>6, StuckStays DEF Listed
<1>7. CASE ListOf(c) /\ view[c].open
  <2>1. ~Renews(c, calls[c][1]) /\ (Owned(c, calls[c][1]) <=> Asked(c, call))
    BY <1>2, <1>3, <1>7 DEF Renews, Owned, Asked
  <2>2. ListOf(c)'
    BY <1>2, <1>3, <1>4, <1>5, <1>7, <2>1, TakenList
  <2>3. QED
    BY <2>2 DEF Listed
<1>8. QED
  BY <1>4, <1>6, <1>7 DEF Listed

(* Handlers of writes: the list is read again, if it is still there. *)
LEMMA WriteListed ==
    ASSUME StateInv, CallInv, NEW c \in Clients, Listed(c), RunRegistered(c) \/ RunDeleted(c)
    PROVE  Listed(c)'
<1>1. PICK call : call = Head(calls[c])
  OBVIOUS
<1>2. /\ calls[c] # <<>> /\ call.tag.kind \in {"registered", "deleted"}
      /\ calls' = [calls EXCEPT ![c] = Tail(@)]
      /\ UNCHANGED <<server, queue, user, view, named>>
      /\ call.ok => FetchDevices(c, call.tag.no)
  BY <1>1 DEF RunRegistered, RunDeleted, NextCall, appVars
<1>3. call = calls[c][1] /\ 1 \in 1..Len(calls[c])
  BY <1>1, <1>2, Popped
<1>4. FetchDevices(c, call.tag.no)
  BY <1>2, <1>3 DEF CallInv
<1>5. CASE call.tag.no = view[c].no
  BY <1>2, <1>4, <1>5, FetchListed
<1>6. CASE Stuck(c)
  BY <1>2, <1>6, StuckStays DEF Listed
<1>7. CASE ListOf(c) /\ call.tag.no # view[c].no
  <2>1. ASSUME NEW i \in 1..Len(reads[c])
        PROVE  i \in 1..Len(reads'[c]) /\ reads'[c][i] = reads[c][i]
    <3> DEFINE r == Read(UserDocs, FALSE, FetchTag(call.tag.no))
    <3>1. reads' = [reads EXCEPT ![c] = Append(@, r)] /\ reads[c] \in Seq(ListReads)
      BY <1>4 DEF FetchDevices, GetDocuments, StateInv
    <3> HIDE DEF r
    <3>2. reads'[c] = Append(reads[c], r)
      BY <3>1 DEF StateInv
    <3>3. QED
      BY <3>1, <3>2
  <2>2. HeadTaken(c)
    BY <1>2, <2>1, TakenHead
  <2>3. ~Renews(c, calls[c][1]) /\ ~Owned(c, calls[c][1])
    BY <1>3, <1>7 DEF Renews, Owned
  <2>4. ListOf(c)'
    BY <1>2, <1>7, <2>2, <2>3, TakenList
  <2>5. QED
    BY <2>4 DEF Listed
<1>8. QED
  BY <1>2, <1>5, <1>6, <1>7 DEF Listed

(* updateDeviceName's handler does nothing to the list. *)
LEMMA NamedListed ==
    ASSUME StateInv, NEW c \in Clients, Listed(c), RunNamed(c)
    PROVE  Listed(c)'
<1>1. PICK call : call = Head(calls[c])
  OBVIOUS
<1>2. /\ calls[c] # <<>> /\ call.tag.kind = "named"
      /\ calls' = [calls EXCEPT ![c] = Tail(@)]
      /\ UNCHANGED <<server, queue, user, reads, view, named>>
  BY <1>1 DEF RunNamed, NextCall, appVars
<1>3. call = calls[c][1]
  BY <1>1, <1>2, Popped
<1>4. HeadTaken(c)
  BY <1>2, TakenHead
<1>5. CASE Stuck(c)
  BY <1>2, <1>5, StuckStays DEF Listed
<1>6. CASE ListOf(c)
  <2>1. ~Renews(c, calls[c][1]) /\ ~Owned(c, calls[c][1])
    BY <1>2, <1>3 DEF Renews, Owned
  <2>2. ListOf(c)'
    BY <1>2, <1>4, <1>6, <2>1, TakenList
  <2>3. QED
    BY <2>2 DEF Listed
<1>7. QED
  BY <1>2, <1>5, <1>6 DEF Listed

(* Everything that is counted without repetition is met. *)
LEMMA CountedAll ==
    ASSUME NEW S, IsFiniteSet(S), NEW f \in SetToSeqs(S), NEW x \in S
    PROVE  \E i \in 1..Len(f) : f[i] = x
<1>1. Cardinality(S) \in Nat
  BY FS_CardinalityType
<1>2. PICK n \in Nat : n = Cardinality(S)
  BY <1>1
<1>3. f \in [1..n -> S] /\ \A i, j \in 1..n : i # j => f[i] # f[j]
  BY <1>2 DEF SetToSeqs
<1>4. Len(f) = n
  BY <1>3
<1>5. SUFFICES ASSUME \A i \in 1..n : f[i] # x PROVE FALSE
  BY <1>4
<1>6. IsFiniteSet(S \ {x}) /\ Cardinality(S \ {x}) = n - 1
  BY <1>2, FS_RemoveElement
<1>7. IsFiniteSet(1..n) /\ Cardinality(1..n) = n /\ n # 0
  <2>1. IsFiniteSet(1..n) /\ Cardinality(1..n) = IF 1 > n THEN 0 ELSE n - 1 + 1
    BY FS_Interval
  <2>2. n # 0
    BY <1>2, FS_EmptySet
  <2>3. QED
    BY <2>1, <2>2
<1>8. f \in [1..n -> S \ {x}]
  BY <1>3, <1>5
<1>9. \E i, j \in 1..n : i # j /\ f[i] = f[j]
  BY <1>6, <1>7, <1>8, FS_PigeonHole
<1>10. QED
  BY <1>3, <1>9

(* fetchDevices, first handler: every account's devices are asked for. *)
LEMMA UsersListed ==
    ASSUME StateInv, CallInv, NEW c \in Clients, Listed(c), RunUsers(c)
    PROVE  Listed(c)'
<1>1. PICK call : call = Head(calls[c])
  OBVIOUS
<1>2. /\ calls[c] # <<>> /\ call.tag.kind = "users"
      /\ calls' = [calls EXCEPT ![c] = Tail(@)]
      /\ UNCHANGED <<server, queue, user>>
      /\ view' = IF call.ok /\ Asked(c, call) THEN [view EXCEPT ![c].rows = {}] ELSE view
      /\ ~Asked(c, call) => named' = named
  BY <1>1 DEF RunUsers, NextCall
<1>3. call = calls[c][1] /\ 1 \in 1..Len(calls[c])
  BY <1>1, <1>2, Popped
<1>4. call.ok /\ DOMAIN call.docs = UserDocs
  BY <1>2, <1>3 DEF CallInv
<1>5. /\ view'[c].open = view[c].open /\ view'[c].no = view[c].no
      /\ Asked(c, call) => view'[c].rows = {}
      /\ ~Asked(c, call) => view'[c].rows = view[c].rows
  BY <1>2, <1>4 DEF StateInv, Views
<1>6. PICK users \in SetToSeqs(UserDocs) : \E new : AsksDevices(c, call.tag.no, users, new)
  BY <1>1, <1>4, UsersAsked
<1>7. PICK new : AsksDevices(c, call.tag.no, users, new)
  BY <1>6
<1>8. /\ reads[c] \in Seq(ListReads) /\ new \in Seq(ListReads) /\ reads'[c] = reads[c] \o new
      /\ Len(new) = Len(users)
  BY <1>7 DEF AsksDevices, StateInv
<1>9. /\ Len(reads[c]) \in Nat /\ Len(new) \in Nat /\ Len(reads'[c]) = Len(reads[c]) + Len(new)
      /\ \A i \in 1..Len(reads[c]) : reads'[c][i] = reads[c][i]
      /\ \A i \in 1..Len(new) : reads'[c][Len(reads[c]) + i] = new[i]
  <2>0. reads[c] \in Seq(ListReads) /\ new \in Seq(ListReads)
    BY <1>8
  <2>1. /\ Len(reads[c]) \in Nat /\ Len(new) \in Nat
        /\ Len(reads[c] \o new) = Len(reads[c]) + Len(new)
        /\ \A i \in 1..Len(reads[c]) : (reads[c] \o new)[i] = reads[c][i]
        /\ \A i \in 1..Len(new) : (reads[c] \o new)[Len(reads[c]) + i] = new[i]
    BY <2>0, ConcatElements
  <2>2. QED
    BY <1>8, <2>1
<1>10. HeadTaken(c)
  <2>1. \A i \in 1..Len(reads[c]) : i \in 1..Len(reads'[c]) /\ reads'[c][i] = reads[c][i]
    BY <1>9
  <2>2. QED
    BY <1>2, <1>5, <2>1, TakenHead
<1>11. CASE Stuck(c)
  BY <1>2, <1>11, StuckStays DEF Listed
<1>12. CASE ListOf(c) /\ view[c].open /\ ~Asked(c, call)
  <2>1. ~Renews(c, calls[c][1]) /\ ~Owned(c, calls[c][1])
    BY <1>2, <1>3, <1>12 DEF Renews, Owned, Asked
  <2>2. ListOf(c)'
    BY <1>2, <1>5, <1>10, <1>12, <2>1, TakenList
  <2>3. QED
    BY <2>2 DEF Listed
<1>13. CASE ListOf(c) /\ Asked(c, call)
  <2>1. RowsWanted(c)'
    BY <1>5, <1>13 DEF RowsWanted
  <2>2. AnswersWanted(c)'
    BY <1>10, <1>13, TakenAnswers DEF ListOf
  <2>3. ASSUME NEW d \in AllDevices PROVE Asking(c, d)'
    <3>1. <<ProfilePath, d[2]>> \in UserDocs
      BY Places DEF UserDocs
    <3>2. PICK i \in 1..Len(users) : users[i] = <<ProfilePath, d[2]>>
      BY <3>1, UserDocsFinite, CountedAll
    <3>3. new[i] = Read(Devices(d[2]), FALSE, Tag("devices", call.tag.no, 0, None, None))
      <4>1. new[i] = Read(Devices(users[i][2]), FALSE, Tag("devices", call.tag.no, 0, None, None))
        BY <1>7 DEF AsksDevices
      <4>2. users[i][2] = d[2]
        BY <3>2
      <4>3. QED
        BY <4>1, <4>2
    <3>4. /\ new[i].docs = Devices(d[2]) /\ new[i].tag.kind = "devices"
          /\ new[i].tag.no = view'[c].no
      BY <1>5, <1>13, <3>3 DEF Read, Tag, Asked
    <3>5. PICK j : j = Len(reads[c]) + i
      OBVIOUS
    <3>6. j \in 1..Len(reads'[c]) /\ reads'[c][j] = new[i]
      BY <1>8, <1>9, <3>5
    <3>7. QED
      BY <3>4, <3>6 DEF Asking, Owned
  <2>4. WantedListed(c)'
    BY <2>3 DEF WantedListed
  <2>5. QED
    BY <2>1, <2>2, <2>4 DEF Listed, ListOf
<1>14. QED
  BY <1>5, <1>11, <1>12, <1>13 DEF Listed

-----------------------------------------------------------------------------
(* Reads are answered.                                                       *)

LEMMA SnapshotDocs ==
    ASSUME NEW c, NEW D, NEW base, NEW d
    PROVE  d \in DOMAIN Snapshot(c, D, base) <=> d \in D /\ LocalView(c, d, base[d]) # Absent
  BY DEF Snapshot

(* What is shown of a device that is not written here is the server's. *)
LEMMA ShownUnwritten ==
    ASSUME StateInv, NEW c \in Clients, NEW d,
           \A i \in 1..Len(queue[c][user[c]]) : queue[c][user[c]][i].doc # d
    PROVE  LocalView(c, d, server[d]) = server[d]
<1>1. Len(queue[c][user[c]]) \in Nat
  BY DEF StateInv
<1>2. QED
  BY <1>1, LocalViewUnwritten

(* A snapshot that comes from the server shows what is wanted. *)
LEMMA ShownWanted ==
    ASSUME StateInv, QueueInv, NEW c \in Clients, ~Stuck(c), NEW d \in AllDevices
    PROVE  LocalView(c, d, server[d]) # Absent <=> Wanted(c, d)
<1>1. PICK q : q = queue[c][user[c]]
  OBVIOUS
<1>2. /\ q \in Seq(Writes) /\ Len(q) \in Nat /\ user[c] \in Users
      /\ d[2] \in Uids /\ d \in Docs /\ server[d] \in Contents
  BY <1>1, Places DEF StateInv
<1>3. \A i \in 1..Len(q) : q[i].doc[2] = user[c]
  BY <1>1, <1>2 DEF QueueInv
<1>4. CASE d[2] # user[c]
  <2>1. \A i \in 1..Len(q) : q[i].doc # d
    BY <1>3, <1>4
  <2>2. LocalView(c, d, server[d]) = server[d]
    BY <1>1, <2>1, ShownUnwritten
  <2>3. Len(queue[c][d[2]]) = 0
    BY <1>2, <1>4 DEF Stuck
  <2>4. QED
    BY <2>2, <2>3 DEF Wanted, Unwritten
<1>5. CASE d[2] = user[c]
  <2>1. queue[c][d[2]] = q
    BY <1>1, <1>5
  <2>2. CASE \A i \in 1..Len(q) : q[i].doc # d
    <3>1. LocalView(c, d, server[d]) = server[d]
      BY <1>1, <2>2, ShownUnwritten
    <3>2. Unwritten(c, d) /\ \A k \in 1..Len(q) : ~LastWrite(c, d, k)
      BY <2>1, <2>2 DEF Unwritten, LastWrite
    <3>3. QED
      BY <2>1, <3>1, <3>2 DEF Wanted
  <2>3. ASSUME NEW j \in 1..Len(q), q[j].doc = d
        PROVE  LocalView(c, d, server[d]) # Absent <=> Wanted(c, d)
    <3> DEFINE X == {i \in 1..Len(q) : q[i].doc = d}
    <3>1. X \in SUBSET (1..Len(q)) /\ X # {}
      BY <2>3
    <3>2. PICK k \in X : \A m \in X : m <= k
      <4> HIDE DEF X
      <4>1. QED
        BY <1>2, <3>1, Greatest
    <3>3. k \in 1..Len(q) /\ q[k].doc = d /\ \A i \in 1..Len(q) : q[i].doc = d => i <= k
      BY <3>2
    <3> HIDE DEF X
    <3>4. q[k] \in Writes /\ \A x \in Contents : Apply(q[k], x) = q[k].data
      BY <1>2, <3>3, WriteFields
    <3>5. \A i \in 1..Len(q), x \in Contents : Apply(q[i], x) \in Contents
      BY <1>2, WriteFields
    <3>6. LocalView(c, d, server[d]) = q[k].data
      <4>1. \A i \in 1..Len(queue[c][user[c]]), x \in Contents :
                queue[c][user[c]][i].doc = d => Apply(queue[c][user[c]][i], x) \in Contents
        BY <1>1, <3>5
      <4>2. /\ server[d] \in Contents /\ Len(queue[c][user[c]]) \in Nat
            /\ k \in 1..Len(queue[c][user[c]]) /\ queue[c][user[c]][k].doc = d
            /\ \A x \in Contents : Apply(queue[c][user[c]][k], x) = queue[c][user[c]][k].data
            /\ \A i \in 1..Len(queue[c][user[c]]) : queue[c][user[c]][i].doc = d => i <= k
        BY <1>1, <1>2, <3>3, <3>4
      <4>3. LocalView(c, d, server[d]) = queue[c][user[c]][k].data
        BY <4>1, <4>2, LocalViewLast
      <4>4. QED
        BY <1>1, <4>3
    <3>7. LastWrite(c, d, k) /\ ~Unwritten(c, d)
      BY <2>1, <3>3 DEF LastWrite, Unwritten
    <3>8. ASSUME NEW m \in 1..Len(q), LastWrite(c, d, m) PROVE m = k
      <4>1. m <= k /\ k <= m
        BY <2>1, <3>3, <3>8 DEF LastWrite
      <4>2. QED
        BY <1>2, <3>3, <4>1
    <3>9. QED
      BY <2>1, <3>3, <3>6, <3>7, <3>8 DEF Wanted
  <2>4. QED
    BY <2>2, <2>3
<1>6. QED
  BY <1>4, <1>5

(* The effect of an answer from the server. *)
Synced(c, D, docs) ==
    /\ Resolved(ListReads, Handlers, c, D, BOOLEAN, docs)
    /\ Later(c, D, BOOLEAN, docs)
    /\ \A d : d \in DOMAIN docs <=> d \in D /\ LocalView(c, d, server[d]) # Absent
    /\ \A e \in Clients, u \in Users : SameWrites(queue'[e][u], queue[e][u])
    /\ UNCHANGED <<server, user>>

LEMMA SynchroniseEffect ==
    ASSUME StateInv, NEW c \in Clients, NEW D \in Queries(c), Synchronise(c, D), UNCHANGED appVars
    PROVE  \E docs : Synced(c, D, docs)
<1>1. PICK docs : docs = Snapshot(c, D, server)
  OBVIOUS
<1>2. Resolve(c, D, BOOLEAN, docs) /\ UNCHANGED <<server, user>>
  BY <1>1 DEF Synchronise
<1>3. D \in SUBSET Docs
  BY QueryDocs
<1>4. docs \in Answer /\ DOMAIN docs \subseteq D
  BY <1>1, <1>3, SnapshotAnswer DEF StateInv
<1>5. \A r \in ListReads : r.docs = D => ReadCall(r.tag, r.one \in BOOLEAN, docs) \in Handlers
  BY <1>3, <1>4, AnswerHandler
<1>6. reads \in [Clients -> Seq(ListReads)] /\ calls \in [Clients -> Seq(Handlers)]
  BY DEF StateInv
<1>7. Resolved(ListReads, Handlers, c, D, BOOLEAN, docs)
  BY <1>2, <1>5, <1>6, ResolveEffect
<1>8. Later(c, D, BOOLEAN, docs)
  BY <1>2, <1>5, <1>6, ResolveLater
<1>9. \A d : d \in DOMAIN docs <=> d \in D /\ LocalView(c, d, server[d]) # Absent
  BY <1>1, SnapshotDocs
<1>10. \A e \in Clients, u \in Users : SameWrites(queue'[e][u], queue[e][u])
  BY SynchroniseStep DEF Quiet
<1>11. QED
  BY <1>2, <1>7, <1>8, <1>9, <1>10 DEF Synced

(* A read that is answered has a new handler; the others stay. *)
LEMMA AnsweredRead ==
    ASSUME NEW c \in Clients, NEW D, NEW docs, Synced(c, D, docs), NEW i \in 1..Len(reads[c])
    PROVE  IF reads[c][i].docs = D
           THEN \E j \in (Len(calls[c]) + 1)..Len(calls'[c]) :
                    calls'[c][j].tag = reads[c][i].tag /\ calls'[c][j].docs = docs
           ELSE \E j \in 1..Len(reads'[c]) : reads'[c][j] = reads[c][i]
<1>1. PICK r : r = reads[c][i]
  OBVIOUS
<1>2. InSeq(reads[c], r)
  BY <1>1 DEF InSeq
<1>3. CASE r.docs = D
  <2>1. PICK j \in (Len(calls[c]) + 1)..Len(calls'[c]) :
            calls'[c][j] = ReadCall(r.tag, r.one \in BOOLEAN, docs)
    BY <1>2, <1>3 DEF Synced, Later
  <2>2. calls'[c][j].tag = r.tag /\ calls'[c][j].docs = docs
    BY <2>1 DEF ReadCall
  <2>3. QED
    BY <1>1, <1>3, <2>2
<1>4. CASE r.docs # D
  <2>1. InSeq(reads'[c], r)
    BY <1>2, <1>4 DEF Synced, Resolved
  <2>2. QED
    BY <1>1, <1>4, <2>1 DEF InSeq
<1>5. QED
  BY <1>1, <1>3, <1>4

(* A new handler is that of a read. *)
LEMMA AnsweringCall ==
    ASSUME NEW c \in Clients, NEW D, NEW docs, Synced(c, D, docs),
           NEW i \in (Len(calls[c]) + 1)..Len(calls'[c])
    PROVE  \E r \in ListReads : /\ InSeq(reads[c], r) /\ r.docs = D /\ calls'[c][i].tag = r.tag
                                /\ calls'[c][i].ok /\ calls'[c][i].docs = docs
<1>1. PICK r \in ListReads : /\ InSeq(reads[c], r) /\ r.docs = D
                             /\ calls'[c][i] = ReadCall(r.tag, r.one \in BOOLEAN, docs)
  BY DEF Synced, Resolved
<1>2. r.one \in BOOLEAN
  BY DEF ListReads
<1>3. calls'[c][i] = ReadCall(r.tag, TRUE, docs)
  BY <1>1, <1>2
<1>4. calls'[c][i].tag = r.tag /\ calls'[c][i].ok /\ calls'[c][i].docs = docs
  BY <1>3 DEF ReadCall
<1>5. QED
  BY <1>1, <1>4

LEMMA SynchroniseListed ==
    ASSUME StateInv, QueueInv, NEW c \in Clients, Listed(c),
           NEW D \in Queries(c), Synchronise(c, D), UNCHANGED appVars
    PROVE  Listed(c)'
<1>1. PICK docs : Synced(c, D, docs)
  BY SynchroniseEffect
<1>2. /\ \A e \in Clients, u \in Users : SameWrites(queue'[e][u], queue[e][u])
      /\ UNCHANGED <<server, user, view, named>>
  BY <1>1 DEF Synced, appVars
<1>3. Grown(c)
  BY <1>1 DEF Synced, Resolved, Grown
<1>4. \A u \in Uids : Len(queue'[c][u]) = Len(queue[c][u])
  BY <1>2 DEF SameWrites, Users
<1>5. ASSUME NEW d \in AllDevices PROVE Wanted(c, d)' <=> Wanted(c, d)
  <2>1. SameWrites(queue'[c][d[2]], queue[c][d[2]])
    BY <1>2, Places DEF Users
  <2>2. QED
    BY <1>2, <2>1, SameWanted
<1>6. CASE Stuck(c)
  BY <1>2, <1>4, <1>6, StuckKept DEF Listed
<1>7. CASE ListOf(c) /\ ~Stuck(c)
  <2>1. ASSUME NEW n \in 0..Len(calls[c]), RefreshAfter(c, n) PROVE RefreshAfter(c, n)'
    <3>1. CASE Reading(c)
      <4>1. PICK i \in 1..Len(reads[c]) :
                reads[c][i].tag.kind = "users" /\ reads[c][i].tag.no = view[c].no
        BY <3>1 DEF Reading
      <4>2. CASE reads[c][i].docs = D
        <5>1. PICK j \in (Len(calls[c]) + 1)..Len(calls'[c]) : calls'[c][j].tag = reads[c][i].tag
          BY <1>1, <4>2, AnsweredRead
        <5>2. j \in 1..Len(calls'[c]) /\ j > n
          BY <1>3, <5>1 DEF Grown
        <5>3. Renews(c, calls[c][j])'
          BY <1>2, <4>1, <5>1 DEF Renews
        <5>4. QED
          BY <5>2, <5>3 DEF RefreshAfter, Called
      <4>3. CASE reads[c][i].docs # D
        <5>1. PICK j \in 1..Len(reads'[c]) : reads'[c][j] = reads[c][i]
          BY <1>1, <4>3, AnsweredRead
        <5>2. Reading(c)'
          BY <1>2, <4>1, <5>1 DEF Reading
        <5>3. QED
          BY <5>2 DEF RefreshAfter
      <4>4. QED
        BY <4>2, <4>3
    <3>2. CASE Called(c, n)
      <4>1. PICK i \in 1..Len(calls[c]) : i > n /\ Renews(c, calls[c][i])
        BY <3>2 DEF Called
      <4>2. i \in 1..Len(calls'[c]) /\ calls'[c][i] = calls[c][i]
        BY <1>3 DEF Grown
      <4>3. Renews(c, calls[c][i])'
        BY <1>2, <4>1, <4>2 DEF Renews
      <4>4. QED
        BY <4>1, <4>2, <4>3 DEF RefreshAfter, Called
    <3>3. CASE Writing(c)
      <4>1. Writing(c)'
        BY <1>2, <3>3, SameWriting DEF StateInv
      <4>2. QED
        BY <4>1 DEF RefreshAfter
    <3>4. QED
      BY <2>1, <3>1, <3>2, <3>3 DEF RefreshAfter
  <2>2. ASSUME NEW i \in (Len(calls[c]) + 1)..Len(calls'[c]), Owned(c, calls[c][i])',
               NEW d \in DOMAIN calls'[c][i].docs
        PROVE  Wanted(c, d)'
    <3>1. PICK r \in ListReads : r.docs = D /\ calls'[c][i].tag = r.tag /\ calls'[c][i].docs = docs
      BY <1>1, AnsweringCall
    <3>2. r.tag.kind = "devices"
      BY <2>2, <3>1 DEF Owned
    <3>3. D \subseteq AllDevices
      BY <3>1, <3>2 DEF ListReads, Collection
    <3>4. d \in D /\ LocalView(c, d, server[d]) # Absent
      BY <1>1, <3>1 DEF Synced
    <3>5. Wanted(c, d)
      BY <1>7, <3>3, <3>4, ShownWanted
    <3>6. QED
      BY <1>5, <3>3, <3>4, <3>5
  <2>3. ASSUME NEW d \in AllDevices, Wanted(c, d), Asking(c, d) PROVE Asking(c, d)'
    <3>1. ASSUME NEW i \in 1..Len(reads[c]), Owned(c, reads[c][i]), reads[c][i].docs = Devices(d[2])
          PROVE  Asking(c, d)'
      <4>1. CASE reads[c][i].docs = D
        <5>1. PICK j \in (Len(calls[c]) + 1)..Len(calls'[c]) :
                  calls'[c][j].tag = reads[c][i].tag /\ calls'[c][j].docs = docs
          BY <1>1, <4>1, AnsweredRead
        <5>2. d \in D
          BY <3>1, <4>1 DEF Devices, AllDevices
        <5>3. d \in DOMAIN docs
          BY <1>1, <1>7, <2>3, <5>2, ShownWanted DEF Synced
        <5>4. j \in 1..Len(calls'[c]) /\ Owned(c, calls[c][j])'
          BY <1>2, <1>3, <3>1, <5>1 DEF Grown, Owned
        <5>5. QED
          BY <5>1, <5>3, <5>4 DEF Asking
      <4>2. CASE reads[c][i].docs # D
        <5>1. PICK j \in 1..Len(reads'[c]) : reads'[c][j] = reads[c][i]
          BY <1>1, <4>2, AnsweredRead
        <5>2. Owned(c, reads[c][j])'
          BY <1>2, <3>1, <5>1 DEF Owned
        <5>3. QED
          BY <3>1, <5>1, <5>2 DEF Asking
      <4>3. QED
        BY <4>1, <4>2
    <3>2. ASSUME NEW i \in 1..Len(calls[c]), Owned(c, calls[c][i]), d \in DOMAIN calls[c][i].docs
          PROVE  Asking(c, d)'
      <4>1. i \in 1..Len(calls'[c]) /\ calls'[c][i] = calls[c][i]
        BY <1>3 DEF Grown
      <4>2. Owned(c, calls[c][i])'
        BY <1>2, <3>2, <4>1 DEF Owned
      <4>3. QED
        BY <3>2, <4>1, <4>2 DEF Asking
    <3>3. QED
      BY <2>3, <3>1, <3>2 DEF Asking
  <2>4. ListOf(c)'
    BY <1>2, <1>3, <1>5, <1>7, <2>1, <2>2, <2>3, KeepList
  <2>5. QED
    BY <2>4 DEF Listed
<1>8. QED
  BY <1>2, <1>6, <1>7 DEF Listed

-----------------------------------------------------------------------------
(* Profiles and failures.                                                    *)

LEMMA SameReads ==
    ASSUME ReadInv, UNCHANGED <<server, reads>>
    PROVE  ReadInv'
  BY DEF ReadInv

LEMMA FewerCalls ==
    ASSUME CallInv, \A e \in Clients : \A k \in 1..Len(calls'[e]) :
                        \E j \in 1..Len(calls[e]) : calls[e][j] = calls'[e][k]
    PROVE  CallInv'
<1> SUFFICES ASSUME NEW e \in Clients, NEW k \in 1..Len(calls'[e])
             PROVE  /\ calls'[e][k].ok
                    /\ calls'[e][k].tag.kind = "users" => DOMAIN calls'[e][k].docs = UserDocs
  BY DEF CallInv
<1>1. PICK j \in 1..Len(calls[e]) : calls[e][j] = calls'[e][k]
  OBVIOUS
<1>2. QED
  BY <1>1 DEF CallInv

LEMMA SameCalls ==
    ASSUME CallInv, UNCHANGED calls
    PROVE  CallInv'
  BY DEF CallInv

(* fetchDevices reads the collection users. *)
LEMMA FetchRead ==
    ASSUME OneClient, StateInv, ReadInv, NEW c \in Clients, NEW no, FetchDevices(c, no), UNCHANGED server
    PROVE  ReadInv'
<1> DEFINE r == Read(UserDocs, FALSE, FetchTag(no))
<1>1. reads' = [reads EXCEPT ![c] = Append(@, r)] /\ r.docs = UserDocs
  BY DEF FetchDevices, GetDocuments, Read
<1> HIDE DEF r
<1>2. reads'[c] = Append(reads[c], r) /\ reads[c] \in Seq(ListReads)
  BY <1>1 DEF StateInv
<1>3. ASSUME NEW i \in 1..Len(reads'[c])
      PROVE  reads'[c][i].tag.kind = "users" => reads'[c][i].docs = UserDocs
  <2>1. CASE i \in 1..Len(reads[c])
    <3>1. reads'[c][i] = reads[c][i]
      BY <1>2, <2>1
    <3>2. QED
      BY <2>1, <3>1 DEF ReadInv
  <2>2. CASE i = Len(reads[c]) + 1
    BY <1>1, <1>2, <2>2
  <2>3. i \in 1..Len(reads[c]) \/ i = Len(reads[c]) + 1
    BY <1>2
  <2>4. QED
    BY <2>1, <2>2, <2>3
<1>4. QED
  BY <1>3 DEF ReadInv, OneClient

LEMMA UsersRead ==
    ASSUME OneClient, StateInv, ReadInv, NEW c \in Clients, RunUsers(c)
    PROVE  ReadInv'
<1>1. PICK call : call = Head(calls[c])
  OBVIOUS
<1>2. PICK users, new : AsksDevices(c, call.tag.no, users, new)
  BY <1>1, UsersAsked
<1>3. /\ reads[c] \in Seq(ListReads) /\ new \in Seq(ListReads) /\ reads'[c] = reads[c] \o new
      /\ Len(new) = Len(users)
  BY <1>2 DEF AsksDevices, StateInv
<1>4. ASSUME NEW i \in 1..Len(new) PROVE new[i].tag.kind = "devices"
  <2>1. new[i] = Read(Devices(users[i][2]), FALSE, Tag("devices", call.tag.no, 0, None, None))
    BY <1>2, <1>3 DEF AsksDevices
  <2>2. QED
    BY <2>1 DEF Read, Tag
<1>5. /\ Len(reads[c]) \in Nat /\ Len(reads[c] \o new) \in Nat
      /\ \A i \in 1..Len(reads[c]) : (reads[c] \o new)[i] = reads[c][i]
      /\ \A i \in (Len(reads[c]) + 1)..Len(reads[c] \o new) :
             i - Len(reads[c]) \in 1..Len(new) /\ (reads[c] \o new)[i] = new[i - Len(reads[c])]
  <2>1. reads[c] \in Seq(ListReads) /\ new \in Seq(ListReads)
    BY <1>3
  <2>2. QED
    BY <2>1, ConcatElements
<1>6. ASSUME NEW i \in 1..Len(reads'[c])
      PROVE  reads'[c][i].tag.kind = "users" => reads'[c][i].docs = UserDocs
  <2>1. CASE i \in 1..Len(reads[c])
    <3>1. reads'[c][i] = reads[c][i]
      BY <1>3, <1>5, <2>1
    <3>2. QED
      BY <2>1, <3>1 DEF ReadInv
  <2>2. CASE i \in (Len(reads[c]) + 1)..Len(reads[c] \o new)
    <3>1. reads'[c][i].tag.kind = "devices"
      BY <1>3, <1>4, <1>5, <2>2
    <3>2. QED
      BY <3>1
  <2>3. i \in 1..Len(reads[c]) \/ i \in (Len(reads[c]) + 1)..Len(reads[c] \o new)
    BY <1>3, <1>5
  <2>4. QED
    BY <2>1, <2>2, <2>3
<1>7. server' = server
  BY DEF RunUsers
<1>8. QED
  BY <1>6, <1>7 DEF ReadInv, OneClient

(* No profile is written here. *)
LEMMA CommitRead ==
    ASSUME StateInv, ReadInv, NEW c \in Clients, Commit(c), UNCHANGED appVars
    PROVE  ReadInv'
<1>1. PICK w \in Writes : server' = [server EXCEPT ![w.doc] = w.data]
  BY CommitStep
<1>2. w.doc \in AllDevices /\ server \in [Docs -> Contents] /\ reads' = reads
  BY <1>1, WriteFields DEF StateInv, Commit
<1>3. ASSUME NEW d \in UserDocs PROVE server'[d] # Absent
  <2>1. d # w.doc
    BY <1>2, RegistryAssumption DEF UserDocs, AllDevices
  <2>2. server'[d] = server[d]
    BY <1>1, <1>2, <2>1, Places
  <2>3. QED
    BY <2>2 DEF ReadInv
<1>4. QED
  BY <1>2, <1>3 DEF ReadInv

LEMMA AcknowledgeCalls ==
    ASSUME OneClient, StateInv, CallInv, NEW c \in Clients, Acknowledge(c), UNCHANGED appVars
    PROVE  CallInv'
<1>1. PICK k : k = WriteCall(Head(Active(c)).tag, TRUE)
  OBVIOUS
<1>2. Left(c, TRUE)
  BY AcknowledgeStep
<1>3. Head(Active(c)).tag \in WriteTag
  BY <1>2, LeftType, WriteFields
<1>4. k.ok /\ k.tag.kind # "users"
  BY <1>1, <1>3 DEF WriteCall, WriteTag
<1>5. calls' = calls \/ calls' = [calls EXCEPT ![c] = Append(calls[c], k)]
  BY <1>1, <1>2 DEF Left
<1>6. CASE calls' = calls
  BY <1>6, SameCalls
<1>7. CASE calls' = [calls EXCEPT ![c] = Append(calls[c], k)]
  <2>1. calls'[c] = Append(calls[c], k) /\ calls[c] \in Seq(Handlers)
    BY <1>7 DEF StateInv
  <2>2. ASSUME NEW i \in 1..Len(calls'[c])
        PROVE  /\ calls'[c][i].ok
               /\ calls'[c][i].tag.kind = "users" => DOMAIN calls'[c][i].docs = UserDocs
    <3>1. CASE i \in 1..Len(calls[c])
      <4>1. calls'[c][i] = calls[c][i]
        BY <2>1, <3>1
      <4>2. QED
        BY <3>1, <4>1 DEF CallInv
    <3>2. CASE i = Len(calls[c]) + 1
      <4>1. calls'[c][i] = k
        BY <2>1, <3>2
      <4>2. QED
        BY <1>4, <4>1
    <3>3. i \in 1..Len(calls[c]) \/ i = Len(calls[c]) + 1
      BY <2>1
    <3>4. QED
      BY <3>1, <3>2, <3>3
  <2>3. QED
    BY <2>2 DEF CallInv, OneClient
<1>8. QED
  BY <1>5, <1>6, <1>7

LEMMA SynchroniseCalls ==
    ASSUME OneClient, StateInv, ReadInv, CallInv, NEW c \in Clients,
           NEW D \in Queries(c), Synchronise(c, D), UNCHANGED appVars
    PROVE  ReadInv' /\ CallInv'
<1>1. PICK docs : Synced(c, D, docs)
  BY SynchroniseEffect
<1>2. Grown(c) /\ server' = server
  BY <1>1 DEF Synced, Resolved, Grown
<1>3. ASSUME NEW i \in 1..Len(reads'[c])
      PROVE  reads'[c][i].tag.kind = "users" => reads'[c][i].docs = UserDocs
  <2>1. PICK r : r = reads'[c][i]
    OBVIOUS
  <2>2. InSeq(reads'[c], r)
    BY <2>1 DEF InSeq
  <2>3. InSeq(reads[c], r)
    BY <1>1, <2>2 DEF Synced, Resolved
  <2>4. QED
    BY <2>1, <2>3 DEF InSeq, ReadInv
<1>4. ReadInv'
  BY <1>2, <1>3 DEF ReadInv, OneClient
<1>5. ASSUME D = UserDocs PROVE DOMAIN docs = UserDocs
  <2>1. ASSUME NEW d \in UserDocs PROVE LocalView(c, d, server[d]) # Absent
    <3>1. ASSUME NEW i \in 1..Len(queue[c][user[c]]) PROVE queue[c][user[c]][i].doc # d
      <4>1. queue[c][user[c]][i].doc \in AllDevices
        BY WriteAt DEF StateInv
      <4>2. QED
        BY <4>1, RegistryAssumption DEF UserDocs, AllDevices
    <3>2. LocalView(c, d, server[d]) = server[d]
      BY <3>1, ShownUnwritten
    <3>3. QED
      BY <3>2 DEF ReadInv
  <2>2. \A d : d \in DOMAIN docs <=> d \in UserDocs
    BY <1>1, <1>5, <2>1 DEF Synced
  <2>3. QED
    BY <2>2
<1>6. ASSUME NEW i \in 1..Len(calls'[c])
      PROVE  /\ calls'[c][i].ok
             /\ calls'[c][i].tag.kind = "users" => DOMAIN calls'[c][i].docs = UserDocs
  <2>1. CASE i \in 1..Len(calls[c])
    <3>1. calls'[c][i] = calls[c][i]
      BY <1>2, <2>1 DEF Grown
    <3>2. QED
      BY <2>1, <3>1 DEF CallInv
  <2>2. CASE i \in (Len(calls[c]) + 1)..Len(calls'[c])
    <3>1. PICK r \in ListReads : /\ InSeq(reads[c], r) /\ r.docs = D /\ calls'[c][i].tag = r.tag
                                 /\ calls'[c][i].ok /\ calls'[c][i].docs = docs
      BY <1>1, <2>2, AnsweringCall
    <3>2. r.tag.kind = "users" => D = UserDocs
      BY <3>1 DEF InSeq, ReadInv
    <3>3. QED
      BY <1>5, <3>1, <3>2
  <2>3. i \in 1..Len(calls[c]) \/ i \in (Len(calls[c]) + 1)..Len(calls'[c])
    BY <1>2 DEF Grown
  <2>4. QED
    BY <2>1, <2>2, <2>3
<1>7. CallInv'
  BY <1>6 DEF CallInv, OneClient
<1>8. QED
  BY <1>4, <1>7

-----------------------------------------------------------------------------

LEMMA ListInit == Init => LastInv /\ ListInv
<1> SUFFICES ASSUME Init PROVE LastInv /\ ListInv
  OBVIOUS
<1>1. \A c \in Clients : /\ Len(calls[c]) = 0 /\ Len(reads[c]) = 0 /\ user[c] \in Users
                         /\ ~view[c].open
  BY DEF Init, FirestoreInit, Users, Closed
<1>2. \A c \in Clients, u \in Users : Len(queue[c][u]) = 0
  BY DEF Init, FirestoreInit
<1>3. LastInv
  BY <1>1, <1>2 DEF LastInv, Active
<1>4. ASSUME NEW d \in UserDocs PROVE server[d] # Absent
  <2>1. PICK D \in SUBSET AllDevices :
            server = [e \in Docs |-> IF e \in D \cup UserDocs THEN Fields(None) ELSE Absent]
    BY DEF Init
  <2>2. server[d] = Fields(None)
    BY <2>1, Places
  <2>3. QED
    BY <2>2, ValueAssumption
<1>5. ReadInv /\ CallInv
  BY <1>1, <1>4 DEF ReadInv, CallInv
<1>6. QED
  BY <1>1, <1>3, <1>5 DEF ListInv, Listed

(* What happens without a fault. *)
ListKept(c) == ReadInv' /\ CallInv' /\ Listed(c)'

LEMMA PeopleList ==
    ASSUME OneClient, StateInv, ReadInv, CallInv, NEW c \in Clients, Listed(c), People(c)
    PROVE  ListKept(c)
<1>1. ASSUME NEW u \in Uids, SignIn(c, u) PROVE ListKept(c)
  <2>1. UNCHANGED <<server, reads, calls, view>> /\ ~view[c].open
    BY <1>1 DEF SignIn, appVars
  <2>2. QED
    BY <2>1, SameReads, SameCalls DEF ListKept, Listed
<1>2. CASE ForcedSignOut(c)
  <2>1. UNCHANGED <<server, reads, calls>>
    BY <1>2 DEF ForcedSignOut
  <2>2. QED
    BY <1>2, <2>1, SameReads, SameCalls, SignOutListed DEF ListKept
<1>3. CASE Appear(c)
  <2>1. FetchDevices(c, view'[c].no) /\ UNCHANGED <<server, calls>>
    BY <1>3 DEF Appear
  <2>2. PICK no : no = view'[c].no
    OBVIOUS
  <2>3. FetchDevices(c, no)
    BY <2>1, <2>2
  <2>4. QED
    BY <2>1, <2>2, <2>3, FetchRead, SameCalls, FetchListed DEF ListKept
<1>4. CASE CloseView(c) \/ OpenScanner(c) \/ ScannerOff(c)
  <2>1. UNCHANGED <<server, queue, user, reads, calls, named>>
    BY <1>4 DEF CloseView, OpenScanner, ScannerOff, fsVars
  <2>2. \/ ~view'[c].open
        \/ /\ view'[c].open = view[c].open /\ view'[c].rows = view[c].rows
           /\ view'[c].no = view[c].no
    <3>1. view \in [Clients -> Views]
      BY DEF StateInv
    <3>2. CASE CloseView(c)
      BY <3>1, <3>2 DEF CloseView, Closed
    <3>3. CASE OpenScanner(c)
      BY <3>1, <3>3 DEF OpenScanner, Views
    <3>4. CASE ScannerOff(c)
      BY <3>1, <3>4 DEF ScannerOff, Views
    <3>5. QED
      BY <1>4, <3>2, <3>3, <3>4
  <2>3. QED
    BY <2>1, <2>2, SameReads, SameCalls, ViewListed DEF ListKept
<1>5. ASSUME NEW id \in DeviceIds, Scan(c, id) PROVE ListKept(c)
  <2>1. UNCHANGED <<server, reads, calls>>
    BY <1>5 DEF Scan
  <2>2. CASE user[c] = None
    <3>1. UNCHANGED <<queue, user, named>> /\ view' = [view EXCEPT ![c].scanner = "closing"]
      BY <1>5, <2>2 DEF Scan
    <3>2. /\ view'[c].open = view[c].open /\ view'[c].rows = view[c].rows
          /\ view'[c].no = view[c].no
      BY <3>1 DEF StateInv, Views
    <3>3. QED
      BY <2>1, <3>1, <3>2, SameReads, SameCalls, ViewListed DEF ListKept
  <2>3. CASE user[c] # None
    <3>1. PICK tag : Requested(c, <<id, user[c]>>, Fields(c), FALSE, tag) /\ Renewal(c, tag)'
      BY <1>5, <2>3, ScanRequests
    <3>2. QED
      BY <2>1, <3>1, SameReads, SameCalls, RequestListed DEF ListKept
  <2>4. QED
    BY <2>2, <2>3
<1>6. ASSUME NEW row \in AllDevices, TapDelete(c, row) PROVE ListKept(c)
  <2>1. UNCHANGED <<server, reads, calls>>
    BY <1>6 DEF TapDelete
  <2>2. PICK d, tag : Requested(c, d, Absent, FALSE, tag) /\ Renewal(c, tag)'
    BY <1>6, DeleteRequests
  <2>3. QED
    BY <2>1, <2>2, SameReads, SameCalls, RequestListed DEF ListKept
<1>7. CASE UpdateDeviceName(c)
  <2>1. UNCHANGED <<server, reads, calls>>
    BY <1>7 DEF UpdateDeviceName
  <2>2. QED
    BY <1>7, <2>1, SameReads, SameCalls, NameListed DEF ListKept
<1>8. QED
  BY <1>1, <1>2, <1>3, <1>4, <1>5, <1>6, <1>7 DEF People

LEMMA RunList ==
    ASSUME OneClient, StateInv, ReadInv, CallInv, NEW c \in Clients, Listed(c), RunCall(c)
    PROVE  ListKept(c)
<1>1. calls[c] # <<>> /\ calls' = [calls EXCEPT ![c] = Tail(@)]
  BY DEF RunCall, RunUsers, RunDevices, RunRegistered, RunDeleted, RunNamed, NextCall
<1>2. CallInv'
  <2>1. \A e \in Clients : \A k \in 1..Len(calls'[e]) :
            \E j \in 1..Len(calls[e]) : calls[e][j] = calls'[e][k]
    BY <1>1, Popped
  <2>2. QED
    BY <2>1, FewerCalls
<1>3. CASE RunUsers(c)
  BY <1>2, <1>3, UsersRead, UsersListed DEF ListKept
<1>4. CASE RunDevices(c)
  <2>1. UNCHANGED <<server, reads>>
    BY <1>4 DEF RunDevices
  <2>2. QED
    BY <1>2, <1>4, <2>1, SameReads, DevicesListed DEF ListKept
<1>5. CASE RunRegistered(c) \/ RunDeleted(c)
  <2>1. server' = server /\ (FetchDevices(c, Head(calls[c]).tag.no) \/ reads' = reads)
    BY <1>5 DEF RunRegistered, RunDeleted
  <2>2. PICK no : no = Head(calls[c]).tag.no
    OBVIOUS
  <2>3. ReadInv'
    <3>1. CASE FetchDevices(c, no)
      BY <2>1, <3>1, FetchRead
    <3>2. CASE reads' = reads
      BY <2>1, <3>2, SameReads
    <3>3. QED
      BY <2>1, <2>2, <3>1, <3>2
  <2>4. QED
    BY <1>2, <1>5, <2>3, WriteListed DEF ListKept
<1>6. CASE RunNamed(c)
  <2>1. UNCHANGED <<server, reads>>
    BY <1>6 DEF RunNamed
  <2>2. QED
    BY <1>2, <1>6, <2>1, SameReads, NamedListed DEF ListKept
<1>7. QED
  BY <1>3, <1>4, <1>5, <1>6 DEF RunCall

LEMMA AnswerList ==
    ASSUME OneClient, StateInv, QueueInv, LastInv, ReadInv, CallInv, NEW c \in Clients, Listed(c),
           Answers(c) \/ GoOffline(c) \/ GoOnline(c), UNCHANGED appVars
    PROVE  ListKept(c)
<1>1. CASE Commit(c)
  <2>1. UNCHANGED calls
    BY <1>1 DEF Commit
  <2>2. QED
    BY <1>1, <2>1, CommitRead, SameCalls, CommitListed DEF ListKept
<1>2. CASE Acknowledge(c)
  <2>1. UNCHANGED <<server, reads>>
    BY <1>2 DEF Acknowledge
  <2>2. QED
    BY <1>2, <2>1, SameReads, AcknowledgeCalls, AcknowledgeListed DEF ListKept
<1>3. ASSUME NEW D \in Queries(c), Synchronise(c, D) PROVE ListKept(c)
  BY <1>3, SynchroniseCalls, SynchroniseListed DEF ListKept
<1>4. CASE GoOffline(c) \/ GoOnline(c)
  <2>1. UNCHANGED <<server, reads, calls>>
    BY <1>4 DEF GoOffline, GoOnline
  <2>2. QED
    BY <1>4, <2>1, SameReads, SameCalls, ConnectionListed DEF ListKept
<1>5. QED
  BY <1>1, <1>2, <1>3, <1>4 DEF Answers

LEMMA ListStep ==
    ASSUME OneClient, StateInv, QueueInv, LastInv, ListInv, [Next]_vars
    PROVE  ListInv'
<1> SUFFICES ASSUME ~faults' PROVE ListInv'
  BY DEF ListInv
<1>1. CASE UNCHANGED vars
  <2>1. UNCHANGED <<server, queue, user, reads, calls, view, named, faults>>
    BY <1>1 DEF vars, fsVars, appVars
  <2>2. ReadInv /\ CallInv /\ \A c \in Clients : Listed(c)
    BY <2>1 DEF ListInv
  <2>3. \A c \in Clients : Listed(c)'
    BY <2>1, <2>2, ViewListed
  <2>4. QED
    BY <2>1, <2>2, <2>3, SameReads, SameCalls DEF ListInv
<1>2. CASE Next
  <2>1. PICK c \in Clients :
          \/ People(c) \/ RunCall(c)
          \/ (Answers(c) \/ GoOffline(c) \/ GoOnline(c)) /\ UNCHANGED appVars
          \/ Faults(c) /\ faults' = TRUE /\ UNCHANGED <<view, counters, latest, deleted, named>>
    BY <1>2 DEF Next
  <2>2. faults' = faults
    <3>1. CASE People(c)
      BY <3>1 DEF People, SignIn, ForcedSignOut, Appear, CloseView, OpenScanner, ScannerOff, Scan,
                  TapDelete, UpdateDeviceName, appVars
    <3>2. CASE RunCall(c)
      BY <3>2 DEF RunCall, RunUsers, RunDevices, RunRegistered, RunDeleted, RunNamed, appVars
    <3>3. CASE UNCHANGED appVars
      BY <3>3 DEF appVars
    <3>4. QED
      BY <2>1, <3>1, <3>2, <3>3
  <2>3. ReadInv /\ CallInv /\ Listed(c)
    BY <2>2 DEF ListInv
  <2>4. ListKept(c)
    BY <2>1, <2>3, PeopleList, RunList, AnswerList
  <2>5. QED
    BY <2>4, ZenonT(40) DEF ListInv, ListKept, OneClient
<1>3. QED
  BY <1>1, <1>2

(* On one device, for every number of accounts, devices, views and scans:   *)
(* when nothing is under way and the server has refused nothing, the list    *)
(* of fetchDevices shows no device that is not registered and every one that *)
(* is, except what updateDeviceName wrote since the list was last emptied,   *)
(* however the two stages of its reads, registrations, deletions, repeated   *)
(* scans, names saved, lost connections and sign-outs have overlapped.       *)
THEOREM OneClientListComplete ==
    ASSUME OneClient
    PROVE  Spec => []ListComplete
<1> DEFINE Inv == StateInv /\ DeletionInv /\ LastInv /\ ListInv
<1>1. Init => Inv
  BY TypeInit, DeletionInit, ListInit
<1>2. Inv /\ [Next]_vars => Inv'
  <2> SUFFICES ASSUME Inv, [Next]_vars PROVE Inv'
    OBVIOUS
  <2>1. StateInv' /\ (Quiet \/ \E c \in Clients : Step(c))
    BY TypeStep
  <2>2. DeletionInv'
    BY <2>1, DeletionStep, QuietDeletion
  <2>3. LastInv'
    BY <2>1, LastStep, QuietLast DEF Quiet
  <2>4. ListInv'
    BY ListStep DEF DeletionInv
  <2>5. QED
    BY <2>1, <2>2, <2>3, <2>4
<1>3. Inv => ListComplete
  BY ListRests
<1>4. QED
  BY <1>1, <1>2, <1>3, PTL DEF Spec
=============================================================================
