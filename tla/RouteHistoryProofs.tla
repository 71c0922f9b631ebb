------------------------ MODULE RouteHistoryProofs ------------------------
(***************************************************************************)
(* What RouteHistory keeps true for every number of clients, devices, days, *)
(* points, views and loads.                                                  *)
(***************************************************************************)
EXTENDS RouteHistory, FirestoreProofs, TLAPS

(* The documents of LocationHistory, the loads, and what waits for them. *)
Recorded == {Absent} \cup [{"points"} -> Nat]
Tag      == [view : Nat, query : Docs]
RouteReads ==
    {r \in [docs : SUBSET Docs, one : {FALSE}, tag : Tag] : r.docs = {r.tag.query}}
Answer     == UNION {[D -> Recorded] : D \in SUBSET Docs}
RouteCalls == [kind : {"read"}, tag : Tag, ok : BOOLEAN, docs : Answer]
Marks == SUBSET (Docs \X Nat)
Routes == Docs \cup {None}
Closed == [open |-> FALSE]
Opened == [open : {TRUE}, id : Nat, device : Uids, selectedDate : Paths,
           route : Routes, locations : Marks, center : Routes]

(* The loads of a client that have not ended, and the points of an answer. *)
Tags(c) ==
    {reads[c][i].tag : i \in 1..Len(reads[c])} \cup {calls[c][i].tag : i \in 1..Len(calls[c])}

Found(docs) == UNION {Points(e, docs[e]) : e \in DOMAIN docs}

StateInv ==
    /\ server \in [Docs -> Recorded]
    /\ cache \in [Clients -> [Docs -> Recorded]]
    /\ queue = [c \in Clients |-> [u \in Users |-> <<>>]]
    /\ sent = [c \in Clients |-> 0]
    /\ user = [c \in Clients |-> None]
    /\ reads \in [Clients -> Seq(RouteReads)]
    /\ calls \in [Clients -> Seq(RouteCalls)]
    /\ view \in [Clients -> {Closed} \cup Opened]
    /\ views \in Nat
    /\ shown \in [Clients -> [Docs -> Marks]]
    /\ asked \in [Clients -> Routes]
    /\ overlapped \in [Clients -> BOOLEAN]

(* What people saw is in the cache, what is in the cache was recorded. *)
CacheInv ==
    \A c \in Clients, d \in Docs :
        /\ Points(d, cache[c][d]) \subseteq Points(d, server[d])
        /\ shown[c][d] \subseteq Points(d, cache[c][d])

(* An answer has all the points that were shown of its route, no more than   *)
(* the cache, and no more than a later answer.                               *)
AnswersInv ==
    \A c \in Clients : \A i \in 1..Len(calls[c]) : calls[c][i].ok =>
        /\ shown[c][calls[c][i].tag.query] \subseteq Found(calls[c][i].docs)
        /\ Found(calls[c][i].docs) \subseteq
               Points(calls[c][i].tag.query, cache[c][calls[c][i].tag.query])
        /\ \A j \in 1..Len(calls[c]) :
               i < j /\ calls[c][j].ok /\ calls[c][j].tag.query = calls[c][i].tag.query =>
                   Found(calls[c][i].docs) \subseteq Found(calls[c][j].docs)

(* Identities of views are given once. *)
IdInv ==
    \A c \in Clients :
        /\ view[c].open => view[c].id \in 1..views
        /\ \A t \in Tags(c) : t.view \in 1..views

(* Unless taps overlapped, all loads of the view are of what was asked, and  *)
(* one of them is under way or was shown.                                    *)
LoadInv ==
    \A c \in Clients : view[c].open /\ asked[c] # None =>
        /\ asked[c][2] = view[c].device
        /\ ~overlapped[c] =>
               /\ \A t \in Tags(c) : t.view = view[c].id => t.query = asked[c]
               /\ view[c].route = asked[c] \/ \E t \in Tags(c) : t.view = view[c].id

ShownInv ==
    \A c \in Clients : view[c].open =>
        /\ view[c].locations # {} => view[c].center = view[c].route
        /\ view[c].route # None => view[c].locations = shown[c][view[c].route]

RouteInv ==
    StateInv /\ CacheInv /\ AnswersInv /\ IdInv /\ LoadInv /\ ShownInv

-----------------------------------------------------------------------------
(* Points of documents. *)

(* The number of points of a document, none if there is no document. *)
LEMMA NumberNat ==
    /\ \A doc \in Recorded : Number(doc) \in Nat
    /\ \A n \in Nat : Data(n) \in Recorded /\ Number(Data(n)) = n
    /\ Number(Absent) = 0
<1>1. \A doc \in [{"points"} -> Nat] : doc["points"] \in Nat
  OBVIOUS
<1>2. \A n \in Nat : Data(n) \in [{"points"} -> Nat] /\ Data(n)["points"] = n
  BY DEF Data
<1>3. QED
  BY <1>1, <1>2, RouteAssumption DEF Recorded, Number

LEMMA PointsMarks ==
    ASSUME NEW d \in Docs, NEW doc \in Recorded
    PROVE  Points(d, doc) \in Marks
<1>1. Number(doc) \in Nat
  BY NumberNat
<1>2. QED
  BY <1>1 DEF Points, Marks

(* More points of a device and day, none lost. *)
LEMMA PointsGrow ==
    ASSUME NEW d, NEW doc \in Recorded, NEW new \in Recorded, Number(doc) <= Number(new)
    PROVE  Points(d, doc) \subseteq Points(d, new)
<1>1. Number(doc) \in Nat /\ Number(new) \in Nat
  BY NumberNat
<1>2. 1..Number(doc) \subseteq 1..Number(new)
  BY <1>1
<1>3. QED
  BY <1>2 DEF Points

(* With nothing pending, an answer has the points of the document it is of. *)
LEMMA SnapshotFound ==
    ASSUME StateInv, NEW c \in Clients, NEW d \in Docs, NEW base \in [Docs -> Recorded]
    PROVE  /\ Found(Snapshot(c, {d}, base)) = Points(d, base[d])
           /\ Snapshot(c, {d}, base) \in Answer
<1>1. queue[c][user[c]] = <<>>
  BY DEF StateInv, Users
<1>2. LocalView(c, d, base[d]) = base[d]
  BY <1>1, LocalViewEmpty
<1> DEFINE D == {e \in {d} : base[d] # Absent}
<1>3. Snapshot(c, {d}, base) = [e \in D |-> base[d]]
  BY <1>2 DEF Snapshot
<1>4. base[d] \in Recorded
  OBVIOUS
<1>5. Snapshot(c, {d}, base) \in [D -> Recorded] /\ D \in SUBSET Docs
  BY <1>3, <1>4
<1>6. Found(Snapshot(c, {d}, base)) = UNION {Points(e, base[d]) : e \in D}
  BY <1>3 DEF Found
<1>7. CASE base[d] = Absent
  <2>1. Points(d, base[d]) = {}
    BY <1>7, NumberNat DEF Points
  <2>2. QED
    BY <1>5, <1>6, <1>7, <2>1 DEF Answer
<1>8. CASE base[d] # Absent
  <2>1. UNION {Points(e, base[d]) : e \in D} = Points(d, base[d])
    BY <1>8
  <2>2. QED
    BY <1>5, <1>6, <2>1 DEF Answer
<1>9. QED
  BY <1>7, <1>8

(* Nothing is ever pending: what restarts or overtakes writes changes none. *)
LEMMA NothingPending ==
    ASSUME StateInv, NEW c \in Clients
    PROVE  /\ Active(c) = <<>> /\ sent[c] = 0
           /\ [queue EXCEPT ![c][user[c]] = Unseen(@)] = queue
           /\ [sent EXCEPT ![c] = 0] = sent
           /\ \A D : ApplyRemoteEvent(c, D) =>
                  /\ queue' = queue
                  /\ cache' = [cache EXCEPT ![c] =
                                  [d \in Docs |-> IF d \in D THEN server[d] ELSE cache[c][d]]]
<1>1. Active(c) = <<>> /\ sent[c] = 0 /\ user[c] \in Users /\ queue[c] = [u \in Users |-> <<>>]
  BY DEF StateInv, Users, Active
<1>2. Unseen(<<>>) = <<>>
  BY DEF Unseen
<1>3. queue \in [Clients -> [Users -> {<<>>}]]
  BY DEF StateInv
<1>4. [queue EXCEPT ![c][user[c]] = <<>>] = queue
  BY <1>1, <1>3
<1>5. [queue EXCEPT ![c][user[c]] = Unseen(@)] = queue
  BY <1>1, <1>2, <1>3, <1>4
<1>6. [sent EXCEPT ![c] = 0] = sent
  BY DEF StateInv
<1>7. ASSUME NEW D, ApplyRemoteEvent(c, D)
      PROVE  /\ queue' = queue
             /\ cache' = [cache EXCEPT ![c] =
                             [d \in Docs |-> IF d \in D THEN server[d] ELSE cache[c][d]]]
  <2>1. Seen(<<>>, sent[c], D) = <<>>
    BY DEF Seen
  <2>2. queue' = [queue EXCEPT ![c][user[c]] = <<>>]
    BY <1>1, <1>3, <1>7, <2>1 DEF ApplyRemoteEvent
  <2>3. QED
    BY <1>4, <1>7, <2>2 DEF ApplyRemoteEvent, StateInv
<1>8. QED
  BY <1>1, <1>5, <1>6, <1>7

-----------------------------------------------------------------------------
(* Reads that are answered. *)

(* An answer moves loads from reads to calls: none is lost and none added. *)
LEMMA ResolveRoute ==
    ASSUME StateInv, NEW c \in Clients, NEW d \in Docs, NEW ok,
           NEW docs \in Answer,
           Resolve(c, {d}, ok, docs)
    PROVE  /\ reads' \in [Clients -> Seq(RouteReads)] /\ calls' \in [Clients -> Seq(RouteCalls)]
           /\ \A e \in Clients : Tags(e)' = Tags(e)
           /\ \A e \in Clients : e # c => calls'[e] = calls[e]
           /\ Len(calls[c]) \in Nat
           /\ \A i \in 1..Len(calls'[c]) :
                  \/ i \in 1..Len(calls[c]) /\ calls'[c][i] = calls[c][i]
                  \/ /\ i > Len(calls[c]) /\ calls'[c][i].tag.query = d
                     /\ calls'[c][i].docs = docs /\ (calls'[c][i].ok => FALSE \in ok)
<1> DEFINE R == RouteReads
           C == RouteCalls
<1>1. reads \in [Clients -> Seq(R)] /\ calls \in [Clients -> Seq(C)]
  BY DEF StateInv
<1>2. \A r \in R : /\ r.tag \in Tag /\ r.one = FALSE /\ r.docs = {r.tag.query}
  BY DEF RouteReads
<1>3. \A r \in R : ReadCall(r.tag, r.one \in ok, docs) \in C
  BY <1>2 DEF RouteCalls, ReadCall
<1> HIDE DEF R, C
<1>4. /\ reads' \in [Clients -> Seq(R)] /\ calls' \in [Clients -> Seq(C)]
      /\ \A e \in Clients : e # c => reads'[e] = reads[e] /\ calls'[e] = calls[e]
      /\ \A x : InSeq(reads'[c], x) <=> InSeq(reads[c], x) /\ x.docs # {d}
      /\ Len(calls[c]) \in Nat /\ Len(calls'[c]) \in Nat /\ Len(calls[c]) <= Len(calls'[c])
      /\ \A i \in 1..Len(calls[c]) : calls'[c][i] = calls[c][i]
      /\ \A i \in (Len(calls[c]) + 1)..Len(calls'[c]) :
             \E r \in R : /\ InSeq(reads[c], r) /\ r.docs = {d}
                          /\ calls'[c][i] = ReadCall(r.tag, r.one \in ok, docs)
      /\ \A r : InSeq(reads[c], r) /\ r.docs = {d} =>
             InSeq(calls'[c], ReadCall(r.tag, r.one \in ok, docs))
  <2>1. Resolved(R, C, c, {d}, ok, docs)
    BY <1>1, <1>3, ResolveEffect
  <2>2. QED
    BY <2>1 DEF Resolved
<1>5. \A t, o, x : ReadCall(t, o, x).tag = t /\ ReadCall(t, o, x).ok = o /\ ReadCall(t, o, x).docs = x
  BY DEF ReadCall
<1>6. ASSUME NEW i \in 1..Len(calls'[c])
      PROVE  \/ i \in 1..Len(calls[c]) /\ calls'[c][i] = calls[c][i]
             \/ /\ i > Len(calls[c]) /\ calls'[c][i].tag.query = d
                /\ calls'[c][i].docs = docs /\ (calls'[c][i].ok => FALSE \in ok)
                /\ \E r \in R : InSeq(reads[c], r) /\ calls'[c][i].tag = r.tag
  <2>1. CASE i \in 1..Len(calls[c])
    BY <1>4, <2>1
  <2>2. CASE i \in (Len(calls[c]) + 1)..Len(calls'[c])
    <3>1. PICK r \in R : /\ InSeq(reads[c], r) /\ r.docs = {d}
                         /\ calls'[c][i] = ReadCall(r.tag, r.one \in ok, docs)
      BY <1>4, <2>2
    <3>2. r.tag.query = d /\ r.one = FALSE
      BY <1>2, <3>1
    <3>3. i > Len(calls[c])
      BY <1>4, <2>2
    <3>4. calls'[c][i] = ReadCall(r.tag, FALSE \in ok, docs)
      BY <3>1, <3>2
    <3>5. /\ calls'[c][i].tag = r.tag /\ calls'[c][i].docs = docs
          /\ calls'[c][i].ok => FALSE \in ok
      <4>1. PICK k : k = calls'[c][i]
        OBVIOUS
      <4>2. k = ReadCall(r.tag, FALSE \in ok, docs)
        BY <3>4, <4>1
      <4>3. k.ok => FALSE \in ok
        BY ONLY <4>2 DEF ReadCall
      <4>4. k.tag = r.tag /\ k.docs = docs
        BY ONLY <4>2 DEF ReadCall
      <4>5. QED
        BY <4>1, <4>3, <4>4
    <3>6. QED
      BY <3>1, <3>2, <3>3, <3>5
  <2>3. i \in 1..Len(calls[c]) \/ i \in (Len(calls[c]) + 1)..Len(calls'[c])
    BY <1>4
  <2>4. QED
    BY <2>1, <2>2, <2>3
<1>7. Tags(c)' = Tags(c)
  <2>1. ASSUME NEW t \in Tags(c)' PROVE t \in Tags(c)
    <3>1. CASE \E i \in 1..Len(reads'[c]) : t = reads'[c][i].tag
      <4>1. PICK i \in 1..Len(reads'[c]) : t = reads'[c][i].tag
        BY <3>1
      <4>2. InSeq(reads[c], reads'[c][i])
        BY <1>4, <4>1 DEF InSeq
      <4>3. QED
        BY <4>1, <4>2 DEF InSeq, Tags
    <3>2. CASE \E i \in 1..Len(calls'[c]) : t = calls'[c][i].tag
      <4>1. PICK i \in 1..Len(calls'[c]) : t = calls'[c][i].tag
        BY <3>2
      <4>2. CASE i \in 1..Len(calls[c]) /\ calls'[c][i] = calls[c][i]
        BY <4>1, <4>2 DEF Tags
      <4>3. CASE \E r \in R : InSeq(reads[c], r) /\ calls'[c][i].tag = r.tag
        BY <4>1, <4>3 DEF InSeq, Tags
      <4>4. QED
        BY <1>6, <4>2, <4>3
    <3>3. QED
      BY <2>1, <3>1, <3>2 DEF Tags
  <2>2. ASSUME NEW t \in Tags(c) PROVE t \in Tags(c)'
    <3>1. CASE \E i \in 1..Len(reads[c]) : t = reads[c][i].tag
      <4>1. PICK i \in 1..Len(reads[c]) : t = reads[c][i].tag
        BY <3>1
      <4>2. InSeq(reads[c], reads[c][i])
        BY DEF InSeq
      <4>3. CASE reads[c][i].docs = {d}
        <5>1. PICK j \in 1..Len(calls'[c]) :
                 calls'[c][j] = ReadCall(t, reads[c][i].one \in ok, docs)
          BY <1>4, <4>1, <4>2, <4>3 DEF InSeq
        <5>2. calls'[c][j].tag = t
          BY <1>5, <5>1
        <5>3. QED
          BY <5>2 DEF Tags
      <4>4. CASE reads[c][i].docs # {d}
        <5>1. InSeq(reads'[c], reads[c][i])
          BY <1>4, <4>2, <4>4
        <5>2. QED
          BY <4>1, <5>1 DEF InSeq, Tags
      <4>5. QED
        BY <4>3, <4>4
    <3>2. CASE \E i \in 1..Len(calls[c]) : t = calls[c][i].tag
      BY <1>4, <3>2, SMTT(30) DEF Tags
    <3>3. QED
      BY <2>2, <3>1, <3>2 DEF Tags
  <2>3. QED
    BY <2>1, <2>2
<1>8. \A e \in Clients : Tags(e)' = Tags(e)
  <2>1. ASSUME NEW e \in Clients, e # c PROVE Tags(e)' = Tags(e)
    <3>1. reads'[e] = reads[e] /\ calls'[e] = calls[e]
      BY <1>4, <2>1
    <3>2. QED
      BY <3>1 DEF Tags
  <2>2. QED
    BY <1>7, <2>1
<1>9. QED
  BY <1>4, <1>6, <1>8 DEF R, C

(* What an answer must be like: it has the points of the cache, which may    *)
(* grow and never past the server.                                           *)
LEMMA ReadStep ==
    ASSUME RouteInv, NEW c \in Clients, NEW d \in Docs, NEW ok,
           NEW docs \in Answer,
           Resolve(c, {d}, ok, docs),
           UNCHANGED <<server, queue, sent, user, appVars>>,
           cache' \in [Clients -> [Docs -> Recorded]],
           \A e \in Clients, f \in Docs :
               /\ Points(f, cache[e][f]) \subseteq Points(f, cache'[e][f])
               /\ Points(f, cache'[e][f]) \subseteq Points(f, server[f]),
           FALSE \in ok => Found(docs) = Points(d, cache'[c][d])
    PROVE  RouteInv'
<1>1. /\ reads' \in [Clients -> Seq(RouteReads)] /\ calls' \in [Clients -> Seq(RouteCalls)]
      /\ \A e \in Clients : Tags(e)' = Tags(e)
      /\ \A e \in Clients : e # c => calls'[e] = calls[e]
      /\ Len(calls[c]) \in Nat
      /\ \A i \in 1..Len(calls'[c]) :
             \/ i \in 1..Len(calls[c]) /\ calls'[c][i] = calls[c][i]
             \/ /\ i > Len(calls[c]) /\ calls'[c][i].tag.query = d
                /\ calls'[c][i].docs = docs /\ (calls'[c][i].ok => FALSE \in ok)
  BY ResolveRoute DEF RouteInv
<1>2. StateInv'
  BY <1>1 DEF RouteInv, StateInv, appVars
<1>3. CacheInv'
  BY DEF RouteInv, CacheInv, appVars
<1>4. AnswersInv'
  <2>0. shown' = shown
    BY DEF appVars
  <2>1. SUFFICES ASSUME NEW e \in Clients, NEW i \in 1..Len(calls'[e]), calls'[e][i].ok
                 PROVE  /\ shown[e][calls'[e][i].tag.query] \subseteq Found(calls'[e][i].docs)
                        /\ Found(calls'[e][i].docs) \subseteq
                               Points(calls'[e][i].tag.query, cache'[e][calls'[e][i].tag.query])
                        /\ \A j \in 1..Len(calls'[e]) :
                               i < j /\ calls'[e][j].ok
                               /\ calls'[e][j].tag.query = calls'[e][i].tag.query =>
                                   Found(calls'[e][i].docs) \subseteq Found(calls'[e][j].docs)
    BY <2>0 DEF AnswersInv
  <2>2. calls'[e][i].tag.query \in Docs
    <3>1. calls'[e][i] \in RouteCalls
      BY <1>1
    <3>2. QED
      BY <3>1 DEF RouteCalls, Tag
  <2>3. CASE e # c
    <3>1. calls'[e] = calls[e]
      BY <1>1, <2>3
    <3>2. QED
      BY <2>1, <2>2, <3>1 DEF RouteInv, AnswersInv
  <2>4. CASE e = c
    <3>1. CASE i \in 1..Len(calls[c]) /\ calls'[c][i] = calls[c][i]
      <4> DEFINE f == calls[c][i].tag.query
      <4>1. /\ f \in Docs /\ shown[c][f] \subseteq Found(calls[c][i].docs)
            /\ Found(calls[c][i].docs) \subseteq Points(f, cache[c][f])
            /\ \A j \in 1..Len(calls[c]) : i < j /\ calls[c][j].ok /\ calls[c][j].tag.query = f =>
                   Found(calls[c][i].docs) \subseteq Found(calls[c][j].docs)
        BY <2>1, <2>2, <2>4, <3>1 DEF RouteInv, AnswersInv
      <4>2. Points(f, cache[c][f]) \subseteq Points(f, cache'[c][f])
        BY <4>1
      <4>3. ASSUME NEW j \in 1..Len(calls'[c]), i < j, calls'[c][j].ok, calls'[c][j].tag.query = f
            PROVE  Found(calls[c][i].docs) \subseteq Found(calls'[c][j].docs)
        <5>1. CASE j \in 1..Len(calls[c]) /\ calls'[c][j] = calls[c][j]
          BY <4>1, <4>3, <5>1
        <5>2. CASE /\ j > Len(calls[c]) /\ calls'[c][j].tag.query = d
                   /\ calls'[c][j].docs = docs /\ (calls'[c][j].ok => FALSE \in ok)
          <6>1. Found(calls'[c][j].docs) = Points(f, cache'[c][f])
            BY <4>3, <5>2
          <6>2. QED
            BY <4>1, <4>2, <6>1
        <5>3. QED
          BY <1>1, <5>1, <5>2
      <4>4. QED
        BY <2>4, <3>1, <4>1, <4>2, <4>3
    <3>2. CASE /\ i > Len(calls[c]) /\ calls'[c][i].tag.query = d
               /\ calls'[c][i].docs = docs /\ (calls'[c][i].ok => FALSE \in ok)
      <4>1. Found(docs) = Points(d, cache'[c][d])
        BY <2>1, <2>4, <3>2
      <4>2. shown[c][d] \subseteq Points(d, cache'[c][d])
        BY DEF RouteInv, CacheInv
      <4>3. ASSUME NEW j \in 1..Len(calls'[c]), i < j
            PROVE  calls'[c][j].docs = docs
        <5>1. j \notin 1..Len(calls[c])
          BY <1>1, <2>4, <3>2, <4>3
        <5>2. QED
          BY <1>1, <5>1
      <4>4. QED
        BY <2>4, <3>2, <4>1, <4>2, <4>3
    <3>3. QED
      BY <1>1, <2>4, <3>1, <3>2
  <2>5. QED
    BY <2>3, <2>4
<1>5. IdInv'
  BY <1>1 DEF RouteInv, IdInv, appVars
<1>6. LoadInv'
  BY <1>1, ZenonT(40) DEF RouteInv, LoadInv, appVars
<1>7. ShownInv'
  BY DEF RouteInv, ShownInv, appVars
<1>8. QED
  BY <1>2, <1>3, <1>4, <1>5, <1>6, <1>7 DEF RouteInv

-----------------------------------------------------------------------------
(* The invariant holds initially and every action keeps it. *)

LEMMA RouteInit == Init => RouteInv
<1> SUFFICES ASSUME Init PROVE RouteInv
  OBVIOUS
<1> USE DEF Init, FirestoreInit
<1>1. StateInv
  BY DEF StateInv, Recorded, Closed, Routes, Marks
<1>2. CacheInv
  BY DEF CacheInv
<1>3. AnswersInv
  BY DEF AnswersInv
<1>4. IdInv
  <2>1. \A c \in Clients : Tags(c) = {}
    BY DEF Tags
  <2>2. QED
    BY <2>1 DEF IdInv
<1>5. LoadInv
  BY DEF LoadInv
<1>6. ShownInv
  BY DEF ShownInv
<1>7. QED
  BY <1>1, <1>2, <1>3, <1>4, <1>5, <1>6 DEF RouteInv

LEMMA RouteUnchanged ==
    ASSUME RouteInv, UNCHANGED <<server, cache, queue, sent, user, reads, calls, appVars>>
    PROVE  RouteInv'
<1>1. StateInv' /\ CacheInv' /\ AnswersInv'
  BY DEF RouteInv, StateInv, CacheInv, AnswersInv, appVars
<1>2. \A c \in Clients : Tags(c)' = Tags(c)
  BY DEF Tags
<1>3. IdInv' /\ LoadInv' /\ ShownInv'
  BY <1>2 DEF RouteInv, IdInv, LoadInv, ShownInv, appVars
<1>4. QED
  BY <1>1, <1>3 DEF RouteInv

LEMMA OpenedIsRecord ==
    ASSUME StateInv, NEW c \in Clients
    PROVE  /\ view[c].open \in BOOLEAN
           /\ view[c].open => view[c] \in Opened
<1>1. view[c] \in {Closed} \cup Opened
  BY DEF StateInv
<1>2. Closed.open = FALSE /\ \A v \in Opened : v.open = TRUE
  BY DEF Closed, Opened
<1>3. QED
  BY <1>1, <1>2

LEMMA RecordStep ==
    ASSUME RouteInv, NEW d \in Docs, Record(d)
    PROVE  RouteInv'
<1> USE DEF Record, appVars
<1>1. /\ server[d] \in Recorded /\ Number(server[d]) \in Nat
      /\ server' = [server EXCEPT ![d] = Data(Number(server[d]) + 1)]
  BY NumberNat DEF RouteInv, StateInv
<1>2. /\ Data(Number(server[d]) + 1) \in Recorded
      /\ Number(Data(Number(server[d]) + 1)) = Number(server[d]) + 1
  BY <1>1, NumberNat
<1>3. StateInv'
  BY <1>1, <1>2 DEF RouteInv, StateInv
<1>4. CacheInv'
  <2>1. ASSUME NEW f \in Docs PROVE Points(f, server[f]) \subseteq Points(f, server'[f])
    <3>1. CASE f = d
      <4>1. Number(server[d]) <= Number(server'[d]) /\ server'[d] \in Recorded
        BY <1>1, <1>2 DEF RouteInv, StateInv
      <4>2. QED
        BY <1>1, <3>1, <4>1, PointsGrow
    <3>2. CASE f # d
      BY <1>1, <3>2
    <3>3. QED
      BY <3>1, <3>2
  <2>2. QED
    BY <2>1 DEF RouteInv, CacheInv
<1>5. AnswersInv'
  BY DEF RouteInv, AnswersInv
<1>6. IdInv' /\ LoadInv' /\ ShownInv'
  BY DEF RouteInv, IdInv, LoadInv, ShownInv, Tags
<1>7. QED
  BY <1>3, <1>4, <1>5, <1>6 DEF RouteInv

LEMMA OpenStep ==
    ASSUME RouteInv, NEW c \in Clients, NEW device \in Uids, NEW date \in Paths,
           Open(c, device, date)
    PROVE  RouteInv'
<1> USE DEF Open, fsVars
<1> DEFINE new == NewView(device, date, views + 1)
<1>1. /\ new \in Opened /\ new.open /\ new.id = views + 1
      /\ new.route = None /\ new.locations = {}
  BY DEF RouteInv, StateInv, NewView, Opened, Routes, Marks
<1> HIDE DEF new
<1>2. /\ view' = [view EXCEPT ![c] = new] /\ views' = views + 1 /\ views \in Nat
      /\ \A e \in Clients : Tags(e)' = Tags(e)
      /\ view \in [Clients -> {Closed} \cup Opened]
  BY DEF new, Tags, RouteInv, StateInv
<1>3. StateInv'
  BY <1>1, <1>2 DEF RouteInv, StateInv, Routes
<1>4. CacheInv'
  BY DEF RouteInv, CacheInv
<1>5. AnswersInv'
  BY DEF RouteInv, AnswersInv
<1>6. IdInv'
  <2>1. \A n \in 1..views : n \in 1..(views + 1)
    BY <1>2
  <2>2. views + 1 \in 1..(views + 1)
    BY <1>2
  <2>3. QED
    BY <1>1, <1>2, <2>1, <2>2 DEF RouteInv, IdInv
<1>7. LoadInv'
  <2>1. asked'[c] = None /\ \A e \in Clients : e # c => asked'[e] = asked[e] /\ overlapped'[e] = overlapped[e]
    BY DEF RouteInv, StateInv
  <2>2. QED
    BY <1>2, <2>1 DEF RouteInv, LoadInv
<1>8. ShownInv'
  BY <1>1, <1>2 DEF RouteInv, ShownInv
<1>9. QED
  BY <1>3, <1>4, <1>5, <1>6, <1>7, <1>8 DEF RouteInv

LEMMA CloseStep ==
    ASSUME RouteInv, NEW c \in Clients, Close(c)
    PROVE  RouteInv'
<1> USE DEF Close, fsVars
<1>1. /\ view' = [view EXCEPT ![c] = Closed] /\ Closed.open = FALSE
      /\ \A e \in Clients : Tags(e)' = Tags(e)
      /\ view \in [Clients -> {Closed} \cup Opened]
  BY DEF Closed, Tags, RouteInv, StateInv
<1>2. /\ view'[c].open = FALSE
      /\ \A e \in Clients : e # c => view'[e] = view[e]
  BY <1>1
<1>3. StateInv'
  BY <1>1 DEF RouteInv, StateInv
<1>4. CacheInv'
  BY DEF RouteInv, CacheInv
<1>5. AnswersInv'
  BY DEF RouteInv, AnswersInv
<1>6. IdInv' /\ LoadInv' /\ ShownInv'
  BY <1>1, <1>2 DEF RouteInv, IdInv, LoadInv, ShownInv
<1>7. QED
  BY <1>3, <1>4, <1>5, <1>6 DEF RouteInv

LEMMA SelectDateStep ==
    ASSUME RouteInv, NEW c \in Clients, NEW date \in Paths, SelectDate(c, date)
    PROVE  RouteInv'
<1> USE DEF SelectDate, fsVars
<1>1. /\ view \in [Clients -> {Closed} \cup Opened] /\ view[c].open /\ view[c] \in Opened
      /\ \A e \in Clients : Tags(e)' = Tags(e)
  BY OpenedIsRecord DEF Tags, RouteInv, StateInv
<1> DEFINE new == [view[c] EXCEPT !.selectedDate = date]
<1>2. /\ new \in Opened /\ new.open /\ new.id = view[c].id /\ new.device = view[c].device
      /\ new.route = view[c].route /\ new.locations = view[c].locations
      /\ new.center = view[c].center
  BY <1>1 DEF Opened
<1>3. view' = [view EXCEPT ![c] = new]
  BY <1>1
<1> HIDE DEF new
<1>4. StateInv'
  BY <1>1, <1>2, <1>3 DEF RouteInv, StateInv
<1>5. CacheInv'
  BY DEF RouteInv, CacheInv
<1>6. AnswersInv'
  BY DEF RouteInv, AnswersInv
<1>7. IdInv' /\ LoadInv' /\ ShownInv'
  BY <1>1, <1>2, <1>3 DEF RouteInv, IdInv, LoadInv, ShownInv
<1>8. QED
  BY <1>4, <1>5, <1>6, <1>7 DEF RouteInv

LEMMA FetchStep ==
    ASSUME RouteInv, NEW c \in Clients, FetchLocationHistory(c)
    PROVE  RouteInv'
<1> DEFINE d == <<view[c].selectedDate, view[c].device>>
           t == [view |-> view[c].id, query |-> d]
           r == Read({d}, FALSE, t)
<1>1. /\ view[c].open /\ view[c] \in Opened /\ view[c].id \in 1..views
      /\ reads \in [Clients -> Seq(RouteReads)] /\ views \in Nat
  BY OpenedIsRecord DEF FetchLocationHistory, RouteInv, StateInv, IdInv
<1>2. d \in Docs /\ d[2] = view[c].device /\ t.view = view[c].id /\ t.query = d /\ t \in Tag
  BY <1>1 DEF Opened, Docs, Tag
<1>3. r.tag = t /\ r \in RouteReads
  BY <1>2 DEF Read, RouteReads
<1>4. /\ reads' = [reads EXCEPT ![c] = Append(@, r)]
      /\ asked' = [asked EXCEPT ![c] = d]
      /\ overlapped' = [overlapped EXCEPT ![c] = @ \/ Loading(c)]
      /\ UNCHANGED <<server, cache, queue, sent, user, calls, view, views, shown>>
  BY DEF FetchLocationHistory, GetDocuments, Query
<1> HIDE DEF d, t, r
<1>5. /\ \A e \in Clients : e # c => Tags(e)' = Tags(e)
      /\ Tags(c)' = Tags(c) \cup {t}
  <2>1. ASSUME NEW e \in Clients, e # c PROVE Tags(e)' = Tags(e)
    <3>1. reads'[e] = reads[e] /\ calls' = calls
      BY <1>4, <2>1
    <3>2. QED
      BY <3>1 DEF Tags
  <2>2. /\ reads[c] \in Seq(RouteReads) /\ reads'[c] = Append(reads[c], r)
    BY <1>1, <1>4
  <2>3. \A x : InSeq(reads'[c], x) <=> InSeq(reads[c], x) \/ x = r
    BY <1>3, <2>2, AppendElements
  <2>4. ASSUME NEW u PROVE u \in Tags(c)' <=> u \in Tags(c) \/ u = t
    <3>1. u \in Tags(c) <=> \/ \E x : InSeq(reads[c], x) /\ x.tag = u
                            \/ \E i \in 1..Len(calls[c]) : calls[c][i].tag = u
      BY DEF Tags, InSeq
    <3>2. u \in Tags(c)' <=> \/ \E x : InSeq(reads'[c], x) /\ x.tag = u
                             \/ \E i \in 1..Len(calls[c]) : calls[c][i].tag = u
      BY <1>4 DEF Tags, InSeq
    <3>3. QED
      BY <1>3, <2>3, <3>1, <3>2
  <2>5. QED
    BY <2>1, <2>4
<1>6. StateInv'
  <2>1. reads' \in [Clients -> Seq(RouteReads)]
    BY <1>1, <1>3, <1>4
  <2>2. asked' \in [Clients -> Routes]
    BY <1>2, <1>4 DEF RouteInv, StateInv, Routes
  <2>3. overlapped' \in [Clients -> BOOLEAN]
    <3>1. overlapped \in [Clients -> BOOLEAN]
      BY DEF RouteInv, StateInv
    <3>2. (overlapped[c] \/ Loading(c)) \in BOOLEAN
      OBVIOUS
    <3>3. QED
      BY <1>4, <3>1, <3>2
  <2>4. QED
    BY <1>4, <2>1, <2>2, <2>3 DEF RouteInv, StateInv
<1>7. CacheInv'
  BY <1>4 DEF RouteInv, CacheInv
<1>8. AnswersInv'
  BY <1>4 DEF RouteInv, AnswersInv
<1>9. IdInv'
  BY <1>1, <1>2, <1>4, <1>5 DEF RouteInv, IdInv
<1>10. LoadInv'
  <2>1. ASSUME NEW e \in Clients, e # c
        PROVE  asked'[e] = asked[e] /\ overlapped'[e] = overlapped[e] /\ Tags(e)' = Tags(e)
    BY <1>4, <1>5, <2>1 DEF RouteInv, StateInv
  <2>2. asked'[c] = d
    BY <1>4 DEF RouteInv, StateInv
  <2>3. ~overlapped'[c] => \A u \in Tags(c) : u.view # view[c].id
    <3>1. Loading(c) <=> \E u \in Tags(c) : u.view = view[c].id
      BY DEF Loading, Tags
    <3>2. ~overlapped'[c] => ~Loading(c)
      BY <1>4 DEF RouteInv, StateInv
    <3>3. QED
      BY <3>1, <3>2
  <2>4. QED
    BY <1>2, <1>4, <1>5, <2>1, <2>2, <2>3 DEF RouteInv, LoadInv
<1>11. ShownInv'
  BY <1>4 DEF RouteInv, ShownInv
<1>12. QED
  BY <1>6, <1>7, <1>8, <1>9, <1>10, <1>11 DEF RouteInv

(* What the SDK does for the app. *)
LEMMA FirestoreRouteStep ==
    ASSUME RouteInv, NEW c \in Clients, FirestoreStep(c), UNCHANGED appVars
    PROVE  RouteInv'
<1>1. /\ Active(c) = <<>> /\ sent[c] = 0
      /\ [queue EXCEPT ![c][user[c]] = Unseen(@)] = queue
      /\ [sent EXCEPT ![c] = 0] = sent
      /\ \A D : ApplyRemoteEvent(c, D) =>
             /\ queue' = queue
             /\ cache' = [cache EXCEPT ![c] =
                             [d \in Docs |-> IF d \in D THEN server[d] ELSE cache[c][d]]]
  BY NothingPending DEF RouteInv
<1>2. Len(Active(c)) = 0
  BY <1>1
<1>3. \A D \in Queries(c) : \E d \in Docs : D = {d}
  <2>1. ASSUME NEW i \in 1..Len(reads[c]) PROVE \E d \in Docs : reads[c][i].docs = {d}
    <3>1. reads[c][i] \in RouteReads
      BY DEF RouteInv, StateInv
    <3>2. QED
      BY <3>1 DEF RouteReads, Tag
  <2>2. QED
    BY <2>1 DEF Queries
<1>4. /\ cache \in [Clients -> [Docs -> Recorded]] /\ server \in [Docs -> Recorded]
      /\ StateInv
      /\ \A e \in Clients, f \in Docs : Points(f, cache[e][f]) \subseteq Points(f, server[f])
  BY DEF RouteInv, StateInv, CacheInv
<1>5. ~Commit(c) /\ ~Acknowledge(c) /\ ~Reject(c)
  BY <1>1, <1>2 DEF Commit, Acknowledge, Reject
<1>6. ASSUME NEW D \in Queries(c), Synchronise(c, D) PROVE RouteInv'
  <2>1. PICK d \in Docs : D = {d}
    BY <1>3
  <2> DEFINE docs == Snapshot(c, {d}, server)
  <2>2. /\ Resolve(c, {d}, BOOLEAN, docs) /\ UNCHANGED <<server, queue, sent, user, appVars>>
        /\ cache' = [cache EXCEPT ![c] =
                        [f \in Docs |-> IF f \in {d} THEN server[f] ELSE cache[c][f]]]
    BY <1>1, <1>6, <2>1 DEF Synchronise
  <2>3. Found(docs) = Points(d, server[d]) /\ docs \in Answer
    BY <1>4, SnapshotFound
  <2> HIDE DEF docs
  <2>4. cache' \in [Clients -> [Docs -> Recorded]] /\ cache'[c][d] = server[d]
    BY <1>4, <2>2
  <2>5. ASSUME NEW e \in Clients, NEW f \in Docs
        PROVE  cache'[e][f] = cache[e][f] \/ cache'[e][f] = server[f]
    BY <1>4, <2>2
  <2>6. \A e \in Clients, f \in Docs :
            /\ Points(f, cache[e][f]) \subseteq Points(f, cache'[e][f])
            /\ Points(f, cache'[e][f]) \subseteq Points(f, server[f])
    BY <1>4, <2>5
  <2>7. Found(docs) = Points(d, cache'[c][d])
    BY <2>3, <2>4
  <2>8. QED
    BY <2>2, <2>3, <2>4, <2>6, <2>7, ReadStep
<1>7. ASSUME NEW D \in Queries(c), ReadFromCache(c, D) PROVE RouteInv'
  <2>1. PICK d \in Docs : D = {d}
    BY <1>3
  <2> DEFINE docs == Snapshot(c, {d}, cache[c])
             ok == IF DOMAIN docs = {} THEN {FALSE} ELSE BOOLEAN
  <2>2. /\ Resolve(c, {d}, ok, docs) /\ UNCHANGED <<server, queue, sent, user, appVars>>
        /\ cache' = cache
    BY <1>7, <2>1 DEF ReadFromCache
  <2>3. cache[c] \in [Docs -> Recorded]
    BY <1>4
  <2>4. Found(docs) = Points(d, cache[c][d]) /\ docs \in Answer
    BY <1>4, <2>3, SnapshotFound
  <2> HIDE DEF docs, ok
  <2>5. cache' \in [Clients -> [Docs -> Recorded]] /\ Found(docs) = Points(d, cache'[c][d])
    BY <1>4, <2>2, <2>4
  <2>6. \A e \in Clients, f \in Docs :
            /\ Points(f, cache[e][f]) \subseteq Points(f, cache'[e][f])
            /\ Points(f, cache'[e][f]) \subseteq Points(f, server[f])
    BY <1>4, <2>2
  <2>7. QED
    BY <2>2, <2>4, <2>5, <2>6, ReadStep
<1>8. ASSUME NEW D \in Queries(c), ReadDenied(c, D) PROVE RouteInv'
  <2>1. PICK d \in Docs : D = {d}
    BY <1>3
  <2> DEFINE docs == <<>>
             ok == {}
  <2>2. /\ Resolve(c, {d}, ok, docs) /\ UNCHANGED <<server, queue, sent, user, appVars>>
        /\ cache' = cache
    BY <1>8, <2>1 DEF ReadDenied
  <2>3. docs \in Answer
    <3>1. docs \in [{} -> Recorded] /\ {} \in SUBSET Docs
      OBVIOUS
    <3>2. QED
      BY <3>1 DEF Answer
  <2>4. FALSE \notin ok
    OBVIOUS
  <2> HIDE DEF docs, ok
  <2>5. cache' \in [Clients -> [Docs -> Recorded]]
    BY <1>4, <2>2
  <2>6. \A e \in Clients, f \in Docs :
            /\ Points(f, cache[e][f]) \subseteq Points(f, cache'[e][f])
            /\ Points(f, cache'[e][f]) \subseteq Points(f, server[f])
    BY <1>4, <2>2
  <2>7. QED
    BY <2>2, <2>3, <2>4, <2>5, <2>6, ReadStep
<1>9. CASE GoOffline(c) \/ GoOnline(c)
  <2>1. UNCHANGED <<server, cache, queue, sent, user, reads, calls, appVars>>
    BY <1>1, <1>9 DEF GoOffline, GoOnline
  <2>2. QED
    BY <2>1, RouteUnchanged
<1>10. QED
  BY <1>5, <1>6, <1>7, <1>8, <1>9 DEF FirestoreStep, Answers, Faults

LEMMA RunRouteStep ==
    ASSUME RouteInv, NEW c \in Clients, RunRoute(c)
    PROVE  RouteInv'
<1> DEFINE call == Head(calls[c])
           d == call.tag.query
           found == Found(call.docs)
<1>1. /\ calls \in [Clients -> Seq(RouteCalls)] /\ calls[c] \in Seq(RouteCalls) /\ calls[c] # <<>>
      /\ calls' = [calls EXCEPT ![c] = Tail(@)]
      /\ UNCHANGED <<server, cache, queue, sent, user, reads, views, overlapped>>
  BY DEF RunRoute, RouteInv, StateInv
<1>2. /\ \/ /\ Tapped(c, call) /\ call.ok
            /\ view' = [view EXCEPT ![c].route = d, ![c].locations = found,
                                    ![c].center = IF found = {} THEN @ ELSE d]
            /\ shown' = [shown EXCEPT ![c][d] = @ \cup found]
            /\ UNCHANGED asked
         \/ /\ Tapped(c, call) /\ ~call.ok
            /\ asked' = [asked EXCEPT ![c] = None]
            /\ UNCHANGED <<view, shown>>
         \/ /\ ~Tapped(c, call)
            /\ UNCHANGED <<view, shown, asked>>
  BY DEF RunRoute, Found
<1>3. /\ Tail(calls[c]) \in Seq(RouteCalls) /\ call \in RouteCalls /\ call = calls[c][1]
      /\ Len(calls[c]) \in Nat /\ 1 \in 1..Len(calls[c])
      /\ \A i \in 1..Len(Tail(calls[c])) : i + 1 \in 1..Len(calls[c]) /\ Tail(calls[c])[i] = calls[c][i + 1]
      /\ Len(Tail(calls[c])) = Len(calls[c]) - 1
  BY <1>1, TailElements
<1> HIDE DEF call
<1>4. /\ calls' \in [Clients -> Seq(RouteCalls)] /\ calls'[c] = Tail(calls[c])
      /\ \A e \in Clients : e # c => calls'[e] = calls[e]
  BY <1>1, <1>3
<1>5. d \in Docs /\ call.tag \in Tag /\ call.tag \in Tags(c)
  <2>1. d \in Docs /\ call.tag \in Tag
    BY <1>3 DEF RouteCalls, Tag
  <2>2. call.tag \in Tags(c)
    BY <1>3 DEF Tags
  <2>3. QED
    BY <2>1, <2>2
<1>6. /\ Tags(c)' \subseteq Tags(c) /\ Tags(c) \subseteq Tags(c)' \cup {call.tag}
      /\ \A e \in Clients : e # c => Tags(e)' = Tags(e)
  <2>1. Tags(c)' = {reads[c][i].tag : i \in 1..Len(reads[c])}
                     \cup {Tail(calls[c])[i].tag : i \in 1..Len(Tail(calls[c]))}
    BY <1>1, <1>4 DEF Tags
  <2>2. Tags(c)' \subseteq Tags(c)
    BY <1>3, <2>1, ZenonT(40) DEF Tags
  <2>3. ASSUME NEW i \in 1..Len(calls[c]), i # 1
        PROVE  \E j \in 1..Len(Tail(calls[c])) : Tail(calls[c])[j] = calls[c][i]
    <3>1. i - 1 \in 1..Len(Tail(calls[c])) /\ (i - 1) + 1 = i
      BY <1>3, <2>3
    <3>2. QED
      BY <1>3, <3>1
  <2>4. Tags(c) \subseteq Tags(c)' \cup {call.tag}
    <3>1. ASSUME NEW t \in Tags(c), t # call.tag PROVE t \in Tags(c)'
      <4>1. CASE \E i \in 1..Len(reads[c]) : t = reads[c][i].tag
        BY <2>1, <4>1
      <4>2. CASE \E i \in 1..Len(calls[c]) : t = calls[c][i].tag
        <5>1. PICK i \in 1..Len(calls[c]) : t = calls[c][i].tag
          BY <4>2
        <5>2. i # 1
          BY <1>3, <3>1, <5>1
        <5>3. QED
          BY <2>1, <2>3, <5>1, <5>2
      <4>3. QED
        BY <3>1, <4>1, <4>2 DEF Tags
    <3>2. QED
      BY <3>1
  <2>5. ASSUME NEW e \in Clients, e # c PROVE Tags(e)' = Tags(e)
    BY <1>1, <1>4, <2>5 DEF Tags
  <2>6. QED
    BY <2>2, <2>4, <2>5
<1>7. /\ view \in [Clients -> {Closed} \cup Opened] /\ shown \in [Clients -> [Docs -> Marks]]
      /\ asked \in [Clients -> Routes]
  BY DEF RouteInv, StateInv
(* What does not depend on what the handler does with the view. *)
<1>8. ASSUME view' \in [Clients -> {Closed} \cup Opened], shown' \in [Clients -> [Docs -> Marks]],
             asked' \in [Clients -> Routes]
      PROVE  StateInv'
  BY <1>1, <1>4, <1>8 DEF RouteInv, StateInv
<1>9. ASSUME \A e \in Clients : view'[e].open = view[e].open /\ view'[e].id = view[e].id
      PROVE  IdInv'
  <2>1. \A e \in Clients : Tags(e)' \subseteq Tags(e)
    BY <1>6
  <2>2. QED
    BY <1>1, <1>9, <2>1 DEF RouteInv, IdInv
<1>10. ASSUME \A e \in Clients, f \in Docs :
                 \/ shown'[e][f] = shown[e][f]
                 \/ e = c /\ f = d /\ call.ok /\ shown'[e][f] = shown[e][f] \cup found
       PROVE  AnswersInv' /\ CacheInv'
  <2>1. call.ok => found \subseteq Points(d, cache[c][d])
    BY <1>3 DEF RouteInv, AnswersInv
  <2>2. CacheInv'
    <3>1. ASSUME NEW e \in Clients, NEW f \in Docs
          PROVE  shown'[e][f] \subseteq Points(f, cache[e][f])
      <4>1. shown[e][f] \subseteq Points(f, cache[e][f])
        BY DEF RouteInv, CacheInv
      <4> HIDE DEF d, found
      <4>2. CASE shown'[e][f] = shown[e][f]
        BY <4>1, <4>2
      <4>3. CASE e = c /\ f = d /\ call.ok /\ shown'[e][f] = shown[e][f] \cup found
        BY <2>1, <4>1, <4>3
      <4>4. QED
        BY <1>10, <4>2, <4>3
    <3>2. QED
      BY <1>1, <3>1 DEF RouteInv, CacheInv
  <2>3. SUFFICES ASSUME NEW e \in Clients, NEW i \in 1..Len(calls'[e]), calls'[e][i].ok
                 PROVE  /\ shown'[e][calls'[e][i].tag.query] \subseteq Found(calls'[e][i].docs)
                        /\ Found(calls'[e][i].docs) \subseteq
                               Points(calls'[e][i].tag.query, cache[e][calls'[e][i].tag.query])
                        /\ \A j \in 1..Len(calls'[e]) :
                               i < j /\ calls'[e][j].ok
                               /\ calls'[e][j].tag.query = calls'[e][i].tag.query =>
                                   Found(calls'[e][i].docs) \subseteq Found(calls'[e][j].docs)
    BY <1>1, <2>2, ZenonT(40) DEF AnswersInv
  <2> DEFINE f == calls'[e][i].tag.query
  <2>4. f \in Docs
    <3>1. calls'[e][i] \in RouteCalls
      BY <1>4
    <3>2. QED
      BY <3>1 DEF RouteCalls, Tag
  <2>5. CASE e # c
    <3>1. calls'[e] = calls[e] /\ shown'[e][f] = shown[e][f]
      BY <1>4, <1>10, <2>4, <2>5
    <3>2. QED
      BY <2>3, <3>1, ZenonT(40) DEF RouteInv, AnswersInv
  <2>6. CASE e = c
    <3>1. \A j \in 1..Len(calls'[c]) : j + 1 \in 1..Len(calls[c]) /\ calls'[c][j] = calls[c][j + 1]
      BY <1>3, <1>4
    <3>2. PICK k \in 1..Len(calls[c]) :
             /\ k = i + 1 /\ 1 < k /\ calls[c][k].ok /\ calls'[c][i] = calls[c][k]
      <4>1. i + 1 \in 1..Len(calls[c]) /\ calls[c][i + 1].ok /\ calls'[c][i] = calls[c][i + 1]
        BY <2>3, <2>6, <3>1
      <4>2. 1 < i + 1
        BY <2>6
      <4>3. QED
        BY <4>1, <4>2
    <3>3. /\ shown[c][f] \subseteq Found(calls'[c][i].docs)
          /\ Found(calls'[c][i].docs) \subseteq Points(f, cache[c][f])
          /\ \A j \in 1..Len(calls[c]) : k < j /\ calls[c][j].ok /\ calls[c][j].tag.query = f =>
                 Found(calls'[c][i].docs) \subseteq Found(calls[c][j].docs)
      <4>1. /\ shown[c][calls[c][k].tag.query] \subseteq Found(calls[c][k].docs)
            /\ Found(calls[c][k].docs) \subseteq
                   Points(calls[c][k].tag.query, cache[c][calls[c][k].tag.query])
            /\ \A j \in 1..Len(calls[c]) :
                   k < j /\ calls[c][j].ok /\ calls[c][j].tag.query = calls[c][k].tag.query =>
                       Found(calls[c][k].docs) \subseteq Found(calls[c][j].docs)
        BY <3>2 DEF RouteInv, AnswersInv
      <4>2. QED
        BY <2>6, <3>2, <4>1
    <3>4. \A j \in 1..Len(calls'[c]) : i < j => k < j + 1
      BY <2>6, <3>2
    <3>5. call.ok /\ f = d => found \subseteq Found(calls'[c][i].docs)
      <4>1. ASSUME calls[c][1].ok, calls[c][k].tag.query = calls[c][1].tag.query
            PROVE  Found(calls[c][1].docs) \subseteq Found(calls[c][k].docs)
        BY <1>3, <3>2, <4>1 DEF RouteInv, AnswersInv
      <4>2. QED
        BY <1>3, <2>6, <3>2, <4>1
    <3>6. shown'[c][f] \subseteq Found(calls'[c][i].docs)
      BY <1>10, <2>4, <3>3, <3>5
    <3>7. QED
      BY <2>6, <3>1, <3>3, <3>4, <3>6
  <2>7. QED
    BY <2>5, <2>6
<1>11. CASE /\ Tapped(c, call) /\ call.ok
            /\ view' = [view EXCEPT ![c].route = d, ![c].locations = found,
                                    ![c].center = IF found = {} THEN @ ELSE d]
            /\ shown' = [shown EXCEPT ![c][d] = @ \cup found]
            /\ UNCHANGED asked
  <2>1. /\ view[c] \in Opened /\ view[c].open /\ view[c].id = call.tag.view
        /\ found \in Marks /\ shown[c][d] \subseteq found
    <3>1. shown[c][d] \subseteq found /\ found \subseteq Points(d, cache[c][d])
      BY <1>3, <1>11 DEF RouteInv, AnswersInv
    <3>2. Points(d, cache[c][d]) \in Marks
      BY <1>5, PointsMarks DEF RouteInv, StateInv
    <3>3. QED
      BY <1>11, <3>1, <3>2, OpenedIsRecord DEF Tapped, RouteInv, Marks
  <2> DEFINE new == [view[c] EXCEPT !.route = d, !.locations = found,
                                    !.center = IF found = {} THEN @ ELSE d]
  <2>2. view' = [view EXCEPT ![c] = new]
    BY <1>11
  <2> HIDE DEF found
  <2>3. /\ new \in Opened /\ new.open = TRUE /\ new.id = view[c].id /\ new.device = view[c].device
        /\ new.route = d /\ new.locations = found /\ (found # {} => new.center = d)
    <3> DEFINE y == IF found = {} THEN view[c].center ELSE d
               one == [view[c] EXCEPT !.route = d]
               two == [one EXCEPT !.locations = found]
    <3>1. y \in Routes /\ d \in Routes /\ (found # {} => y = d)
      BY <1>5, <2>1 DEF Opened, Routes
    <3> HIDE DEF y, d
    <3>2. one \in Opened /\ one.id = view[c].id /\ one.device = view[c].device /\ one.route = d
      BY <2>1, <3>1 DEF Opened
    <3>3. new = [two EXCEPT !.center = y]
      BY DEF y
    <3> HIDE DEF one, new
    <3>4. /\ two \in Opened /\ two.id = one.id /\ two.device = one.device
          /\ two.route = one.route /\ two.locations = found
      BY <2>1, <3>2 DEF Opened
    <3> HIDE DEF two
    <3>5. /\ new \in Opened /\ new.open = TRUE /\ new.id = two.id /\ new.device = two.device
          /\ new.route = two.route /\ new.locations = two.locations /\ new.center = y
      BY <3>1, <3>3, <3>4 DEF Opened
    <3>6. QED
      BY <3>1, <3>2, <3>4, <3>5
  <2> HIDE DEF new
  <2>4. view'[c] = new /\ \A e \in Clients : e # c => view'[e] = view[e]
    BY <1>7, <2>2
  <2>5. \A e \in Clients, f \in Docs :
           shown'[e][f] = IF e = c /\ f = d THEN shown[e][f] \cup found ELSE shown[e][f]
    BY <1>5, <1>7, <1>11
  <2>6. StateInv'
    <3>1. view' \in [Clients -> {Closed} \cup Opened]
      BY <1>7, <2>2, <2>3
    <3>2. shown' \in [Clients -> [Docs -> Marks]]
      BY <1>5, <1>7, <1>11, <2>1 DEF Marks
    <3>3. QED
      BY <1>7, <1>8, <1>11, <3>1, <3>2
  <2>7. AnswersInv' /\ CacheInv'
    BY <1>10, <1>11, <2>5
  <2>8. IdInv'
    <3>1. \A e \in Clients : view'[e].open = view[e].open /\ view'[e].id = view[e].id
      <4>1. view[c].open = TRUE
        BY <2>1 DEF Opened
      <4>2. QED
        BY <2>3, <2>4, <4>1
    <3>2. QED
      BY <1>9, <3>1
  <2>9. LoadInv'
    <3>1. ASSUME NEW e \in Clients, e # c, view[e].open, asked[e] # None
          PROVE  /\ asked[e][2] = view[e].device
                 /\ ~overlapped[e] =>
                        /\ \A t \in Tags(e)' : t.view = view[e].id => t.query = asked[e]
                        /\ view[e].route = asked[e] \/ \E t \in Tags(e)' : t.view = view[e].id
      BY <1>6, <3>1 DEF RouteInv, LoadInv
    <3>2. ASSUME asked[c] # None
          PROVE  /\ asked[c][2] = new.device
                 /\ ~overlapped[c] =>
                        /\ \A t \in Tags(c)' : t.view = new.id => t.query = asked[c]
                        /\ new.route = asked[c]
      BY <1>5, <1>6, <2>1, <2>3, <3>2 DEF RouteInv, LoadInv
    <3>3. SUFFICES ASSUME NEW e \in Clients, view'[e].open, asked[e] # None
                   PROVE  /\ asked[e][2] = view'[e].device
                          /\ ~overlapped[e] =>
                                 /\ \A t \in Tags(e)' : t.view = view'[e].id => t.query = asked[e]
                                 /\ \/ view'[e].route = asked[e]
                                    \/ \E t \in Tags(e)' : t.view = view'[e].id
      BY <1>1, <1>11 DEF LoadInv
    <3>4. CASE e = c
      BY <2>4, <3>2, <3>3, <3>4
    <3>5. CASE e # c
      BY <2>4, <3>1, <3>3, <3>5
    <3>6. QED
      BY <3>4, <3>5
  <2>10. ShownInv'
    <3>1. shown'[c][d] = found
      BY <1>5, <2>1, <2>5
    <3>2. ASSUME NEW e \in Clients, e # c, view[e].open, view[e].route # None
          PROVE  view[e].locations = shown'[e][view[e].route]
      <4>1. view[e].route \in Docs
        BY <3>2, OpenedIsRecord DEF RouteInv, Opened, Routes
      <4>2. QED
        BY <2>5, <3>2, <4>1 DEF RouteInv, ShownInv
    <3>3. QED
      BY <2>3, <2>4, <3>1, <3>2 DEF RouteInv, ShownInv
  <2>11. QED
    BY <2>6, <2>7, <2>8, <2>9, <2>10 DEF RouteInv
<1>12. CASE \/ /\ Tapped(c, call)
               /\ asked' = [asked EXCEPT ![c] = None]
               /\ UNCHANGED <<view, shown>>
            \/ /\ ~Tapped(c, call)
               /\ UNCHANGED <<view, shown, asked>>
  <2>1. view' = view /\ shown' = shown /\ asked' \in [Clients -> Routes]
    BY <1>7, <1>12 DEF Routes
  <2>2. StateInv' /\ AnswersInv' /\ CacheInv' /\ IdInv'
    BY <1>7, <1>8, <1>9, <1>10, <2>1
  <2>3. LoadInv'
    <3>1. ASSUME NEW e \in Clients, view[e].open, asked'[e] # None
          PROVE  /\ asked'[e] = asked[e]
                 /\ Tags(e)' \subseteq Tags(e)
                 /\ \A t \in Tags(e) : t.view = view[e].id => t \in Tags(e)'
      <4>1. CASE e # c
        BY <1>6, <1>7, <1>12, <4>1
      <4>2. CASE e = c
        <5>1. ~Tapped(c, call) /\ asked' = asked
          BY <1>7, <1>12, <3>1, <4>2
        <5>2. view[c].id # call.tag.view
          BY <3>1, <4>2, <5>1 DEF Tapped
        <5>3. QED
          BY <1>6, <4>2, <5>1, <5>2
      <4>3. QED
        BY <4>1, <4>2
    <3>2. QED
      BY <1>1, <2>1, <3>1 DEF RouteInv, LoadInv
  <2>4. ShownInv'
    BY <2>1 DEF RouteInv, ShownInv
  <2>5. QED
    BY <2>2, <2>3, <2>4 DEF RouteInv
<1>13. QED
  BY <1>2, <1>11, <1>12

LEMMA RouteNext == RouteInv /\ [Next]_vars => RouteInv'
<1> SUFFICES ASSUME RouteInv, [Next]_vars PROVE RouteInv'
  OBVIOUS
<1>1. CASE \E d \in Docs : Record(d)
  BY <1>1, RecordStep
<1>2. ASSUME NEW c \in Clients, \E device \in Uids, date \in Paths : Open(c, device, date)
      PROVE  RouteInv'
  BY <1>2, OpenStep
<1>3. ASSUME NEW c \in Clients, \E date \in Paths : SelectDate(c, date)
      PROVE  RouteInv'
  BY <1>3, SelectDateStep
<1>4. ASSUME NEW c \in Clients, Close(c) PROVE RouteInv'
  BY <1>4, CloseStep
<1>5. ASSUME NEW c \in Clients, FetchLocationHistory(c) PROVE RouteInv'
  BY <1>5, FetchStep
<1>6. ASSUME NEW c \in Clients, RunRoute(c) PROVE RouteInv'
  BY <1>6, RunRouteStep
<1>7. ASSUME NEW c \in Clients, FirestoreStep(c) /\ UNCHANGED appVars PROVE RouteInv'
  BY <1>7, FirestoreRouteStep
<1>8. CASE UNCHANGED vars
  BY <1>8, RouteUnchanged DEF vars, fsVars
<1>9. QED
  BY <1>1, <1>2, <1>3, <1>4, <1>5, <1>6, <1>7, <1>8 DEF Next

-----------------------------------------------------------------------------
(* The properties, for every number of clients, devices, days and loads.     *)

LEMMA RouteInvariant == Spec => []RouteInv
<1>1. Init => RouteInv
  BY RouteInit
<1>2. RouteInv /\ [Next]_vars => RouteInv'
  BY RouteNext
<1>3. QED
  BY <1>1, <1>2, PTL DEF Spec

(* The state of RouteMapView has its type; no point is shown of a device and *)
(* day that was not recorded there.                                          *)
THEOREM RouteTypeCorrect == Spec => []TypeOK
<1>1. RouteInv => TypeOK
  <2> SUFFICES ASSUME RouteInv, NEW c \in Clients
               PROVE  /\ asked[c] \in Docs \cup {None}
                      /\ \A d \in Docs : shown[c][d] \subseteq Points(d, server[d])
                      /\ view[c].open =>
                             /\ view[c].id \in 1..views
                             /\ {view[c].route, view[c].center} \subseteq Docs \cup {None}
    BY DEF TypeOK
  <2>1. asked[c] \in Docs \cup {None}
    BY DEF RouteInv, StateInv, Routes
  <2>2. \A d \in Docs : shown[c][d] \subseteq Points(d, server[d])
    BY DEF RouteInv, CacheInv
  <2>3. ASSUME view[c].open
        PROVE  /\ view[c].id \in 1..views
               /\ {view[c].route, view[c].center} \subseteq Docs \cup {None}
    <3>1. view[c] \in Opened
      BY <2>3, OpenedIsRecord DEF RouteInv
    <3>2. QED
      BY <2>3, <3>1 DEF RouteInv, IdInv, Opened, Routes
  <2>4. QED
    BY <2>1, <2>2, <2>3
<1>2. QED
  BY <1>1, RouteInvariant, PTL

(* fetchLocationHistory: the map shows the day loaded last, of the device    *)
(* the view is about, and is centered on it, unless taps overlapped.         *)
THEOREM RouteOfLastLoadHolds == Spec => []RouteOfLastLoad
<1>1. RouteInv => RouteOfLastLoad
  <2> SUFFICES ASSUME RouteInv, NEW c \in Clients,
                      view[c].open, asked[c] # None, ~overlapped[c], ~Loading(c)
               PROVE  /\ view[c].route = asked[c]
                      /\ view[c].route[2] = view[c].device
                      /\ view[c].locations # {} => view[c].center = view[c].route
    BY DEF RouteOfLastLoad
  <2>1. \A t \in Tags(c) : t.view # view[c].id
    BY DEF Loading, Tags
  <2>2. QED
    BY <2>1 DEF RouteInv, LoadInv, ShownInv
<1>2. QED
  BY <1>1, RouteInvariant, PTL

(* The route of a day never loses a point, from the server or the cache,     *)
(* however loads overlap.                                                    *)
THEOREM RouteNeverShrinksHolds == Spec => []RouteNeverShrinks
<1>1. RouteInv => RouteNeverShrinks
  BY DEF RouteInv, ShownInv, RouteNeverShrinks
<1>2. QED
  BY <1>1, RouteInvariant, PTL
=============================================================================
