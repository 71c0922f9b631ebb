------------------------- MODULE UserProfileProofs -------------------------
(***************************************************************************)
(* What UserProfile keeps true for every number of clients, accounts,       *)
(* sign-ins, views and saves: its type; and, when nobody acts while a       *)
(* sign-in is under way (~Overlap), that a profile holds its owner's name.   *)
(***************************************************************************)
EXTENDS UserProfile, FirestoreProofs, TLAPS

AllFields == Fields \cup {"deviceName"}
Values    == Users \cup {Blank} \cup Nat \cup Clients
Documents == UNION {[F -> Values] : F \in SUBSET AllFields}

(* The names that a profile of u may hold. *)
Names(u) == IF Overlap THEN Uids \cup {Blank} ELSE {Blank, u}

(* What the place d may hold. *)
Document(d) == {x \in Documents : d[1] = ProfilePath => NameOf(x) \in Names(d[2])}
Contents(d) == {Absent} \cup Document(d)
Places      == {s \in [Docs -> {Absent} \cup Documents] : \A d \in Docs : s[d] \in Contents(d)}

ReadTag == [kind : {"ensure", "fetch"}, uid : Uids, no : Nat, name : {Blank}]
NameTag == [kind : {"name"}, uid : Uids, no : Nat, name : Uids \cup {Blank}]

Writes ==
    {w \in [doc : Docs, data : Documents, merge : BOOLEAN, tag : NameTag \cup {None}, seen : BOOLEAN] :
        w.data \in Document(w.doc)}

ProfileReads ==
    {r \in [docs : SUBSET Docs, one : {TRUE}, tag : ReadTag] : r.docs = {Profile(r.tag.uid)}}

Answer ==
    {a \in UNION {[D -> {Absent} \cup Documents] : D \in SUBSET Docs} :
        \A d \in DOMAIN a : a[d] \in Document(d)}

ReadCalls   == [kind : {"read"}, tag : ReadTag, ok : BOOLEAN, docs : Answer]
Completions == [kind : {"completion"}, tag : ReadTag, ok : {TRUE}, docs : {<<>>}]
NameCalls   == [kind : {"write"}, tag : NameTag, ok : BOOLEAN, docs : {<<>>}]
Handlers    == ReadCalls \cup Completions \cup NameCalls

Stages == {"closed", "menu", "loading", "form"}
Views  == [stage : Stages, no : Nat, viewer : Users, name : Uids \cup {Blank}]

StateInv ==
    /\ server \in Places
    /\ cache \in [Clients -> Places]
    /\ queue \in [Clients -> [Users -> Seq(Writes)]]
    /\ sent \in [Clients -> Nat]
    /\ user \in [Clients -> Users]
    /\ \A c \in Clients : sent[c] <= Len(Active(c))
    /\ reads \in [Clients -> Seq(ProfileReads)]
    /\ calls \in [Clients -> Seq(Handlers)]
    /\ view \in [Clients -> Views]
    /\ saved \in [Uids -> Users \cup {Blank}]
    /\ updates \in Nat /\ views \in Nat /\ creations \in Nat

(* Who is in front of the view: the person who signed in, unless people act  *)
(* at any time; the form shows a name that this person may have.             *)
ViewInv ==
    \A c \in Clients :
        /\ view[c].no <= views
        /\ view[c].name \in Names(view[c].viewer)
        /\ view[c].stage = "closed" => view[c].no = 0
        /\ view[c].stage # "closed" => view[c].viewer \in Uids
        /\ view[c].stage # "closed" /\ ~Overlap => user[c] \in {None, view[c].viewer}

(* The view that is open asked for the profile of the person in front of it. *)
FetchOf(c, tag) ==
    tag.kind = "fetch" =>
        /\ tag.no \in 1..views
        /\ tag.no = view[c].no /\ ~Overlap => tag.uid = view[c].viewer

FetchInv ==
    \A c \in Clients :
        /\ \A i \in 1..Len(reads[c]) : FetchOf(c, reads[c][i].tag)
        /\ \A i \in 1..Len(calls[c]) : FetchOf(c, calls[c][i].tag)

NameInv == StateInv /\ ViewInv /\ FetchInv

-----------------------------------------------------------------------------
(* Names and documents. *)

LEMMA NameFacts ==
    /\ \A u : Blank \in Names(u)
    /\ \A u \in Uids : u \in Names(u) /\ Names(u) \subseteq Uids \cup {Blank}
    /\ Overlap => \A u : Names(u) = Uids \cup {Blank}
    /\ ~Overlap => \A u : Names(u) = {Blank, u}
  BY ProfileAssumption DEF Names

LEMMA ProfilePlaces ==
    ASSUME NEW u \in Uids
    PROVE  /\ Profile(u) \in Docs /\ Profile(u)[1] = ProfilePath /\ Profile(u)[2] = u
           /\ \A c \in Clients : /\ DeviceDoc(c, u) \in Docs
                                 /\ DeviceDoc(c, u)[1] # ProfilePath
  BY ProfileAssumption DEF Profile, DeviceDoc, Docs

(* What the app writes. *)
LEMMA NewProfileDocument ==
    ASSUME NEW u \in Uids, NEW n \in Nat
    PROVE  /\ NewProfile(u, n) \in Document(Profile(u))
           /\ StoredProfile(u) \in Document(Profile(u))
<1>1. /\ Fields \in SUBSET AllFields /\ u \in Values /\ Blank \in Values /\ \A m \in Nat : m \in Values
  BY DEF AllFields, Values, Users
<1>2. ASSUME NEW m \in Nat PROVE NewProfile(u, m) \in [Fields -> Values] /\ NewProfile(u, m)["name"] = Blank
  BY <1>1 DEF NewProfile, Fields
<1>3. StoredProfile(u) \in [Fields -> Values] /\ StoredProfile(u)["name"] = u
  <2>1. NewProfile(u, 0) \in [Fields -> Values] /\ "name" \in Fields
    BY <1>2 DEF Fields
  <2>2. QED
    BY <1>1, <2>1 DEF StoredProfile
<1>4. "name" \in Fields
  BY DEF Fields
<1>5. \A x \in [Fields -> Values] : x \in Documents /\ NameOf(x) = x["name"]
  BY <1>1, <1>4 DEF Documents, NameOf
<1>6. QED
  BY <1>2, <1>3, <1>5, NameFacts, ProfilePlaces DEF Document

LEMMA NameDocument ==
    ASSUME NEW u \in Uids, NEW name \in Names(u)
    PROVE  [f \in {"name"} |-> name] \in Document(Profile(u))
<1> DEFINE x == [f \in {"name"} |-> name]
<1>1. {"name"} \in SUBSET AllFields /\ name \in Values
  BY NameFacts DEF AllFields, Fields, Values, Users
<1>2. x \in [{"name"} -> Values] /\ NameOf(x) = name
  BY <1>1 DEF NameOf
<1> HIDE DEF x
<1>3. x \in Documents
  BY <1>1, <1>2 DEF Documents
<1>4. QED
  BY <1>2, <1>3, ProfilePlaces DEF Document, x

LEMMA DeviceDocument ==
    ASSUME NEW u \in Uids, NEW c \in Clients
    PROVE  [f \in {"deviceName"} |-> c] \in Document(DeviceDoc(c, u))
<1> DEFINE x == [f \in {"deviceName"} |-> c]
<1>1. {"deviceName"} \in SUBSET AllFields /\ c \in Values
  BY DEF AllFields, Values
<1>2. x \in [{"deviceName"} -> Values]
  BY <1>1
<1> HIDE DEF x
<1>3. x \in Documents
  BY <1>1, <1>2 DEF Documents
<1>4. QED
  BY <1>3, ProfilePlaces DEF Document, x

(* A merge keeps the fields that it does not write. *)
LEMMA MergeDocument ==
    ASSUME NEW d, NEW x \in Document(d), NEW y \in Document(d)
    PROVE  Merged(x, y) \in Document(d)
<1>1. PICK F \in SUBSET AllFields : x \in [F -> Values]
  BY DEF Document, Documents
<1>2. PICK G \in SUBSET AllFields : y \in [G -> Values]
  BY DEF Document, Documents
<1>3. Merged(x, y) = [f \in F \cup G |-> IF f \in F THEN x[f] ELSE y[f]]
  BY <1>1, <1>2 DEF Merged
<1> DEFINE z == [f \in F \cup G |-> IF f \in F THEN x[f] ELSE y[f]]
<1>4. z \in [F \cup G -> Values] /\ F \cup G \in SUBSET AllFields
  BY <1>1, <1>2
<1>5. NameOf(z) = NameOf(x) \/ NameOf(z) = NameOf(y)
  BY <1>1, <1>2 DEF NameOf
<1> HIDE DEF z
<1>6. z \in Documents
  BY <1>4 DEF Documents
<1>7. z \in Document(d)
  BY <1>5, <1>6 DEF Document
<1>8. QED
  BY <1>3, <1>7 DEF z

LEMMA ApplyDocument ==
    ASSUME NEW w \in Writes, NEW x \in Contents(w.doc)
    PROVE  Apply(w, x) \in Contents(w.doc)
<1>1. w.data \in Document(w.doc) /\ w.merge \in BOOLEAN
  BY DEF Writes
<1>2. CASE w.merge /\ x # Absent
  <2>1. x \in Document(w.doc) /\ Apply(w, x) = Merged(w.data, x)
    BY <1>2 DEF Contents, Apply
  <2>2. QED
    BY <1>1, <2>1, MergeDocument DEF Contents
<1>3. CASE ~(w.merge /\ x # Absent)
  BY <1>1, <1>3 DEF Contents, Apply
<1>4. QED
  BY <1>2, <1>3

LEMMA WriteFields ==
    ASSUME NEW w \in Writes
    PROVE  w.doc \in Docs /\ w.tag \in NameTag \cup {None} /\ w.data \in Document(w.doc)
  BY DEF Writes

LEMMA PlaceChanged ==
    ASSUME NEW s \in Places, NEW d \in Docs, NEW x \in Contents(d)
    PROVE  [s EXCEPT ![d] = x] \in Places
<1>1. x \in {Absent} \cup Documents
  BY DEF Contents, Document
<1>2. QED
  BY <1>1 DEF Places

LEMMA SnapshotAnswer ==
    ASSUME StateInv, NEW c \in Clients, NEW D \in SUBSET Docs, NEW base \in Places
    PROVE  Snapshot(c, D, base) \in Answer
<1>1. queue[c][user[c]] \in Seq(Writes) /\ Len(queue[c][user[c]]) \in Nat
  BY DEF StateInv
<1>2. ASSUME NEW d \in D PROVE LocalView(c, d, base[d]) \in Contents(d)
  <2> DEFINE S == Contents(d)
  <2>1. base[d] \in S
    BY DEF Places
  <2>2. ASSUME NEW i \in 1..Len(queue[c][user[c]]), NEW x \in S, queue[c][user[c]][i].doc = d
        PROVE  Apply(queue[c][user[c]][i], x) \in S
    <3>1. queue[c][user[c]][i] \in Writes
      BY <1>1
    <3>2. QED
      BY <2>2, <3>1, ApplyDocument
  <2> HIDE DEF S
  <2>3. LocalView(c, d, base[d]) \in S
    BY <1>1, <2>1, <2>2, LocalViewIn
  <2>4. QED
    BY <2>3 DEF S
<1> DEFINE v == [d \in D |-> LocalView(c, d, base[d])]
           E == {e \in D : v[e] # Absent}
<1>3. \A d \in D : v[d] \in Contents(d)
  BY <1>2
<1>4. Snapshot(c, D, base) = [d \in E |-> v[d]]
  BY DEF Snapshot
<1> HIDE DEF v
<1>5. E \in SUBSET Docs /\ \A d \in E : v[d] \in Document(d)
  BY <1>3 DEF Contents
<1>6. [d \in E |-> v[d]] \in [E -> {Absent} \cup Documents]
  BY <1>5 DEF Document
<1> DEFINE a == [d \in E |-> v[d]]
<1>7. DOMAIN a = E /\ \A d \in E : a[d] = v[d]
  OBVIOUS
<1> HIDE DEF a, E
<1>8. a \in UNION {[G -> {Absent} \cup Documents] : G \in SUBSET Docs}
  BY <1>5, <1>6 DEF a
<1>9. a \in Answer
  BY <1>5, <1>7, <1>8 DEF Answer
<1>10. QED
  BY <1>4, <1>9 DEF a

-----------------------------------------------------------------------------
(* Queues of writes. *)

LEMMA MarkWrite ==
    ASSUME NEW w \in Writes, NEW b \in BOOLEAN
    PROVE  [w EXCEPT !.seen = b] \in Writes
  BY DEF Writes

LEMMA ForgetTag ==
    ASSUME NEW w \in Writes
    PROVE  [w EXCEPT !.tag = None] \in Writes
  BY DEF Writes

LEMMA UnseenWrites ==
    ASSUME NEW q \in Seq(Writes)
    PROVE  Unseen(q) \in Seq(Writes) /\ Len(Unseen(q)) = Len(q)
<1>1. Len(q) \in Nat /\ DOMAIN q = 1..Len(q) /\ \A i \in 1..Len(q) : q[i] \in Writes
  OBVIOUS
<1> DEFINE p == [i \in 1..Len(q) |-> [q[i] EXCEPT !.seen = FALSE]]
<1>2. Unseen(q) = p
  BY <1>1 DEF Unseen
<1>3. \A i \in 1..Len(q) : p[i] \in Writes
  BY <1>1, MarkWrite
<1>4. p = [i \in 1..Len(q) |-> p[i]]
  OBVIOUS
<1> HIDE DEF p
<1>5. QED
  BY <1>1, <1>2, <1>3, <1>4

LEMMA SeenWrites ==
    ASSUME NEW q \in Seq(Writes), NEW n, NEW D
    PROVE  Seen(q, n, D) \in Seq(Writes) /\ Len(Seen(q, n, D)) = Len(q)
<1>1. Len(q) \in Nat /\ DOMAIN q = 1..Len(q) /\ \A i \in 1..Len(q) : q[i] \in Writes
  OBVIOUS
<1> DEFINE b(i) == q[i].seen \/ (i <= n /\ q[i].doc \in D)
           p == [i \in 1..Len(q) |-> [q[i] EXCEPT !.seen = b(i)]]
<1>2. Seen(q, n, D) = p
  BY <1>1 DEF Seen
<1>3. ASSUME NEW i \in 1..Len(q) PROVE p[i] \in Writes
  <2>1. b(i) \in BOOLEAN
    OBVIOUS
  <2>2. p[i] = [q[i] EXCEPT !.seen = b(i)]
    OBVIOUS
  <2> HIDE DEF b
  <2>3. QED
    BY <1>1, <2>1, <2>2, MarkWrite
<1>4. p = [i \in 1..Len(q) |-> p[i]]
  OBVIOUS
<1> HIDE DEF p
<1>5. QED
  BY <1>1, <1>2, <1>3, <1>4

(* A restart keeps the writes. *)
LEMMA PersistedWrites ==
    ASSUME NEW queues \in [Users -> Seq(Writes)]
    PROVE  Persisted(queues) \in [Users -> Seq(Writes)]
<1> SUFFICES ASSUME NEW u \in Users
             PROVE  [i \in DOMAIN queues[u] |->
                        [queues[u][i] EXCEPT !.seen = FALSE, !.tag = None]] \in Seq(Writes)
  BY DEF Persisted
<1> DEFINE q == queues[u]
           r == [i \in 1..Len(q) |-> [q[i] EXCEPT !.seen = FALSE]]
           p == [i \in DOMAIN q |-> [q[i] EXCEPT !.seen = FALSE, !.tag = None]]
<1>1. q \in Seq(Writes) /\ Len(q) \in Nat /\ DOMAIN q = 1..Len(q) /\ \A i \in 1..Len(q) : q[i] \in Writes
  OBVIOUS
<1>2. \A i \in 1..Len(q) : r[i] \in Writes
  BY <1>1, MarkWrite
<1>3. \A i \in 1..Len(q) : [q[i] EXCEPT !.seen = FALSE, !.tag = None] = [r[i] EXCEPT !.tag = None]
  OBVIOUS
<1>4. \A i \in 1..Len(q) : p[i] = [r[i] EXCEPT !.tag = None]
  BY <1>1, <1>3
<1> HIDE DEF r
<1>5. \A i \in 1..Len(q) : p[i] \in Writes
  BY <1>2, <1>4, ForgetTag
<1>6. p = [i \in 1..Len(q) |-> p[i]]
  BY <1>1
<1> HIDE DEF p, q
<1>7. p \in Seq(Writes)
  BY <1>1, <1>5, <1>6
<1>8. QED
  BY <1>7 DEF p, q

(* Another user, or nobody, or a lost connection. *)
LEMMA QueueKept ==
    ASSUME StateInv, NEW c \in Clients, queue' = [queue EXCEPT ![c][user[c]] = Unseen(@)]
    PROVE  /\ queue' \in [Clients -> [Users -> Seq(Writes)]]
           /\ \A e \in Clients, u \in Users : Len(queue'[e][u]) = Len(queue[e][u])
<1> DEFINE q == Unseen(queue[c][user[c]])
<1>1. /\ queue \in [Clients -> [Users -> Seq(Writes)]] /\ user[c] \in Users
      /\ queue[c][user[c]] \in Seq(Writes)
  BY DEF StateInv
<1>2. q \in Seq(Writes) /\ Len(q) = Len(queue[c][user[c]])
  BY <1>1, UnseenWrites
<1>3. queue' = [queue EXCEPT ![c][user[c]] = q]
  BY <1>1
<1> HIDE DEF q
<1>4. /\ queue' \in [Clients -> [Users -> Seq(Writes)]] /\ queue'[c][user[c]] = q
      /\ \A e \in Clients, u \in Users : e # c \/ u # user[c] => queue'[e][u] = queue[e][u]
  BY <1>1, <1>2, <1>3, QueueUpdate
<1>5. QED
  BY <1>2, <1>4

(* A write is asked for: it is the last of the active queue. *)
LEMMA AskedWrite ==
    ASSUME StateInv, NEW c \in Clients, NEW d \in Docs, NEW data \in Document(d),
           NEW merge \in BOOLEAN, NEW tag \in NameTag \cup {None}, SetData(c, d, data, merge, tag)
    PROVE  /\ queue' \in [Clients -> [Users -> Seq(Writes)]]
           /\ \A e \in Clients : Len(queue[e][user[e]]) <= Len(queue'[e][user[e]])
<1> DEFINE w == Write(d, data, merge, tag)
           q == Append(queue[c][user[c]], w)
<1>1. w \in Writes
  <2>1. data \in Documents
    BY DEF Document
  <2>2. QED
    BY <2>1 DEF Write, Writes
<1>2. /\ queue \in [Clients -> [Users -> Seq(Writes)]] /\ user[c] \in Users
      /\ queue[c][user[c]] \in Seq(Writes)
  BY DEF StateInv
<1>3. queue' = [queue EXCEPT ![c][user[c]] = q]
  BY <1>2 DEF SetData
<1> HIDE DEF w
<1>4. q \in Seq(Writes) /\ Len(q) = Len(queue[c][user[c]]) + 1
  BY <1>1, <1>2
<1> HIDE DEF q
<1>5. /\ queue' \in [Clients -> [Users -> Seq(Writes)]] /\ queue'[c][user[c]] = q
      /\ \A e \in Clients, u \in Users : e # c \/ u # user[c] => queue'[e][u] = queue[e][u]
  BY <1>2, <1>3, <1>4, QueueUpdate
<1>6. ASSUME NEW e \in Clients PROVE Len(queue[e][user[e]]) <= Len(queue'[e][user[e]])
  <2>1. user[e] \in Users /\ Len(queue[e][user[e]]) \in Nat
    BY DEF StateInv
  <2>2. CASE e = c
    BY <1>4, <1>5, <2>1, <2>2
  <2>3. CASE e # c
    BY <1>5, <2>1, <2>3
  <2>4. QED
    BY <2>2, <2>3
<1>7. QED
  BY <1>5, <1>6

(* The pipeline does not outrun a queue that does not get shorter. *)
LEMMA PipelineKept ==
    ASSUME StateInv, queue' \in [Clients -> [Users -> Seq(Writes)]],
           UNCHANGED <<sent, user>>,
           \A e \in Clients : Len(queue[e][user[e]]) <= Len(queue'[e][user[e]])
    PROVE  \A e \in Clients : sent'[e] <= Len(queue'[e][user'[e]])
<1> SUFFICES ASSUME NEW e \in Clients PROVE sent[e] <= Len(queue'[e][user[e]])
  OBVIOUS
<1>1. /\ user[e] \in Users /\ sent[e] \in Nat /\ sent[e] <= Len(queue[e][user[e]])
      /\ Len(queue[e][user[e]]) \in Nat
  BY DEF StateInv, Active
<1>2. Len(queue'[e][user[e]]) \in Nat
  BY <1>1
<1>3. QED
  BY <1>1, <1>2

-----------------------------------------------------------------------------
(* Tags of fetchUserInfo. *)

(* Reads and handlers of a step carry no tag of fetchUserInfo that was not   *)
(* there.                                                                    *)
Tagged(c, tag) ==
    \/ tag.kind # "fetch"
    \/ \E i \in 1..Len(reads[c]) : reads[c][i].tag = tag
    \/ \E i \in 1..Len(calls[c]) : calls[c][i].tag = tag

NoNewFetch ==
    \A c \in Clients :
        /\ \A i \in 1..Len(reads'[c]) : Tagged(c, reads'[c][i].tag)
        /\ \A i \in 1..Len(calls'[c]) : Tagged(c, calls'[c][i].tag)

(* Views stay, change their stage or name, or close. *)
LEMMA FetchKept ==
    ASSUME FetchInv, NoNewFetch, UNCHANGED views,
           \A c \in Clients : \/ view'[c].no = view[c].no /\ view'[c].viewer = view[c].viewer
                              \/ view'[c].no = 0
    PROVE  FetchInv'
<1>1. ASSUME NEW c \in Clients, NEW tag, Tagged(c, tag), tag.kind = "fetch"
      PROVE  /\ tag.no \in 1..views'
             /\ tag.no = view'[c].no /\ ~Overlap => tag.uid = view'[c].viewer
  <2>1. FetchOf(c, tag)
    BY <1>1 DEF FetchInv, Tagged
  <2>2. tag.no \in 1..views /\ (tag.no = view[c].no /\ ~Overlap => tag.uid = view[c].viewer)
    BY <1>1, <2>1 DEF FetchOf
  <2>3. tag.no # 0
    BY <2>2
  <2>4. QED
    BY <2>2, <2>3
<1>2. ASSUME NEW c \in Clients, NEW i \in 1..Len(reads'[c])
      PROVE  FetchOf(c, reads[c][i].tag)'
  <2>1. Tagged(c, reads'[c][i].tag)
    BY DEF NoNewFetch
  <2>2. QED
    BY <1>1, <2>1 DEF FetchOf
<1>3. ASSUME NEW c \in Clients, NEW i \in 1..Len(calls'[c])
      PROVE  FetchOf(c, calls[c][i].tag)'
  <2>1. Tagged(c, calls'[c][i].tag)
    BY DEF NoNewFetch
  <2>2. QED
    BY <1>1, <2>1 DEF FetchOf
<1>4. QED
  BY <1>2, <1>3 DEF FetchInv

LEMMA ViewKept ==
    ASSUME ViewInv, UNCHANGED <<view, views>>,
           \A c \in Clients : user'[c] = user[c] \/ user'[c] = None
    PROVE  ViewInv'
  BY DEF ViewInv

-----------------------------------------------------------------------------
(* Reads and handlers. *)

LEMMA AskedRead ==
    ASSUME StateInv, NEW c \in Clients, NEW u \in Uids, NEW no \in Nat,
           NEW kind \in {"ensure", "fetch"},
           GetDocument(c, Profile(u), Tag(kind, u, no, Blank))
    PROVE  /\ reads' \in [Clients -> Seq(ProfileReads)]
           /\ \A e \in Clients : \A i \in 1..Len(reads'[e]) :
                  \/ \E j \in 1..Len(reads[e]) : reads[e][j] = reads'[e][i]
                  \/ e = c /\ reads'[e][i].tag = Tag(kind, u, no, Blank)
<1> DEFINE tag == Tag(kind, u, no, Blank)
           r == Read({Profile(u)}, TRUE, tag)
<1>1. tag \in ReadTag /\ tag.uid = u
  BY DEF Tag, ReadTag
<1> HIDE DEF tag
<1>2. r \in ProfileReads /\ r.tag = tag
  BY <1>1, ProfilePlaces DEF Read, ProfileReads
<1>3. reads' = [reads EXCEPT ![c] = Append(reads[c], r)]
  BY DEF GetDocument, tag
<1> HIDE DEF r
<1>4. reads \in [Clients -> Seq(ProfileReads)] /\ reads[c] \in Seq(ProfileReads)
  BY DEF StateInv
<1>5. /\ Append(reads[c], r) \in Seq(ProfileReads)
      /\ \A x : InSeq(Append(reads[c], r), x) <=> InSeq(reads[c], x) \/ x = r
  BY <1>2, <1>4, AppendElements
<1>6. /\ reads' \in [Clients -> Seq(ProfileReads)] /\ reads'[c] = Append(reads[c], r)
      /\ \A e \in Clients : e # c => reads'[e] = reads[e]
  BY <1>3, <1>4, <1>5
<1>7. ASSUME NEW e \in Clients, NEW i \in 1..Len(reads'[e])
      PROVE  \/ \E j \in 1..Len(reads[e]) : reads[e][j] = reads'[e][i]
             \/ e = c /\ reads'[e][i].tag = tag
  <2>1. CASE e # c
    BY <1>6, <2>1
  <2>2. CASE e = c
    <3>1. InSeq(reads'[c], reads'[c][i])
      BY <2>2 DEF InSeq
    <3>2. InSeq(reads[c], reads'[c][i]) \/ reads'[c][i] = r
      BY <1>5, <1>6, <3>1
    <3>3. QED
      BY <1>2, <2>2, <3>2 DEF InSeq
  <2>3. QED
    BY <2>1, <2>2
<1>8. QED
  BY <1>6, <1>7 DEF tag

LEMMA CallAdded ==
    ASSUME StateInv, NEW c \in Clients, NEW k \in Handlers, calls' = [calls EXCEPT ![c] = Append(calls[c], k)]
    PROVE  /\ calls' \in [Clients -> Seq(Handlers)]
           /\ \A e \in Clients : \A i \in 1..Len(calls'[e]) :
                  (\E j \in 1..Len(calls[e]) : calls[e][j] = calls'[e][i]) \/ calls'[e][i] = k
<1>1. calls \in [Clients -> Seq(Handlers)] /\ calls[c] \in Seq(Handlers)
  BY DEF StateInv
<1>2. /\ Append(calls[c], k) \in Seq(Handlers)
      /\ \A x : InSeq(Append(calls[c], k), x) <=> InSeq(calls[c], x) \/ x = k
  BY <1>1, AppendElements
<1>3. /\ calls' \in [Clients -> Seq(Handlers)] /\ calls'[c] = Append(calls[c], k)
      /\ \A e \in Clients : e # c => calls'[e] = calls[e]
  BY <1>1, <1>2
<1>4. ASSUME NEW e \in Clients, NEW i \in 1..Len(calls'[e])
      PROVE  (\E j \in 1..Len(calls[e]) : calls[e][j] = calls'[e][i]) \/ calls'[e][i] = k
  <2>1. CASE e # c
    BY <1>3, <2>1
  <2>2. CASE e = c
    <3>1. InSeq(calls'[c], calls'[c][i])
      BY <2>2 DEF InSeq
    <3>2. InSeq(calls[c], calls'[c][i]) \/ calls'[c][i] = k
      BY <1>2, <1>3, <3>1
    <3>3. QED
      BY <2>2, <3>2 DEF InSeq
  <2>3. QED
    BY <2>1, <2>2
<1>5. QED
  BY <1>3, <1>4

(* A handler leaves the main queue. *)
LEMMA Popped ==
    ASSUME StateInv, NEW c \in Clients, calls[c] # <<>>, calls' = [calls EXCEPT ![c] = Tail(@)]
    PROVE  /\ calls' \in [Clients -> Seq(Handlers)]
           /\ Head(calls[c]) \in Handlers /\ Head(calls[c]) = calls[c][1] /\ 1 \in 1..Len(calls[c])
           /\ \A e \in Clients : \A k \in 1..Len(calls'[e]) :
                  \E j \in 1..Len(calls[e]) : calls[e][j] = calls'[e][k]
<1>1. calls \in [Clients -> Seq(Handlers)] /\ calls[c] \in Seq(Handlers)
  BY DEF StateInv
<1>2. /\ Tail(calls[c]) \in Seq(Handlers) /\ Head(calls[c]) \in Handlers
      /\ Head(calls[c]) = calls[c][1] /\ 1 \in 1..Len(calls[c])
      /\ \A i \in 1..Len(Tail(calls[c])) : i + 1 \in 1..Len(calls[c]) /\ Tail(calls[c])[i] = calls[c][i + 1]
  BY <1>1, TailElements
<1>3. /\ calls' \in [Clients -> Seq(Handlers)] /\ calls'[c] = Tail(calls[c])
      /\ \A e \in Clients : e # c => calls'[e] = calls[e]
  BY <1>1, <1>2
<1>4. ASSUME NEW e \in Clients, NEW k \in 1..Len(calls'[e])
      PROVE  \E j \in 1..Len(calls[e]) : calls[e][j] = calls'[e][k]
  <2>1. CASE e = c
    BY <1>2, <1>3, <2>1
  <2>2. CASE e # c
    BY <1>3, <2>2
  <2>3. QED
    BY <2>1, <2>2
<1>5. QED
  BY <1>2, <1>3, <1>4

(* Whose handler it is. *)
LEMMA HandlerKinds ==
    ASSUME NEW k \in Handlers
    PROVE  /\ k.tag.uid \in Uids
           /\ k.kind = "read" => k.docs \in Answer /\ k.tag \in ReadTag
           /\ k.kind = "write" => k.tag \in NameTag
<1>1. CASE k \in ReadCalls
  BY <1>1 DEF ReadCalls, ReadTag
<1>2. CASE k \in Completions
  BY <1>2 DEF Completions, ReadTag
<1>3. CASE k \in NameCalls
  BY <1>3 DEF NameCalls, NameTag
<1>4. QED
  BY <1>1, <1>2, <1>3 DEF Handlers

-----------------------------------------------------------------------------
(* The steps. *)

LEMMA NameInit == Init => NameInv
<1> SUFFICES ASSUME Init PROVE NameInv
  OBVIOUS
<1> USE DEF Init, FirestoreInit
<1>1. server \in Places
  <2>1. ASSUME NEW d \in Docs PROVE server[d] \in Contents(d) /\ server[d] \in {Absent} \cup Documents
    <3>1. CASE d[1] = ProfilePath /\ d[2] \in Known
      <4>1. d[2] \in Uids /\ d = Profile(d[2]) /\ server[d] = StoredProfile(d[2])
        BY <3>1, ProfileAssumption DEF Docs, Profile
      <4>2. 0 \in Nat
        OBVIOUS
      <4>3. StoredProfile(d[2]) \in Document(Profile(d[2]))
        BY <4>1, <4>2, NewProfileDocument
      <4>4. QED
        BY <4>1, <4>3 DEF Contents, Document
    <3>2. CASE ~(d[1] = ProfilePath /\ d[2] \in Known)
      BY <3>2 DEF Contents
    <3>3. QED
      BY <3>1, <3>2
  <2>2. server = [d \in Docs |-> server[d]]
    OBVIOUS
  <2>3. QED
    BY <2>1, <2>2 DEF Places
<1>2. cache \in [Clients -> Places]
  BY DEF Places, Contents
<1>3. queue \in [Clients -> [Users -> Seq(Writes)]] /\ sent \in [Clients -> Nat]
  OBVIOUS
<1>4. user \in [Clients -> Users] /\ \A c \in Clients : sent[c] <= Len(Active(c))
  BY DEF Active, Users
<1>5. reads \in [Clients -> Seq(ProfileReads)] /\ calls \in [Clients -> Seq(Handlers)]
  OBVIOUS
<1>6. view \in [Clients -> Views] /\ saved \in [Uids -> Users \cup {Blank}]
  BY DEF Views, Closed, Stages, Users
<1>7. StateInv
  BY <1>1, <1>2, <1>3, <1>4, <1>5, <1>6 DEF StateInv
<1>8. ViewInv
  BY NameFacts DEF ViewInv, Closed
<1>9. FetchInv
  BY DEF FetchInv
<1>10. QED
  BY <1>7, <1>8, <1>9 DEF NameInv

LEMMA CredentialStep ==
    ASSUME StateInv, NEW c \in Clients, NEW u \in Users, HandleCredentialChange(c, u)
    PROVE  /\ queue' \in [Clients -> [Users -> Seq(Writes)]] /\ sent' \in [Clients -> Nat]
           /\ user' \in [Clients -> Users] /\ user'[c] = u
           /\ \A e \in Clients : e # c => user'[e] = user[e]
           /\ \A e \in Clients : sent'[e] <= Len(queue'[e][user'[e]])
<1>1. /\ queue' \in [Clients -> [Users -> Seq(Writes)]]
      /\ \A e \in Clients, v \in Users : Len(queue'[e][v]) = Len(queue[e][v])
  BY QueueKept DEF HandleCredentialChange
<1>2. /\ user' \in [Clients -> Users] /\ sent' \in [Clients -> Nat] /\ user'[c] = u
      /\ sent'[c] = 0 /\ \A e \in Clients : e # c => sent'[e] = sent[e] /\ user'[e] = user[e]
  BY DEF StateInv, HandleCredentialChange
<1>3. ASSUME NEW e \in Clients PROVE sent'[e] <= Len(queue'[e][user'[e]])
  <2>1. queue'[e][user'[e]] \in Seq(Writes)
    BY <1>1, <1>2
  <2>2. CASE e = c
    BY <1>2, <2>1, <2>2
  <2>3. CASE e # c
    BY <1>1, <1>2, <2>3 DEF StateInv, Active
  <2>4. QED
    BY <2>2, <2>3
<1>4. QED
  BY <1>1, <1>2, <1>3

LEMMA SignInStep ==
    ASSUME NameInv, NEW c \in Clients, NEW u \in Uids, SignIn(c, u)
    PROVE  NameInv'
<1> DEFINE tag == Tag("ensure", u, 0, Blank)
           k == [kind |-> "completion", tag |-> tag, ok |-> TRUE, docs |-> <<>>]
<1>1. /\ HandleCredentialChange(c, u) /\ GetDocument(c, Profile(u), tag)
      /\ Overlap \/ view[c].stage = "closed"
      /\ calls' = [calls EXCEPT ![c] = Append(calls[c], k)]
      /\ UNCHANGED <<server, cache, view, saved, updates, views, creations>>
  BY DEF SignIn, EnsureProfile
<1>2. tag \in ReadTag /\ tag.kind = "ensure" /\ u \in Users
  BY DEF Tag, ReadTag, Users
<1>3. /\ reads' \in [Clients -> Seq(ProfileReads)]
      /\ \A e \in Clients : \A i \in 1..Len(reads'[e]) :
             \/ \E j \in 1..Len(reads[e]) : reads[e][j] = reads'[e][i]
             \/ e = c /\ reads'[e][i].tag = tag
  BY <1>1, AskedRead DEF NameInv
<1> HIDE DEF tag
<1>4. k \in Handlers /\ k.tag = tag
  BY <1>2 DEF Handlers, Completions
<1> HIDE DEF k
<1>5. /\ calls' \in [Clients -> Seq(Handlers)]
      /\ \A e \in Clients : \A i \in 1..Len(calls'[e]) :
             (\E j \in 1..Len(calls[e]) : calls[e][j] = calls'[e][i]) \/ calls'[e][i] = k
  BY <1>1, <1>4, CallAdded DEF NameInv
<1>6. /\ queue' \in [Clients -> [Users -> Seq(Writes)]] /\ sent' \in [Clients -> Nat]
      /\ user' \in [Clients -> Users] /\ user'[c] = u
      /\ \A e \in Clients : e # c => user'[e] = user[e]
      /\ \A e \in Clients : sent'[e] <= Len(queue'[e][user'[e]])
  BY <1>1, <1>2, CredentialStep DEF NameInv
<1>7. StateInv'
  BY <1>1, <1>3, <1>5, <1>6 DEF NameInv, StateInv, Active
<1>8. ViewInv'
  BY <1>1, <1>6 DEF NameInv, ViewInv
<1>9. NoNewFetch
  BY <1>2, <1>3, <1>4, <1>5 DEF NoNewFetch, Tagged
<1>10. FetchInv'
  BY <1>1, <1>9, FetchKept DEF NameInv
<1>11. QED
  BY <1>7, <1>8, <1>10 DEF NameInv

(* Somebody is signed out; the view stays or closes. *)
LEMMA SignOutStep ==
    ASSUME NameInv, NEW c \in Clients, ForcedSignOut(c) \/ SignOut(c)
    PROVE  NameInv'
<1>1. /\ HandleCredentialChange(c, None) /\ None \in Users
      /\ UNCHANGED <<server, cache, reads, calls, saved, updates, views, creations>>
      /\ view' = view \/ view' = [view EXCEPT ![c] = Closed]
  BY DEF ForcedSignOut, SignOut, appVars, Users
<1>2. /\ queue' \in [Clients -> [Users -> Seq(Writes)]] /\ sent' \in [Clients -> Nat]
      /\ user' \in [Clients -> Users] /\ user'[c] = None
      /\ \A e \in Clients : e # c => user'[e] = user[e]
      /\ \A e \in Clients : sent'[e] <= Len(queue'[e][user'[e]])
  BY <1>1, CredentialStep DEF NameInv
<1>3. /\ view \in [Clients -> Views] /\ Closed \in Views /\ Closed.no = 0 /\ Closed.stage = "closed"
      /\ Closed.name = Blank
  BY DEF NameInv, StateInv, Views, Closed, Stages, Users
<1>4. view' \in [Clients -> Views] /\ \A e \in Clients : view'[e] = view[e] \/ view'[e] = Closed
  BY <1>1, <1>3
<1>5. StateInv'
  BY <1>1, <1>2, <1>4 DEF NameInv, StateInv, Active
<1>6. ViewInv'
  <2> SUFFICES ASSUME NEW e \in Clients
               PROVE  /\ view'[e].no <= views
                      /\ view'[e].name \in Names(view'[e].viewer)
                      /\ view'[e].stage = "closed" => view'[e].no = 0
                      /\ view'[e].stage # "closed" => view'[e].viewer \in Uids
                      /\ view'[e].stage # "closed" /\ ~Overlap => user'[e] \in {None, view'[e].viewer}
    BY <1>1 DEF ViewInv
  <2>1. CASE view'[e] = view[e]
    BY <1>2, <2>1 DEF NameInv, ViewInv
  <2>2. CASE view'[e] = Closed
    BY <1>3, <2>2, NameFacts DEF NameInv, StateInv
  <2>3. QED
    BY <1>4, <2>1, <2>2
<1>7. NoNewFetch
  BY <1>1 DEF NoNewFetch, Tagged
<1>8. FetchInv'
  <2>1. \A e \in Clients : \/ view'[e].no = view[e].no /\ view'[e].viewer = view[e].viewer
                           \/ view'[e].no = 0
    BY <1>3, <1>4
  <2>2. QED
    BY <1>1, <1>7, <2>1, FetchKept DEF NameInv
<1>9. QED
  BY <1>5, <1>6, <1>8 DEF NameInv

(* Only the view of c changes: from v. *)
LEMMA NewView ==
    ASSUME NameInv, NEW c \in Clients, NEW v \in Views, view' = [view EXCEPT ![c] = v],
           UNCHANGED <<user, views>>,
           v.no <= views, v.name \in Names(v.viewer),
           v.stage = "closed" => v.no = 0,
           v.stage # "closed" => v.viewer \in Uids,
           v.stage # "closed" /\ ~Overlap => user[c] \in {None, v.viewer}
    PROVE  view' \in [Clients -> Views] /\ view'[c] = v /\ ViewInv'
           /\ \A e \in Clients : e # c => view'[e] = view[e]
<1>1. /\ view' \in [Clients -> Views] /\ view'[c] = v
      /\ \A e \in Clients : e # c => view'[e] = view[e]
  BY DEF NameInv, StateInv
<1>2. ASSUME NEW e \in Clients
      PROVE  /\ view'[e].no <= views
             /\ view'[e].name \in Names(view'[e].viewer)
             /\ view'[e].stage = "closed" => view'[e].no = 0
             /\ view'[e].stage # "closed" => view'[e].viewer \in Uids
             /\ view'[e].stage # "closed" /\ ~Overlap => user[e] \in {None, view'[e].viewer}
  <2>1. CASE e = c
    BY <1>1, <2>1
  <2>2. CASE e # c
    BY <1>1, <2>2 DEF NameInv, ViewInv
  <2>3. QED
    BY <2>1, <2>2
<1>3. ViewInv'
  BY <1>2 DEF ViewInv
<1>4. QED
  BY <1>1, <1>3

LEMMA ClosedView ==
    /\ Closed \in Views /\ Closed.no = 0 /\ Closed.stage = "closed" /\ Closed.name = Blank
    /\ Closed.viewer = None /\ \A u : Closed.name \in Names(u)
  BY NameFacts DEF Closed, Views, Stages, Users

LEMMA RelaunchStep ==
    ASSUME NameInv, NEW c \in Clients, Relaunch(c)
    PROVE  NameInv'
<1> DEFINE q == Persisted(queue[c])
           tag == Tag("ensure", user[c], 0, Blank)
           rs == IF user[c] = None THEN <<>> ELSE <<Read({Profile(user[c])}, TRUE, tag)>>
<1>1. /\ queue' = [queue EXCEPT ![c] = q] /\ sent' = [sent EXCEPT ![c] = 0]
      /\ reads' = [reads EXCEPT ![c] = rs] /\ calls' = [calls EXCEPT ![c] = <<>>]
      /\ view' = [view EXCEPT ![c] = Closed]
      /\ UNCHANGED <<server, cache, user, saved, updates, views, creations>>
  BY DEF Relaunch
<1>2. /\ queue \in [Clients -> [Users -> Seq(Writes)]] /\ sent \in [Clients -> Nat]
      /\ user \in [Clients -> Users] /\ reads \in [Clients -> Seq(ProfileReads)]
      /\ calls \in [Clients -> Seq(Handlers)] /\ views \in Nat
  BY DEF NameInv, StateInv
<1>3. q \in [Users -> Seq(Writes)]
  BY <1>2, PersistedWrites
<1>4. rs \in Seq(ProfileReads) /\ \A i \in 1..Len(rs) : rs[i].tag.kind = "ensure"
  <2>1. CASE user[c] = None
    BY <2>1
  <2>2. CASE user[c] # None
    <3>1. user[c] \in Uids
      BY <1>2, <2>2 DEF Users
    <3>2. tag \in ReadTag /\ tag.uid = user[c] /\ tag.kind = "ensure"
      BY <3>1 DEF Tag, ReadTag
    <3> HIDE DEF tag
    <3> DEFINE r == Read({Profile(user[c])}, TRUE, tag)
    <3>3. r \in ProfileReads /\ r.tag = tag
      BY <3>1, <3>2, ProfilePlaces DEF Read, ProfileReads
    <3>4. rs = <<r>>
      BY <2>2
    <3> HIDE DEF r, rs
    <3>5. QED
      BY <3>2, <3>3, <3>4
  <2>3. QED
    BY <2>1, <2>2
<1> HIDE DEF q, rs
<1>5. /\ queue' \in [Clients -> [Users -> Seq(Writes)]] /\ sent' \in [Clients -> Nat]
      /\ reads' \in [Clients -> Seq(ProfileReads)] /\ calls' \in [Clients -> Seq(Handlers)]
      /\ reads'[c] = rs /\ calls'[c] = <<>> /\ sent'[c] = 0
      /\ \A e \in Clients : e # c => /\ queue'[e] = queue[e] /\ sent'[e] = sent[e]
                                     /\ reads'[e] = reads[e] /\ calls'[e] = calls[e]
  BY <1>1, <1>2, <1>3, <1>4
<1>6. ASSUME NEW e \in Clients PROVE sent'[e] <= Len(queue'[e][user'[e]])
  <2>1. queue'[e][user'[e]] \in Seq(Writes)
    BY <1>1, <1>2, <1>5
  <2>2. CASE e = c
    BY <1>5, <2>1, <2>2
  <2>3. CASE e # c
    BY <1>1, <1>5, <2>3 DEF NameInv, StateInv, Active
  <2>4. QED
    BY <2>2, <2>3
<1>7. /\ view' \in [Clients -> Views] /\ view'[c] = Closed /\ ViewInv'
      /\ \A e \in Clients : e # c => view'[e] = view[e]
  <2>1. 0 <= views
    BY <1>2
  <2>2. QED
    BY <1>1, <2>1, ClosedView, NewView
<1>8. StateInv'
  BY <1>1, <1>5, <1>6, <1>7 DEF NameInv, StateInv, Active
<1>9. NoNewFetch
  <2> SUFFICES ASSUME NEW e \in Clients
               PROVE  /\ \A i \in 1..Len(reads'[e]) : Tagged(e, reads'[e][i].tag)
                      /\ \A i \in 1..Len(calls'[e]) : Tagged(e, calls'[e][i].tag)
    BY DEF NoNewFetch
  <2>1. CASE e = c
    <3>1. \A i \in 1..Len(reads'[e]) : reads'[e][i].tag.kind # "fetch"
      BY <1>4, <1>5, <2>1
    <3>2. Len(calls'[e]) = 0
      BY <1>5, <2>1
    <3>3. QED
      BY <3>1, <3>2 DEF Tagged
  <2>2. CASE e # c
    BY <1>5, <2>2 DEF Tagged
  <2>3. QED
    BY <2>1, <2>2
<1>10. FetchInv'
  <2>1. \A e \in Clients : \/ view'[e].no = view[e].no /\ view'[e].viewer = view[e].viewer
                           \/ view'[e].no = 0
    BY <1>7, ClosedView
  <2>2. QED
    BY <1>1, <1>9, <2>1, FetchKept DEF NameInv
<1>11. QED
  BY <1>7, <1>8, <1>10 DEF NameInv

LEMMA MenuStep ==
    ASSUME NameInv, NEW c \in Clients, OpenMenu(c) \/ CloseMenu(c)
    PROVE  NameInv'
<1>1. UNCHANGED <<server, cache, queue, sent, user, reads, calls, saved, updates, views, creations>>
  BY DEF OpenMenu, CloseMenu, fsVars
<1>2. PICK v \in Views : /\ view' = [view EXCEPT ![c] = v] /\ v.no = 0 /\ v.name = Blank
                         /\ v.stage # "closed" => v.viewer \in Uids /\ v.viewer = user[c]
  <2>1. CASE CloseMenu(c)
    BY <2>1, ClosedView DEF CloseMenu
  <2>2. CASE OpenMenu(c)
    <3> DEFINE x == [Closed EXCEPT !.stage = "menu"]
               v == [x EXCEPT !.viewer = user[c]]
    <3>1. user[c] \in Uids /\ view' = [view EXCEPT ![c] = v]
      BY <2>2 DEF OpenMenu, NameInv, StateInv, Users
    <3>2. x \in Views /\ x.no = 0 /\ x.name = Blank
      BY ClosedView DEF Views, Stages
    <3> HIDE DEF x
    <3>3. v \in Views /\ v.no = 0 /\ v.name = Blank /\ v.viewer = user[c]
      BY <3>1, <3>2 DEF Views, Users
    <3>4. QED
      BY <3>1, <3>3
  <2>3. QED
    BY <2>1, <2>2
<1>3. views \in Nat
  BY DEF NameInv, StateInv
<1>4. v.name \in Names(v.viewer) /\ v.no <= views
  BY <1>2, <1>3, NameFacts
<1>5. /\ view' \in [Clients -> Views] /\ view'[c] = v /\ ViewInv'
      /\ \A e \in Clients : e # c => view'[e] = view[e]
  BY <1>1, <1>2, <1>4, NewView
<1>6. StateInv'
  BY <1>1, <1>5 DEF NameInv, StateInv, Active
<1>7. NoNewFetch
  BY <1>1 DEF NoNewFetch, Tagged
<1>8. FetchInv'
  <2>1. \A e \in Clients : \/ view'[e].no = view[e].no /\ view'[e].viewer = view[e].viewer
                           \/ view'[e].no = 0
    BY <1>2, <1>5
  <2>2. QED
    BY <1>1, <1>7, <2>1, FetchKept DEF NameInv
<1>9. QED
  BY <1>5, <1>6, <1>8 DEF NameInv

(* fetchUserInfo asks for the profile of the person in front of the view. *)
LEMMA OpenViewStep ==
    ASSUME NameInv, NEW c \in Clients, OpenView(c)
    PROVE  NameInv'
<1>1. /\ UNCHANGED <<server, cache, queue, sent, user, calls, saved, updates, creations>>
      /\ view[c].stage = "menu" /\ views' = views + 1
  BY DEF OpenView
<1>2. /\ views \in Nat /\ view \in [Clients -> Views] /\ view[c] \in Views /\ user[c] \in Users
      /\ view[c].viewer \in Uids /\ view[c].name \in Names(view[c].viewer) /\ view[c].no <= views
      /\ ~Overlap => user[c] \in {None, view[c].viewer}
  BY <1>1 DEF NameInv, StateInv, ViewInv
(* Tags that were there are older than the view. *)
<1>3. ASSUME NEW e \in Clients, NEW tag, FetchOf(e, tag), tag.kind = "fetch"
      PROVE  tag.no \in 1..(views + 1) /\ tag.no # views + 1
  BY <1>2, <1>3 DEF FetchOf
<1>4. CASE user[c] = None
  <2> DEFINE v == [view[c] EXCEPT !.stage = "form"]
  <2>1. view' = [view EXCEPT ![c] = v] /\ reads' = reads
    BY <1>2, <1>4 DEF OpenView
  <2>2. /\ v \in Views /\ v.no = view[c].no /\ v.viewer = view[c].viewer /\ v.name = view[c].name
        /\ v.stage = "form"
    BY <1>2 DEF Views, Stages
  <2> HIDE DEF v
  <2>3. /\ view' \in [Clients -> Views] /\ view'[c] = v
        /\ \A e \in Clients : e # c => view'[e] = view[e]
    BY <1>2, <2>1, <2>2
  <2>4. StateInv'
    BY <1>1, <1>2, <2>1, <2>3 DEF NameInv, StateInv, Active
  <2>5. ASSUME NEW e \in Clients
        PROVE  /\ view'[e].no <= views'
               /\ view'[e].name \in Names(view'[e].viewer)
               /\ view'[e].stage = "closed" => view'[e].no = 0
               /\ view'[e].stage # "closed" => view'[e].viewer \in Uids
               /\ view'[e].stage # "closed" /\ ~Overlap => user'[e] \in {None, view'[e].viewer}
               /\ view'[e].no = view[e].no /\ view'[e].viewer = view[e].viewer
    <3>0. view[e].no \in Nat
      BY DEF NameInv, StateInv, Views
    <3>1. CASE e = c
      BY <1>1, <1>2, <1>4, <2>2, <2>3, <3>0, <3>1
    <3>2. CASE e # c
      BY <1>1, <1>2, <2>3, <3>0, <3>2 DEF NameInv, ViewInv
    <3>3. QED
      BY <3>1, <3>2
  <2>6. ViewInv'
    BY <2>5 DEF ViewInv
  <2>7. FetchInv'
    <3>1. ASSUME NEW e \in Clients, NEW tag, FetchOf(e, tag), tag.kind = "fetch"
          PROVE  /\ tag.no \in 1..views'
                 /\ tag.no = view'[e].no /\ ~Overlap => tag.uid = view'[e].viewer
      BY <1>1, <1>3, <2>5, <3>1 DEF FetchOf
    <3>2. QED
      BY <1>1, <2>1, <3>1 DEF NameInv, FetchInv, FetchOf
  <2>8. QED
    BY <2>4, <2>6, <2>7 DEF NameInv
<1>5. CASE user[c] # None
  <2> DEFINE tag == Tag("fetch", user[c], views + 1, Blank)
             x == [view[c] EXCEPT !.stage = "loading"]
             v == [x EXCEPT !.no = views + 1]
  <2>1. view' = [view EXCEPT ![c] = v] /\ GetDocument(c, Profile(user[c]), tag)
    BY <1>2, <1>5 DEF OpenView
  <2>2. x \in Views /\ x.viewer = view[c].viewer /\ x.name = view[c].name /\ x.stage = "loading"
    BY <1>2 DEF Views, Stages
  <2> HIDE DEF x
  <2>3. /\ v \in Views /\ v.no = views + 1 /\ v.viewer = view[c].viewer /\ v.name = view[c].name
        /\ v.stage = "loading"
    BY <1>2, <2>2 DEF Views
  <2> HIDE DEF v
  <2>4. /\ view' \in [Clients -> Views] /\ view'[c] = v
        /\ \A e \in Clients : e # c => view'[e] = view[e]
    BY <1>2, <2>1, <2>3
  <2>5. /\ reads' \in [Clients -> Seq(ProfileReads)]
        /\ \A e \in Clients : \A i \in 1..Len(reads'[e]) :
               \/ \E j \in 1..Len(reads[e]) : reads[e][j] = reads'[e][i]
               \/ e = c /\ reads'[e][i].tag = tag
    <3>1. user[c] \in Uids /\ views + 1 \in Nat
      BY <1>2, <1>5 DEF Users
    <3>2. QED
      BY <2>1, <3>1, AskedRead DEF NameInv
  <2>6. tag.kind = "fetch" /\ tag.no = views + 1 /\ tag.uid = user[c]
    BY DEF Tag
  <2> HIDE DEF tag
  <2>7. StateInv'
    BY <1>1, <1>2, <2>4, <2>5 DEF NameInv, StateInv, Active
  <2>8. ViewInv'
    <3> SUFFICES ASSUME NEW e \in Clients
                 PROVE  /\ view'[e].no <= views'
                        /\ view'[e].name \in Names(view'[e].viewer)
                        /\ view'[e].stage = "closed" => view'[e].no = 0
                        /\ view'[e].stage # "closed" => view'[e].viewer \in Uids
                        /\ view'[e].stage # "closed" /\ ~Overlap => user'[e] \in {None, view'[e].viewer}
      BY DEF ViewInv
    <3>0. view[e].no \in Nat
      BY DEF NameInv, StateInv, Views
    <3>1. CASE e = c
      BY <1>1, <1>2, <2>3, <2>4, <3>1
    <3>2. CASE e # c
      BY <1>1, <1>2, <2>4, <3>0, <3>2 DEF NameInv, ViewInv
    <3>3. QED
      BY <3>1, <3>2
  <2>9. FetchInv'
    <3>1. ASSUME NEW e \in Clients, NEW t, FetchOf(e, t), t.kind = "fetch"
          PROVE  /\ t.no \in 1..views'
                 /\ t.no = view'[e].no /\ ~Overlap => t.uid = view'[e].viewer
      BY <1>1, <1>3, <2>3, <2>4, <3>1 DEF FetchOf
    <3>2. ~Overlap => tag.uid = view'[c].viewer
      BY <1>2, <1>5, <2>3, <2>4, <2>6
    <3>3. tag.no \in 1..views'
      BY <1>1, <1>2, <2>6
    <3>4. ASSUME NEW e \in Clients, NEW i \in 1..Len(reads'[e])
          PROVE  FetchOf(e, reads[e][i].tag)'
      <4>1. CASE \E j \in 1..Len(reads[e]) : reads[e][j] = reads'[e][i]
        <5>1. FetchOf(e, reads'[e][i].tag)
          BY <4>1 DEF NameInv, FetchInv
        <5>2. QED
          BY <3>1, <5>1 DEF FetchOf
      <4>2. CASE e = c /\ reads'[e][i].tag = tag
        BY <3>2, <3>3, <4>2 DEF FetchOf
      <4>3. QED
        BY <2>5, <4>1, <4>2
    <3>5. ASSUME NEW e \in Clients, NEW i \in 1..Len(calls[e])
          PROVE  FetchOf(e, calls[e][i].tag)'
      <4>1. FetchOf(e, calls[e][i].tag)
        BY DEF NameInv, FetchInv
      <4>2. QED
        BY <1>1, <3>1, <4>1 DEF FetchOf
    <3>6. QED
      BY <1>1, <3>4, <3>5 DEF FetchInv
  <2>10. QED
    BY <2>7, <2>8, <2>9 DEF NameInv
<1>6. QED
  BY <1>4, <1>5

(* updateUserInfo writes a name that the person in front of the view may     *)
(* have into the profile of the current user.                                *)
LEMMA TapUpdateStep ==
    ASSUME NameInv, NEW c \in Clients, NEW name \in Uids \cup {Blank}, TapUpdate(c, name)
    PROVE  NameInv'
<1> DEFINE tag == Tag("name", user[c], updates + 1, name)
           data == [f \in {"name"} |-> name]
           v == [view[c] EXCEPT !.name = name]
<1>1. /\ view[c].stage = "form" /\ user[c] # None /\ name \in {view[c].name, view[c].viewer}
      /\ updates' = updates + 1 /\ view' = [view EXCEPT ![c] = v]
      /\ SetData(c, Profile(user[c]), data, TRUE, tag)
      /\ saved' = [saved EXCEPT ![user[c]] = None]
      /\ UNCHANGED <<server, cache, sent, user, reads, calls, views, creations>>
  BY DEF TapUpdate
<1>2. /\ updates \in Nat /\ view[c] \in Views /\ user[c] \in Uids /\ view[c].viewer \in Uids
      /\ view[c].name \in Names(view[c].viewer) /\ view[c].no <= views
      /\ ~Overlap => user[c] \in {None, view[c].viewer}
  BY <1>1 DEF NameInv, StateInv, ViewInv, Users
<1>3. name \in Names(view[c].viewer) /\ name \in Names(user[c])
  <2>1. name \in Names(view[c].viewer)
    BY <1>1, <1>2, NameFacts
  <2>2. CASE Overlap
    BY <2>1, <2>2, NameFacts
  <2>3. CASE ~Overlap
    BY <1>1, <1>2, <2>1, <2>3
  <2>4. QED
    BY <2>1, <2>2, <2>3
<1>4. data \in Document(Profile(user[c])) /\ Profile(user[c]) \in Docs
  BY <1>2, <1>3, NameDocument, ProfilePlaces
<1>5. tag \in NameTag \cup {None}
  BY <1>2 DEF Tag, NameTag
<1>6. /\ v \in Views /\ v.no = view[c].no /\ v.viewer = view[c].viewer /\ v.stage = "form"
      /\ v.name = name
  BY <1>1, <1>2 DEF Views
<1> HIDE DEF tag, data, v
<1>7. /\ queue' \in [Clients -> [Users -> Seq(Writes)]]
      /\ \A e \in Clients : Len(queue[e][user[e]]) <= Len(queue'[e][user[e]])
  BY <1>1, <1>4, <1>5, AskedWrite DEF NameInv
<1>8. \A e \in Clients : sent'[e] <= Len(queue'[e][user'[e]])
  BY <1>1, <1>7, PipelineKept DEF NameInv
<1>9. /\ view' \in [Clients -> Views] /\ view'[c] = v /\ ViewInv'
      /\ \A e \in Clients : e # c => view'[e] = view[e]
  <2>1. v.no <= views /\ v.name \in Names(v.viewer) /\ v.viewer \in Uids /\ v.stage # "closed"
        /\ (~Overlap => user[c] \in {None, v.viewer})
    BY <1>2, <1>3, <1>6
  <2>2. QED
    BY <1>1, <1>6, <2>1, NewView
<1>10. saved' \in [Uids -> Users \cup {Blank}]
  BY <1>1, <1>2 DEF NameInv, StateInv, Users
<1>11. StateInv'
  BY <1>1, <1>2, <1>7, <1>8, <1>9, <1>10 DEF NameInv, StateInv, Active
<1>12. NoNewFetch
  BY <1>1 DEF NoNewFetch, Tagged
<1>13. FetchInv'
  <2>1. \A e \in Clients : view'[e].no = view[e].no /\ view'[e].viewer = view[e].viewer
    BY <1>6, <1>9
  <2>2. QED
    BY <1>1, <1>12, <2>1, FetchKept DEF NameInv
<1>14. QED
  BY <1>9, <1>11, <1>13 DEF NameInv

(* Handlers that leave the view alone. *)
LEMMA HandlerRun ==
    ASSUME NameInv, NEW c \in Clients, calls[c] # <<>>, calls' = [calls EXCEPT ![c] = Tail(@)],
           queue' \in [Clients -> [Users -> Seq(Writes)]],
           \A e \in Clients : Len(queue[e][user[e]]) <= Len(queue'[e][user[e]]),
           reads' \in [Clients -> Seq(ProfileReads)],
           \A e \in Clients : \A i \in 1..Len(reads'[e]) :
               (\E j \in 1..Len(reads[e]) : reads[e][j] = reads'[e][i]) \/ reads'[e][i].tag.kind = "ensure",
           saved' \in [Uids -> Users \cup {Blank}], creations' \in Nat,
           UNCHANGED <<server, cache, sent, user, view, updates, views>>
    PROVE  NameInv'
<1>1. /\ calls' \in [Clients -> Seq(Handlers)]
      /\ \A e \in Clients : \A k \in 1..Len(calls'[e]) :
             \E j \in 1..Len(calls[e]) : calls[e][j] = calls'[e][k]
  BY Popped DEF NameInv
<1>2. \A e \in Clients : sent'[e] <= Len(queue'[e][user'[e]])
  BY PipelineKept DEF NameInv
<1>3. StateInv'
  BY <1>1, <1>2 DEF NameInv, StateInv, Active
<1>4. ViewInv'
  BY ViewKept DEF NameInv
<1>5. NoNewFetch
  <2>1. ASSUME NEW e \in Clients, NEW i \in 1..Len(reads'[e]) PROVE Tagged(e, reads'[e][i].tag)
    <3>1. CASE \E j \in 1..Len(reads[e]) : reads[e][j] = reads'[e][i]
      BY <3>1 DEF Tagged
    <3>2. CASE reads'[e][i].tag.kind = "ensure"
      BY <3>2 DEF Tagged
    <3>3. QED
      BY <3>1, <3>2
  <2>2. ASSUME NEW e \in Clients, NEW i \in 1..Len(calls'[e]) PROVE Tagged(e, calls'[e][i].tag)
    <3>1. PICK j \in 1..Len(calls[e]) : calls[e][j] = calls'[e][i]
      BY <1>1
    <3>2. QED
      BY <3>1 DEF Tagged
  <2>3. QED
    BY <2>1, <2>2 DEF NoNewFetch
<1>6. FetchInv'
  BY <1>5, FetchKept DEF NameInv
<1>7. QED
  BY <1>3, <1>4, <1>6 DEF NameInv

LEMMA SameQueue ==
    ASSUME NameInv, UNCHANGED queue
    PROVE  /\ queue' \in [Clients -> [Users -> Seq(Writes)]]
           /\ \A e \in Clients : Len(queue[e][user[e]]) <= Len(queue'[e][user[e]])
<1>1. queue' \in [Clients -> [Users -> Seq(Writes)]]
  BY DEF NameInv, StateInv
<1>2. \A e \in Clients : Len(queue[e][user[e]]) \in Nat
  BY DEF NameInv, StateInv
<1>3. QED
  BY <1>1, <1>2

LEMMA HeadHandler ==
    ASSUME NameInv, NEW c \in Clients, calls[c] # <<>>
    PROVE  /\ Head(calls[c]) \in Handlers /\ Head(calls[c]) = calls[c][1] /\ 1 \in 1..Len(calls[c])
           /\ Head(calls[c]).tag.uid \in Uids
<1>1. calls[c] \in Seq(Handlers)
  BY DEF NameInv, StateInv
<1>2. Head(calls[c]) \in Handlers /\ Head(calls[c]) = calls[c][1] /\ 1 \in 1..Len(calls[c])
  BY <1>1, TailElements
<1>3. QED
  BY <1>2, HandlerKinds

LEMMA RunCompletionStep ==
    ASSUME NameInv, NEW c \in Clients, RunCompletion(c)
    PROVE  NameInv'
<1> DEFINE u == Head(calls[c]).tag.uid
           tag == Tag("ensure", u, 0, Blank)
<1>1. /\ calls[c] # <<>> /\ calls' = [calls EXCEPT ![c] = Tail(@)] /\ GetDocument(c, Profile(u), tag)
      /\ UNCHANGED <<server, cache, queue, sent, user, view, saved, updates, views, creations>>
  BY DEF RunCompletion, NextCall, EnsureProfile, appVars
<1>2. u \in Uids
  BY <1>1, HeadHandler
<1>3. tag.kind = "ensure" /\ 0 \in Nat /\ "ensure" \in {"ensure", "fetch"}
  BY DEF Tag
<1> HIDE DEF u
<1>4. /\ reads' \in [Clients -> Seq(ProfileReads)]
      /\ \A e \in Clients : \A i \in 1..Len(reads'[e]) :
             \/ \E j \in 1..Len(reads[e]) : reads[e][j] = reads'[e][i]
             \/ e = c /\ reads'[e][i].tag = tag
  BY <1>1, <1>2, <1>3, AskedRead, SMTT(30) DEF NameInv
<1> HIDE DEF tag
<1>5. saved' \in [Uids -> Users \cup {Blank}] /\ creations' \in Nat
  BY <1>1 DEF NameInv, StateInv
<1>6. /\ queue' \in [Clients -> [Users -> Seq(Writes)]]
      /\ \A e \in Clients : Len(queue[e][user[e]]) <= Len(queue'[e][user[e]])
  BY <1>1, SameQueue
<1>7. \A e \in Clients : \A i \in 1..Len(reads'[e]) :
          (\E j \in 1..Len(reads[e]) : reads[e][j] = reads'[e][i]) \/ reads'[e][i].tag.kind = "ensure"
  BY <1>3, <1>4
<1>8. QED
  BY <1>1, <1>4, <1>5, <1>6, <1>7, HandlerRun

(* createOrUpdateUserInFirestore writes a new profile, or nothing. *)
LEMMA RunEnsureStep ==
    ASSUME NameInv, NEW c \in Clients, RunEnsure(c)
    PROVE  NameInv'
<1> DEFINE u == Head(calls[c]).tag.uid
<1>1. /\ calls[c] # <<>> /\ calls' = [calls EXCEPT ![c] = Tail(@)]
      /\ UNCHANGED <<server, cache, sent, user, reads, view, saved, updates, views>>
      /\ \/ UNCHANGED <<queue, creations>>
         \/ /\ creations' = creations + 1
            /\ SetData(c, Profile(u), NewProfile(u, creations + 1), FALSE, None)
  BY DEF RunEnsure, NextCall
<1>2. u \in Uids /\ creations \in Nat /\ creations + 1 \in Nat
  BY <1>1, HeadHandler DEF NameInv, StateInv
<1> HIDE DEF u
<1>3. /\ queue' \in [Clients -> [Users -> Seq(Writes)]] /\ creations' \in Nat
      /\ \A e \in Clients : Len(queue[e][user[e]]) <= Len(queue'[e][user[e]])
  <2>1. CASE UNCHANGED <<queue, creations>>
    BY <1>2, <2>1, SameQueue
  <2>2. CASE /\ creations' = creations + 1
             /\ SetData(c, Profile(u), NewProfile(u, creations + 1), FALSE, None)
    <3> DEFINE data == NewProfile(u, creations + 1)
               d == Profile(u)
    <3>1. data \in Document(d) /\ d \in Docs
      BY <1>2, NewProfileDocument, ProfilePlaces
    <3>2. SetData(c, d, data, FALSE, None)
      BY <2>2
    <3> HIDE DEF data, d
    <3>3. /\ queue' \in [Clients -> [Users -> Seq(Writes)]]
          /\ \A e \in Clients : Len(queue[e][user[e]]) <= Len(queue'[e][user[e]])
      BY <3>1, <3>2, AskedWrite DEF NameInv
    <3>4. QED
      BY <1>2, <2>2, <3>3
  <2>3. QED
    BY <1>1, <2>1, <2>2
<1>4. /\ reads' \in [Clients -> Seq(ProfileReads)] /\ saved' \in [Uids -> Users \cup {Blank}]
      /\ \A e \in Clients : \A i \in 1..Len(reads'[e]) : \E j \in 1..Len(reads[e]) : reads[e][j] = reads'[e][i]
  BY <1>1 DEF NameInv, StateInv
<1>5. QED
  BY <1>1, <1>3, <1>4, HandlerRun

(* updateUserInfo's handler writes the device of the client. *)
LEMMA RunNameSavedStep ==
    ASSUME NameInv, NEW c \in Clients, RunNameSaved(c)
    PROVE  NameInv'
<1> DEFINE call == Head(calls[c])
           u == call.tag.uid
           data == [f \in {"deviceName"} |-> c]
           d == DeviceDoc(c, u)
<1>1. /\ calls[c] # <<>> /\ calls' = [calls EXCEPT ![c] = Tail(@)] /\ call.kind = "write"
      /\ UNCHANGED <<server, cache, sent, user, reads, view, updates, views, creations>>
      /\ UNCHANGED queue \/ SetData(c, d, data, TRUE, None)
      /\ saved' = saved \/ saved' = [saved EXCEPT ![u] = call.tag.name]
  BY DEF RunNameSaved, NextCall
<1>2. call \in Handlers
  BY <1>1, HeadHandler
<1> HIDE DEF call
<1>3. call.tag \in NameTag
  BY <1>1, <1>2, HandlerKinds
<1>4. u \in Uids /\ call.tag.name \in Uids \cup {Blank}
  BY <1>3 DEF NameTag
<1> HIDE DEF u
<1>5. data \in Document(d) /\ d \in Docs
  BY <1>4, DeviceDocument, ProfilePlaces
<1> HIDE DEF data, d
<1>6. /\ queue' \in [Clients -> [Users -> Seq(Writes)]]
      /\ \A e \in Clients : Len(queue[e][user[e]]) <= Len(queue'[e][user[e]])
  <2>1. CASE UNCHANGED queue
    BY <2>1, SameQueue
  <2>2. CASE SetData(c, d, data, TRUE, None)
    BY <1>5, <2>2, AskedWrite DEF NameInv
  <2>3. QED
    BY <1>1, <2>1, <2>2
<1>7. saved' \in [Uids -> Users \cup {Blank}]
  BY <1>1, <1>4 DEF NameInv, StateInv, Users
<1>8. /\ reads' \in [Clients -> Seq(ProfileReads)] /\ creations' \in Nat
      /\ \A e \in Clients : \A i \in 1..Len(reads'[e]) : \E j \in 1..Len(reads[e]) : reads[e][j] = reads'[e][i]
  BY <1>1 DEF NameInv, StateInv
<1>9. QED
  BY <1>1, <1>6, <1>7, <1>8, HandlerRun

(* fetchUserInfo's handler fills in the name of the person who opened the    *)
(* view, if it is still that view.                                           *)
LEMMA RunFetchStep ==
    ASSUME NameInv, NEW c \in Clients, RunFetch(c)
    PROVE  NameInv'
<1> DEFINE call == Head(calls[c])
           d == Profile(call.tag.uid)
           name == IF call.ok /\ d \in DOMAIN call.docs THEN NameOf(call.docs[d]) ELSE view[c].name
           x == [view[c] EXCEPT !.stage = "form"]
           v == [x EXCEPT !.name = name]
<1>1. /\ calls[c] # <<>> /\ calls' = [calls EXCEPT ![c] = Tail(@)]
      /\ call.kind = "read" /\ call.tag.kind = "fetch"
      /\ UNCHANGED <<server, cache, queue, sent, user, reads, saved, updates, views, creations>>
  BY DEF RunFetch, NextCall
<1>2. view \in [Clients -> Views] /\ view[c] \in Views /\ views \in Nat
  BY DEF NameInv, StateInv
<1>3. view' = view \/ (view[c].no = call.tag.no /\ view' = [view EXCEPT ![c] = v])
  BY <1>2 DEF RunFetch
<1>4. call \in Handlers /\ FetchOf(c, call.tag) /\ call.tag.uid \in Uids
  BY <1>1, HeadHandler DEF NameInv, FetchInv
<1> HIDE DEF call
<1>5. call.docs \in Answer
  BY <1>1, <1>4, HandlerKinds
<1>6. /\ calls' \in [Clients -> Seq(Handlers)]
      /\ \A e \in Clients : \A k \in 1..Len(calls'[e]) :
             \E j \in 1..Len(calls[e]) : calls[e][j] = calls'[e][k]
  BY <1>1, Popped DEF NameInv
<1>7. NoNewFetch
  BY <1>1, <1>6 DEF NoNewFetch, Tagged
<1>8. CASE view' = view
  <2>1. StateInv'
    BY <1>1, <1>6, <1>8 DEF NameInv, StateInv, Active
  <2>2. ViewInv' /\ FetchInv'
    BY <1>1, <1>7, <1>8, ViewKept, FetchKept DEF NameInv
  <2>3. QED
    BY <2>1, <2>2 DEF NameInv
<1>9. CASE view[c].no = call.tag.no /\ view' = [view EXCEPT ![c] = v]
  <2>1. view[c].no # 0 /\ (~Overlap => call.tag.uid = view[c].viewer)
    BY <1>1, <1>2, <1>4, <1>9 DEF FetchOf
  <2>2. /\ view[c].stage # "closed" /\ view[c].viewer \in Uids /\ view[c].no <= views
        /\ view[c].name \in Names(view[c].viewer)
        /\ ~Overlap => user[c] \in {None, view[c].viewer}
    BY <2>1 DEF NameInv, ViewInv
  <2>3. name \in Names(view[c].viewer)
    <3>1. CASE call.ok /\ d \in DOMAIN call.docs
      <4>1. call.docs[d] \in Document(d)
        BY <1>5, <3>1 DEF Answer
      <4>2. d[1] = ProfilePath /\ d[2] = call.tag.uid
        BY <1>4, ProfilePlaces
      <4>3. NameOf(call.docs[d]) \in Names(call.tag.uid)
        BY <4>1, <4>2 DEF Document
      <4>4. name \in Names(call.tag.uid)
        BY <3>1, <4>3
      <4>5. QED
        BY <2>1, <4>4, NameFacts
    <3>2. CASE ~(call.ok /\ d \in DOMAIN call.docs)
      BY <2>2, <3>2
    <3>3. QED
      BY <3>1, <3>2
  <2>4. name \in Uids \cup {Blank}
    BY <2>2, <2>3, NameFacts
  <2> HIDE DEF name
  <2>5. x \in Views /\ x.no = view[c].no /\ x.viewer = view[c].viewer /\ x.stage = "form"
    BY <1>2 DEF Views, Stages
  <2> HIDE DEF x
  <2>6. /\ v \in Views /\ v.no = view[c].no /\ v.viewer = view[c].viewer /\ v.name = name
        /\ v.stage = "form"
    BY <2>4, <2>5 DEF Views
  <2> HIDE DEF v
  <2>7. /\ view' \in [Clients -> Views] /\ view'[c] = v /\ ViewInv'
        /\ \A e \in Clients : e # c => view'[e] = view[e]
    <3>1. v.no <= views /\ v.name \in Names(v.viewer) /\ v.viewer \in Uids /\ v.stage # "closed"
          /\ (~Overlap => user[c] \in {None, v.viewer})
      BY <2>2, <2>3, <2>6
    <3>2. QED
      BY <1>1, <1>9, <2>6, <3>1, NewView
  <2>8. StateInv'
    BY <1>1, <1>6, <2>7 DEF NameInv, StateInv, Active
  <2>9. FetchInv'
    <3>1. \A e \in Clients : view'[e].no = view[e].no /\ view'[e].viewer = view[e].viewer
      BY <2>6, <2>7
    <3>2. QED
      BY <1>1, <1>7, <3>1, FetchKept DEF NameInv
  <2>10. QED
    BY <2>7, <2>8, <2>9 DEF NameInv
<1>10. QED
  BY <1>3, <1>8, <1>9

-----------------------------------------------------------------------------
(* The SDK and the server: the app's own state stays as it is. *)

LEMMA SdkKept ==
    ASSUME NameInv, UNCHANGED <<user, view, saved, updates, views, creations>>,
           server' \in Places, cache' \in [Clients -> Places],
           queue' \in [Clients -> [Users -> Seq(Writes)]], sent' \in [Clients -> Nat],
           \A e \in Clients : sent'[e] <= Len(queue'[e][user[e]]),
           reads' \in [Clients -> Seq(ProfileReads)], calls' \in [Clients -> Seq(Handlers)],
           NoNewFetch
    PROVE  NameInv'
<1>1. StateInv'
  BY DEF NameInv, StateInv, Active
<1>2. ViewInv'
  BY ViewKept DEF NameInv
<1>3. FetchInv'
  BY FetchKept DEF NameInv
<1>4. QED
  BY <1>1, <1>2, <1>3 DEF NameInv

LEMMA SameTags == UNCHANGED <<reads, calls>> => NoNewFetch
  BY DEF NoNewFetch, Tagged

LEMMA CommitStep ==
    ASSUME NameInv, NEW c \in Clients, Commit(c), UNCHANGED appVars
    PROVE  NameInv'
<1> DEFINE w == Active(c)[sent[c] + 1]
<1>1. /\ sent[c] < Len(Active(c)) /\ server' = [server EXCEPT ![w.doc] = Apply(w, server[w.doc])]
      /\ sent' = [sent EXCEPT ![c] = sent[c] + 1]
      /\ UNCHANGED <<cache, queue, user, reads, calls, view, saved, updates, views, creations>>
  BY DEF Commit, appVars
<1>2. Active(c) \in Seq(Writes) /\ sent[c] \in Nat /\ Len(Active(c)) \in Nat
  BY DEF NameInv, StateInv, Active
<1>3. w \in Writes
  BY <1>1, <1>2
<1> HIDE DEF w
<1>4. server' \in Places
  <2>1. w.doc \in Docs /\ server \in Places /\ server[w.doc] \in Contents(w.doc)
    BY <1>3, WriteFields DEF NameInv, StateInv, Places
  <2>2. Apply(w, server[w.doc]) \in Contents(w.doc)
    BY <1>3, <2>1, ApplyDocument
  <2>3. QED
    BY <1>1, <2>1, <2>2, PlaceChanged
<1>5. sent' \in [Clients -> Nat] /\ \A e \in Clients : sent'[e] <= Len(queue[e][user[e]])
  BY <1>1, <1>2 DEF NameInv, StateInv, Active
<1>6. NoNewFetch
  BY <1>1, SameTags
<1>7. QED
  <2>1. /\ cache \in [Clients -> Places] /\ queue \in [Clients -> [Users -> Seq(Writes)]]
        /\ reads \in [Clients -> Seq(ProfileReads)] /\ calls \in [Clients -> Seq(Handlers)]
    BY DEF NameInv, StateInv
  <2>2. QED
    BY <1>1, <1>4, <1>5, <1>6, <2>1, SdkKept

(* The oldest write leaves the queue, and its handler, if it has one, is     *)
(* called.                                                                   *)
Left(c, ok) ==
    /\ Active(c) # <<>>
    /\ queue' = [queue EXCEPT ![c][user[c]] = Tail(queue[c][user[c]])]
    /\ calls' = IF Head(Active(c)).tag = None THEN calls
                ELSE [calls EXCEPT ![c] = Append(calls[c], WriteCall(Head(Active(c)).tag, ok))]
    /\ reads' = reads

LEMMA LeftType ==
    ASSUME NameInv, NEW c \in Clients, NEW ok \in BOOLEAN, Left(c, ok)
    PROVE  /\ queue' \in [Clients -> [Users -> Seq(Writes)]]
           /\ Len(queue[c][user[c]]) \in Nat \ {0}
           /\ Len(queue'[c][user[c]]) = Len(queue[c][user[c]]) - 1
           /\ \A e \in Clients, u \in Users : e # c \/ u # user[c] => queue'[e][u] = queue[e][u]
           /\ Head(Active(c)) \in Writes
           /\ calls' \in [Clients -> Seq(Handlers)] /\ reads' \in [Clients -> Seq(ProfileReads)]
           /\ NoNewFetch
<1> DEFINE q == queue[c][user[c]]
           t == Tail(q)
           tag == Head(q).tag
           k == WriteCall(tag, ok)
<1>1. /\ queue \in [Clients -> [Users -> Seq(Writes)]] /\ user[c] \in Users /\ q \in Seq(Writes)
      /\ q # <<>> /\ Active(c) = q
  BY DEF NameInv, StateInv, Active, Left
<1>2. queue' = [queue EXCEPT ![c][user[c]] = t]
  BY DEF Left
<1>3. /\ reads' = reads
      /\ tag = None => calls' = calls
      /\ tag # None => calls' = [calls EXCEPT ![c] = Append(calls[c], k)]
  BY <1>1 DEF Left
<1> HIDE DEF q
<1>4. /\ t \in Seq(Writes) /\ Head(q) \in Writes
      /\ Len(q) \in Nat /\ 1 \in 1..Len(q) /\ Len(t) = Len(q) - 1
  BY <1>1, TailElements
<1>5. tag \in NameTag \cup {None}
  BY <1>4, WriteFields
<1> HIDE DEF t, tag
<1>6. /\ queue' \in [Clients -> [Users -> Seq(Writes)]] /\ queue'[c][user[c]] = t
      /\ \A e \in Clients, u \in Users : e # c \/ u # user[c] => queue'[e][u] = queue[e][u]
  BY <1>1, <1>2, <1>4, QueueUpdate
<1>7. reads' \in [Clients -> Seq(ProfileReads)]
  BY <1>3 DEF NameInv, StateInv
<1>8. calls' \in [Clients -> Seq(Handlers)] /\ NoNewFetch
  <2>1. CASE tag = None
    BY <1>3, <2>1, SameTags DEF NameInv, StateInv
  <2>2. CASE tag # None
    <3>1. tag \in NameTag /\ tag.kind = "name"
      BY <1>5, <2>2 DEF NameTag
    <3>2. k \in Handlers /\ k.tag = tag
      BY <3>1 DEF WriteCall, Handlers, NameCalls
    <3> HIDE DEF k
    <3>3. /\ calls' \in [Clients -> Seq(Handlers)]
          /\ \A e \in Clients : \A i \in 1..Len(calls'[e]) :
                 (\E j \in 1..Len(calls[e]) : calls[e][j] = calls'[e][i]) \/ calls'[e][i] = k
      BY <1>3, <2>2, <3>2, CallAdded DEF NameInv
    <3>4. ASSUME NEW e \in Clients, NEW i \in 1..Len(calls'[e]) PROVE Tagged(e, calls'[e][i].tag)
      <4>1. CASE \E j \in 1..Len(calls[e]) : calls[e][j] = calls'[e][i]
        BY <4>1 DEF Tagged
      <4>2. CASE calls'[e][i] = k
        BY <3>1, <3>2, <4>2 DEF Tagged
      <4>3. QED
        BY <3>3, <4>1, <4>2
    <3>5. ASSUME NEW e \in Clients, NEW i \in 1..Len(reads'[e]) PROVE Tagged(e, reads'[e][i].tag)
      BY <1>3 DEF Tagged
    <3>6. QED
      BY <3>3, <3>4, <3>5 DEF NoNewFetch
  <2>3. QED
    BY <2>1, <2>2
<1>9. QED
  BY <1>1, <1>4, <1>6, <1>7, <1>8 DEF q

LEMMA AcknowledgeStep ==
    ASSUME NameInv, NEW c \in Clients, Acknowledge(c), UNCHANGED appVars
    PROVE  NameInv'
<1> DEFINE w == Head(Active(c))
<1>1. /\ sent[c] > 0 /\ sent' = [sent EXCEPT ![c] = sent[c] - 1]
      /\ cache' = IF w.seen THEN cache ELSE [cache EXCEPT ![c][w.doc] = Apply(w, cache[c][w.doc])]
      /\ calls' = IF w.tag = None THEN calls
                  ELSE [calls EXCEPT ![c] = Append(calls[c], WriteCall(w.tag, TRUE))]
      /\ queue' = [queue EXCEPT ![c][user[c]] = Tail(queue[c][user[c]])]
      /\ UNCHANGED <<server, user, reads, view, saved, updates, views, creations>>
  BY DEF Acknowledge, appVars
<1>2. Active(c) \in Seq(Writes) /\ sent[c] \in Nat /\ sent[c] <= Len(Active(c))
  BY DEF NameInv, StateInv, Active
<1>3. Active(c) # <<>>
  BY <1>1, <1>2
<1>4. Left(c, TRUE)
  BY <1>1, <1>3 DEF Left
<1>5. /\ queue' \in [Clients -> [Users -> Seq(Writes)]]
      /\ Len(queue[c][user[c]]) \in Nat \ {0}
      /\ Len(queue'[c][user[c]]) = Len(queue[c][user[c]]) - 1
      /\ \A e \in Clients, u \in Users : e # c \/ u # user[c] => queue'[e][u] = queue[e][u]
      /\ w \in Writes
      /\ calls' \in [Clients -> Seq(Handlers)] /\ reads' \in [Clients -> Seq(ProfileReads)]
      /\ NoNewFetch
  BY <1>4, LeftType
<1> HIDE DEF w
<1>6. cache' \in [Clients -> Places]
  <2> DEFINE x == Apply(w, cache[c][w.doc])
  <2>1. /\ w.doc \in Docs /\ cache \in [Clients -> Places] /\ cache[c] \in Places
        /\ cache[c][w.doc] \in Contents(w.doc)
    BY <1>5, WriteFields DEF NameInv, StateInv, Places
  <2>2. x \in Contents(w.doc)
    BY <1>5, <2>1, ApplyDocument
  <2>3. cache' = cache \/ cache' = [cache EXCEPT ![c][w.doc] = x]
    BY <1>1
  <2> HIDE DEF x
  <2>4. [cache[c] EXCEPT ![w.doc] = x] \in Places
    BY <2>1, <2>2, PlaceChanged
  <2> DEFINE y == [cache[c] EXCEPT ![w.doc] = x]
  <2>5. cache' = cache \/ cache' = [cache EXCEPT ![c] = y]
    BY <2>1, <2>3
  <2> HIDE DEF y
  <2>6. y \in Places
    BY <2>4 DEF y
  <2>7. QED
    BY <2>1, <2>5, <2>6
<1>7. sent' \in [Clients -> Nat]
  BY <1>1, <1>2 DEF NameInv, StateInv
<1>8. ASSUME NEW e \in Clients PROVE sent'[e] <= Len(queue'[e][user[e]])
  <2>1. sent[e] \in Nat /\ sent[e] <= Len(queue[e][user[e]]) /\ user[e] \in Users
    BY DEF NameInv, StateInv, Active
  <2>2. CASE e = c
    <3>1. sent'[c] = sent[c] - 1
      BY <1>1 DEF NameInv, StateInv
    <3>2. QED
      BY <1>5, <2>1, <2>2, <3>1
  <2>3. CASE e # c
    <3>1. sent'[e] = sent[e] /\ queue'[e][user[e]] = queue[e][user[e]]
      BY <1>1, <1>5, <2>1, <2>3 DEF NameInv, StateInv
    <3>2. QED
      BY <2>1, <3>1
  <2>4. QED
    BY <2>2, <2>3
<1>9. server' \in Places
  BY <1>1 DEF NameInv, StateInv
<1>10. QED
  BY <1>1, <1>5, <1>6, <1>7, <1>8, <1>9, SdkKept

LEMMA RejectStep ==
    ASSUME NameInv, NEW c \in Clients, Reject(c), UNCHANGED appVars
    PROVE  NameInv'
<1> DEFINE w == Head(Active(c))
<1>1. /\ sent[c] = 0 /\ Active(c) # <<>>
      /\ calls' = IF w.tag = None THEN calls
                  ELSE [calls EXCEPT ![c] = Append(calls[c], WriteCall(w.tag, FALSE))]
      /\ queue' = [queue EXCEPT ![c][user[c]] = Tail(queue[c][user[c]])]
      /\ UNCHANGED <<server, cache, sent, user, reads, view, saved, updates, views, creations>>
  BY DEF Reject, appVars
<1>2. Left(c, FALSE)
  BY <1>1 DEF Left
<1>3. /\ queue' \in [Clients -> [Users -> Seq(Writes)]]
      /\ Len(queue[c][user[c]]) \in Nat \ {0}
      /\ Len(queue'[c][user[c]]) = Len(queue[c][user[c]]) - 1
      /\ \A e \in Clients, u \in Users : e # c \/ u # user[c] => queue'[e][u] = queue[e][u]
      /\ calls' \in [Clients -> Seq(Handlers)] /\ reads' \in [Clients -> Seq(ProfileReads)]
      /\ NoNewFetch
  BY <1>2, LeftType
<1>4. ASSUME NEW e \in Clients PROVE sent'[e] <= Len(queue'[e][user[e]])
  <2>1. sent[e] \in Nat /\ sent[e] <= Len(queue[e][user[e]]) /\ user[e] \in Users
    BY DEF NameInv, StateInv, Active
  <2>2. CASE e = c
    BY <1>1, <1>3, <2>2
  <2>3. CASE e # c
    BY <1>1, <1>3, <2>1, <2>3
  <2>4. QED
    BY <2>2, <2>3
<1>5. server' \in Places /\ cache' \in [Clients -> Places] /\ sent' \in [Clients -> Nat]
  BY <1>1 DEF NameInv, StateInv
<1>6. QED
  BY <1>1, <1>3, <1>4, <1>5, SdkKept

(* Reads are answered: their tags pass from reads to handlers. *)
LEMMA ReadStep ==
    ASSUME NameInv, NEW c \in Clients, NEW D \in SUBSET Docs, NEW ok, NEW docs \in Answer,
           Resolve(c, D, ok, docs),
           UNCHANGED <<server, sent, user, view, saved, updates, views, creations>>,
           cache' \in [Clients -> Places],
           queue' \in [Clients -> [Users -> Seq(Writes)]],
           \A e \in Clients : Len(queue[e][user[e]]) <= Len(queue'[e][user[e]])
    PROVE  NameInv'
<1>1. reads \in [Clients -> Seq(ProfileReads)] /\ calls \in [Clients -> Seq(Handlers)]
  BY DEF NameInv, StateInv
<1>2. ASSUME NEW r \in ProfileReads
      PROVE  /\ ReadCall(r.tag, r.one \in ok, docs) \in Handlers
             /\ ReadCall(r.tag, r.one \in ok, docs).tag = r.tag
  <2>1. r.tag \in ReadTag
    BY DEF ProfileReads
  <2> DEFINE b == r.one \in ok
  <2>2. b \in BOOLEAN
    OBVIOUS
  <2> HIDE DEF b
  <2>3. PICK k : k = ReadCall(r.tag, b, docs)
    OBVIOUS
  <2>4. k \in ReadCalls /\ k.tag = r.tag
    BY <2>1, <2>2, <2>3 DEF ReadCall, ReadCalls
  <2>5. QED
    BY <2>3, <2>4 DEF Handlers, b
<1>3. Resolved(ProfileReads, Handlers, c, D, ok, docs)
  BY <1>1, <1>2, ResolveEffect
<1>4. /\ reads' \in [Clients -> Seq(ProfileReads)] /\ calls' \in [Clients -> Seq(Handlers)]
      /\ \A e \in Clients : e # c => reads'[e] = reads[e] /\ calls'[e] = calls[e]
      /\ \A x : InSeq(reads'[c], x) => InSeq(reads[c], x)
      /\ Len(calls[c]) \in Nat /\ Len(calls'[c]) \in Nat
      /\ \A i \in 1..Len(calls[c]) : calls'[c][i] = calls[c][i]
      /\ \A i \in (Len(calls[c]) + 1)..Len(calls'[c]) :
             \E r \in ProfileReads : /\ InSeq(reads[c], r)
                                     /\ calls'[c][i] = ReadCall(r.tag, r.one \in ok, docs)
  BY <1>3 DEF Resolved
<1>5. ASSUME NEW e \in Clients, NEW i \in 1..Len(reads'[e]) PROVE Tagged(e, reads'[e][i].tag)
  <2>1. CASE e # c
    BY <1>4, <2>1 DEF Tagged
  <2>2. CASE e = c
    <3>1. InSeq(reads'[c], reads'[c][i])
      BY <2>2 DEF InSeq
    <3>2. InSeq(reads[c], reads'[c][i])
      BY <1>4, <3>1
    <3>3. QED
      BY <2>2, <3>2 DEF InSeq, Tagged
  <2>3. QED
    BY <2>1, <2>2
<1>6. ASSUME NEW e \in Clients, NEW i \in 1..Len(calls'[e]) PROVE Tagged(e, calls'[e][i].tag)
  <2>1. CASE e # c
    BY <1>4, <2>1 DEF Tagged
  <2>2. CASE e = c /\ i \in 1..Len(calls[c])
    BY <1>4, <2>2 DEF Tagged
  <2>3. CASE e = c /\ i \in (Len(calls[c]) + 1)..Len(calls'[c])
    <3>1. PICK r \in ProfileReads : /\ InSeq(reads[c], r)
                                    /\ calls'[c][i] = ReadCall(r.tag, r.one \in ok, docs)
      BY <1>4, <2>3
    <3>2. calls'[c][i].tag = r.tag
      BY <1>2, <3>1
    <3>3. QED
      BY <2>3, <3>1, <3>2 DEF InSeq, Tagged
  <2>4. i \in 1..Len(calls[c]) \/ i \in (Len(calls[c]) + 1)..Len(calls'[c]) \/ e # c
    BY <1>4
  <2>5. QED
    BY <2>1, <2>2, <2>3, <2>4
<1>7. NoNewFetch
  BY <1>5, <1>6 DEF NoNewFetch
<1>8. \A e \in Clients : sent'[e] <= Len(queue'[e][user'[e]])
  BY PipelineKept DEF NameInv
<1>9. server' \in Places /\ sent' \in [Clients -> Nat]
  BY DEF NameInv, StateInv
<1>10. QED
  BY <1>4, <1>7, <1>8, <1>9, SdkKept

(* The queries that are pending. *)
LEMMA QueryDocs ==
    ASSUME NameInv, NEW c \in Clients, NEW D \in Queries(c)
    PROVE  D \in SUBSET Docs
<1>1. PICK i \in 1..Len(reads[c]) : D = reads[c][i].docs
  BY DEF Queries
<1>2. reads[c][i] \in ProfileReads
  BY DEF NameInv, StateInv
<1>3. QED
  BY <1>1, <1>2 DEF ProfileReads

LEMMA SynchroniseStep ==
    ASSUME NameInv, NEW c \in Clients, NEW D \in Queries(c), Synchronise(c, D), UNCHANGED appVars
    PROVE  NameInv'
<1> DEFINE docs == Snapshot(c, D, server)
           q == Seen(queue[c][user[c]], sent[c], D)
           s == [d \in Docs |-> IF d \in D THEN server[d] ELSE cache[c][d]]
<1>1. /\ Resolve(c, D, BOOLEAN, docs)
      /\ cache' = [cache EXCEPT ![c] = s]
      /\ queue' = [queue EXCEPT ![c][user[c]] = q]
      /\ UNCHANGED <<server, sent, user, view, saved, updates, views, creations>>
  BY DEF Synchronise, ApplyRemoteEvent, appVars
<1>2. D \in SUBSET Docs
  BY QueryDocs
<1>3. docs \in Answer
  BY <1>2, SnapshotAnswer DEF NameInv, StateInv
<1>4. /\ queue \in [Clients -> [Users -> Seq(Writes)]] /\ user[c] \in Users
      /\ queue[c][user[c]] \in Seq(Writes)
  BY DEF NameInv, StateInv
<1>5. q \in Seq(Writes) /\ Len(q) = Len(queue[c][user[c]])
  BY <1>4, SeenWrites
<1>6. s \in Places /\ cache \in [Clients -> Places]
  <2>1. server \in Places /\ cache \in [Clients -> Places] /\ cache[c] \in Places
    BY DEF NameInv, StateInv
  <2>2. QED
    BY <2>1 DEF Places
<1> HIDE DEF docs, q, s
<1>7. /\ queue' \in [Clients -> [Users -> Seq(Writes)]] /\ queue'[c][user[c]] = q
      /\ \A e \in Clients, u \in Users : e # c \/ u # user[c] => queue'[e][u] = queue[e][u]
  BY <1>1, <1>4, <1>5, QueueUpdate
<1>8. ASSUME NEW e \in Clients PROVE Len(queue[e][user[e]]) <= Len(queue'[e][user[e]])
  <2>1. user[e] \in Users /\ Len(queue[e][user[e]]) \in Nat
    BY DEF NameInv, StateInv
  <2>2. Len(queue'[e][user[e]]) = Len(queue[e][user[e]])
    BY <1>5, <1>7, <2>1
  <2>3. QED
    BY <2>1, <2>2
<1>9. cache' \in [Clients -> Places]
  BY <1>1, <1>6
<1>10. QED
  BY <1>1, <1>2, <1>3, <1>7, <1>8, <1>9, ReadStep

LEMMA UnansweredStep ==
    ASSUME NameInv, NEW c \in Clients, NEW D \in Queries(c),
           ReadFromCache(c, D) \/ ReadDenied(c, D), UNCHANGED appVars
    PROVE  NameInv'
<1>1. D \in SUBSET Docs
  BY QueryDocs
<1>2. UNCHANGED <<server, cache, queue, sent, user, view, saved, updates, views, creations>>
  BY DEF ReadFromCache, ReadDenied, appVars
<1>3. \E ok : \E docs \in Answer : Resolve(c, D, ok, docs)
  <2>1. CASE ReadFromCache(c, D)
    <3> DEFINE docs == Snapshot(c, D, cache[c])
               ok == IF DOMAIN docs = {} THEN {FALSE} ELSE BOOLEAN
    <3>1. Resolve(c, D, ok, docs)
      BY <2>1 DEF ReadFromCache
    <3>2. docs \in Answer
      BY <1>1, SnapshotAnswer DEF NameInv, StateInv
    <3> HIDE DEF docs, ok
    <3>3. QED
      BY <3>1, <3>2
  <2>2. CASE ReadDenied(c, D)
    <3>1. Resolve(c, D, {}, <<>>)
      BY <2>2 DEF ReadDenied
    <3>2. <<>> \in [{} -> {Absent} \cup Documents] /\ {} \in SUBSET Docs /\ DOMAIN <<>> = {}
      OBVIOUS
    <3>3. <<>> \in Answer
      BY <3>2 DEF Answer
    <3>4. QED
      BY <3>1, <3>3
  <2>3. QED
    BY <2>1, <2>2
<1>4. /\ cache' \in [Clients -> Places] /\ queue' \in [Clients -> [Users -> Seq(Writes)]]
      /\ \A e \in Clients : Len(queue[e][user[e]]) <= Len(queue'[e][user[e]])
  BY <1>2, SameQueue DEF NameInv, StateInv
<1>5. QED
  BY <1>1, <1>2, <1>3, <1>4, ReadStep

LEMMA ConnectionStep ==
    ASSUME NameInv, NEW c \in Clients, GoOffline(c) \/ GoOnline(c), UNCHANGED appVars
    PROVE  NameInv'
<1>1. UNCHANGED <<server, cache, user, reads, calls, view, saved, updates, views, creations>>
  BY DEF GoOffline, GoOnline, appVars
<1>2. /\ queue' \in [Clients -> [Users -> Seq(Writes)]]
      /\ \A e \in Clients, u \in Users : Len(queue'[e][u]) = Len(queue[e][u])
  <2>1. CASE GoOffline(c)
    BY <2>1, QueueKept DEF GoOffline, NameInv
  <2>2. CASE GoOnline(c)
    BY <2>2 DEF GoOnline, NameInv, StateInv
  <2>3. QED
    BY <2>1, <2>2
<1>3. sent' \in [Clients -> Nat] /\ \A e \in Clients : sent'[e] = sent[e] \/ sent'[e] = 0
  <2>1. sent \in [Clients -> Nat] /\ 0 \in Nat
    BY DEF NameInv, StateInv
  <2>2. sent' = sent \/ sent' = [sent EXCEPT ![c] = 0]
    BY DEF GoOffline, GoOnline
  <2>3. QED
    BY <2>1, <2>2
<1>4. ASSUME NEW e \in Clients PROVE sent'[e] <= Len(queue'[e][user[e]])
  <2>1. /\ user[e] \in Users /\ Len(queue[e][user[e]]) \in Nat
        /\ sent[e] <= Len(queue[e][user[e]])
    BY DEF NameInv, StateInv, Active
  <2>2. Len(queue'[e][user[e]]) = Len(queue[e][user[e]])
    BY <1>2, <2>1
  <2>3. sent'[e] = sent[e] \/ sent'[e] = 0
    BY <1>3
  <2>4. QED
    BY <2>1, <2>2, <2>3
<1>5. NoNewFetch
  BY <1>1, SameTags
<1>6. QED
  <2>1. /\ server' \in Places /\ cache' \in [Clients -> Places]
        /\ reads' \in [Clients -> Seq(ProfileReads)] /\ calls' \in [Clients -> Seq(Handlers)]
    BY <1>1 DEF NameInv, StateInv
  <2>2. QED
    BY <1>1, <1>2, <1>3, <1>4, <1>5, <2>1, SdkKept

-----------------------------------------------------------------------------
LEMMA NameStep == NameInv /\ [Next]_vars => NameInv'
<1> SUFFICES ASSUME NameInv, [Next]_vars PROVE NameInv'
  OBVIOUS
<1>1. CASE UNCHANGED vars
  BY <1>1 DEF vars, fsVars, appVars, NameInv, StateInv, ViewInv, FetchInv, FetchOf, Active
<1>2. ASSUME NEW c \in Clients, People(c) PROVE NameInv'
  <2>1. ASSUME NEW u \in Uids, SignIn(c, u) PROVE NameInv'
    BY <2>1, SignInStep
  <2>2. CASE SignOut(c) \/ ForcedSignOut(c)
    BY <2>2, SignOutStep
  <2>3. CASE Relaunch(c)
    BY <2>3, RelaunchStep
  <2>4. CASE OpenMenu(c) \/ CloseMenu(c)
    BY <2>4, MenuStep
  <2>5. CASE OpenView(c)
    BY <2>5, OpenViewStep
  <2>6. ASSUME NEW name \in Uids \cup {Blank}, TapUpdate(c, name) PROVE NameInv'
    BY <2>6, TapUpdateStep
  <2>7. QED
    BY <1>2, <2>1, <2>2, <2>3, <2>4, <2>5, <2>6 DEF People
<1>3. ASSUME NEW c \in Clients, RunCall(c) PROVE NameInv'
  <2>1. CASE RunCompletion(c)
    BY <2>1, RunCompletionStep
  <2>2. CASE RunEnsure(c)
    BY <2>2, RunEnsureStep
  <2>3. CASE RunFetch(c)
    BY <2>3, RunFetchStep
  <2>4. CASE RunNameSaved(c)
    BY <2>4, RunNameSavedStep
  <2>5. QED
    BY <1>3, <2>1, <2>2, <2>3, <2>4 DEF RunCall
<1>4. ASSUME NEW c \in Clients, FirestoreStep(c), UNCHANGED appVars PROVE NameInv'
  <2>1. CASE Commit(c)
    BY <1>4, <2>1, CommitStep
  <2>2. CASE Acknowledge(c)
    BY <1>4, <2>2, AcknowledgeStep
  <2>3. ASSUME NEW D \in Queries(c), Synchronise(c, D) PROVE NameInv'
    BY <1>4, <2>3, SynchroniseStep
  <2>4. CASE Reject(c)
    BY <1>4, <2>4, RejectStep
  <2>5. ASSUME NEW D \in Queries(c), ReadFromCache(c, D) \/ ReadDenied(c, D) PROVE NameInv'
    BY <1>4, <2>5, UnansweredStep
  <2>6. CASE GoOffline(c) \/ GoOnline(c)
    BY <1>4, <2>6, ConnectionStep
  <2>7. QED
    BY <1>4, <2>1, <2>2, <2>3, <2>4, <2>5, <2>6 DEF FirestoreStep, Answers, Faults
<1>5. QED
  BY <1>1, <1>2, <1>3, <1>4 DEF Next

LEMMA StateType == NameInv => TypeOK
<1> SUFFICES ASSUME NameInv PROVE TypeOK
  OBVIOUS
<1>1. user \in [Clients -> Users] /\ saved \in [Uids -> Users \cup {Blank}]
  BY DEF NameInv, StateInv
<1>2. ASSUME NEW c \in Clients, NEW u \in Users, NEW i \in 1..Len(queue[c][u])
      PROVE  queue[c][u][i].doc \in Docs
  <2>1. queue[c][u] \in Seq(Writes)
    BY DEF NameInv, StateInv
  <2>2. queue[c][u][i] \in Writes
    BY <2>1
  <2>3. QED
    BY <2>2, WriteFields
<1>3. ASSUME NEW c \in Clients PROVE sent[c] \in 0..Len(Active(c))
  <2>1. sent[c] \in Nat /\ Len(Active(c)) \in Nat /\ sent[c] <= Len(Active(c))
    BY DEF NameInv, StateInv, Active
  <2>2. QED
    BY <2>1
<1>4. ASSUME NEW d \in Docs, server[d] # Absent
      PROVE  DOMAIN server[d] \subseteq Fields \cup {"deviceName"}
  <2>1. server[d] \in Documents
    BY <1>4 DEF NameInv, StateInv, Places
  <2>2. QED
    BY <2>1 DEF Documents, AllFields
<1>5. \A c \in Clients : view[c].name \in Uids \cup {Blank}
  BY DEF NameInv, StateInv, Views
<1>6. QED
  BY <1>1, <1>2, <1>3, <1>4, <1>5 DEF TypeOK

(* The state keeps its type, whatever the constants are: no sign-in, sign-   *)
(* out, restart or lost connection lets the pipeline of writes outrun the    *)
(* queue of the user who is signed in, and documents only get the fields     *)
(* that createOrUpdateUserInFirestore, updateUserInfo and the device update  *)
(* write.                                                                    *)
THEOREM ProfileTypeCorrect == Spec => []TypeOK
<1>1. Init => NameInv
  BY NameInit
<1>2. NameInv /\ [Next]_vars => NameInv'
  BY NameStep
<1>3. NameInv => TypeOK
  BY StateType
<1>4. QED
  BY <1>1, <1>2, <1>3, PTL DEF Spec

(* When people wait until a sign-in is complete and leave the menu before    *)
(* the next one, no profile ever holds somebody else's name, for any number  *)
(* of devices, accounts and saves: what fetchUserInfo's handler fills in was *)
(* asked for the person in front of the view, and updateUserInfo writes to   *)
(* this person's document.  Lost connections, refusals, forced sign-outs and *)
(* restarts included.                                                        *)
THEOREM CalmNameOwn ==
    ASSUME ~Overlap
    PROVE  Spec => []NameOwn
<1>1. Init => NameInv
  BY NameInit
<1>2. NameInv /\ [Next]_vars => NameInv'
  BY NameStep
<1>3. NameInv => NameOwn
  <2> SUFFICES ASSUME NameInv, NEW u \in Uids, server[Profile(u)] # Absent
               PROVE  NameOf(server[Profile(u)]) \in {Blank, u}
    BY DEF NameOwn
  <2>1. Profile(u) \in Docs /\ Profile(u)[1] = ProfilePath /\ Profile(u)[2] = u
    BY ProfilePlaces
  <2>2. server[Profile(u)] \in Contents(Profile(u))
    BY <2>1 DEF NameInv, StateInv, Places
  <2>3. NameOf(server[Profile(u)]) \in Names(u)
    BY <2>1, <2>2 DEF Contents, Document
  <2>4. QED
    BY <2>3, NameFacts
<1>4. QED
  BY <1>1, <1>2, <1>3, PTL DEF Spec
=============================================================================
