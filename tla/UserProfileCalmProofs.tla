----------------------- MODULE UserProfileCalmProofs -----------------------
(***************************************************************************)
(* What UserProfile keeps true when nobody acts while a sign-in is under    *)
(* way (~Overlap) and the server refuses no write at will: a profile on the *)
(* server is complete, for every number of clients, accounts, sign-ins,     *)
(* views and saves; and for one client whose reads are not refused either,  *)
(* that a saved name is kept.                                                *)
(***************************************************************************)
EXTENDS UserProfileProofs

(* The pending writes of u's profile that the server will permit. *)
Pending(c, u) == {i \in 1..Len(queue[c][u]) : queue[c][u][i].doc = Profile(u)}

(* A read of u's profile finds a document on c while u is signed in. *)
Shown(c, u) == cache[c][Profile(u)] # Absent \/ Pending(c, u) # {}

(* createOrUpdateUserInFirestore writes all fields, updateUserInfo the name. *)
WriteInv ==
    \A c \in Clients, u \in Users : \A i \in 1..Len(queue[c][u]) :
        queue[c][u][i].doc[1] = ProfilePath =>
            DOMAIN queue[c][u][i].data = IF queue[c][u][i].merge THEN {"name"} ELSE Fields

(* A name is merged into a document that is there by then. *)
MergeInv ==
    \A c \in Clients, u \in Uids : \A i \in Pending(c, u) :
        queue[c][u][i].merge =>
            \/ server[Profile(u)] # Absent
            \/ \E j \in Pending(c, u) : j < i /\ ~queue[c][u][j].merge

(* What the server committed, and what a client knows, is on the server; a   *)
(* write that a snapshot has seen is in the cache.                           *)
KnownInv ==
    /\ \A c \in Clients : \A i \in 1..Len(Active(c)) :
           i <= sent[c] => server[Active(c)[i].doc] # Absent
    /\ \A c \in Clients, d \in Docs : cache[c][d] # Absent => server[d] # Absent
    /\ \A c \in Clients, u \in Users : \A i \in 1..Len(queue[c][u]) :
           queue[c][u][i].seen => cache[c][queue[c][u][i].doc] # Absent

(* createOrUpdateUserInFirestore is under way for u: its read, its handler,  *)
(* and the completion handler that calls it.                                 *)
EnsureReads(c, u) ==
    {i \in 1..Len(reads[c]) : reads[c][i].tag.kind = "ensure" /\ reads[c][i].tag.uid = u}
EnsureCalls(c, u) ==
    {i \in 1..Len(calls[c]) :
        calls[c][i].kind = "read" /\ calls[c][i].tag.kind = "ensure" /\ calls[c][i].tag.uid = u}
Completing(c, u) ==
    {i \in 1..Len(calls[c]) : calls[c][i].kind = "completion" /\ calls[c][i].tag.uid = u}

(* fetchUserInfo of the view that is open. *)
FetchReads(c) ==
    {i \in 1..Len(reads[c]) : reads[c][i].tag.kind = "fetch" /\ reads[c][i].tag.no = view[c].no}
FetchCalls(c) ==
    {i \in 1..Len(calls[c]) : calls[c][i].tag.kind = "fetch" /\ calls[c][i].tag.no = view[c].no}

Finds(call, u) == call.ok /\ Profile(u) \in DOMAIN call.docs

(* Whoever is signed in has a profile to be found, or it is being ensured;   *)
(* the form opens after that.                                                *)
EnsureOf(c, u) ==
    /\ Shown(c, u) \/ EnsureReads(c, u) # {} \/ EnsureCalls(c, u) # {} \/ Completing(c, u) # {}
    /\ \A i \in EnsureCalls(c, u) : Finds(calls[c][i], u) => Shown(c, u)
    /\ view[c].stage # "closed" => \A i \in 1..Len(calls[c]) : calls[c][i].kind # "completion"
    /\ view[c].stage = "form" =>
           Shown(c, u) /\ EnsureReads(c, u) = {} /\ EnsureCalls(c, u) = {}
    /\ \A i \in FetchReads(c), j \in EnsureReads(c, u) : j < i
    /\ \A i \in FetchCalls(c) : EnsureReads(c, u) = {} /\ \A j \in EnsureCalls(c, u) : j < i

EnsureInv == \A c \in Clients : user[c] \in Uids => EnsureOf(c, user[c])

DocumentInv == WriteInv /\ MergeInv /\ KnownInv /\ CompleteProfile

-----------------------------------------------------------------------------
(* The last name typed, while it is pending, reported and announced.         *)

Latest(tag) == tag # None /\ tag.no = updates

LatestWrites(c, u) == {i \in 1..Len(queue[c][u]) : Latest(queue[c][u][i].tag)}
LatestCalls(c, u) ==
    {i \in 1..Len(calls[c]) :
        /\ calls[c][i].kind = "write" /\ calls[c][i].ok
        /\ calls[c][i].tag.uid = u /\ calls[c][i].tag.no = updates}

Holds(u, name) == server[Profile(u)] # Absent /\ NameOf(server[Profile(u)]) = name

Saving(c, u) == saved[u] # None \/ LatestWrites(c, u) # {} \/ LatestCalls(c, u) # {}

TagInv ==
    \A c \in Clients, u \in Users : \A i \in 1..Len(queue[c][u]) :
        queue[c][u][i].tag # None =>
            /\ queue[c][u][i].tag.uid = u /\ queue[c][u][i].tag.no <= updates
            /\ queue[c][u][i].doc = Profile(u)
            /\ queue[c][u][i].data = [f \in {"name"} |-> queue[c][u][i].tag.name]

NumberInv ==
    \A c \in Clients : \A i \in 1..Len(calls[c]) :
        calls[c][i].kind = "write" => calls[c][i].tag.no <= updates

SavingOf(c, u) ==
    /\ \A i \in LatestWrites(c, u) :
           /\ \A j \in Pending(c, u) : j <= i
           /\ user[c] = u /\ i <= sent[c] => Holds(u, queue[c][u][i].tag.name)
    /\ \A i \in LatestCalls(c, u) : Pending(c, u) = {} /\ Holds(u, calls[c][i].tag.name)
    /\ saved[u] # None => Pending(c, u) = {} /\ Holds(u, saved[u])
    /\ Saving(c, u) =>
           /\ Shown(c, u)
           /\ user[c] = u => \A i \in EnsureCalls(c, u) : Finds(calls[c][i], u)

SavedInv == TagInv /\ NumberInv /\ \A c \in Clients, u \in Uids : SavingOf(c, u)

-----------------------------------------------------------------------------
(* Documents and queues.                                                     *)

LEMMA Present ==
    ASSUME NEW d, NEW x \in Document(d)
    PROVE  x # Absent
<1>1. PICK F \in SUBSET AllFields : x \in [F -> Values]
  BY DEF Document, Documents
<1>2. QED
  BY <1>1, DocumentAssumption DEF AllFields, Values

(* What a write leaves is a document. *)
LEMMA ApplyPresent ==
    ASSUME NEW w \in Writes, NEW x \in Contents(w.doc)
    PROVE  Apply(w, x) # Absent
<1>1. w.data \in Document(w.doc)
  BY WriteFields
<1>2. CASE w.merge /\ x # Absent
  <2>1. x \in Document(w.doc) /\ Apply(w, x) = Merged(w.data, x)
    BY <1>2 DEF Contents, Apply
  <2>2. Merged(w.data, x) \in Document(w.doc)
    BY <1>1, <2>1, MergeDocument
  <2>3. QED
    BY <2>1, <2>2, Present
<1>3. CASE ~(w.merge /\ x # Absent)
  BY <1>1, <1>3, Present DEF Apply
<1>4. QED
  BY <1>2, <1>3

LEMMA WriteAt ==
    ASSUME NameInv, NEW c \in Clients, NEW u \in Users
    PROVE  /\ queue[c][u] \in Seq(Writes) /\ Len(queue[c][u]) \in Nat
           /\ \A i \in 1..Len(queue[c][u]) : queue[c][u][i] \in Writes /\ queue[c][u][i].doc \in Docs
<1>1. queue[c][u] \in Seq(Writes)
  BY DEF NameInv, StateInv
<1>2. Len(queue[c][u]) \in Nat /\ \A i \in 1..Len(queue[c][u]) : queue[c][u][i] \in Writes
  BY <1>1
<1>3. QED
  BY <1>1, <1>2, WriteFields

(* The same writes, though their handlers may be forgotten. *)
SameWrites(p, q) ==
    /\ Len(p) = Len(q)
    /\ \A i \in 1..Len(q) : /\ p[i].doc = q[i].doc /\ p[i].data = q[i].data
                            /\ p[i].merge = q[i].merge /\ p[i].tag \in {q[i].tag, None}

(* No write is marked as seen. *)
NoneSeen(p, q) == \A i \in 1..Len(q) : p[i].seen => q[i].seen

LEMMA SameItself == \A q : SameWrites(q, q) /\ NoneSeen(q, q)
  BY DEF SameWrites, NoneSeen

LEMMA MarkedWrite ==
    ASSUME NEW w \in Writes, NEW b \in BOOLEAN
    PROVE  /\ [w EXCEPT !.seen = b].doc = w.doc /\ [w EXCEPT !.seen = b].data = w.data
           /\ [w EXCEPT !.seen = b].merge = w.merge /\ [w EXCEPT !.seen = b].tag = w.tag
           /\ [w EXCEPT !.seen = b].seen = b
  BY DEF Writes

LEMMA UnseenSame ==
    ASSUME NEW q \in Seq(Writes)
    PROVE  SameWrites(Unseen(q), q) /\ NoneSeen(Unseen(q), q)
<1>1. Len(q) \in Nat /\ DOMAIN q = 1..Len(q) /\ \A i \in 1..Len(q) : q[i] \in Writes
  OBVIOUS
<1>2. Len(Unseen(q)) = Len(q)
  BY UnseenWrites
<1>3. ASSUME NEW i \in 1..Len(q)
      PROVE  /\ Unseen(q)[i].doc = q[i].doc /\ Unseen(q)[i].data = q[i].data
             /\ Unseen(q)[i].merge = q[i].merge /\ Unseen(q)[i].tag = q[i].tag
             /\ Unseen(q)[i].seen = FALSE
  <2>1. Unseen(q)[i] = [q[i] EXCEPT !.seen = FALSE]
    BY <1>1 DEF Unseen
  <2>2. QED
    BY <1>1, <2>1, MarkedWrite
<1>4. QED
  BY <1>2, <1>3 DEF SameWrites, NoneSeen

LEMMA SeenSame ==
    ASSUME NEW q \in Seq(Writes), NEW n, NEW D
    PROVE  /\ SameWrites(Seen(q, n, D), q)
           /\ \A i \in 1..Len(q) : Seen(q, n, D)[i].seen => q[i].seen \/ (i <= n /\ q[i].doc \in D)
<1>1. Len(q) \in Nat /\ DOMAIN q = 1..Len(q) /\ \A i \in 1..Len(q) : q[i] \in Writes
  OBVIOUS
<1>2. Len(Seen(q, n, D)) = Len(q)
  BY SeenWrites
<1>3. ASSUME NEW i \in 1..Len(q)
      PROVE  /\ Seen(q, n, D)[i].doc = q[i].doc /\ Seen(q, n, D)[i].data = q[i].data
             /\ Seen(q, n, D)[i].merge = q[i].merge /\ Seen(q, n, D)[i].tag = q[i].tag
             /\ Seen(q, n, D)[i].seen => q[i].seen \/ (i <= n /\ q[i].doc \in D)
  <2> DEFINE b == q[i].seen \/ (i <= n /\ q[i].doc \in D)
  <2>1. Seen(q, n, D)[i] = [q[i] EXCEPT !.seen = b]
    BY <1>1 DEF Seen
  <2>2. b \in BOOLEAN
    OBVIOUS
  <2> HIDE DEF b
  <2>3. /\ Seen(q, n, D)[i].doc = q[i].doc /\ Seen(q, n, D)[i].data = q[i].data
        /\ Seen(q, n, D)[i].merge = q[i].merge /\ Seen(q, n, D)[i].tag = q[i].tag
        /\ Seen(q, n, D)[i].seen = b
    BY <1>1, <2>1, <2>2, MarkedWrite
  <2>4. QED
    BY <2>3 DEF b
<1>4. QED
  BY <1>2, <1>3 DEF SameWrites

LEMMA PersistedSame ==
    ASSUME NEW queues \in [Users -> Seq(Writes)], NEW u \in Users
    PROVE  SameWrites(Persisted(queues)[u], queues[u]) /\ NoneSeen(Persisted(queues)[u], queues[u])
<1> DEFINE q == queues[u]
           p == Persisted(queues)[u]
<1>1. /\ Len(q) \in Nat /\ DOMAIN q = 1..Len(q) /\ q \in Seq(Writes)
      /\ \A i \in 1..Len(q) : q[i] \in Writes
  OBVIOUS
<1>2. p = [i \in 1..Len(q) |-> [q[i] EXCEPT !.seen = FALSE, !.tag = None]]
  BY <1>1 DEF Persisted
<1>3. p \in Seq(Writes)
  BY PersistedWrites
<1> HIDE DEF p
<1>4. Len(p) = Len(q)
  <2>1. DOMAIN p = 1..Len(q)
    BY <1>2
  <2>2. QED
    BY <1>1, <1>3, <2>1
<1>5. ASSUME NEW i \in 1..Len(q)
      PROVE  /\ p[i].doc = q[i].doc /\ p[i].data = q[i].data /\ p[i].merge = q[i].merge
             /\ p[i].tag = None /\ p[i].seen = FALSE
  <2>1. q[i] \in Writes /\ p[i] = [q[i] EXCEPT !.seen = FALSE, !.tag = None]
    BY <1>1, <1>2
  <2>2. QED
    BY <2>1 DEF Writes
<1>6. QED
  BY <1>4, <1>5 DEF SameWrites, NoneSeen, p

-----------------------------------------------------------------------------
(* DocumentInv, step by step.                                                *)

(* No profile that a read would find is lost. *)
Grown == \A c \in Clients, u \in Uids : Shown(c, u) => Shown(c, u)'

LEMMA SamePending ==
    ASSUME NEW c, NEW u, SameWrites(queue'[c][u], queue[c][u])
    PROVE  /\ Pending(c, u)' = Pending(c, u)
           /\ Len(queue'[c][u]) = Len(queue[c][u])
           /\ \A i \in 1..Len(queue[c][u]) :
                  /\ queue'[c][u][i].doc = queue[c][u][i].doc
                  /\ queue'[c][u][i].data = queue[c][u][i].data
                  /\ queue'[c][u][i].merge = queue[c][u][i].merge
  BY DEF SameWrites, Pending

(* The writes stay, and what the server has stays on the server: WriteInv    *)
(* and MergeInv hold as before.                                              *)
LEMMA SameQueues ==
    ASSUME WriteInv, MergeInv,
           \A c \in Clients, u \in Users : SameWrites(queue'[c][u], queue[c][u]),
           \A d \in Docs : server[d] # Absent => server'[d] # Absent
    PROVE  WriteInv' /\ MergeInv'
<1>1. WriteInv'
  <2> SUFFICES ASSUME NEW c \in Clients, NEW u \in Users, NEW i \in 1..Len(queue'[c][u]),
                      queue'[c][u][i].doc[1] = ProfilePath
               PROVE  DOMAIN queue'[c][u][i].data =
                          IF queue'[c][u][i].merge THEN {"name"} ELSE Fields
    BY DEF WriteInv
  <2>1. /\ i \in 1..Len(queue[c][u]) /\ queue'[c][u][i].doc = queue[c][u][i].doc
        /\ queue'[c][u][i].data = queue[c][u][i].data
        /\ queue'[c][u][i].merge = queue[c][u][i].merge
    BY SamePending
  <2>2. QED
    BY <2>1 DEF WriteInv
<1>2. MergeInv'
  <2> SUFFICES ASSUME NEW c \in Clients, NEW u \in Uids, NEW i \in Pending(c, u)',
                      queue'[c][u][i].merge
               PROVE  \/ server'[Profile(u)] # Absent
                      \/ \E j \in Pending(c, u)' : j < i /\ ~queue'[c][u][j].merge
    BY DEF MergeInv
  <2>1. u \in Users /\ Profile(u) \in Docs
    BY ProfilePlaces DEF Users
  <2>2. /\ Pending(c, u)' = Pending(c, u) /\ Pending(c, u) \subseteq 1..Len(queue[c][u])
        /\ \A k \in 1..Len(queue[c][u]) : queue'[c][u][k].merge = queue[c][u][k].merge
    BY <2>1, SamePending DEF Pending
  <2>3. i \in Pending(c, u) /\ queue[c][u][i].merge
    BY <2>2
  <2>4. \/ server[Profile(u)] # Absent
        \/ \E j \in Pending(c, u) : j < i /\ ~queue[c][u][j].merge
    BY <2>3 DEF MergeInv
  <2>5. QED
    BY <2>1, <2>2, <2>4
<1>3. QED
  BY <1>1, <1>2

(* Nothing about documents but what clients may have forgotten: handlers,    *)
(* the user, what was sent.                                                  *)
Quiet ==
    /\ UNCHANGED <<server, cache>>
    /\ \A c \in Clients, u \in Users :
           SameWrites(queue'[c][u], queue[c][u]) /\ NoneSeen(queue'[c][u], queue[c][u])
    /\ \A c \in Clients : (sent'[c] = sent[c] /\ user'[c] = user[c]) \/ sent'[c] = 0

LEMMA QuietDocuments ==
    ASSUME NameInv, NameInv', DocumentInv, Quiet
    PROVE  DocumentInv' /\ Grown
<1>1. WriteInv' /\ MergeInv'
  BY SameQueues DEF Quiet, DocumentInv
<1>2. KnownInv'
  <2>1. ASSUME NEW c \in Clients, NEW i \in 1..Len(Active(c)'), i <= sent'[c]
        PROVE  server'[Active(c)'[i].doc] # Absent
    <3>1. user'[c] \in Users /\ sent'[c] \in Nat
      BY DEF NameInv, StateInv
    <3>2. sent'[c] = sent[c] /\ user'[c] = user[c]
      BY <2>1, <3>1 DEF Quiet
    <3>3. /\ Len(queue'[c][user[c]]) = Len(queue[c][user[c]])
          /\ i \in 1..Len(queue[c][user[c]])
          /\ queue'[c][user[c]][i].doc = queue[c][user[c]][i].doc
      BY <2>1, <3>1, <3>2, SamePending DEF Quiet, Active
    <3>4. server[queue[c][user[c]][i].doc] # Absent
      BY <2>1, <3>2, <3>3 DEF DocumentInv, KnownInv, Active
    <3>5. QED
      BY <3>2, <3>3, <3>4 DEF Quiet, Active
  <2>2. \A c \in Clients, d \in Docs : cache'[c][d] # Absent => server'[d] # Absent
    BY DEF Quiet, DocumentInv, KnownInv
  <2>3. ASSUME NEW c \in Clients, NEW u \in Users, NEW i \in 1..Len(queue'[c][u]),
               queue'[c][u][i].seen
        PROVE  cache'[c][queue'[c][u][i].doc] # Absent
    <3>1. i \in 1..Len(queue[c][u]) /\ queue'[c][u][i].doc = queue[c][u][i].doc
      BY SamePending DEF Quiet
    <3>2. queue[c][u][i].seen
      BY <2>3, <3>1 DEF Quiet, NoneSeen
    <3>3. QED
      BY <3>1, <3>2 DEF Quiet, DocumentInv, KnownInv
  <2>4. QED
    BY <2>1, <2>2, <2>3 DEF KnownInv
<1>3. CompleteProfile'
  BY DEF Quiet, DocumentInv, CompleteProfile
<1>4. Grown
  <2> SUFFICES ASSUME NEW c \in Clients, NEW u \in Uids, Shown(c, u) PROVE Shown(c, u)'
    BY DEF Grown
  <2>1. Pending(c, u)' = Pending(c, u)
    BY SamePending DEF Quiet, Users
  <2>2. QED
    BY <2>1 DEF Shown, Quiet
<1>5. QED
  BY <1>1, <1>2, <1>3, <1>4 DEF DocumentInv

(* The active queue of c gets the write w at its end. *)
Appended(c, w) ==
    /\ \A e \in Clients, u \in Users : \A i \in 1..Len(queue[e][u]) :
           i \in 1..Len(queue'[e][u]) /\ queue'[e][u][i] = queue[e][u][i]
    /\ \A e \in Clients, u \in Users : \A i \in 1..Len(queue'[e][u]) :
           \/ i \in 1..Len(queue[e][u])
           \/ e = c /\ u = user[c] /\ i = Len(queue[e][u]) + 1 /\ queue'[e][u][i] = w
    /\ Len(queue[c][user[c]]) + 1 \in 1..Len(queue'[c][user[c]])
    /\ queue'[c][user[c]][Len(queue[c][user[c]]) + 1] = w

LEMMA AppendedWrite ==
    ASSUME NameInv, NEW c \in Clients, NEW w \in Writes,
           queue' = [queue EXCEPT ![c][user[c]] = Append(queue[c][user[c]], w)]
    PROVE  Appended(c, w)
<1> DEFINE q == queue[c][user[c]]
           p == Append(q, w)
<1>1. /\ queue \in [Clients -> [Users -> Seq(Writes)]] /\ user[c] \in Users
      /\ q \in Seq(Writes) /\ Len(q) \in Nat
  BY WriteAt DEF NameInv, StateInv
<1>2. p \in Seq(Writes) /\ Len(p) = Len(q) + 1 /\ p[Len(q) + 1] = w /\ \A i \in 1..Len(q) : p[i] = q[i]
  BY <1>1
<1>3. queue' = [queue EXCEPT ![c][user[c]] = p]
  OBVIOUS
<1> HIDE DEF p
<1>4. /\ queue'[c][user[c]] = p
      /\ \A e \in Clients, u \in Users : e # c \/ u # user[c] => queue'[e][u] = queue[e][u]
  BY <1>1, <1>2, <1>3, QueueUpdate
<1>5. /\ \A i \in 1..Len(q) : i \in 1..Len(p) /\ p[i] = q[i]
      /\ \A i \in 1..Len(p) : i \in 1..Len(q) \/ (i = Len(q) + 1 /\ p[i] = w)
  BY <1>1, <1>2
<1>6. Len(q) + 1 \in 1..Len(p)
  BY <1>1, <1>2
<1>7. ASSUME NEW e \in Clients, NEW u \in Users
      PROVE  /\ \A i \in 1..Len(queue[e][u]) :
                    i \in 1..Len(queue'[e][u]) /\ queue'[e][u][i] = queue[e][u][i]
             /\ \A i \in 1..Len(queue'[e][u]) :
                    \/ i \in 1..Len(queue[e][u])
                    \/ e = c /\ u = user[c] /\ i = Len(queue[e][u]) + 1 /\ queue'[e][u][i] = w
  <2>1. CASE e = c /\ u = user[c]
    BY <1>4, <1>5, <2>1
  <2>2. CASE e # c \/ u # user[c]
    <3>1. queue'[e][u] = queue[e][u]
      BY <1>4, <2>2
    <3>2. QED
      BY <3>1, Zenon
  <2>3. QED
    BY <2>1, <2>2
<1>8. QED
  BY <1>2, <1>4, <1>6, <1>7 DEF Appended

(* A write is asked for: a profile with all its fields, or a name for one    *)
(* that is there.                                                            *)
LEMMA RequestDocuments ==
    ASSUME NameInv, NameInv', DocumentInv, NEW c \in Clients, NEW w \in Writes, Appended(c, w),
           UNCHANGED <<server, cache, sent, user>>,
           w.doc[1] = ProfilePath => DOMAIN w.data = IF w.merge THEN {"name"} ELSE Fields,
           user[c] \in Uids /\ w.doc = Profile(user[c]) /\ w.merge => Shown(c, user[c]),
           ~w.seen
    PROVE  DocumentInv' /\ Grown
<1>1. \A e \in Clients, u \in Users : Len(queue[e][u]) \in Nat
  BY WriteAt
(* Pending writes are those that were, and perhaps the new one. *)
<1>2. ASSUME NEW e \in Clients, NEW u \in Users, NEW i \in 1..Len(queue[e][u])
      PROVE  i \in 1..Len(queue'[e][u]) /\ queue'[e][u][i] = queue[e][u][i] /\ i \in Nat
  BY <1>1 DEF Appended
<1>3. ASSUME NEW e \in Clients, NEW u \in Users, NEW i \in 1..Len(queue'[e][u])
      PROVE  \/ i \in 1..Len(queue[e][u]) /\ queue'[e][u][i] = queue[e][u][i]
             \/ e = c /\ u = user[c] /\ i = Len(queue[e][u]) + 1 /\ queue'[e][u][i] = w
  BY DEF Appended
<1>5. ASSUME NEW e \in Clients, NEW u \in Uids PROVE Pending(e, u) \subseteq Pending(e, u)'
  <2>1. u \in Users
    BY DEF Users
  <2>2. QED
    BY <1>2, <2>1 DEF Pending
<1>6. WriteInv'
  <2> SUFFICES ASSUME NEW e \in Clients, NEW u \in Users, NEW i \in 1..Len(queue'[e][u]),
                      queue'[e][u][i].doc[1] = ProfilePath
               PROVE  DOMAIN queue'[e][u][i].data =
                          IF queue'[e][u][i].merge THEN {"name"} ELSE Fields
    BY DEF WriteInv
  <2>1. CASE i \in 1..Len(queue[e][u])
    BY <1>2, <2>1 DEF DocumentInv, WriteInv
  <2>2. CASE queue'[e][u][i] = w
    BY <2>2
  <2>3. QED
    BY <1>3, <2>1, <2>2
<1>7. MergeInv'
  <2> SUFFICES ASSUME NEW e \in Clients, NEW u \in Uids, NEW i \in Pending(e, u)',
                      queue'[e][u][i].merge
               PROVE  \/ server'[Profile(u)] # Absent
                      \/ \E j \in Pending(e, u)' : j < i /\ ~queue'[e][u][j].merge
    BY DEF MergeInv
  <2>1. u \in Users /\ i \in 1..Len(queue'[e][u]) /\ queue'[e][u][i].doc = Profile(u)
    BY DEF Users, Pending
  <2>2. ASSUME NEW k \in Pending(e, u), queue[e][u][k].merge
        PROVE  \/ server'[Profile(u)] # Absent
               \/ \E j \in Pending(e, u)' : j < k /\ ~queue'[e][u][j].merge
    <3>1. \/ server[Profile(u)] # Absent
          \/ \E j \in Pending(e, u) : j < k /\ ~queue[e][u][j].merge
      BY <2>2 DEF DocumentInv, MergeInv
    <3>2. CASE server[Profile(u)] # Absent
      BY <3>2
    <3>3. ASSUME NEW j \in Pending(e, u), j < k, ~queue[e][u][j].merge
          PROVE  \E l \in Pending(e, u)' : l < k /\ ~queue'[e][u][l].merge
      <4>1. j \in Pending(e, u)' /\ queue'[e][u][j] = queue[e][u][j]
        BY <1>2, <1>5, <2>1 DEF Pending
      <4>2. QED
        BY <3>3, <4>1
    <3>4. QED
      BY <3>1, <3>2, <3>3
  <2>3. CASE i \in 1..Len(queue[e][u])
    <3>1. i \in Pending(e, u) /\ queue[e][u][i].merge
      BY <1>2, <2>1, <2>3 DEF Pending
    <3>2. QED
      BY <2>2, <3>1
  <2>4. CASE e = c /\ u = user[c] /\ i = Len(queue[e][u]) + 1 /\ queue'[e][u][i] = w
    <3>1. Shown(c, user[c])
      BY <2>1, <2>4
    <3>2. CASE cache[c][Profile(u)] # Absent
      BY <2>4, <3>2, ProfilePlaces DEF DocumentInv, KnownInv
    <3>3. ASSUME NEW k \in Pending(c, u)
          PROVE  \/ server'[Profile(u)] # Absent
                 \/ \E j \in Pending(e, u)' : j < i /\ ~queue'[e][u][j].merge
      <4>1. k \in 1..Len(queue[c][u]) /\ k \in Nat /\ k < i /\ k \in Pending(e, u)'
            /\ queue'[e][u][k] = queue[e][u][k]
        BY <1>1, <1>2, <1>5, <2>1, <2>4 DEF Pending
      <4>2. CASE ~queue[e][u][k].merge
        BY <4>1, <4>2
      <4>3. CASE queue[e][u][k].merge
        <5>1. \/ server'[Profile(u)] # Absent
              \/ \E j \in Pending(e, u)' : j < k /\ ~queue'[e][u][j].merge
          BY <2>2, <2>4, <4>3
        <5>2. ASSUME NEW j \in Pending(e, u)', j < k PROVE j < i
          <6>1. j \in 1..Len(queue'[e][u])
            BY DEF Pending
          <6>2. j \in Nat /\ i \in Nat /\ k \in Nat
            BY <2>1, <4>1, <6>1
          <6>3. QED
            BY <4>1, <5>2, <6>2
        <5>3. QED
          BY <5>1, <5>2
      <4>4. QED
        BY <4>2, <4>3
    <3>4. QED
      BY <2>4, <3>1, <3>2, <3>3 DEF Shown
  <2>5. QED
    BY <1>3, <2>1, <2>3, <2>4
<1>8. KnownInv'
  <2>1. ASSUME NEW e \in Clients, NEW i \in 1..Len(Active(e)'), i <= sent'[e]
        PROVE  server'[Active(e)'[i].doc] # Absent
    <3>1. /\ user[e] \in Users /\ sent[e] \in Nat /\ sent[e] <= Len(queue[e][user[e]])
          /\ Len(queue[e][user[e]]) \in Nat
      BY WriteAt DEF NameInv, StateInv, Active
    <3>2. i \in 1..Len(queue[e][user[e]]) /\ Active(e)'[i] = queue[e][user[e]][i]
      BY <1>1, <1>2, <1>3, <2>1, <3>1 DEF Active
    <3>3. QED
      BY <2>1, <3>2 DEF DocumentInv, KnownInv, Active
  <2>2. \A e \in Clients, d \in Docs : cache'[e][d] # Absent => server'[d] # Absent
    BY DEF DocumentInv, KnownInv
  <2>3. ASSUME NEW e \in Clients, NEW u \in Users, NEW i \in 1..Len(queue'[e][u]),
               queue'[e][u][i].seen
        PROVE  cache'[e][queue'[e][u][i].doc] # Absent
    <3>1. i \in 1..Len(queue[e][u])
      BY <1>3, <2>3
    <3>2. queue[e][u][i].seen /\ queue'[e][u][i] = queue[e][u][i]
      BY <1>2, <2>3, <3>1
    <3>3. QED
      BY <3>1, <3>2 DEF DocumentInv, KnownInv
  <2>4. QED
    BY <2>1, <2>2, <2>3 DEF KnownInv
<1>9. CompleteProfile'
  BY DEF DocumentInv, CompleteProfile
<1>10. Grown
  BY <1>5 DEF Grown, Shown
<1>11. QED
  BY <1>6, <1>7, <1>8, <1>9, <1>10 DEF DocumentInv

(* The server commits a write: a profile, or a name into a profile. *)
LEMMA CommitDocuments ==
    ASSUME NameInv, NameInv', DocumentInv, NEW c \in Clients, Commit(c)
    PROVE  DocumentInv' /\ Grown
<1> DEFINE n == sent[c] + 1
           w == queue[c][user[c]][n]
<1>1. /\ sent[c] < Len(queue[c][user[c]]) /\ user[c] = Owner(w.doc)
      /\ server' = [server EXCEPT ![w.doc] = Apply(w, server[w.doc])]
      /\ sent' = [sent EXCEPT ![c] = n]
      /\ UNCHANGED <<cache, queue, user>>
  BY DEF Commit, Active, Permitted
<1>2. /\ user[c] \in Users /\ sent[c] \in Nat /\ sent \in [Clients -> Nat]
      /\ Len(queue[c][user[c]]) \in Nat
      /\ \A d \in Docs : server[d] \in Contents(d)
      /\ server \in [Docs -> {Absent} \cup Documents]
  BY WriteAt DEF NameInv, StateInv, Places
<1>3. n \in 1..Len(queue[c][user[c]]) /\ n \in Nat
  BY <1>1, <1>2
<1>4. w \in Writes /\ w.doc \in Docs
  BY <1>2, <1>3, WriteAt
<1> HIDE DEF w
<1>5. /\ server'[w.doc] = Apply(w, server[w.doc]) /\ server'[w.doc] # Absent
      /\ \A d \in Docs : d # w.doc => server'[d] = server[d]
  <2>1. Apply(w, server[w.doc]) # Absent
    BY <1>2, <1>4, ApplyPresent
  <2>2. QED
    BY <1>1, <1>2, <1>4, <2>1
<1>6. \A d \in Docs : server[d] # Absent => server'[d] # Absent
  BY <1>5
<1>7. WriteInv' /\ MergeInv'
  BY <1>1, <1>6, SameQueues, SameItself DEF DocumentInv
<1>8. KnownInv'
  <2>1. ASSUME NEW e \in Clients, NEW i \in 1..Len(Active(e)'), i <= sent'[e]
        PROVE  server'[Active(e)'[i].doc] # Absent
    <3>1. /\ user[e] \in Users /\ Active(e)' = queue[e][user[e]]
          /\ i \in 1..Len(queue[e][user[e]]) /\ i \in Nat
      BY <1>1, <2>1, WriteAt DEF Active, NameInv, StateInv
    <3>2. queue[e][user[e]][i].doc \in Docs
      BY <3>1, WriteAt
    <3>3. CASE i <= sent[e]
      <4>1. server[queue[e][user[e]][i].doc] # Absent
        BY <3>1, <3>3 DEF DocumentInv, KnownInv, Active
      <4>2. QED
        BY <1>6, <3>1, <3>2, <4>1
    <3>4. CASE ~(i <= sent[e])
      <4>1. e = c /\ i = n
        BY <1>1, <1>2, <2>1, <3>1, <3>4
      <4>2. QED
        BY <1>5, <3>1, <4>1 DEF w
    <3>5. QED
      BY <3>3, <3>4
  <2>2. \A e \in Clients, d \in Docs : cache'[e][d] # Absent => server'[d] # Absent
    BY <1>1, <1>6 DEF DocumentInv, KnownInv
  <2>3. \A e \in Clients, u \in Users : \A i \in 1..Len(queue'[e][u]) :
            queue'[e][u][i].seen => cache'[e][queue'[e][u][i].doc] # Absent
    BY <1>1 DEF DocumentInv, KnownInv
  <2>4. QED
    BY <2>1, <2>2, <2>3 DEF KnownInv
<1>9. CompleteProfile'
  <2> SUFFICES ASSUME NEW u \in Uids, server'[Profile(u)] # Absent
               PROVE  DOMAIN server'[Profile(u)] = Fields
    BY DEF CompleteProfile
  <2>1. Profile(u) \in Docs /\ Profile(u)[1] = ProfilePath /\ Profile(u)[2] = u
    BY ProfilePlaces
  <2>2. CASE Profile(u) # w.doc
    BY <1>5, <2>1, <2>2 DEF DocumentInv, CompleteProfile
  <2>3. CASE Profile(u) = w.doc
    <3>1. user[c] = u /\ n \in Pending(c, u)
      BY <1>1, <1>3, <2>1, <2>3 DEF Owner, Pending, w
    <3>2. DOMAIN w.data = IF w.merge THEN {"name"} ELSE Fields
      BY <1>2, <1>3, <2>1, <2>3 DEF DocumentInv, WriteInv, w
    <3>3. CASE ~w.merge
      BY <1>5, <2>3, <3>2, <3>3 DEF Apply
    <3>4. CASE w.merge
      <4>1. server[Profile(u)] # Absent
        <5>1. \/ server[Profile(u)] # Absent
              \/ \E j \in Pending(c, u) : j < n /\ ~queue[c][u][j].merge
          BY <3>1, <3>4 DEF DocumentInv, MergeInv, w
        <5>2. ASSUME NEW j \in Pending(c, u), j < n PROVE server[Profile(u)] # Absent
          <6>1. /\ j \in 1..Len(queue[c][user[c]]) /\ j <= sent[c]
                /\ queue[c][user[c]][j].doc = Profile(u)
            BY <1>2, <3>1, <5>2 DEF Pending
          <6>2. QED
            BY <6>1 DEF DocumentInv, KnownInv, Active
        <5>3. QED
          BY <5>1, <5>2
      <4>2. DOMAIN server[Profile(u)] = Fields
        BY <4>1 DEF DocumentInv, CompleteProfile
      <4>3. server'[Profile(u)] = Merged(w.data, server[Profile(u)])
        BY <1>5, <2>3, <3>4, <4>1 DEF Apply
      <4>4. {"name"} \cup Fields = Fields
        BY DEF Fields
      <4>5. QED
        BY <3>2, <3>4, <4>2, <4>3, <4>4 DEF Merged
    <3>5. QED
      BY <3>3, <3>4
  <2>4. QED
    BY <2>2, <2>3
<1>10. Grown
  BY <1>1 DEF Grown, Shown, Pending
<1>11. QED
  BY <1>7, <1>8, <1>9, <1>10 DEF DocumentInv

(* The active queue of c loses its oldest write. *)
Shortened(c) ==
    /\ \A e \in Clients, u \in Users : e # c \/ u # user[c] => queue'[e][u] = queue[e][u]
    /\ Len(queue[c][user[c]]) \in Nat
    /\ \A i \in 1..Len(queue'[c][user[c]]) :
           i + 1 \in 1..Len(queue[c][user[c]]) /\ queue'[c][user[c]][i] = queue[c][user[c]][i + 1]
    /\ \A i \in 1..Len(queue[c][user[c]]) :
           i # 1 => /\ i - 1 \in 1..Len(queue'[c][user[c]])
                    /\ queue'[c][user[c]][i - 1] = queue[c][user[c]][i]
    /\ 1 \in 1..Len(queue[c][user[c]]) /\ Head(Active(c)) = queue[c][user[c]][1]
    /\ Head(Active(c)) \in Writes /\ Head(Active(c)).doc \in Docs

LEMMA ShortenedQueue ==
    ASSUME NameInv, NEW c \in Clients, NEW ok \in BOOLEAN, Left(c, ok)
    PROVE  Shortened(c)
<1> DEFINE q == queue[c][user[c]]
           t == Tail(q)
<1>1. /\ queue \in [Clients -> [Users -> Seq(Writes)]] /\ user[c] \in Users /\ q \in Seq(Writes)
      /\ q # <<>> /\ Active(c) = q
  BY DEF NameInv, StateInv, Active, Left
<1>2. queue' = [queue EXCEPT ![c][user[c]] = t]
  BY DEF Left
<1>3. /\ t \in Seq(Writes) /\ Head(q) \in Writes /\ Head(q) = q[1]
      /\ Len(q) \in Nat /\ 1 \in 1..Len(q) /\ Len(t) = Len(q) - 1
      /\ \A i \in 1..Len(t) : i + 1 \in 1..Len(q) /\ t[i] = q[i + 1]
  <2> HIDE DEF q
  <2>1. QED
    BY <1>1, TailElements
<1> HIDE DEF t
<1>4. /\ queue'[c][user[c]] = t
      /\ \A e \in Clients, u \in Users : e # c \/ u # user[c] => queue'[e][u] = queue[e][u]
  BY <1>1, <1>2, <1>3, QueueUpdate
<1> HIDE DEF q
<1>5. ASSUME NEW i \in 1..Len(q), i # 1 PROVE i - 1 \in 1..Len(t) /\ t[i - 1] = q[i]
  <2>1. i - 1 \in 1..Len(t) /\ (i - 1) + 1 = i
    BY <1>3, <1>5
  <2>2. QED
    BY <1>3, <2>1
<1>6. Head(q).doc \in Docs
  BY <1>3, WriteFields
<1>7. QED
  BY <1>1, <1>3, <1>4, <1>5, <1>6 DEF Shortened, q

(* The oldest write leaves: its document is in the cache by then, or it was  *)
(* not the user's own.                                                       *)
LEMMA LeftDocuments ==
    ASSUME NameInv, NameInv', DocumentInv, NEW c \in Clients, Shortened(c),
           UNCHANGED <<server, user>>,
           \A e \in Clients : e # c => sent'[e] = sent[e],
           sent'[c] \in {sent[c] - 1, 0},
           \A e \in Clients, d \in Docs : cache[e][d] # Absent => cache'[e][d] # Absent,
           \A e \in Clients, d \in Docs : cache'[e][d] # Absent => server[d] # Absent,
           Head(Active(c)).doc = Profile(user[c]) => cache'[c][Profile(user[c])] # Absent
    PROVE  DocumentInv' /\ Grown
<1>1. /\ user[c] \in Users /\ sent[c] \in Nat
      /\ \A e \in Clients : user[e] \in Users /\ sent'[e] \in Nat
  BY DEF NameInv, StateInv
<1>2. ASSUME NEW e \in Clients, NEW u \in Users, NEW i \in 1..Len(queue'[e][u])
      PROVE  \E k \in 1..Len(queue[e][u]) :
                 /\ queue'[e][u][i] = queue[e][u][k]
                 /\ k = IF e = c /\ u = user[c] THEN i + 1 ELSE i
  BY DEF Shortened
<1>3. WriteInv'
  <2> SUFFICES ASSUME NEW e \in Clients, NEW u \in Users, NEW i \in 1..Len(queue'[e][u]),
                      queue'[e][u][i].doc[1] = ProfilePath
               PROVE  DOMAIN queue'[e][u][i].data =
                          IF queue'[e][u][i].merge THEN {"name"} ELSE Fields
    BY DEF WriteInv
  <2>1. PICK k \in 1..Len(queue[e][u]) : queue'[e][u][i] = queue[e][u][k]
    BY <1>2
  <2>2. QED
    BY <2>1 DEF DocumentInv, WriteInv
<1>4. MergeInv'
  <2> SUFFICES ASSUME NEW e \in Clients, NEW u \in Uids, NEW i \in Pending(e, u)',
                      queue'[e][u][i].merge
               PROVE  \/ server'[Profile(u)] # Absent
                      \/ \E j \in Pending(e, u)' : j < i /\ ~queue'[e][u][j].merge
    BY DEF MergeInv
  <2>1. u \in Users /\ i \in 1..Len(queue'[e][u]) /\ queue'[e][u][i].doc = Profile(u)
        /\ Profile(u) \in Docs
    BY ProfilePlaces DEF Users, Pending
  <2>2. PICK k \in 1..Len(queue[e][u]) : /\ queue'[e][u][i] = queue[e][u][k]
                                         /\ k = IF e = c /\ u = user[c] THEN i + 1 ELSE i
    BY <1>2, <2>1
  <2>3. k \in Pending(e, u) /\ queue[e][u][k].merge
    BY <2>1, <2>2 DEF Pending
  <2>4. \/ server[Profile(u)] # Absent
        \/ \E j \in Pending(e, u) : j < k /\ ~queue[e][u][j].merge
    BY <2>3 DEF DocumentInv, MergeInv
  <2>5. ASSUME NEW j \in Pending(e, u), j < k, ~queue[e][u][j].merge
        PROVE  \/ server'[Profile(u)] # Absent
               \/ \E l \in Pending(e, u)' : l < i /\ ~queue'[e][u][l].merge
    <3>1. j \in 1..Len(queue[e][u]) /\ queue[e][u][j].doc = Profile(u)
      BY DEF Pending
    <3>2. CASE e # c \/ u # user[c]
      <4>1. queue'[e][u] = queue[e][u] /\ k = i
        BY <2>1, <2>2, <3>2 DEF Shortened
      <4>2. j \in Pending(e, u)'
        BY <3>1, <4>1 DEF Pending
      <4>3. QED
        BY <2>5, <4>1, <4>2
    <3>3. CASE e = c /\ u = user[c] /\ j = 1
      <4>1. cache'[c][Profile(u)] # Absent
        BY <3>1, <3>3 DEF Shortened
      <4>2. QED
        BY <2>1, <4>1
    <3>4. CASE e = c /\ u = user[c] /\ j # 1
      <4>1. j - 1 \in 1..Len(queue'[e][u]) /\ queue'[e][u][j - 1] = queue[e][u][j]
        BY <3>1, <3>4 DEF Shortened
      <4>2. j - 1 \in Pending(e, u)'
        BY <3>1, <4>1 DEF Pending
      <4>3. i \in Nat /\ j \in Nat
        BY <2>1, <3>1
      <4>4. j - 1 < i
        BY <2>2, <2>5, <3>4, <4>3
      <4>5. QED
        BY <2>5, <4>1, <4>2, <4>4
    <3>5. QED
      BY <3>2, <3>3, <3>4
  <2>6. QED
    BY <2>4, <2>5
<1>5. KnownInv'
  <2>1. ASSUME NEW e \in Clients, NEW i \in 1..Len(Active(e)'), i <= sent'[e]
        PROVE  server'[Active(e)'[i].doc] # Absent
    <3>1. Active(e)' = queue'[e][user[e]] /\ user[e] \in Users /\ i \in Nat
      BY <1>1, <2>1 DEF Active
    <3>2. PICK k \in 1..Len(queue[e][user[e]]) :
              /\ queue'[e][user[e]][i] = queue[e][user[e]][k]
              /\ k = IF e = c /\ user[e] = user[c] THEN i + 1 ELSE i
      BY <1>2, <2>1, <3>1
    <3>3. k <= sent[e]
      <4>1. CASE e = c
        <5>1. sent'[c] = sent[c] - 1 /\ i <= sent'[c] /\ k = i + 1
          BY <1>1, <2>1, <3>2, <4>1
        <5>2. QED
          BY <1>1, <3>1, <4>1, <5>1
      <4>2. CASE e # c
        BY <2>1, <3>2, <4>2
      <4>3. QED
        BY <4>1, <4>2
    <3>4. server[queue[e][user[e]][k].doc] # Absent
      BY <3>3 DEF DocumentInv, KnownInv, Active
    <3>5. QED
      BY <3>1, <3>2, <3>4
  <2>2. \A e \in Clients, d \in Docs : cache'[e][d] # Absent => server'[d] # Absent
    OBVIOUS
  <2>3. ASSUME NEW e \in Clients, NEW u \in Users, NEW i \in 1..Len(queue'[e][u]),
               queue'[e][u][i].seen
        PROVE  cache'[e][queue'[e][u][i].doc] # Absent
    <3>1. PICK k \in 1..Len(queue[e][u]) : queue'[e][u][i] = queue[e][u][k]
      BY <1>2
    <3>2. cache[e][queue[e][u][k].doc] # Absent /\ queue[e][u][k].doc \in Docs
      BY <2>3, <3>1, WriteAt DEF DocumentInv, KnownInv
    <3>3. QED
      BY <3>1, <3>2
  <2>4. QED
    BY <2>1, <2>2, <2>3 DEF KnownInv
<1>6. CompleteProfile'
  BY DEF DocumentInv, CompleteProfile
<1>7. Grown
  <2> SUFFICES ASSUME NEW e \in Clients, NEW u \in Uids, Shown(e, u) PROVE Shown(e, u)'
    BY DEF Grown
  <2>1. u \in Users /\ Profile(u) \in Docs
    BY ProfilePlaces DEF Users
  <2>2. CASE cache[e][Profile(u)] # Absent
    BY <2>1, <2>2 DEF Shown
  <2>3. ASSUME NEW i \in Pending(e, u) PROVE Shown(e, u)'
    <3>1. i \in 1..Len(queue[e][u]) /\ queue[e][u][i].doc = Profile(u)
      BY DEF Pending
    <3>2. CASE e # c \/ u # user[c]
      <4>1. queue'[e][u] = queue[e][u]
        BY <2>1, <3>2 DEF Shortened
      <4>2. i \in Pending(e, u)'
        BY <3>1, <4>1 DEF Pending
      <4>3. QED
        BY <4>2 DEF Shown
    <3>3. CASE e = c /\ u = user[c] /\ i = 1
      <4>1. cache'[c][Profile(u)] # Absent
        BY <3>1, <3>3 DEF Shortened
      <4>2. QED
        BY <3>3, <4>1 DEF Shown
    <3>4. CASE e = c /\ u = user[c] /\ i # 1
      <4>1. i - 1 \in 1..Len(queue'[e][u]) /\ queue'[e][u][i - 1] = queue[e][u][i]
        BY <3>1, <3>4 DEF Shortened
      <4>2. i - 1 \in Pending(e, u)'
        BY <3>1, <4>1 DEF Pending
      <4>3. QED
        BY <4>2 DEF Shown
    <3>5. QED
      BY <3>2, <3>3, <3>4
  <2>4. QED
    BY <2>2, <2>3 DEF Shown
<1>8. QED
  BY <1>3, <1>4, <1>5, <1>6, <1>7 DEF DocumentInv

LEMMA AcknowledgeDocuments ==
    ASSUME NameInv, NameInv', DocumentInv, NEW c \in Clients, Acknowledge(c)
    PROVE  DocumentInv' /\ Grown /\ Left(c, TRUE) /\ Shortened(c)
<1> DEFINE w == Head(Active(c))
<1>1. /\ sent[c] > 0 /\ sent' = [sent EXCEPT ![c] = sent[c] - 1]
      /\ cache' = IF w.seen THEN cache ELSE [cache EXCEPT ![c][w.doc] = Apply(w, cache[c][w.doc])]
      /\ calls' = IF w.tag = None THEN calls
                  ELSE [calls EXCEPT ![c] = Append(calls[c], WriteCall(w.tag, TRUE))]
      /\ queue' = [queue EXCEPT ![c][user[c]] = Tail(queue[c][user[c]])]
      /\ UNCHANGED <<server, user, reads>>
  BY DEF Acknowledge
<1>2. /\ Active(c) \in Seq(Writes) /\ sent[c] \in Nat /\ sent[c] <= Len(Active(c))
      /\ user[c] \in Users /\ sent \in [Clients -> Nat]
      /\ cache \in [Clients -> Places] /\ cache[c] \in Places
      /\ \A d \in Docs : cache[c][d] \in Contents(d)
  BY DEF NameInv, StateInv, Active, Places
<1>3. Active(c) # <<>>
  BY <1>1, <1>2
<1>4. Left(c, TRUE)
  BY <1>1, <1>3 DEF Left
<1>5. Shortened(c)
  BY <1>4, ShortenedQueue
<1>6. w \in Writes /\ w.doc \in Docs /\ w = queue[c][user[c]][1] /\ 1 \in 1..Len(queue[c][user[c]])
  BY <1>5 DEF Shortened
<1> HIDE DEF w
(* The write was committed. *)
<1>7. server[w.doc] # Absent
  <2>1. 1 <= sent[c]
    BY <1>1, <1>2
  <2>2. QED
    BY <1>6, <2>1 DEF DocumentInv, KnownInv, Active
<1>8. /\ cache'[c][w.doc] # Absent
      /\ \A e \in Clients, d \in Docs : e # c \/ d # w.doc => cache'[e][d] = cache[e][d]
  <2>1. CASE w.seen
    BY <1>1, <1>2, <1>6, <2>1 DEF DocumentInv, KnownInv
  <2>2. CASE ~w.seen
    <3>1. Apply(w, cache[c][w.doc]) # Absent
      BY <1>2, <1>6, ApplyPresent
    <3>2. cache' = [cache EXCEPT ![c][w.doc] = Apply(w, cache[c][w.doc])]
      BY <1>1, <2>2
    <3>3. \A e \in Clients : cache[e] \in [Docs -> {Absent} \cup Documents]
      BY <1>2 DEF Places
    <3>4. QED
      BY <1>2, <1>6, <3>1, <3>2, <3>3
  <2>3. QED
    BY <2>1, <2>2
<1>9. /\ \A e \in Clients, d \in Docs : cache[e][d] # Absent => cache'[e][d] # Absent
      /\ \A e \in Clients, d \in Docs : cache'[e][d] # Absent => server[d] # Absent
  BY <1>7, <1>8 DEF DocumentInv, KnownInv
<1>10. /\ \A e \in Clients : e # c => sent'[e] = sent[e]
       /\ sent'[c] \in {sent[c] - 1, 0}
  BY <1>1, <1>2
<1>11. w.doc = Profile(user[c]) => cache'[c][Profile(user[c])] # Absent
  BY <1>8
<1>12. DocumentInv' /\ Grown
  BY <1>1, <1>5, <1>9, <1>10, <1>11, LeftDocuments DEF w
<1>13. QED
  BY <1>4, <1>5, <1>12

LEMMA RejectDocuments ==
    ASSUME NameInv, NameInv', DocumentInv, "write" \notin Denials, NEW c \in Clients, Reject(c)
    PROVE  /\ DocumentInv' /\ Grown /\ Left(c, FALSE) /\ Shortened(c)
           /\ user[c] # Owner(Head(Active(c)).doc)
<1> DEFINE w == Head(Active(c))
<1>1. /\ sent[c] = 0 /\ Active(c) # <<>> /\ user[c] # Owner(w.doc)
      /\ calls' = IF w.tag = None THEN calls
                  ELSE [calls EXCEPT ![c] = Append(calls[c], WriteCall(w.tag, FALSE))]
      /\ queue' = [queue EXCEPT ![c][user[c]] = Tail(queue[c][user[c]])]
      /\ UNCHANGED <<server, cache, sent, user, reads>>
  BY DEF Reject, Permitted
<1>2. Left(c, FALSE)
  BY <1>1 DEF Left
<1>3. Shortened(c)
  BY <1>2, ShortenedQueue
<1>4. w.doc # Profile(user[c])
  BY <1>1 DEF Owner, Profile
<1>5. /\ \A e \in Clients, d \in Docs : cache'[e][d] # Absent => server[d] # Absent
      /\ sent'[c] \in {sent[c] - 1, 0}
  BY <1>1 DEF DocumentInv, KnownInv
<1>6. DocumentInv' /\ Grown
  BY <1>1, <1>3, <1>4, <1>5, LeftDocuments
<1>7. QED
  BY <1>1, <1>2, <1>3, <1>6

(* Documents of the server get into the cache. *)
LEMMA SynchroniseDocuments ==
    ASSUME NameInv, NameInv', DocumentInv, NEW c \in Clients, NEW D \in Queries(c),
           Synchronise(c, D)
    PROVE  /\ DocumentInv' /\ Grown
           /\ \A e \in Clients, u \in Users : SameWrites(queue'[e][u], queue[e][u])
<1> DEFINE q == queue[c][user[c]]
           p == Seen(q, sent[c], D)
           s == [d \in Docs |-> IF d \in D THEN server[d] ELSE cache[c][d]]
<1>1. /\ cache' = [cache EXCEPT ![c] = s] /\ queue' = [queue EXCEPT ![c][user[c]] = p]
      /\ UNCHANGED <<server, sent, user>>
  BY DEF Synchronise, ApplyRemoteEvent
<1>2. /\ queue \in [Clients -> [Users -> Seq(Writes)]] /\ user[c] \in Users /\ q \in Seq(Writes)
      /\ cache \in [Clients -> Places]
  BY DEF NameInv, StateInv
<1>3. p \in Seq(Writes)
  BY <1>2, SeenWrites
<1>4. /\ SameWrites(p, q)
      /\ \A i \in 1..Len(q) : p[i].seen => q[i].seen \/ (i <= sent[c] /\ q[i].doc \in D)
  BY <1>2, SeenSame
<1> HIDE DEF p
<1>5. /\ queue'[c][user[c]] = p
      /\ \A e \in Clients, u \in Users : e # c \/ u # user[c] => queue'[e][u] = queue[e][u]
  BY <1>1, <1>2, <1>3, QueueUpdate
<1>6. \A e \in Clients, u \in Users : SameWrites(queue'[e][u], queue[e][u])
  BY <1>4, <1>5, SameItself
<1>7. /\ \A e \in Clients, d \in Docs : e # c => cache'[e][d] = cache[e][d]
      /\ \A d \in Docs : cache'[c][d] = IF d \in D THEN server[d] ELSE cache[c][d]
  BY <1>1, <1>2
<1>8. /\ \A e \in Clients, d \in Docs : cache[e][d] # Absent => cache'[e][d] # Absent
      /\ \A e \in Clients, d \in Docs : cache'[e][d] # Absent => server[d] # Absent
  BY <1>7 DEF DocumentInv, KnownInv
<1> HIDE DEF q
<1>9. WriteInv' /\ MergeInv'
  BY <1>1, <1>6, SameQueues DEF DocumentInv
<1>10. KnownInv'
  <2>1. ASSUME NEW e \in Clients, NEW i \in 1..Len(Active(e)'), i <= sent'[e]
        PROVE  server'[Active(e)'[i].doc] # Absent
    <3>1. Active(e)' = queue'[e][user[e]] /\ user[e] \in Users
      BY <1>1 DEF Active, NameInv, StateInv
    <3>2. /\ i \in 1..Len(queue[e][user[e]])
          /\ queue'[e][user[e]][i].doc = queue[e][user[e]][i].doc
      BY <1>6, <2>1, <3>1, SamePending
    <3>3. QED
      BY <1>1, <2>1, <3>1, <3>2 DEF DocumentInv, KnownInv, Active
  <2>2. ASSUME NEW e \in Clients, NEW u \in Users, NEW i \in 1..Len(queue'[e][u]),
               queue'[e][u][i].seen
        PROVE  cache'[e][queue'[e][u][i].doc] # Absent
    <3>1. i \in 1..Len(queue[e][u]) /\ queue'[e][u][i].doc = queue[e][u][i].doc
      BY <1>6, SamePending
    <3>2. queue[e][u][i].doc \in Docs
      BY <3>1, WriteAt
    <3>3. CASE queue[e][u][i].seen
      BY <1>8, <3>1, <3>2, <3>3 DEF DocumentInv, KnownInv
    <3>4. CASE ~queue[e][u][i].seen
      <4>1. e = c /\ u = user[c] /\ i <= sent[c] /\ queue[e][u][i].doc \in D
        BY <1>4, <1>5, <2>2, <3>1, <3>4 DEF q
      <4>2. server[queue[e][u][i].doc] # Absent
        BY <3>1, <4>1 DEF DocumentInv, KnownInv, Active
      <4>3. QED
        BY <1>7, <3>1, <3>2, <4>1, <4>2
    <3>5. QED
      BY <3>3, <3>4
  <2>3. QED
    BY <1>1, <1>8, <2>1, <2>2 DEF KnownInv
<1>11. CompleteProfile'
  BY <1>1 DEF DocumentInv, CompleteProfile
<1>12. Grown
  <2> SUFFICES ASSUME NEW e \in Clients, NEW u \in Uids, Shown(e, u) PROVE Shown(e, u)'
    BY DEF Grown
  <2>1. u \in Users /\ Profile(u) \in Docs /\ Pending(e, u)' = Pending(e, u)
    BY <1>6, ProfilePlaces, SamePending DEF Users
  <2>2. QED
    BY <1>8, <2>1 DEF Shown
<1>13. QED
  BY <1>6, <1>9, <1>10, <1>11, <1>12 DEF DocumentInv

-----------------------------------------------------------------------------
(* EnsureInv, step by step.                                                  *)

(* Nothing about its reads, handlers, view and user happens on c. *)
Still(c) ==
    /\ reads'[c] = reads[c] /\ calls'[c] = calls[c] /\ user'[c] = user[c]
    /\ view'[c].no = view[c].no /\ view'[c].stage = view[c].stage

LEMMA StillEnsure ==
    ASSUME NEW c \in Clients, Still(c), Grown, NEW u \in Uids, EnsureOf(c, u)
    PROVE  EnsureOf(c, u)'
<1>1. /\ EnsureReads(c, u)' = EnsureReads(c, u) /\ EnsureCalls(c, u)' = EnsureCalls(c, u)
      /\ Completing(c, u)' = Completing(c, u)
      /\ FetchReads(c)' = FetchReads(c) /\ FetchCalls(c)' = FetchCalls(c)
  BY DEF Still, EnsureReads, EnsureCalls, Completing, FetchReads, FetchCalls
<1>2. Shown(c, u) => Shown(c, u)'
  BY DEF Grown
<1>3. \A i : Finds(calls[c][i], u)' = Finds(calls[c][i], u)
  BY DEF Still, Finds
<1>4. QED
  BY <1>1, <1>2, <1>3 DEF EnsureOf, Still

(* Only c can change, and there EnsureOf holds. *)
LEMMA EnsureFrom ==
    ASSUME EnsureInv, Grown, NEW c \in Clients,
           \A e \in Clients : e # c => Still(e),
           user'[c] \in Uids => EnsureOf(c, user[c])'
    PROVE  EnsureInv'
<1> SUFFICES ASSUME NEW e \in Clients, user'[e] \in Uids PROVE EnsureOf(e, user[e])'
  BY DEF EnsureInv
<1>1. CASE e = c
  BY <1>1
<1>2. CASE e # c
  <2>1. Still(e) /\ user'[e] = user[e] /\ EnsureOf(e, user[e])
    BY <1>2 DEF EnsureInv, Still
  <2>2. ASSUME NEW u \in Uids, u = user[e] PROVE EnsureOf(e, u)'
    BY <2>1, <2>2, StillEnsure
  <2>3. PICK u \in Uids : u = user[e]
    BY <2>1
  <2>4. EnsureOf(e, u)'
    BY <2>2, <2>3
  <2>5. QED
    BY <2>1, <2>3, <2>4
<1>3. QED
  BY <1>1, <1>2

(* The handler at the head of the main queue of c leaves it. *)
Taken(c) ==
    /\ \A e \in Clients : e # c => calls'[e] = calls[e]
    /\ Len(calls[c]) \in Nat
    /\ \A i \in 1..Len(calls'[c]) : i + 1 \in 1..Len(calls[c]) /\ calls'[c][i] = calls[c][i + 1]
    /\ \A i \in 1..Len(calls[c]) :
           i # 1 => i - 1 \in 1..Len(calls'[c]) /\ calls'[c][i - 1] = calls[c][i]
    /\ 1 \in 1..Len(calls[c]) /\ Head(calls[c]) = calls[c][1] /\ Head(calls[c]) \in Handlers
    /\ Head(calls[c]).tag.uid \in Uids

LEMMA TakenHead ==
    ASSUME NameInv, NEW c \in Clients, calls[c] # <<>>, calls' = [calls EXCEPT ![c] = Tail(@)]
    PROVE  Taken(c)
<1> DEFINE q == calls[c]
           t == Tail(q)
<1>1. calls \in [Clients -> Seq(Handlers)] /\ q \in Seq(Handlers)
  BY DEF NameInv, StateInv
<1>2. /\ t \in Seq(Handlers) /\ Head(q) \in Handlers /\ Head(q) = q[1]
      /\ Len(q) \in Nat /\ 1 \in 1..Len(q) /\ Len(t) = Len(q) - 1
      /\ \A i \in 1..Len(t) : i + 1 \in 1..Len(q) /\ t[i] = q[i + 1]
  <2> HIDE DEF q
  <2>1. QED
    BY <1>1, TailElements DEF q
<1>3. /\ calls'[c] = t /\ \A e \in Clients : e # c => calls'[e] = calls[e]
  BY <1>1
<1> HIDE DEF q, t
<1>4. ASSUME NEW i \in 1..Len(q), i # 1 PROVE i - 1 \in 1..Len(t) /\ t[i - 1] = q[i]
  <2>1. i - 1 \in 1..Len(t) /\ (i - 1) + 1 = i
    BY <1>2, <1>4
  <2>2. QED
    BY <1>2, <2>1
<1>5. Head(q).tag.uid \in Uids
  BY <1>2, HandlerKinds
<1>6. QED
  BY <1>2, <1>3, <1>4, <1>5 DEF Taken, q

(* The sets of handlers move one place. *)
LEMMA TakenSets ==
    ASSUME NEW c \in Clients, NEW u \in Uids, Taken(c), view'[c].no = view[c].no
    PROVE  /\ \A i \in EnsureCalls(c, u)' : i + 1 \in EnsureCalls(c, u) /\ i \in Nat
           /\ \A i \in EnsureCalls(c, u) : i # 1 => i - 1 \in EnsureCalls(c, u)'
           /\ \A i \in Completing(c, u) : i # 1 => i - 1 \in Completing(c, u)'
           /\ \A i \in FetchCalls(c)' : i + 1 \in FetchCalls(c) /\ i \in Nat
           /\ \A i \in 1..Len(calls'[c]) : i + 1 \in 1..Len(calls[c]) /\ calls'[c][i] = calls[c][i + 1]
<1>1. \A i \in 1..Len(calls'[c]) : i + 1 \in 1..Len(calls[c]) /\ calls'[c][i] = calls[c][i + 1] /\ i \in Nat
  BY DEF Taken
<1>2. \A i \in 1..Len(calls[c]) : i # 1 => i - 1 \in 1..Len(calls'[c]) /\ calls'[c][i - 1] = calls[c][i]
  BY DEF Taken
<1>3. QED
  BY <1>1, <1>2 DEF EnsureCalls, Completing, FetchCalls

(* A handler has run that asks for nothing; the form may have opened. *)
LEMMA TakenEnsure ==
    ASSUME NEW c \in Clients, NEW u \in Uids, Taken(c), EnsureOf(c, u), Grown,
           reads'[c] = reads[c], view'[c].no = view[c].no,
           calls[c][1].kind # "completion",
           calls[c][1].kind = "read" /\ calls[c][1].tag.kind = "ensure" /\ calls[c][1].tag.uid = u
               => Shown(c, u)',
           \/ view'[c].stage = view[c].stage
           \/ /\ view'[c].stage = "form" /\ view[c].stage # "closed"
              /\ Shown(c, u) /\ EnsureReads(c, u) = {} /\ EnsureCalls(c, u) = {}
    PROVE  EnsureOf(c, u)'
<1>1. /\ \A i \in EnsureCalls(c, u)' : i + 1 \in EnsureCalls(c, u) /\ i \in Nat
      /\ \A i \in EnsureCalls(c, u) : i # 1 => i - 1 \in EnsureCalls(c, u)'
      /\ \A i \in Completing(c, u) : i # 1 => i - 1 \in Completing(c, u)'
      /\ \A i \in FetchCalls(c)' : i + 1 \in FetchCalls(c) /\ i \in Nat
      /\ \A i \in 1..Len(calls'[c]) : i + 1 \in 1..Len(calls[c]) /\ calls'[c][i] = calls[c][i + 1]
  BY TakenSets
<1>2. /\ EnsureReads(c, u)' = EnsureReads(c, u) /\ FetchReads(c)' = FetchReads(c)
  BY DEF EnsureReads, FetchReads
<1>3. Shown(c, u) => Shown(c, u)'
  BY DEF Grown
<1>4. (Shown(c, u) \/ EnsureReads(c, u) # {} \/ EnsureCalls(c, u) # {} \/ Completing(c, u) # {})'
  <2>1. CASE Shown(c, u) \/ EnsureReads(c, u) # {}
    BY <1>2, <1>3, <2>1
  <2>2. ASSUME NEW i \in EnsureCalls(c, u) PROVE Shown(c, u)' \/ EnsureCalls(c, u)' # {}
    <3>1. CASE i = 1
      BY <3>1 DEF EnsureCalls
    <3>2. CASE i # 1
      BY <1>1, <3>2
    <3>3. QED
      BY <3>1, <3>2
  <2>3. ASSUME NEW i \in Completing(c, u) PROVE Completing(c, u)' # {}
    <3>1. i # 1
      BY DEF Completing
    <3>2. QED
      BY <1>1, <3>1
  <2>4. QED
    BY <2>1, <2>2, <2>3 DEF EnsureOf
<1>5. ASSUME NEW i \in EnsureCalls(c, u)', Finds(calls'[c][i], u) PROVE Shown(c, u)'
  <2>1. i + 1 \in EnsureCalls(c, u) /\ calls'[c][i] = calls[c][i + 1]
    BY <1>1 DEF EnsureCalls
  <2>2. QED
    BY <1>3, <1>5, <2>1 DEF EnsureOf
<1>6. view'[c].stage # "closed" => \A i \in 1..Len(calls'[c]) : calls'[c][i].kind # "completion"
  <2>1. view'[c].stage # "closed" => view[c].stage # "closed"
    OBVIOUS
  <2>2. QED
    BY <1>1, <2>1 DEF EnsureOf
<1>7. view'[c].stage = "form" =>
          Shown(c, u)' /\ EnsureReads(c, u)' = {} /\ EnsureCalls(c, u)' = {}
  <2>1. view'[c].stage = "form" => Shown(c, u) /\ EnsureReads(c, u) = {} /\ EnsureCalls(c, u) = {}
    BY DEF EnsureOf
  <2>2. QED
    BY <1>1, <1>2, <1>3, <2>1
<1>8. \A i \in FetchReads(c)', j \in EnsureReads(c, u)' : j < i
  BY <1>2 DEF EnsureOf
<1>9. ASSUME NEW i \in FetchCalls(c)'
      PROVE  EnsureReads(c, u)' = {} /\ \A j \in EnsureCalls(c, u)' : j < i
  <2>1. EnsureReads(c, u)' = {} /\ \A j \in EnsureCalls(c, u) : j < i + 1
    BY <1>1, <1>2 DEF EnsureOf
  <2>2. ASSUME NEW j \in EnsureCalls(c, u)' PROVE j < i
    <3>1. j + 1 < i + 1 /\ j \in Nat /\ i \in Nat
      BY <1>1, <2>1
    <3>2. QED
      BY <3>1
  <2>3. QED
    BY <2>1, <2>2
<1>10. QED
  BY <1>4, <1>5, <1>6, <1>7, <1>8, <1>9 DEF EnsureOf

(* Streams are restarted: nothing is lost that was not sent. *)
LEMMA UnseenQueues ==
    ASSUME NameInv, NEW c \in Clients, queue' = [queue EXCEPT ![c][user[c]] = Unseen(@)]
    PROVE  \A e \in Clients, u \in Users :
               SameWrites(queue'[e][u], queue[e][u]) /\ NoneSeen(queue'[e][u], queue[e][u])
<1> DEFINE q == Unseen(queue[c][user[c]])
<1>1. /\ queue \in [Clients -> [Users -> Seq(Writes)]] /\ user[c] \in Users
      /\ queue[c][user[c]] \in Seq(Writes)
  BY DEF NameInv, StateInv
<1>2. q \in Seq(Writes)
  BY <1>1, UnseenWrites
<1>3. SameWrites(q, queue[c][user[c]]) /\ NoneSeen(q, queue[c][user[c]])
  BY <1>1, UnseenSame
<1>4. queue' = [queue EXCEPT ![c][user[c]] = q]
  BY <1>1
<1> HIDE DEF q
<1>5. /\ queue'[c][user[c]] = q
      /\ \A e \in Clients, u \in Users : e # c \/ u # user[c] => queue'[e][u] = queue[e][u]
  BY <1>1, <1>2, <1>4, QueueUpdate
<1>6. QED
  BY <1>3, <1>5, SameItself

LEMMA SameQueuesQuiet ==
    ASSUME UNCHANGED <<server, cache, queue, sent, user>>
    PROVE  Quiet
  BY SameItself DEF Quiet

LEMMA CredentialQuiet ==
    ASSUME NameInv, NEW c \in Clients, NEW u, HandleCredentialChange(c, u),
           UNCHANGED <<server, cache>>
    PROVE  Quiet
<1>1. \A e \in Clients, v \in Users :
          SameWrites(queue'[e][v], queue[e][v]) /\ NoneSeen(queue'[e][v], queue[e][v])
  BY UnseenQueues DEF HandleCredentialChange
<1>2. \A e \in Clients : (sent'[e] = sent[e] /\ user'[e] = user[e]) \/ sent'[e] = 0
  BY DEF HandleCredentialChange, NameInv, StateInv
<1>3. QED
  BY <1>1, <1>2 DEF Quiet

CalmInv == DocumentInv /\ EnsureInv

LEMMA SignInCalm ==
    ASSUME NameInv, NameInv', CalmInv, ~Overlap, NEW c \in Clients, NEW u \in Uids, SignIn(c, u)
    PROVE  CalmInv' /\ Grown
<1> DEFINE tag == Tag("ensure", u, 0, Blank)
           r == Read({Profile(u)}, TRUE, tag)
           k == [kind |-> "completion", tag |-> tag, ok |-> TRUE, docs |-> <<>>]
<1>1. /\ HandleCredentialChange(c, u) /\ view[c].stage = "closed" /\ ~Ensuring(c)
      /\ reads' = [reads EXCEPT ![c] = Append(reads[c], r)]
      /\ calls' = [calls EXCEPT ![c] = Append(calls[c], k)]
      /\ UNCHANGED <<server, cache, view>>
  BY DEF SignIn, EnsureProfile, GetDocument
<1>2. Quiet
  BY <1>1, CredentialQuiet
<1>3. DocumentInv' /\ Grown
  BY <1>2, QuietDocuments DEF CalmInv
<1>4. /\ reads \in [Clients -> Seq(ProfileReads)] /\ calls \in [Clients -> Seq(Handlers)]
      /\ reads' \in [Clients -> Seq(ProfileReads)] /\ calls' \in [Clients -> Seq(Handlers)]
      /\ user \in [Clients -> Users]
  BY DEF NameInv, StateInv
<1>5. tag.kind = "ensure" /\ tag.uid = u /\ r.tag = tag /\ k.kind = "completion"
  BY DEF Tag, Read
<1> HIDE DEF tag, r, k
<1>6. /\ reads'[c] = Append(reads[c], r) /\ calls'[c] = Append(calls[c], k) /\ user'[c] = u
      /\ \A e \in Clients : e # c => reads'[e] = reads[e] /\ calls'[e] = calls[e] /\ user'[e] = user[e]
  BY <1>1, <1>4 DEF HandleCredentialChange
<1>7. /\ Len(reads'[c]) = Len(reads[c]) + 1 /\ reads'[c][Len(reads[c]) + 1] = r
      /\ Len(reads[c]) \in Nat
      /\ \A i \in 1..Len(calls'[c]) :
             (i \in 1..Len(calls[c]) /\ calls'[c][i] = calls[c][i]) \/ calls'[c][i] = k
  BY <1>4, <1>6
<1>8. EnsureReads(c, u)' # {}
  <2>1. Len(reads[c]) + 1 \in EnsureReads(c, u)'
    BY <1>5, <1>7 DEF EnsureReads
  <2>2. QED
    BY <2>1
<1>9. EnsureCalls(c, u)' = {}
  BY <1>1, <1>5, <1>7 DEF EnsureCalls, Ensuring
<1>10. view'[c].stage = "closed" /\ view'[c].no = 0
  BY <1>1 DEF NameInv, ViewInv
<1>11. FetchReads(c)' = {} /\ FetchCalls(c)' = {}
  BY <1>10 DEF NameInv, FetchInv, FetchOf, FetchReads, FetchCalls
<1>12. EnsureOf(c, u)'
  BY <1>8, <1>9, <1>10, <1>11 DEF EnsureOf
<1>13. EnsureOf(c, user[c])'
  BY <1>6, <1>12
<1>14. \A e \in Clients : e # c => Still(e)
  BY <1>1, <1>6 DEF Still
<1>15. EnsureInv'
  BY <1>3, <1>13, <1>14, EnsureFrom DEF CalmInv
<1>16. QED
  BY <1>3, <1>15 DEF CalmInv

LEMMA SignOutCalm ==
    ASSUME NameInv, NameInv', CalmInv, NEW c \in Clients, ForcedSignOut(c) \/ SignOut(c)
    PROVE  CalmInv' /\ Grown
<1>1. /\ HandleCredentialChange(c, None)
      /\ UNCHANGED <<server, cache, reads, calls>>
      /\ view' = view \/ view' = [view EXCEPT ![c] = Closed]
  BY DEF ForcedSignOut, SignOut, appVars
<1>2. Quiet
  BY <1>1, CredentialQuiet
<1>3. DocumentInv' /\ Grown
  BY <1>2, QuietDocuments DEF CalmInv
<1>4. user'[c] = None /\ \A e \in Clients : e # c => user'[e] = user[e] /\ view'[e] = view[e]
  BY <1>1 DEF HandleCredentialChange, NameInv, StateInv
<1>5. user'[c] \notin Uids
  BY <1>4, FirestoreAssumption
<1>6. \A e \in Clients : e # c => Still(e)
  BY <1>1, <1>4 DEF Still
<1>7. EnsureInv'
  BY <1>3, <1>5, <1>6, EnsureFrom DEF CalmInv
<1>8. QED
  BY <1>3, <1>7 DEF CalmInv

LEMMA RelaunchCalm ==
    ASSUME NameInv, NameInv', CalmInv, NEW c \in Clients, Relaunch(c)
    PROVE  CalmInv' /\ Grown
<1> DEFINE q == Persisted(queue[c])
<1>1. /\ queue' = [queue EXCEPT ![c] = q] /\ sent' = [sent EXCEPT ![c] = 0]
      /\ reads' = [reads EXCEPT ![c] =
                      IF user[c] = None THEN <<>>
                      ELSE <<Read({Profile(user[c])}, TRUE, Tag("ensure", user[c], 0, Blank))>>]
      /\ calls' = [calls EXCEPT ![c] = <<>>]
      /\ view' = [view EXCEPT ![c] = Closed]
      /\ UNCHANGED <<server, cache, user>>
  BY DEF Relaunch
<1>2. /\ queue \in [Clients -> [Users -> Seq(Writes)]] /\ sent \in [Clients -> Nat]
      /\ user \in [Clients -> Users] /\ reads \in [Clients -> Seq(ProfileReads)]
      /\ calls \in [Clients -> Seq(Handlers)] /\ view \in [Clients -> Views]
  BY DEF NameInv, StateInv
<1>3. \A u \in Users : SameWrites(q[u], queue[c][u]) /\ NoneSeen(q[u], queue[c][u])
  BY <1>2, PersistedSame
<1> HIDE DEF q
<1>4. queue'[c] = q /\ \A e \in Clients : e # c => queue'[e] = queue[e]
  BY <1>1, <1>2
<1>5. \A e \in Clients, u \in Users :
          SameWrites(queue'[e][u], queue[e][u]) /\ NoneSeen(queue'[e][u], queue[e][u])
  BY <1>3, <1>4, SameItself
<1>6. Quiet
  BY <1>1, <1>2, <1>5 DEF Quiet
<1>7. DocumentInv' /\ Grown
  BY <1>6, QuietDocuments DEF CalmInv
<1>8. /\ calls'[c] = <<>> /\ view'[c] = Closed
      /\ \A e \in Clients : e # c => Still(e)
  BY <1>1, <1>2 DEF Still
<1>9. ASSUME NEW u \in Uids, user[c] = u PROVE EnsureOf(c, u)'
  <2> DEFINE r == Read({Profile(u)}, TRUE, Tag("ensure", u, 0, Blank))
  <2>1. reads'[c] = <<r>>
    BY <1>1, <1>2, <1>9, FirestoreAssumption
  <2>2. r.tag.kind = "ensure" /\ r.tag.uid = u
    BY DEF Read, Tag
  <2> HIDE DEF r
  <2>3. EnsureReads(c, u)' # {}
    <3>1. 1 \in EnsureReads(c, u)'
      BY <2>1, <2>2 DEF EnsureReads
    <3>2. QED
      BY <3>1
  <2>4. Len(calls'[c]) = 0
    BY <1>8
  <2>5. EnsureCalls(c, u)' = {} /\ FetchCalls(c)' = {}
    BY <2>4 DEF EnsureCalls, FetchCalls
  <2>6. FetchReads(c)' = {}
    BY <2>1, <2>2 DEF FetchReads
  <2>7. view'[c].stage = "closed"
    BY <1>8, ClosedView
  <2>8. QED
    BY <2>3, <2>5, <2>6, <2>7 DEF EnsureOf
<1>10. user'[c] \in Uids => EnsureOf(c, user[c])'
  BY <1>1, <1>9
<1>11. EnsureInv'
  BY <1>7, <1>8, <1>10, EnsureFrom DEF CalmInv
<1>12. QED
  BY <1>7, <1>11 DEF CalmInv

(* The menu opens when the sign-in is complete, and closes. *)
LEMMA MenuCalm ==
    ASSUME NameInv, NameInv', CalmInv, ~Overlap, NEW c \in Clients, OpenMenu(c) \/ CloseMenu(c)
    PROVE  CalmInv' /\ Grown
<1>1. UNCHANGED <<server, cache, queue, sent, user, reads, calls>>
  BY DEF OpenMenu, CloseMenu, fsVars
<1>2. DocumentInv' /\ Grown
  BY <1>1, SameQueuesQuiet, QuietDocuments DEF CalmInv
<1>3. /\ \A e \in Clients : e # c => view'[e] = view[e]
      /\ view'[c].no = 0 /\ view'[c].stage \in {"closed", "menu"}
      /\ view'[c].stage # "closed" => \A i \in 1..Len(calls[c]) : calls[c][i].kind # "completion"
  <2>1. view \in [Clients -> Views]
    BY DEF NameInv, StateInv
  <2>2. CASE OpenMenu(c)
    <3> DEFINE v == [Closed EXCEPT !.stage = "menu", !.viewer = user[c]]
    <3>1. view' = [view EXCEPT ![c] = v] /\ \A i \in 1..Len(calls[c]) : calls[c][i].kind # "completion"
      BY <2>2 DEF OpenMenu
    <3>2. v.no = 0 /\ v.stage = "menu"
      BY DEF Closed
    <3> HIDE DEF v
    <3>3. QED
      BY <2>1, <3>1, <3>2
  <2>3. CASE CloseMenu(c)
    BY <2>1, <2>3, ClosedView DEF CloseMenu
  <2>4. QED
    BY <2>2, <2>3
<1>4. FetchReads(c)' = {} /\ FetchCalls(c)' = {}
  BY <1>3 DEF NameInv, FetchInv, FetchOf, FetchReads, FetchCalls
<1>5. ASSUME NEW u \in Uids, user[c] = u PROVE EnsureOf(c, u)'
  <2>1. EnsureOf(c, u)
    BY <1>5 DEF CalmInv, EnsureInv
  <2>2. /\ EnsureReads(c, u)' = EnsureReads(c, u) /\ EnsureCalls(c, u)' = EnsureCalls(c, u)
        /\ Completing(c, u)' = Completing(c, u)
    BY <1>1 DEF EnsureReads, EnsureCalls, Completing
  <2>3. Shown(c, u) => Shown(c, u)'
    BY <1>2 DEF Grown
  <2>4. view'[c].stage # "form"
    BY <1>3
  <2>5. QED
    BY <1>1, <1>3, <1>4, <2>1, <2>2, <2>3, <2>4 DEF EnsureOf
<1>6. \A e \in Clients : e # c => Still(e)
  BY <1>1, <1>3 DEF Still
<1>7. user'[c] \in Uids => EnsureOf(c, user[c])'
  BY <1>1, <1>5
<1>8. EnsureInv'
  BY <1>2, <1>6, <1>7, EnsureFrom DEF CalmInv
<1>9. QED
  BY <1>2, <1>8 DEF CalmInv

(* fetchUserInfo's read comes after those of the sign-in. *)
LEMMA OpenViewCalm ==
    ASSUME NameInv, NameInv', CalmInv, NEW c \in Clients, OpenView(c)
    PROVE  CalmInv' /\ Grown
<1>1. UNCHANGED <<server, cache, queue, sent, user, calls>> /\ view[c].stage = "menu"
  BY DEF OpenView
<1>2. DocumentInv' /\ Grown
  BY <1>1, SameQueuesQuiet, QuietDocuments DEF CalmInv
<1>3. /\ reads \in [Clients -> Seq(ProfileReads)] /\ view \in [Clients -> Views] /\ view[c] \in Views
      /\ views \in Nat
  BY DEF NameInv, StateInv
<1>4. \A e \in Clients : e # c => view'[e] = view[e] /\ reads'[e] = reads[e]
  BY <1>3 DEF OpenView, GetDocument
<1>5. ASSUME NEW u \in Uids, user[c] = u PROVE EnsureOf(c, u)'
  <2> DEFINE tag == Tag("fetch", u, views + 1, Blank)
             r == Read({Profile(u)}, TRUE, tag)
  <2>1. EnsureOf(c, u)
    BY <1>5 DEF CalmInv, EnsureInv
  <2>2. /\ view' = [view EXCEPT ![c].stage = "loading", ![c].no = views + 1]
        /\ reads' = [reads EXCEPT ![c] = Append(reads[c], r)]
    BY <1>5, FirestoreAssumption DEF OpenView, GetDocument
  <2>3. view'[c].stage = "loading" /\ view'[c].no = views + 1
    BY <1>3, <2>2 DEF Views
  <2>4. r.tag.kind = "fetch"
    BY DEF Read, Tag
  <2> HIDE DEF r
  <2>5. /\ reads'[c] = Append(reads[c], r) /\ reads[c] \in Seq(ProfileReads)
        /\ Len(reads[c]) \in Nat
    BY <1>3, <2>2
  <2>6. /\ Len(reads'[c]) = Len(reads[c]) + 1
        /\ \A i \in 1..Len(reads[c]) : reads'[c][i] = reads[c][i]
        /\ reads'[c][Len(reads[c]) + 1] = r
    BY <2>5
  <2>7. EnsureReads(c, u)' = EnsureReads(c, u)
    <3>1. \A i \in 1..Len(reads'[c]) : i \in 1..Len(reads[c]) \/ i = Len(reads[c]) + 1
      BY <2>5, <2>6
    <3>2. \A i \in 1..Len(reads[c]) : i \in 1..Len(reads'[c])
      BY <2>5, <2>6
    <3>3. QED
      BY <2>4, <2>6, <3>1, <3>2 DEF EnsureReads
  (* Handlers and older reads are those of earlier views. *)
  <2>8. \A i \in 1..Len(reads[c]) : ~(reads[c][i].tag.kind = "fetch" /\ reads[c][i].tag.no = views + 1)
    BY <1>3 DEF NameInv, FetchInv, FetchOf
  <2>9. FetchCalls(c)' = {}
    BY <1>1, <1>3, <2>3 DEF NameInv, FetchInv, FetchOf, FetchCalls
  <2>10. ASSUME NEW i \in FetchReads(c)', NEW j \in EnsureReads(c, u)' PROVE j < i
    <3>1. i \in 1..Len(reads'[c]) /\ i \notin 1..Len(reads[c])
      BY <2>3, <2>6, <2>8 DEF FetchReads
    <3>2. j \in 1..Len(reads[c])
      BY <2>7 DEF EnsureReads
    <3>3. QED
      BY <2>5, <2>6, <3>1, <3>2
  <2>11. /\ EnsureCalls(c, u)' = EnsureCalls(c, u) /\ Completing(c, u)' = Completing(c, u)
    BY <1>1 DEF EnsureCalls, Completing
  <2>12. Shown(c, u) => Shown(c, u)'
    BY <1>2 DEF Grown
  <2>13. QED
    BY <1>1, <2>1, <2>3, <2>7, <2>9, <2>10, <2>11, <2>12 DEF EnsureOf
<1>6. \A e \in Clients : e # c => Still(e)
  BY <1>1, <1>4 DEF Still
<1>7. user'[c] \in Uids => EnsureOf(c, user[c])'
  BY <1>1, <1>5
<1>8. EnsureInv'
  BY <1>2, <1>6, <1>7, EnsureFrom DEF CalmInv
<1>9. QED
  BY <1>2, <1>8 DEF CalmInv

(* What SetData asks for. *)
LEMMA NewWrite ==
    ASSUME NEW d \in Docs, NEW data \in Document(d), NEW merge \in BOOLEAN,
           NEW tag \in NameTag \cup {None}
    PROVE  /\ Write(d, data, merge, tag) \in Writes
           /\ Write(d, data, merge, tag).doc = d /\ Write(d, data, merge, tag).data = data
           /\ Write(d, data, merge, tag).merge = merge /\ Write(d, data, merge, tag).tag = tag
           /\ ~Write(d, data, merge, tag).seen
<1>1. data \in Documents
  BY DEF Document
<1>2. QED
  BY <1>1 DEF Write, Writes

(* updateUserInfo merges the name into a profile that is there. *)
LEMMA TapUpdateCalm ==
    ASSUME NameInv, NameInv', CalmInv, ~Overlap, NEW c \in Clients,
           NEW name \in Uids \cup {Blank}, TapUpdate(c, name)
    PROVE  /\ CalmInv' /\ Grown
           /\ Appended(c, Write(Profile(user[c]), [f \in {"name"} |-> name], TRUE,
                                Tag("name", user[c], updates + 1, name)))
<1> DEFINE tag == Tag("name", user[c], updates + 1, name)
           data == [f \in {"name"} |-> name]
           d == Profile(user[c])
           w == Write(d, data, TRUE, tag)
<1>1. /\ view[c].stage = "form" /\ user[c] # None /\ name \in {view[c].name, view[c].viewer}
      /\ view' = [view EXCEPT ![c].name = name]
      /\ queue' = [queue EXCEPT ![c][user[c]] = Append(@, w)]
      /\ UNCHANGED <<server, cache, sent, user, reads, calls>>
  BY DEF TapUpdate, SetData
<1>2. /\ updates \in Nat /\ view[c] \in Views /\ user[c] \in Uids /\ view[c].viewer \in Uids
      /\ view[c].name \in Names(view[c].viewer)
      /\ user[c] \in {None, view[c].viewer}
      /\ view \in [Clients -> Views]
  BY <1>1 DEF NameInv, StateInv, ViewInv, Users
<1>3. name \in Names(user[c])
  BY <1>1, <1>2, NameFacts
<1>4. data \in Document(d) /\ d \in Docs /\ d[1] = ProfilePath
  BY <1>2, <1>3, NameDocument, ProfilePlaces
<1>5. tag \in NameTag \cup {None}
  BY <1>2 DEF Tag, NameTag
<1>6. DOMAIN data = {"name"}
  OBVIOUS
<1> HIDE DEF tag, data, d
<1>7. w \in Writes /\ w.doc = d /\ w.data = data /\ w.merge /\ ~w.seen
  BY <1>4, <1>5, NewWrite
<1> HIDE DEF w
<1>8. queue' = [queue EXCEPT ![c][user[c]] = Append(queue[c][user[c]], w)]
  BY <1>1
<1>9. Appended(c, w)
  BY <1>7, <1>8, AppendedWrite
<1>10. Shown(c, user[c])
  BY <1>1, <1>2 DEF CalmInv, EnsureInv, EnsureOf
<1>11. DocumentInv' /\ Grown
  BY <1>1, <1>6, <1>7, <1>9, <1>10, RequestDocuments DEF CalmInv
<1>12. \A e \in Clients : Still(e)
  BY <1>1, <1>2 DEF Still, Views
<1>13. user'[c] \in Uids => EnsureOf(c, user[c])'
  <2>1. PICK u \in Uids : u = user[c]
    BY <1>2
  <2>2. EnsureOf(c, u)
    BY <2>1 DEF CalmInv, EnsureInv
  <2>3. EnsureOf(c, u)'
    BY <1>11, <1>12, <2>2, StillEnsure
  <2>4. QED
    BY <1>1, <2>1, <2>3
<1>14. EnsureInv'
  BY <1>11, <1>12, <1>13, EnsureFrom DEF CalmInv
<1>15. QED
  BY <1>9, <1>11, <1>14 DEF CalmInv, w, d, data, tag

(* The completion handler of a sign-in runs before the menu opens. *)
LEMMA RunCompletionCalm ==
    ASSUME NameInv, NameInv', CalmInv, NEW c \in Clients, RunCompletion(c)
    PROVE  CalmInv' /\ Grown /\ Taken(c)
<1> DEFINE h == Head(calls[c]).tag.uid
           r == Read({Profile(h)}, TRUE, Tag("ensure", h, 0, Blank))
<1>1. /\ calls[c] # <<>> /\ calls' = [calls EXCEPT ![c] = Tail(@)]
      /\ Head(calls[c]).kind = "completion"
      /\ reads' = [reads EXCEPT ![c] = Append(@, r)]
      /\ UNCHANGED <<server, cache, queue, sent, user, view>>
  BY DEF RunCompletion, NextCall, EnsureProfile, GetDocument, appVars
<1>2. Taken(c)
  BY <1>1, TakenHead
<1>3. DocumentInv' /\ Grown
  BY <1>1, SameQueuesQuiet, QuietDocuments DEF CalmInv
<1>4. r.tag.kind = "ensure" /\ r.tag.uid = h
  BY DEF Read, Tag
<1>5. calls[c][1].kind = "completion" /\ h = calls[c][1].tag.uid /\ 1 \in 1..Len(calls[c])
  BY <1>1, <1>2 DEF Taken
<1> HIDE DEF h, r
<1>6. /\ reads \in [Clients -> Seq(ProfileReads)] /\ reads[c] \in Seq(ProfileReads)
      /\ Len(reads[c]) \in Nat
  BY DEF NameInv, StateInv
<1>7. reads'[c] = Append(reads[c], r) /\ \A e \in Clients : e # c => reads'[e] = reads[e]
  BY <1>1, <1>6
<1>8. /\ \A i \in 1..Len(reads[c]) : i \in 1..Len(reads'[c]) /\ reads'[c][i] = reads[c][i]
      /\ Len(reads[c]) + 1 \in 1..Len(reads'[c]) /\ reads'[c][Len(reads[c]) + 1] = r
  BY <1>6, <1>7
<1>9. ASSUME NEW u \in Uids, user[c] = u PROVE EnsureOf(c, u)'
  <2>1. EnsureOf(c, u)
    BY <1>9 DEF CalmInv, EnsureInv
  <2>2. view[c].stage = "closed"
    BY <1>5, <2>1 DEF EnsureOf
  <2>3. view'[c].no = 0 /\ view'[c].stage = "closed"
    BY <1>1, <2>2 DEF NameInv, ViewInv
  <2>4. FetchReads(c)' = {} /\ FetchCalls(c)' = {}
    BY <2>3 DEF NameInv, FetchInv, FetchOf, FetchReads, FetchCalls
  <2>5. Shown(c, u) => Shown(c, u)'
    BY <1>3 DEF Grown
  <2>6. /\ \A i \in EnsureCalls(c, u)' : i + 1 \in EnsureCalls(c, u) /\ i \in Nat
        /\ \A i \in EnsureCalls(c, u) : i # 1 => i - 1 \in EnsureCalls(c, u)'
        /\ \A i \in Completing(c, u) : i # 1 => i - 1 \in Completing(c, u)'
        /\ \A i \in 1..Len(calls'[c]) : i + 1 \in 1..Len(calls[c]) /\ calls'[c][i] = calls[c][i + 1]
    BY <1>1, <1>2, TakenSets
  <2>7. (Shown(c, u) \/ EnsureReads(c, u) # {} \/ EnsureCalls(c, u) # {} \/ Completing(c, u) # {})'
    <3>1. CASE Shown(c, u)
      BY <2>5, <3>1
    <3>2. ASSUME NEW i \in EnsureReads(c, u) PROVE EnsureReads(c, u)' # {}
      <4>1. i \in EnsureReads(c, u)'
        BY <1>8 DEF EnsureReads
      <4>2. QED
        BY <4>1
    <3>3. ASSUME NEW i \in EnsureCalls(c, u) PROVE EnsureCalls(c, u)' # {}
      <4>1. i # 1
        BY <1>5 DEF EnsureCalls
      <4>2. QED
        BY <2>6, <4>1
    <3>4. ASSUME NEW i \in Completing(c, u)
          PROVE  Completing(c, u)' # {} \/ EnsureReads(c, u)' # {}
      <4>1. CASE i # 1
        BY <2>6, <4>1
      <4>2. CASE i = 1
        <5>1. h = u
          BY <1>5, <4>2 DEF Completing
        <5>2. Len(reads[c]) + 1 \in EnsureReads(c, u)'
          BY <1>4, <1>8, <5>1 DEF EnsureReads
        <5>3. QED
          BY <5>2
      <4>3. QED
        BY <4>1, <4>2
    <3>5. QED
      BY <2>1, <3>1, <3>2, <3>3, <3>4 DEF EnsureOf
  <2>8. ASSUME NEW i \in EnsureCalls(c, u)', Finds(calls'[c][i], u) PROVE Shown(c, u)'
    <3>1. i + 1 \in EnsureCalls(c, u) /\ calls'[c][i] = calls[c][i + 1]
      BY <2>6 DEF EnsureCalls
    <3>2. QED
      BY <2>1, <2>5, <2>8, <3>1 DEF EnsureOf
  <2>9. QED
    BY <2>3, <2>4, <2>7, <2>8 DEF EnsureOf
<1>10. \A e \in Clients : e # c => Still(e)
  BY <1>1, <1>2, <1>7 DEF Still, Taken
<1>11. user'[c] \in Uids => EnsureOf(c, user[c])'
  BY <1>1, <1>9
<1>12. EnsureInv'
  BY <1>3, <1>10, <1>11, EnsureFrom DEF CalmInv
<1>13. QED
  BY <1>2, <1>3, <1>12 DEF CalmInv

(* createOrUpdateUserInFirestore has found the profile, or writes one. *)
LEMMA RunEnsureCalm ==
    ASSUME NameInv, NameInv', CalmInv, NEW c \in Clients, RunEnsure(c)
    PROVE  /\ CalmInv' /\ Grown /\ Taken(c)
           /\ \/ Finds(Head(calls[c]), Head(calls[c]).tag.uid) /\ UNCHANGED queue
              \/ /\ ~Finds(Head(calls[c]), Head(calls[c]).tag.uid)
                 /\ Appended(c, Write(Profile(Head(calls[c]).tag.uid),
                                      NewProfile(Head(calls[c]).tag.uid, creations + 1), FALSE, None))
<1> DEFINE h == Head(calls[c]).tag.uid
           d == Profile(h)
           data == NewProfile(h, creations + 1)
           w == Write(d, data, FALSE, None)
<1>1. /\ calls[c] # <<>> /\ calls' = [calls EXCEPT ![c] = Tail(@)]
      /\ Head(calls[c]).kind = "read" /\ Head(calls[c]).tag.kind = "ensure"
      /\ UNCHANGED <<server, cache, sent, user, reads, view>>
      /\ \/ Finds(Head(calls[c]), h) /\ UNCHANGED queue
         \/ ~Finds(Head(calls[c]), h) /\ queue' = [queue EXCEPT ![c][user[c]] = Append(@, w)]
  BY DEF RunEnsure, NextCall, Finds, SetData
<1>2. Taken(c)
  BY <1>1, TakenHead
<1>3. h \in Uids /\ creations \in Nat /\ creations + 1 \in Nat /\ h = calls[c][1].tag.uid
      /\ Head(calls[c]) = calls[c][1]
  BY <1>2 DEF Taken, NameInv, StateInv
<1> HIDE DEF h
<1>4. data \in Document(d) /\ d \in Docs /\ None \in NameTag \cup {None}
  BY <1>3, NewProfileDocument, ProfilePlaces
<1>5. DOMAIN data = Fields
  BY DEF NewProfile
<1> HIDE DEF d, data
<1>6. w \in Writes /\ w.doc = d /\ w.data = data /\ ~w.merge /\ ~w.seen
  BY <1>4, NewWrite
<1> HIDE DEF w
<1>7. \/ Finds(Head(calls[c]), h) /\ UNCHANGED queue
      \/ ~Finds(Head(calls[c]), h) /\ Appended(c, w)
  <2>1. CASE queue' = [queue EXCEPT ![c][user[c]] = Append(@, w)]
    <3>1. queue' = [queue EXCEPT ![c][user[c]] = Append(queue[c][user[c]], w)]
      BY <2>1
    <3>2. Appended(c, w)
      BY <1>6, <3>1, AppendedWrite
    <3>3. QED
      BY <1>1, <3>2
  <2>2. QED
    BY <1>1, <2>1
<1>8. DocumentInv' /\ Grown
  <2>1. CASE UNCHANGED queue
    BY <1>1, <2>1, SameQueuesQuiet, QuietDocuments DEF CalmInv
  <2>2. CASE Appended(c, w)
    BY <1>1, <1>5, <1>6, <2>2, RequestDocuments DEF CalmInv
  <2>3. QED
    BY <1>7, <2>1, <2>2
<1>9. ASSUME NEW u \in Uids, user[c] = u PROVE EnsureOf(c, u)'
  <2>1. EnsureOf(c, u)
    BY <1>9 DEF CalmInv, EnsureInv
  <2>2. ASSUME h = u PROVE Shown(c, u)'
    <3>1. CASE Finds(Head(calls[c]), h)
      <4>1. 1 \in EnsureCalls(c, u) /\ Finds(calls[c][1], u)
        BY <1>1, <1>2, <1>3, <2>2, <3>1 DEF EnsureCalls, Taken
      <4>2. Shown(c, u)
        BY <2>1, <4>1 DEF EnsureOf
      <4>3. QED
        BY <1>8, <4>2 DEF Grown
    <3>2. CASE Appended(c, w)
      <4> DEFINE n == Len(queue[c][u]) + 1
      <4>1. n \in 1..Len(queue'[c][u]) /\ queue'[c][u][n] = w
        BY <1>9, <3>2 DEF Appended
      <4>2. n \in Pending(c, u)'
        BY <1>6, <2>2, <4>1 DEF Pending, d
      <4>3. QED
        BY <4>2 DEF Shown
    <3>3. QED
      BY <1>7, <3>1, <3>2
  <2>3. /\ calls[c][1].kind # "completion"
        /\ calls[c][1].tag.uid = u => Shown(c, u)'
    BY <1>1, <1>3, <2>2
  <2>4. QED
    BY <1>1, <1>2, <1>8, <2>1, <2>3, TakenEnsure
<1>10. \A e \in Clients : e # c => Still(e)
  BY <1>1, <1>2 DEF Still, Taken
<1>11. user'[c] \in Uids => EnsureOf(c, user[c])'
  BY <1>1, <1>9
<1>12. EnsureInv'
  BY <1>8, <1>10, <1>11, EnsureFrom DEF CalmInv
<1>13. QED
  BY <1>2, <1>7, <1>8, <1>12 DEF CalmInv, w, d, data, h

(* The form opens when the profile has been ensured. *)
LEMMA RunFetchCalm ==
    ASSUME NameInv, NameInv', CalmInv, NEW c \in Clients, RunFetch(c)
    PROVE  CalmInv' /\ Grown /\ Taken(c)
<1> DEFINE call == Head(calls[c])
           name == IF call.ok /\ Profile(call.tag.uid) \in DOMAIN call.docs
                   THEN NameOf(call.docs[Profile(call.tag.uid)]) ELSE view[c].name
           v == [view[c] EXCEPT !.stage = "form", !.name = name]
<1>1. /\ calls[c] # <<>> /\ calls' = [calls EXCEPT ![c] = Tail(@)]
      /\ call.kind = "read" /\ call.tag.kind = "fetch"
      /\ UNCHANGED <<server, cache, queue, sent, user, reads>>
  BY DEF RunFetch, NextCall
<1>2. Taken(c)
  BY <1>1, TakenHead
<1>3. DocumentInv' /\ Grown
  BY <1>1, SameQueuesQuiet, QuietDocuments DEF CalmInv
<1>4. view \in [Clients -> Views] /\ view[c] \in Views
  BY DEF NameInv, StateInv
<1>5. view' = view \/ (view[c].no = call.tag.no /\ view' = [view EXCEPT ![c] = v])
  BY <1>4 DEF RunFetch
<1>6. v.stage = "form" /\ v.no = view[c].no
  BY <1>4 DEF Views
<1> HIDE DEF v
<1>7. /\ \A e \in Clients : e # c => view'[e] = view[e]
      /\ view'[c].no = view[c].no
      /\ view'[c].stage = view[c].stage \/ (view'[c].stage = "form" /\ view[c].no = call.tag.no)
  BY <1>4, <1>5, <1>6
<1>8. call = calls[c][1] /\ 1 \in 1..Len(calls[c])
  BY <1>2 DEF Taken
<1> HIDE DEF call
<1>9. ASSUME NEW u \in Uids, user[c] = u PROVE EnsureOf(c, u)'
  <2>1. EnsureOf(c, u)
    BY <1>9 DEF CalmInv, EnsureInv
  <2>2. ASSUME view[c].no = call.tag.no
        PROVE  view[c].stage # "closed" /\ Shown(c, u) /\ EnsureReads(c, u) = {} /\ EnsureCalls(c, u) = {}
    <3>1. call.tag.no # 0
      BY <1>1, <1>8 DEF NameInv, FetchInv, FetchOf
    <3>2. view[c].stage # "closed"
      BY <2>2, <3>1 DEF NameInv, ViewInv
    <3>3. 1 \in FetchCalls(c)
      BY <1>1, <1>8, <2>2 DEF FetchCalls
    <3>4. EnsureReads(c, u) = {} /\ \A j \in EnsureCalls(c, u) : j < 1
      BY <2>1, <3>3 DEF EnsureOf
    <3>5. EnsureCalls(c, u) = {}
      BY <3>4 DEF EnsureCalls
    <3>6. Completing(c, u) = {}
      BY <2>1, <3>2 DEF EnsureOf, Completing
    <3>7. QED
      BY <2>1, <3>2, <3>4, <3>5, <3>6 DEF EnsureOf
  <2>3. calls[c][1].kind # "completion" /\ calls[c][1].tag.kind # "ensure"
    BY <1>1, <1>8
  <2>4. \/ view'[c].stage = view[c].stage
        \/ /\ view'[c].stage = "form" /\ view[c].stage # "closed"
           /\ Shown(c, u) /\ EnsureReads(c, u) = {} /\ EnsureCalls(c, u) = {}
    BY <1>7, <2>2
  <2>5. QED
    BY <1>1, <1>2, <1>3, <1>7, <2>1, <2>3, <2>4, TakenEnsure
<1>10. \A e \in Clients : e # c => Still(e)
  BY <1>1, <1>2, <1>7 DEF Still, Taken
<1>11. user'[c] \in Uids => EnsureOf(c, user[c])'
  BY <1>1, <1>9
<1>12. EnsureInv'
  BY <1>3, <1>10, <1>11, EnsureFrom DEF CalmInv
<1>13. QED
  BY <1>2, <1>3, <1>12 DEF CalmInv

(* updateUserInfo's handler writes a device, which is no profile. *)
LEMMA RunNameSavedCalm ==
    ASSUME NameInv, NameInv', CalmInv, NEW c \in Clients, RunNameSaved(c)
    PROVE  /\ CalmInv' /\ Grown /\ Taken(c)
           /\ \/ UNCHANGED queue
              \/ \E w \in Writes : Appended(c, w) /\ w.doc[1] # ProfilePath /\ w.tag = None
<1> DEFINE h == Head(calls[c]).tag.uid
           d == DeviceDoc(c, h)
           data == [f \in {"deviceName"} |-> c]
           w == Write(d, data, TRUE, None)
<1>1. /\ calls[c] # <<>> /\ calls' = [calls EXCEPT ![c] = Tail(@)]
      /\ Head(calls[c]).kind = "write"
      /\ UNCHANGED <<server, cache, sent, user, reads, view>>
      /\ UNCHANGED queue \/ queue' = [queue EXCEPT ![c][user[c]] = Append(@, w)]
  BY DEF RunNameSaved, NextCall, SetData
<1>2. Taken(c)
  BY <1>1, TakenHead
<1>3. h \in Uids /\ Head(calls[c]) = calls[c][1]
  BY <1>2 DEF Taken
<1> HIDE DEF h
<1>4. data \in Document(d) /\ d \in Docs /\ d[1] # ProfilePath /\ None \in NameTag \cup {None}
  BY <1>3, DeviceDocument, ProfilePlaces
<1> HIDE DEF d, data
<1>5. w \in Writes /\ w.doc = d /\ w.data = data /\ w.merge /\ ~w.seen /\ w.tag = None
  BY <1>4, NewWrite
<1> HIDE DEF w
<1>6. UNCHANGED queue \/ Appended(c, w)
  <2>1. CASE queue' = [queue EXCEPT ![c][user[c]] = Append(@, w)]
    <3>1. queue' = [queue EXCEPT ![c][user[c]] = Append(queue[c][user[c]], w)]
      BY <2>1
    <3>2. QED
      BY <1>5, <3>1, AppendedWrite
  <2>2. QED
    BY <1>1, <2>1
<1>7. DocumentInv' /\ Grown
  <2>1. CASE UNCHANGED queue
    BY <1>1, <2>1, SameQueuesQuiet, QuietDocuments DEF CalmInv
  <2>2. CASE Appended(c, w)
    <3>1. user[c] \in Uids => w.doc # Profile(user[c])
      BY <1>4, <1>5, ProfilePlaces
    <3>2. QED
      BY <1>1, <1>4, <1>5, <2>2, <3>1, RequestDocuments DEF CalmInv
  <2>3. QED
    BY <1>6, <2>1, <2>2
<1>8. ASSUME NEW u \in Uids, user[c] = u PROVE EnsureOf(c, u)'
  <2>1. EnsureOf(c, u)
    BY <1>8 DEF CalmInv, EnsureInv
  <2>2. calls[c][1].kind = "write"
    BY <1>1, <1>3
  <2>3. QED
    BY <1>1, <1>2, <1>7, <2>1, <2>2, TakenEnsure
<1>9. \A e \in Clients : e # c => Still(e)
  BY <1>1, <1>2 DEF Still, Taken
<1>10. user'[c] \in Uids => EnsureOf(c, user[c])'
  BY <1>1, <1>8
<1>11. EnsureInv'
  BY <1>7, <1>9, <1>10, EnsureFrom DEF CalmInv
<1>12. QED
  BY <1>2, <1>4, <1>5, <1>6, <1>7, <1>11 DEF CalmInv

LEMMA StillCalm ==
    ASSUME EnsureInv, Grown, UNCHANGED <<user, reads, calls, view>>
    PROVE  EnsureInv'
<1>1. \A e \in Clients : Still(e)
  BY DEF Still
<1> SUFFICES ASSUME NEW e \in Clients, user[e] \in Uids PROVE EnsureOf(e, user[e])'
  BY DEF EnsureInv
<1>2. PICK u \in Uids : u = user[e]
  OBVIOUS
<1>3. EnsureOf(e, u)
  BY <1>2 DEF EnsureInv
<1>4. EnsureOf(e, u)'
  BY <1>1, <1>3, StillEnsure
<1>5. QED
  BY <1>2, <1>4

LEMMA ConnectionCalm ==
    ASSUME NameInv, NameInv', CalmInv, NEW c \in Clients, GoOffline(c) \/ GoOnline(c), UNCHANGED appVars
    PROVE  CalmInv' /\ Grown
<1>1. UNCHANGED <<server, cache, user, reads, calls, view>>
  BY DEF GoOffline, GoOnline, appVars
<1>2. Quiet
  <2>1. CASE GoOffline(c)
    <3>1. \A e \in Clients, v \in Users :
              SameWrites(queue'[e][v], queue[e][v]) /\ NoneSeen(queue'[e][v], queue[e][v])
      BY <2>1, UnseenQueues DEF GoOffline
    <3>2. \A e \in Clients : sent'[e] = sent[e] \/ sent'[e] = 0
      BY <2>1 DEF GoOffline, NameInv, StateInv
    <3>3. QED
      BY <1>1, <3>1, <3>2 DEF Quiet
  <2>2. CASE GoOnline(c)
    BY <2>2, SameQueuesQuiet DEF GoOnline
  <2>3. QED
    BY <2>1, <2>2
<1>3. DocumentInv' /\ Grown
  BY <1>2, QuietDocuments DEF CalmInv
<1>4. EnsureInv'
  BY <1>1, <1>3, StillCalm DEF CalmInv
<1>5. QED
  BY <1>3, <1>4 DEF CalmInv

LEMMA CommitCalm ==
    ASSUME NameInv, NameInv', CalmInv, NEW c \in Clients, Commit(c), UNCHANGED appVars
    PROVE  CalmInv' /\ Grown
<1>1. DocumentInv' /\ Grown
  BY CommitDocuments DEF CalmInv
<1>2. EnsureInv'
  BY <1>1, StillCalm DEF CalmInv, Commit, appVars
<1>3. QED
  BY <1>1, <1>2 DEF CalmInv

(* The handler of the write that leaves the queue, if it has one. *)
Reported(c, ok) ==
    /\ \A e \in Clients : e # c => calls'[e] = calls[e]
    /\ \A i \in 1..Len(calls[c]) : i \in 1..Len(calls'[c]) /\ calls'[c][i] = calls[c][i]
    /\ \A i \in 1..Len(calls'[c]) :
           \/ i \in 1..Len(calls[c]) /\ calls'[c][i] = calls[c][i]
           \/ /\ Head(Active(c)).tag # None /\ calls'[c][i] = WriteCall(Head(Active(c)).tag, ok)
              /\ calls'[c][i].kind = "write" /\ calls'[c][i].ok = ok
              /\ calls'[c][i].tag = Head(Active(c)).tag /\ calls'[c][i].tag.kind = "name"

LEMMA ReportedCall ==
    ASSUME NameInv, NEW c \in Clients, NEW ok \in BOOLEAN, Left(c, ok)
    PROVE  Reported(c, ok)
<1> DEFINE tag == Head(Active(c)).tag
           k == WriteCall(tag, ok)
<1>1. Head(Active(c)) \in Writes
  BY LeftType
<1>2. tag \in NameTag \cup {None}
  BY <1>1, WriteFields
<1>3. calls' = IF tag = None THEN calls ELSE [calls EXCEPT ![c] = Append(calls[c], k)]
  BY DEF Left
<1>4. calls \in [Clients -> Seq(Handlers)] /\ calls[c] \in Seq(Handlers) /\ Len(calls[c]) \in Nat
  BY DEF NameInv, StateInv
<1> HIDE DEF tag
<1>5. CASE tag = None
  BY <1>3, <1>5 DEF Reported
<1>6. CASE tag # None
  <2>1. k.kind = "write" /\ k.ok = ok /\ k.tag = tag
    BY DEF WriteCall
  <2>2. tag.kind = "name"
    BY <1>2, <1>6 DEF NameTag
  <2> HIDE DEF k
  <2>3. calls'[c] = Append(calls[c], k) /\ \A e \in Clients : e # c => calls'[e] = calls[e]
    BY <1>3, <1>4, <1>6
  <2>4. /\ \A i \in 1..Len(calls[c]) : i \in 1..Len(calls'[c]) /\ calls'[c][i] = calls[c][i]
        /\ \A i \in 1..Len(calls'[c]) :
               (i \in 1..Len(calls[c]) /\ calls'[c][i] = calls[c][i]) \/ calls'[c][i] = k
    BY <1>4, <2>3
  <2>5. \A i \in 1..Len(calls'[c]) :
            \/ i \in 1..Len(calls[c]) /\ calls'[c][i] = calls[c][i]
            \/ /\ Head(Active(c)).tag # None /\ calls'[c][i] = WriteCall(Head(Active(c)).tag, ok)
               /\ calls'[c][i].kind = "write" /\ calls'[c][i].ok = ok
               /\ calls'[c][i].tag = Head(Active(c)).tag /\ calls'[c][i].tag.kind = "name"
    BY <1>6, <2>1, <2>2, <2>4 DEF k, tag
  <2>6. QED
    BY <2>3, <2>4, <2>5 DEF Reported
<1>7. QED
  BY <1>5, <1>6

LEMMA LeftCalm ==
    ASSUME NameInv, EnsureInv, Grown, NEW c \in Clients, NEW ok \in BOOLEAN, Left(c, ok),
           UNCHANGED <<user, view>>
    PROVE  EnsureInv'
<1>1. Reported(c, ok) /\ reads' = reads
  BY ReportedCall DEF Left
<1>2. /\ \A i \in 1..Len(calls[c]) : i \in 1..Len(calls'[c]) /\ calls'[c][i] = calls[c][i]
      /\ \A i \in 1..Len(calls'[c]) :
             \/ i \in 1..Len(calls[c]) /\ calls'[c][i] = calls[c][i]
             \/ calls'[c][i].kind = "write" /\ calls'[c][i].tag.kind = "name"
  BY <1>1 DEF Reported
<1>3. ASSUME NEW u \in Uids, user[c] = u PROVE EnsureOf(c, u)'
  <2>1. EnsureOf(c, u)
    BY <1>3 DEF EnsureInv
  <2>2. /\ EnsureReads(c, u)' = EnsureReads(c, u) /\ FetchReads(c)' = FetchReads(c)
    BY <1>1 DEF EnsureReads, FetchReads
  <2>3. /\ EnsureCalls(c, u)' = EnsureCalls(c, u) /\ Completing(c, u)' = Completing(c, u)
        /\ FetchCalls(c)' = FetchCalls(c)
    BY <1>2 DEF EnsureCalls, Completing, FetchCalls
  <2>4. Shown(c, u) => Shown(c, u)'
    BY DEF Grown
  <2>5. ASSUME NEW i \in EnsureCalls(c, u), Finds(calls'[c][i], u) PROVE Shown(c, u)'
    <3>1. calls'[c][i] = calls[c][i]
      BY <1>2 DEF EnsureCalls
    <3>2. QED
      BY <2>1, <2>4, <2>5, <3>1 DEF EnsureOf
  <2>6. view[c].stage # "closed" => \A i \in 1..Len(calls'[c]) : calls'[c][i].kind # "completion"
    BY <1>2, <2>1 DEF EnsureOf
  <2>7. QED
    BY <2>1, <2>2, <2>3, <2>4, <2>5, <2>6 DEF EnsureOf
<1>4. \A e \in Clients : e # c => Still(e)
  BY <1>1 DEF Still, Reported
<1>5. user'[c] \in Uids => EnsureOf(c, user[c])'
  BY <1>3
<1>6. QED
  BY <1>4, <1>5, EnsureFrom

LEMMA AcknowledgeCalm ==
    ASSUME NameInv, NameInv', CalmInv, NEW c \in Clients, Acknowledge(c), UNCHANGED appVars
    PROVE  CalmInv' /\ Grown /\ Left(c, TRUE) /\ Shortened(c)
<1>1. DocumentInv' /\ Grown /\ Left(c, TRUE) /\ Shortened(c)
  BY AcknowledgeDocuments DEF CalmInv
<1>2. UNCHANGED <<user, view>>
  BY DEF Acknowledge, appVars
<1>3. EnsureInv'
  BY <1>1, <1>2, LeftCalm DEF CalmInv
<1>4. QED
  BY <1>1, <1>3 DEF CalmInv

LEMMA RejectCalm ==
    ASSUME NameInv, NameInv', CalmInv, "write" \notin Denials, NEW c \in Clients, Reject(c),
           UNCHANGED appVars
    PROVE  /\ CalmInv' /\ Grown /\ Left(c, FALSE) /\ Shortened(c)
           /\ user[c] # Owner(Head(Active(c)).doc)
<1>1. DocumentInv' /\ Grown /\ Left(c, FALSE) /\ Shortened(c) /\ user[c] # Owner(Head(Active(c)).doc)
  BY RejectDocuments DEF CalmInv
<1>2. UNCHANGED <<user, view>>
  BY DEF Reject, appVars
<1>3. EnsureInv'
  BY <1>1, <1>2, LeftCalm DEF CalmInv
<1>4. QED
  BY <1>1, <1>3 DEF CalmInv

(* The handlers of reads that are answered. *)
LEMMA AnswerCalls ==
    ASSUME NEW r \in ProfileReads, NEW ok, NEW docs \in Answer
    PROVE  /\ ReadCall(r.tag, r.one \in ok, docs) \in Handlers
           /\ ReadCall(r.tag, r.one \in ok, docs).tag = r.tag
           /\ ReadCall(r.tag, r.one \in ok, docs).kind = "read"
           /\ (BOOLEAN \subseteq ok => ReadCall(r.tag, r.one \in ok, docs).ok)
           /\ ReadCall(r.tag, r.one \in ok, docs).docs = docs
<1>1. r.tag \in ReadTag /\ r.one \in BOOLEAN
  BY DEF ProfileReads
<1> DEFINE b == r.one \in ok
<1>2. b \in BOOLEAN /\ (BOOLEAN \subseteq ok => b)
  BY <1>1
<1> HIDE DEF b
<1>3. PICK k : k = ReadCall(r.tag, b, docs)
  OBVIOUS
<1>4. k \in ReadCalls /\ k.tag = r.tag /\ k.kind = "read" /\ (k.ok <=> b) /\ k.docs = docs
  BY <1>1, <1>2, <1>3 DEF ReadCall, ReadCalls
<1>5. QED
  BY <1>2, <1>3, <1>4 DEF Handlers, b

(* What is answered, in terms of reads and handlers of one client.  A new    *)
(* handler has the tag of a read of D.                                       *)
Answered(c, D, ok, docs) ==
    /\ \A e \in Clients : e # c => reads'[e] = reads[e] /\ calls'[e] = calls[e]
    /\ Len(calls[c]) \in Nat
    /\ \A i \in 1..Len(calls[c]) : i \in 1..Len(calls'[c]) /\ calls'[c][i] = calls[c][i]
    /\ \A i \in 1..Len(calls'[c]) :
           \/ i \in 1..Len(calls[c]) /\ calls'[c][i] = calls[c][i]
           \/ /\ i \in (Len(calls[c]) + 1)..Len(calls'[c])
              /\ calls'[c][i].kind = "read" /\ calls'[c][i].docs = docs
              /\ (BOOLEAN \subseteq ok => calls'[c][i].ok)
              /\ \E a \in 1..Len(reads[c]) : /\ reads[c][a].docs = D
                                             /\ reads[c][a].tag = calls'[c][i].tag
    /\ \A a \in 1..Len(reads[c]) :
           \/ \E b \in 1..Len(reads'[c]) : reads'[c][b] = reads[c][a]
           \/ \E i \in 1..Len(calls'[c]) : /\ calls'[c][i].kind = "read"
                                           /\ calls'[c][i].tag = reads[c][a].tag
    /\ \A b \in 1..Len(reads'[c]) :
           reads'[c][b].docs # D /\ \E a \in 1..Len(reads[c]) : reads[c][a] = reads'[c][b]
    /\ \A k, l \in 1..Len(reads'[c]) : k < l => InOrder(reads'[c], k, l, reads[c])
    /\ \A k, l \in (Len(calls[c]) + 1)..Len(calls'[c]) : k < l =>
           \E i, j \in 1..Len(reads[c]) : /\ i < j
                                          /\ calls'[c][k].tag = reads[c][i].tag
                                          /\ calls'[c][l].tag = reads[c][j].tag

LEMMA ResolveAnswered ==
    ASSUME NameInv, NEW c \in Clients, NEW D, NEW ok, NEW docs \in Answer,
           Resolve(c, D, ok, docs)
    PROVE  Answered(c, D, ok, docs)
<1>1. reads \in [Clients -> Seq(ProfileReads)] /\ calls \in [Clients -> Seq(Handlers)]
  BY DEF NameInv, StateInv
<1>2. ASSUME NEW r \in ProfileReads
      PROVE  /\ ReadCall(r.tag, r.one \in ok, docs) \in Handlers
             /\ ReadCall(r.tag, r.one \in ok, docs).tag = r.tag
             /\ ReadCall(r.tag, r.one \in ok, docs).kind = "read"
             /\ (BOOLEAN \subseteq ok => ReadCall(r.tag, r.one \in ok, docs).ok)
             /\ ReadCall(r.tag, r.one \in ok, docs).docs = docs
  BY AnswerCalls, Zenon
<1>3. Resolved(ProfileReads, Handlers, c, D, ok, docs)
  BY <1>1, <1>2, ResolveEffect
<1>4. /\ \A k, l \in 1..Len(reads'[c]) : k < l => InOrder(reads'[c], k, l, reads[c])
      /\ \A k, l \in (Len(calls[c]) + 1)..Len(calls'[c]) : k < l =>
             \E i, j \in 1..Len(reads[c]) :
                 /\ i < j
                 /\ calls'[c][k] = ReadCall(reads[c][i].tag, reads[c][i].one \in ok, docs)
                 /\ calls'[c][l] = ReadCall(reads[c][j].tag, reads[c][j].one \in ok, docs)
  BY <1>1, <1>2, ResolveOrder
<1>5. \A i \in 1..Len(reads[c]) : reads[c][i] \in ProfileReads
  BY <1>1
<1>6. ASSUME NEW k \in (Len(calls[c]) + 1)..Len(calls'[c]),
             NEW l \in (Len(calls[c]) + 1)..Len(calls'[c]), k < l
      PROVE  \E i, j \in 1..Len(reads[c]) : /\ i < j
                                            /\ calls'[c][k].tag = reads[c][i].tag
                                            /\ calls'[c][l].tag = reads[c][j].tag
  <2>1. PICK i, j \in 1..Len(reads[c]) :
            /\ i < j
            /\ calls'[c][k] = ReadCall(reads[c][i].tag, reads[c][i].one \in ok, docs)
            /\ calls'[c][l] = ReadCall(reads[c][j].tag, reads[c][j].one \in ok, docs)
    BY <1>4, <1>6
  <2>2. calls'[c][k].tag = reads[c][i].tag
    BY <1>2, <1>5, <2>1
  <2>3. calls'[c][l].tag = reads[c][j].tag
    BY <1>2, <1>5, <2>1
  <2>4. QED
    BY <2>1, <2>2, <2>3
<1>7. /\ \A e \in Clients : e # c => reads'[e] = reads[e] /\ calls'[e] = calls[e]
      /\ Len(calls[c]) \in Nat /\ Len(calls'[c]) \in Nat /\ Len(calls[c]) <= Len(calls'[c])
      /\ \A i \in 1..Len(calls[c]) : calls'[c][i] = calls[c][i]
  BY <1>3 DEF Resolved
<1>8. ASSUME NEW i \in 1..Len(calls'[c])
      PROVE  \/ i \in 1..Len(calls[c]) /\ calls'[c][i] = calls[c][i]
             \/ /\ i \in (Len(calls[c]) + 1)..Len(calls'[c])
                /\ calls'[c][i].kind = "read" /\ calls'[c][i].docs = docs
                /\ (BOOLEAN \subseteq ok => calls'[c][i].ok)
                /\ \E a \in 1..Len(reads[c]) : /\ reads[c][a].docs = D
                                               /\ reads[c][a].tag = calls'[c][i].tag
  <2>1. CASE i \in 1..Len(calls[c])
    BY <1>7, <2>1
  <2>2. CASE i \notin 1..Len(calls[c])
    <3>1. i \in (Len(calls[c]) + 1)..Len(calls'[c])
      BY <1>7, <2>2
    <3>2. PICK r \in ProfileReads : /\ InSeq(reads[c], r) /\ r.docs = D
                                    /\ calls'[c][i] = ReadCall(r.tag, r.one \in ok, docs)
      BY <1>3, <3>1 DEF Resolved
    <3>3. /\ calls'[c][i].tag = r.tag /\ calls'[c][i].kind = "read" /\ calls'[c][i].docs = docs
          /\ (BOOLEAN \subseteq ok => calls'[c][i].ok)
      BY <1>2, <3>2
    <3>4. \E a \in 1..Len(reads[c]) : reads[c][a].docs = D /\ reads[c][a].tag = calls'[c][i].tag
      BY <3>2, <3>3 DEF InSeq
    <3>5. QED
      BY <3>1, <3>3, <3>4
  <2>3. QED
    BY <2>1, <2>2
<1>9. ASSUME NEW a \in 1..Len(reads[c])
      PROVE  \/ \E b \in 1..Len(reads'[c]) : reads'[c][b] = reads[c][a]
             \/ \E i \in 1..Len(calls'[c]) : /\ calls'[c][i].kind = "read"
                                             /\ calls'[c][i].tag = reads[c][a].tag
  <2>1. InSeq(reads[c], reads[c][a])
    BY DEF InSeq
  <2>2. CASE reads[c][a].docs # D
    <3>1. InSeq(reads'[c], reads[c][a])
      BY <1>3, <2>1, <2>2 DEF Resolved
    <3>2. QED
      BY <3>1 DEF InSeq
  <2>3. CASE reads[c][a].docs = D
    <3>1. InSeq(calls'[c], ReadCall(reads[c][a].tag, reads[c][a].one \in ok, docs))
      BY <1>3, <2>1, <2>3 DEF Resolved
    <3>2. PICK i \in 1..Len(calls'[c]) :
              calls'[c][i] = ReadCall(reads[c][a].tag, reads[c][a].one \in ok, docs)
      BY <3>1 DEF InSeq
    <3>3. calls'[c][i].kind = "read" /\ calls'[c][i].tag = reads[c][a].tag
      BY <1>2, <1>5, <3>2
    <3>4. QED
      BY <3>3
  <2>4. QED
    BY <2>2, <2>3
<1>10. ASSUME NEW b \in 1..Len(reads'[c])
       PROVE  reads'[c][b].docs # D /\ \E a \in 1..Len(reads[c]) : reads[c][a] = reads'[c][b]
  <2>1. InSeq(reads'[c], reads'[c][b])
    BY DEF InSeq
  <2>2. InSeq(reads[c], reads'[c][b]) /\ reads'[c][b].docs # D
    BY <1>3, <2>1 DEF Resolved
  <2>3. QED
    BY <2>2 DEF InSeq
<1>11. \A i \in 1..Len(calls[c]) : i \in 1..Len(calls'[c]) /\ calls'[c][i] = calls[c][i]
  BY <1>7
<1>12. QED
  BY <1>4, <1>6, <1>7, <1>8, <1>9, <1>10, <1>11 DEF Answered

(* Reads are answered, those of a sign-in before those of a view opened      *)
(* later.                                                                    *)
LEMMA AnsweredCalm ==
    ASSUME NameInv, EnsureInv, Grown, ~Overlap, NEW c \in Clients, NEW D, NEW ok, NEW docs,
           Answered(c, D, ok, docs), UNCHANGED <<user, view>>,
           \A u \in Uids : user[c] = u /\ Profile(u) \in DOMAIN docs => Shown(c, u)'
    PROVE  EnsureInv'
<1>0. \A k, l \in (Len(calls[c]) + 1)..Len(calls'[c]) : k < l =>
          \E i, j \in 1..Len(reads[c]) : /\ i < j
                                         /\ calls'[c][k].tag = reads[c][i].tag
                                         /\ calls'[c][l].tag = reads[c][j].tag
  BY DEF Answered
<1>1. /\ \A i \in 1..Len(calls[c]) : i \in 1..Len(calls'[c]) /\ calls'[c][i] = calls[c][i]
      /\ \A b \in 1..Len(reads'[c]) :
             reads'[c][b].docs # D /\ \E a \in 1..Len(reads[c]) : reads[c][a] = reads'[c][b]
      /\ Len(calls[c]) \in Nat
  BY DEF Answered
<1>2. ASSUME NEW i \in 1..Len(calls'[c]), i \notin 1..Len(calls[c])
      PROVE  /\ i \in (Len(calls[c]) + 1)..Len(calls'[c])
             /\ calls'[c][i].kind = "read" /\ calls'[c][i].docs = docs
             /\ \E a \in 1..Len(reads[c]) : reads[c][a].docs = D /\ reads[c][a].tag = calls'[c][i].tag
  BY <1>2 DEF Answered
<1>3. \A i \in 1..Len(reads[c]) : reads[c][i] \in ProfileReads
  BY DEF NameInv, StateInv
<1>4. ASSUME NEW u \in Uids, user[c] = u PROVE EnsureOf(c, u)'
  <2>1. EnsureOf(c, u)
    BY <1>4 DEF EnsureInv
  <2>2. Shown(c, u) => Shown(c, u)'
    BY DEF Grown
  <2>3. /\ EnsureCalls(c, u) \subseteq EnsureCalls(c, u)'
        /\ Completing(c, u) \subseteq Completing(c, u)'
    BY <1>1 DEF EnsureCalls, Completing
  <2>4. ASSUME NEW b \in EnsureReads(c, u)' PROVE EnsureReads(c, u) # {}
    <3>1. PICK a \in 1..Len(reads[c]) : reads[c][a] = reads'[c][b]
      BY <1>1 DEF EnsureReads
    <3>2. a \in EnsureReads(c, u)
      BY <3>1 DEF EnsureReads
    <3>3. QED
      BY <3>2
  (* A new handler of an ensure read. *)
  <2>5. ASSUME NEW i \in EnsureCalls(c, u)'
        PROVE  \/ i \in EnsureCalls(c, u) /\ calls'[c][i] = calls[c][i]
               \/ i \in (Len(calls[c]) + 1)..Len(calls'[c]) /\ EnsureReads(c, u) # {}
    <3>1. CASE i \in 1..Len(calls[c])
      BY <1>1, <3>1 DEF EnsureCalls
    <3>2. CASE i \notin 1..Len(calls[c])
      <4>1. i \in 1..Len(calls'[c]) /\ calls'[c][i].tag.kind = "ensure" /\ calls'[c][i].tag.uid = u
        BY DEF EnsureCalls
      <4>2. PICK a \in 1..Len(reads[c]) : reads[c][a].tag = calls'[c][i].tag
        BY <1>2, <3>2, <4>1
      <4>3. a \in EnsureReads(c, u)
        BY <4>1, <4>2 DEF EnsureReads
      <4>4. QED
        BY <1>2, <3>2, <4>1, <4>3
    <3>3. QED
      BY <3>1, <3>2
  <2>6. (Shown(c, u) \/ EnsureReads(c, u) # {} \/ EnsureCalls(c, u) # {} \/ Completing(c, u) # {})'
    <3>1. ASSUME NEW a \in EnsureReads(c, u) PROVE EnsureReads(c, u)' # {} \/ EnsureCalls(c, u)' # {}
      <4>1. a \in 1..Len(reads[c]) /\ reads[c][a].tag.kind = "ensure" /\ reads[c][a].tag.uid = u
        BY DEF EnsureReads
      <4>2. ASSUME NEW b \in 1..Len(reads'[c]), reads'[c][b] = reads[c][a]
            PROVE  b \in EnsureReads(c, u)'
        BY <4>1, <4>2 DEF EnsureReads
      <4>3. ASSUME NEW i \in 1..Len(calls'[c]), calls'[c][i].kind = "read",
                   calls'[c][i].tag = reads[c][a].tag
            PROVE  i \in EnsureCalls(c, u)'
        BY <4>1, <4>3 DEF EnsureCalls
      <4>4. \/ \E b \in 1..Len(reads'[c]) : reads'[c][b] = reads[c][a]
            \/ \E i \in 1..Len(calls'[c]) : /\ calls'[c][i].kind = "read"
                                            /\ calls'[c][i].tag = reads[c][a].tag
        BY <4>1 DEF Answered
      <4>5. QED
        BY <4>2, <4>3, <4>4
    <3>2. QED
      BY <2>1, <2>2, <2>3, <3>1 DEF EnsureOf
  <2>7. ASSUME NEW i \in EnsureCalls(c, u)', Finds(calls'[c][i], u) PROVE Shown(c, u)'
    <3>1. CASE i \in EnsureCalls(c, u) /\ calls'[c][i] = calls[c][i]
      BY <2>1, <2>2, <2>7, <3>1 DEF EnsureOf
    <3>2. CASE i \in (Len(calls[c]) + 1)..Len(calls'[c])
      <4>1. i \in 1..Len(calls'[c]) /\ i \notin 1..Len(calls[c])
        BY <1>1, <3>2 DEF EnsureCalls
      <4>2. Profile(u) \in DOMAIN docs
        BY <1>2, <2>7, <4>1 DEF Finds
      <4>3. QED
        BY <1>4, <4>2
    <3>3. QED
      BY <2>5, <3>1, <3>2
  <2>8. view[c].stage # "closed" => \A i \in 1..Len(calls'[c]) : calls'[c][i].kind # "completion"
    BY <1>1, <1>2, <2>1 DEF EnsureOf
  <2>9. view[c].stage = "form" =>
            Shown(c, u)' /\ EnsureReads(c, u)' = {} /\ EnsureCalls(c, u)' = {}
    BY <2>1, <2>2, <2>4, <2>5 DEF EnsureOf
  <2>10. ASSUME NEW i \in FetchReads(c)', NEW j \in EnsureReads(c, u)' PROVE j < i
    <3>1. /\ i \in 1..Len(reads'[c]) /\ reads'[c][i].tag.kind = "fetch"
          /\ reads'[c][i].tag.no = view[c].no
          /\ j \in 1..Len(reads'[c]) /\ reads'[c][j].tag.kind = "ensure" /\ reads'[c][j].tag.uid = u
      BY DEF FetchReads, EnsureReads
    <3>2. ASSUME i < j PROVE FALSE
      <4>1. PICK a, b \in 1..Len(reads[c]) : a < b /\ reads[c][a] = reads'[c][i] /\ reads[c][b] = reads'[c][j]
        BY <3>1, <3>2 DEF Answered, InOrder
      <4>2. a \in FetchReads(c) /\ b \in EnsureReads(c, u)
        BY <3>1, <4>1 DEF FetchReads, EnsureReads
      <4>3. b < a
        BY <2>1, <4>2 DEF EnsureOf
      <4>4. QED
        BY <4>1, <4>3
    <3>3. i # j
      BY <3>1
    <3>4. QED
      BY <3>1, <3>2, <3>3
  <2>11. ASSUME NEW i \in FetchCalls(c)'
         PROVE  EnsureReads(c, u)' = {} /\ \A j \in EnsureCalls(c, u)' : j < i
    <3>1. /\ i \in 1..Len(calls'[c]) /\ calls'[c][i].tag.kind = "fetch"
          /\ calls'[c][i].tag.no = view[c].no
      BY DEF FetchCalls
    <3>2. CASE i \in 1..Len(calls[c])
      <4>1. i \in FetchCalls(c)
        BY <1>1, <3>1, <3>2 DEF FetchCalls
      <4>2. EnsureReads(c, u) = {} /\ \A j \in EnsureCalls(c, u) : j < i
        BY <2>1, <4>1 DEF EnsureOf
      <4>3. QED
        BY <2>4, <2>5, <4>2
    <3>3. CASE i \notin 1..Len(calls[c])
      <4>1. PICK a \in 1..Len(reads[c]) : reads[c][a].docs = D /\ reads[c][a].tag = calls'[c][i].tag
        BY <1>2, <3>1, <3>3
      <4>2. a \in FetchReads(c)
        BY <3>1, <4>1 DEF FetchReads
      <4>3. D = {Profile(u)}
        <5>1. reads[c][a].docs = {Profile(reads[c][a].tag.uid)}
          BY <1>3 DEF ProfileReads
        <5>2. /\ FetchOf(c, reads[c][a].tag) /\ reads[c][a].tag.kind = "fetch"
              /\ reads[c][a].tag.no = view[c].no
          BY <3>1, <4>1 DEF NameInv, FetchInv
        <5>3. reads[c][a].tag.uid = view[c].viewer /\ view[c].no # 0
          BY <5>2 DEF FetchOf
        <5>4. u = view[c].viewer
          BY <1>4, <5>3, FirestoreAssumption DEF NameInv, ViewInv
        <5>5. QED
          BY <4>1, <5>1, <5>3, <5>4
      <4>4. EnsureReads(c, u)' = {}
        <5> SUFFICES ASSUME NEW b \in EnsureReads(c, u)' PROVE FALSE
          OBVIOUS
        <5>1. b \in 1..Len(reads'[c]) /\ reads'[c][b].tag.uid = u
          BY DEF EnsureReads
        <5>2. reads'[c][b] \in ProfileReads /\ reads'[c][b].docs # D
          BY <1>1, <1>3, <5>1
        <5>3. QED
          BY <4>3, <5>1, <5>2 DEF ProfileReads
      <4>5. i \in (Len(calls[c]) + 1)..Len(calls'[c])
        BY <1>2, <3>1, <3>3
      <4>6. ASSUME NEW j \in EnsureCalls(c, u)' PROVE j < i
        <5>1. /\ j \in 1..Len(calls'[c]) /\ calls'[c][j].tag.kind = "ensure"
              /\ calls'[c][j].tag.uid = u
          BY DEF EnsureCalls
        <5>2. CASE j \in 1..Len(calls[c])
          BY <1>1, <4>5, <5>2
        <5>3. CASE j \notin 1..Len(calls[c])
          <6>1. j \in (Len(calls[c]) + 1)..Len(calls'[c])
            BY <1>2, <5>1, <5>3
          <6>2. ASSUME i < j PROVE FALSE
            <7>1. PICK m, n \in 1..Len(reads[c]) : /\ m < n /\ calls'[c][i].tag = reads[c][m].tag
                                                   /\ calls'[c][j].tag = reads[c][n].tag
              BY <1>0, <4>5, <6>1, <6>2
            <7>2. m \in FetchReads(c) /\ n \in EnsureReads(c, u)
              BY <3>1, <5>1, <7>1 DEF FetchReads, EnsureReads
            <7>3. n < m
              BY <2>1, <7>2 DEF EnsureOf
            <7>4. QED
              BY <7>1, <7>3
          <6>3. i # j
            BY <3>1, <5>1
          <6>4. QED
            BY <1>1, <4>5, <6>1, <6>2, <6>3
        <5>4. QED
          BY <5>2, <5>3
      <4>7. QED
        BY <4>4, <4>6
    <3>4. QED
      BY <3>2, <3>3
  <2>12. QED
    BY <2>6, <2>7, <2>8, <2>9, <2>10, <2>11 DEF EnsureOf
<1>5. \A e \in Clients : e # c => Still(e)
  BY DEF Still, Answered
<1>6. user'[c] \in Uids => EnsureOf(c, user[c])'
  BY <1>4
<1>7. QED
  BY <1>5, <1>6, EnsureFrom

(* A profile that is found with no write pending was there. *)
LEMMA SnapshotFinds ==
    ASSUME NameInv, NEW c \in Clients, NEW u \in Uids, user[c] = u, Pending(c, u) = {},
           NEW D, NEW base, Profile(u) \in DOMAIN Snapshot(c, D, base)
    PROVE  Profile(u) \in D /\ base[Profile(u)] # Absent
<1>1. Profile(u) \in D /\ LocalView(c, Profile(u), base[Profile(u)]) # Absent
  BY DEF Snapshot
<1>2. Len(queue[c][user[c]]) \in Nat /\ u \in Users
  BY WriteAt DEF Users
<1>3. \A i \in 1..Len(queue[c][user[c]]) : queue[c][user[c]][i].doc # Profile(u)
  BY DEF Pending
<1> DEFINE x == base[Profile(u)]
<1>4. LocalView(c, Profile(u), x) = x
  <2> HIDE DEF x
  <2>1. QED
    BY <1>2, <1>3, LocalViewUnwritten
<1>5. QED
  BY <1>1, <1>4

LEMMA SynchroniseCalm ==
    ASSUME NameInv, NameInv', CalmInv, ~Overlap, NEW c \in Clients, NEW D \in Queries(c),
           Synchronise(c, D), UNCHANGED appVars
    PROVE  /\ CalmInv' /\ Grown /\ Answered(c, D, BOOLEAN, Snapshot(c, D, server))
           /\ \A e \in Clients, u \in Users : SameWrites(queue'[e][u], queue[e][u])
<1> DEFINE docs == Snapshot(c, D, server)
<1>1. /\ DocumentInv' /\ Grown
      /\ \A e \in Clients, u \in Users : SameWrites(queue'[e][u], queue[e][u])
  BY SynchroniseDocuments DEF CalmInv
<1>2. /\ Resolve(c, D, BOOLEAN, docs) /\ UNCHANGED <<server, user, view>>
      /\ cache' = [cache EXCEPT ![c] = [d \in Docs |-> IF d \in D THEN server[d] ELSE @[d]]]
  BY DEF Synchronise, ApplyRemoteEvent, appVars
<1>3. D \in SUBSET Docs
  BY QueryDocs
<1>4. docs \in Answer
  BY <1>3, SnapshotAnswer DEF NameInv, StateInv
<1>5. ASSUME NEW u \in Uids, user[c] = u, Profile(u) \in DOMAIN docs PROVE Shown(c, u)'
  <2>1. CASE Pending(c, u) # {}
    BY <1>1, <2>1 DEF Grown, Shown
  <2>2. CASE Pending(c, u) = {}
    <3>1. Profile(u) \in D /\ server[Profile(u)] # Absent
      BY <1>5, <2>2, SnapshotFinds
    <3>2. cache'[c][Profile(u)] = server[Profile(u)]
      BY <1>2, <1>3, <3>1 DEF NameInv, StateInv
    <3>3. QED
      BY <3>1, <3>2 DEF Shown
  <2>3. QED
    BY <2>1, <2>2
<1> HIDE DEF docs
<1>6. Answered(c, D, BOOLEAN, docs)
  BY <1>2, <1>4, ResolveAnswered
<1>7. EnsureInv'
  <2>1. \A u \in Uids : user[c] = u /\ Profile(u) \in DOMAIN docs => Shown(c, u)'
    BY <1>5
  <2>2. QED
    BY <1>1, <1>2, <1>6, <2>1, AnsweredCalm DEF CalmInv
<1>8. QED
  BY <1>1, <1>6, <1>7 DEF CalmInv, docs

LEMMA UnansweredCalm ==
    ASSUME NameInv, NameInv', CalmInv, ~Overlap, NEW c \in Clients, NEW D \in Queries(c),
           ReadFromCache(c, D) \/ ReadDenied(c, D), UNCHANGED appVars
    PROVE  CalmInv' /\ Grown
<1>1. UNCHANGED <<server, cache, queue, sent, user, view>>
  BY DEF ReadFromCache, ReadDenied, appVars
<1>2. DocumentInv' /\ Grown
  BY <1>1, SameQueuesQuiet, QuietDocuments DEF CalmInv
<1>3. D \in SUBSET Docs
  BY QueryDocs
<1>4. PICK ok : \E docs \in Answer :
          /\ Resolve(c, D, ok, docs)
          /\ \A u \in Uids : user[c] = u /\ Profile(u) \in DOMAIN docs => Shown(c, u)
  <2>1. CASE ReadFromCache(c, D)
    <3> DEFINE docs == Snapshot(c, D, cache[c])
               ok == IF DOMAIN docs = {} THEN {FALSE} ELSE BOOLEAN
    <3>1. Resolve(c, D, ok, docs)
      BY <2>1 DEF ReadFromCache
    <3>2. docs \in Answer
      BY <1>3, SnapshotAnswer DEF NameInv, StateInv
    <3>3. ASSUME NEW u \in Uids, user[c] = u, Profile(u) \in DOMAIN docs PROVE Shown(c, u)
      <4>1. CASE Pending(c, u) # {}
        BY <4>1 DEF Shown
      <4>2. CASE Pending(c, u) = {}
        BY <3>3, <4>2, SnapshotFinds DEF Shown
      <4>3. QED
        BY <4>1, <4>2
    <3> HIDE DEF docs, ok
    <3>4. QED
      BY <3>1, <3>2, <3>3
  <2>2. CASE ReadDenied(c, D)
    <3>1. Resolve(c, D, {}, <<>>)
      BY <2>2 DEF ReadDenied
    <3>2. <<>> \in [{} -> {Absent} \cup Documents] /\ {} \in SUBSET Docs /\ DOMAIN <<>> = {}
      OBVIOUS
    <3>3. <<>> \in Answer
      BY <3>2 DEF Answer
    <3>4. QED
      BY <3>1, <3>2, <3>3
  <2>3. QED
    BY <2>1, <2>2
<1>5. PICK docs \in Answer :
          /\ Resolve(c, D, ok, docs)
          /\ \A u \in Uids : user[c] = u /\ Profile(u) \in DOMAIN docs => Shown(c, u)
  BY <1>4
<1>6. Answered(c, D, ok, docs)
  BY <1>5, ResolveAnswered
<1>7. \A u \in Uids : user[c] = u /\ Profile(u) \in DOMAIN docs => Shown(c, u)'
  BY <1>2, <1>5 DEF Grown
<1>8. EnsureInv'
  BY <1>1, <1>2, <1>6, <1>7, AnsweredCalm DEF CalmInv
<1>9. QED
  BY <1>2, <1>8 DEF CalmInv

-----------------------------------------------------------------------------
LEMMA CalmInit == Init => CalmInv
<1> SUFFICES ASSUME Init PROVE CalmInv
  OBVIOUS
<1> USE DEF Init, FirestoreInit
<1>1. \A c \in Clients, u \in Users : Len(queue[c][u]) = 0
  OBVIOUS
<1>2. WriteInv
  BY <1>1 DEF WriteInv
<1>3. MergeInv
  BY <1>1 DEF MergeInv, Pending, Users
<1>4. KnownInv
  <2>1. \A c \in Clients : Len(Active(c)) = 0
    BY <1>1 DEF Active, Users
  <2>2. \A c \in Clients, d \in Docs : cache[c][d] = Absent
    OBVIOUS
  <2>3. QED
    BY <1>1, <2>1, <2>2 DEF KnownInv
<1>5. CompleteProfile
  <2> SUFFICES ASSUME NEW u \in Uids, server[Profile(u)] # Absent
               PROVE  DOMAIN server[Profile(u)] = Fields
    BY DEF CompleteProfile
  <2>1. Profile(u) \in Docs
    BY ProfilePlaces
  <2>2. server[Profile(u)] = StoredProfile(Profile(u)[2])
    BY <2>1
  <2>3. QED
    BY <2>2 DEF StoredProfile, NewProfile
<1>6. EnsureInv
  BY FirestoreAssumption DEF EnsureInv
<1>7. QED
  BY <1>2, <1>3, <1>4, <1>5, <1>6 DEF CalmInv, DocumentInv

LEMMA CalmStep ==
    ASSUME ~Overlap, "write" \notin Denials, NameInv, NameInv', CalmInv, [Next]_vars
    PROVE  CalmInv' /\ Grown
<1>1. CASE UNCHANGED vars
  <2>1. UNCHANGED <<server, cache, queue, sent, user, reads, calls, view>>
    BY <1>1 DEF vars, fsVars, appVars
  <2>2. DocumentInv' /\ Grown
    BY <2>1, SameQueuesQuiet, QuietDocuments DEF CalmInv
  <2>3. EnsureInv'
    BY <2>1, <2>2, StillCalm DEF CalmInv
  <2>4. QED
    BY <2>2, <2>3 DEF CalmInv
<1>2. ASSUME NEW c \in Clients, People(c) PROVE CalmInv' /\ Grown
  <2>1. ASSUME NEW u \in Uids, SignIn(c, u) PROVE CalmInv' /\ Grown
    BY <2>1, SignInCalm
  <2>2. CASE SignOut(c) \/ ForcedSignOut(c)
    BY <2>2, SignOutCalm
  <2>3. CASE Relaunch(c)
    BY <2>3, RelaunchCalm
  <2>4. CASE OpenMenu(c) \/ CloseMenu(c)
    BY <2>4, MenuCalm
  <2>5. CASE OpenView(c)
    BY <2>5, OpenViewCalm
  <2>6. ASSUME NEW name \in Uids \cup {Blank}, TapUpdate(c, name) PROVE CalmInv' /\ Grown
    BY <2>6, TapUpdateCalm
  <2>7. QED
    BY <1>2, <2>1, <2>2, <2>3, <2>4, <2>5, <2>6 DEF People
<1>3. ASSUME NEW c \in Clients, RunCall(c) PROVE CalmInv' /\ Grown
  BY <1>3, RunCompletionCalm, RunEnsureCalm, RunFetchCalm, RunNameSavedCalm DEF RunCall
<1>4. ASSUME NEW c \in Clients, FirestoreStep(c), UNCHANGED appVars PROVE CalmInv' /\ Grown
  <2>1. CASE Commit(c)
    BY <1>4, <2>1, CommitCalm
  <2>2. CASE Acknowledge(c)
    BY <1>4, <2>2, AcknowledgeCalm
  <2>3. ASSUME NEW D \in Queries(c), Synchronise(c, D) PROVE CalmInv' /\ Grown
    BY <1>4, <2>3, SynchroniseCalm
  <2>4. CASE Reject(c)
    BY <1>4, <2>4, RejectCalm
  <2>5. ASSUME NEW D \in Queries(c), ReadFromCache(c, D) \/ ReadDenied(c, D)
        PROVE  CalmInv' /\ Grown
    BY <1>4, <2>5, UnansweredCalm
  <2>6. CASE GoOffline(c) \/ GoOnline(c)
    BY <1>4, <2>6, ConnectionCalm
  <2>7. QED
    BY <1>4, <2>1, <2>2, <2>3, <2>4, <2>5, <2>6 DEF FirestoreStep, Answers, Faults
<1>5. QED
  BY <1>1, <1>2, <1>3, <1>4 DEF Next

(* When people wait until a sign-in is complete and the server refuses no    *)
(* write of an owner, a profile on the server always has all its fields, for *)
(* any number of devices, accounts, sign-ins and saves: updateUserInfo's     *)
(* merge never reaches the server before the document that                   *)
(* createOrUpdateUserInFirestore writes.  Refused reads, lost connections    *)
(* and acknowledgements, forced sign-outs and restarts included.             *)
THEOREM CalmCompleteProfile ==
    ASSUME ~Overlap, "write" \notin Denials
    PROVE  Spec => []CompleteProfile
<1>1. Init => NameInv /\ CalmInv
  BY NameInit, CalmInit
<1>2. NameInv /\ CalmInv /\ [Next]_vars => NameInv' /\ CalmInv'
  BY NameStep, CalmStep
<1>3. CalmInv => CompleteProfile
  BY DEF CalmInv, DocumentInv
<1>4. QED
  BY <1>1, <1>2, <1>3, PTL DEF Spec

-----------------------------------------------------------------------------
(* SavedInv, step by step.                                                   *)

OneClient == Clients # {} /\ \A c, e \in Clients : c = e

(* Writes are where they were, or have no handler. *)
Carried ==
    \A c \in Clients, u \in Users : \A i \in 1..Len(queue'[c][u]) :
        \/ /\ i \in 1..Len(queue[c][u]) /\ queue'[c][u][i].doc = queue[c][u][i].doc
           /\ queue'[c][u][i].data = queue[c][u][i].data
           /\ queue'[c][u][i].tag \in {queue[c][u][i].tag, None}
        \/ queue'[c][u][i].tag = None

(* No write was reported. *)
Unreported ==
    \A c \in Clients : \A i \in 1..Len(calls'[c]) : calls'[c][i].kind = "write" =>
        \E j \in 1..Len(calls[c]) : calls[c][j] = calls'[c][i]

LEMMA SameCarried ==
    ASSUME \A c \in Clients, u \in Users : SameWrites(queue'[c][u], queue[c][u])
    PROVE  Carried /\ \A c \in Clients, u \in Uids : Pending(c, u)' \subseteq Pending(c, u)
<1>1. Carried
  BY DEF SameWrites, Carried
<1>2. \A c \in Clients, u \in Uids : Pending(c, u)' = Pending(c, u)
  BY SamePending DEF Users
<1>3. QED
  BY <1>1, <1>2

LEMMA AppendedCarried ==
    ASSUME NEW c \in Clients, NEW w, Appended(c, w), w.tag = None
    PROVE  /\ Carried
           /\ \A e \in Clients, u \in Uids :
                  e # c \/ u # user[c] \/ w.doc # Profile(u) => Pending(e, u)' \subseteq Pending(e, u)
<1>1. ASSUME NEW e \in Clients, NEW u \in Users, NEW i \in 1..Len(queue'[e][u])
      PROVE  \/ i \in 1..Len(queue[e][u]) /\ queue'[e][u][i] = queue[e][u][i]
             \/ e = c /\ u = user[c] /\ queue'[e][u][i] = w
  BY DEF Appended
<1>2. Carried
  BY <1>1 DEF Carried
<1>3. ASSUME NEW e \in Clients, NEW u \in Uids, e # c \/ u # user[c] \/ w.doc # Profile(u),
             NEW i \in Pending(e, u)'
      PROVE  i \in Pending(e, u)
  <2>1. i \in 1..Len(queue'[e][u]) /\ queue'[e][u][i].doc = Profile(u) /\ u \in Users
    BY DEF Pending, Users
  <2>2. QED
    BY <1>1, <1>3, <2>1 DEF Pending
<1>4. QED
  BY <1>2, <1>3

LEMMA TaggedWrite ==
    ASSUME NameInv, NEW c \in Clients, NEW u \in Users, NEW i \in 1..Len(queue[c][u]),
           queue[c][u][i].tag # None
    PROVE  queue[c][u][i].tag \in NameTag /\ queue[c][u][i].tag.no \in Nat
<1>1. queue[c][u][i] \in Writes
  BY WriteAt
<1>2. queue[c][u][i].tag \in NameTag
  BY <1>1, WriteFields
<1>3. QED
  BY <1>2 DEF NameTag

LEMMA WriteCallNo ==
    ASSUME NameInv, NEW c \in Clients, NEW i \in 1..Len(calls[c]), calls[c][i].kind = "write"
    PROVE  calls[c][i].tag \in NameTag /\ calls[c][i].tag.no \in Nat
<1>1. calls[c] \in Seq(Handlers)
  BY DEF NameInv, StateInv
<1>2. calls[c][i] \in Handlers
  BY <1>1
<1>3. QED
  BY <1>2, HandlerKinds DEF NameTag

LEMMA TagKept ==
    ASSUME NameInv, NameInv', TagInv, Carried, updates <= updates'
    PROVE  TagInv'
<1> SUFFICES ASSUME NEW c \in Clients, NEW u \in Users, NEW i \in 1..Len(queue'[c][u]),
                    queue'[c][u][i].tag # None
             PROVE  /\ queue'[c][u][i].tag.uid = u /\ queue'[c][u][i].tag.no <= updates'
                    /\ queue'[c][u][i].doc = Profile(u)
                    /\ queue'[c][u][i].data = [f \in {"name"} |-> queue'[c][u][i].tag.name]
  BY DEF TagInv
<1>1. /\ i \in 1..Len(queue[c][u]) /\ queue'[c][u][i].doc = queue[c][u][i].doc
      /\ queue'[c][u][i].data = queue[c][u][i].data
      /\ queue'[c][u][i].tag = queue[c][u][i].tag
  BY DEF Carried
<1>2. /\ queue[c][u][i].tag.uid = u /\ queue[c][u][i].tag.no <= updates
      /\ queue[c][u][i].doc = Profile(u)
      /\ queue[c][u][i].data = [f \in {"name"} |-> queue[c][u][i].tag.name]
  BY <1>1 DEF TagInv
<1>3. queue[c][u][i].tag.no \in Nat /\ updates \in Nat /\ updates' \in Nat
  BY <1>1, TaggedWrite DEF NameInv, StateInv
<1>4. QED
  BY <1>1, <1>2, <1>3

LEMMA NumberKept ==
    ASSUME NameInv, NameInv', NumberInv, Unreported, updates <= updates'
    PROVE  NumberInv'
<1> SUFFICES ASSUME NEW c \in Clients, NEW i \in 1..Len(calls'[c]), calls'[c][i].kind = "write"
             PROVE  calls'[c][i].tag.no <= updates'
  BY DEF NumberInv
<1>1. PICK j \in 1..Len(calls[c]) : calls[c][j] = calls'[c][i]
  BY DEF Unreported
<1>2. calls[c][j].tag.no <= updates /\ calls[c][j].tag.no \in Nat
  BY <1>1, WriteCallNo DEF NumberInv
<1>3. updates \in Nat /\ updates' \in Nat
  BY DEF NameInv, StateInv
<1>4. QED
  BY <1>1, <1>2, <1>3

(* The latest write stays the last of the profile, the latest report stays   *)
(* the latest, and whoever asks for the profile finds it.                    *)
LEMMA SavingKept ==
    ASSUME NameInv, NEW c \in Clients, NEW u \in Uids, SavingOf(c, u), Grown, Carried,
           UNCHANGED updates,
           Pending(c, u)' \subseteq Pending(c, u),
           user'[c] = u => sent'[c] = 0 \/ (user[c] = u /\ sent'[c] = sent[c]),
           server'[Profile(u)] = server[Profile(u)],
           Unreported,
           \/ saved'[u] = saved[u]
           \/ \E j \in LatestCalls(c, u) : saved'[u] = calls[c][j].tag.name,
           user'[c] = u /\ Saving(c, u) => \A i \in EnsureCalls(c, u)' : Finds(calls'[c][i], u)
    PROVE  SavingOf(c, u)'
<1>0. u \in Users
  BY DEF Users
<1>1. ASSUME NEW i \in LatestWrites(c, u)'
      PROVE  i \in LatestWrites(c, u) /\ queue'[c][u][i].tag = queue[c][u][i].tag
  <2>1. i \in 1..Len(queue'[c][u]) /\ queue'[c][u][i].tag # None /\ queue'[c][u][i].tag.no = updates
    BY DEF LatestWrites, Latest
  <2>2. i \in 1..Len(queue[c][u]) /\ queue'[c][u][i].tag = queue[c][u][i].tag
    BY <1>0, <2>1 DEF Carried
  <2>3. QED
    BY <2>1, <2>2 DEF LatestWrites, Latest
<1>2. ASSUME NEW i \in LatestCalls(c, u)'
      PROVE  \E j \in LatestCalls(c, u) : calls[c][j] = calls'[c][i]
  <2>1. /\ i \in 1..Len(calls'[c]) /\ calls'[c][i].kind = "write" /\ calls'[c][i].ok
        /\ calls'[c][i].tag.uid = u /\ calls'[c][i].tag.no = updates
    BY DEF LatestCalls
  <2>2. PICK j \in 1..Len(calls[c]) : calls[c][j] = calls'[c][i]
    BY <2>1 DEF Unreported
  <2>3. QED
    BY <2>1, <2>2 DEF LatestCalls
<1>4. ASSUME NEW i \in LatestWrites(c, u)'
      PROVE  /\ \A j \in Pending(c, u)' : j <= i
             /\ user'[c] = u /\ i <= sent'[c] => Holds(u, queue[c][u][i].tag.name)'
  <2>1. i \in LatestWrites(c, u) /\ queue'[c][u][i].tag = queue[c][u][i].tag
    BY <1>1
  <2>2. i \in Nat /\ i > 0
    BY <1>0, <2>1, WriteAt DEF LatestWrites
  <2>3. /\ \A j \in Pending(c, u) : j <= i
        /\ user[c] = u /\ i <= sent[c] => Holds(u, queue[c][u][i].tag.name)
    BY <2>1 DEF SavingOf
  <2>4. QED
    BY <2>1, <2>2, <2>3 DEF Holds
<1>5. ASSUME NEW i \in LatestCalls(c, u)'
      PROVE  Pending(c, u)' = {} /\ Holds(u, calls[c][i].tag.name)'
  BY <1>2 DEF SavingOf, Holds
<1>6. saved'[u] # None => Pending(c, u)' = {} /\ Holds(u, saved[u])'
  BY DEF SavingOf, Holds
<1>7. Saving(c, u)' => Saving(c, u)
  BY <1>1, <1>2 DEF Saving
<1>8. Saving(c, u)' => /\ Shown(c, u)'
                       /\ user'[c] = u => \A i \in EnsureCalls(c, u)' : Finds(calls'[c][i], u)
  BY <1>7 DEF Grown, SavingOf
<1>9. QED
  BY <1>4, <1>5, <1>6, <1>8 DEF SavingOf

(* Once a name is saved or being saved, createOrUpdateUserInFirestore finds  *)
(* the profile.                                                              *)
Found ==
    \A c \in Clients, u \in Uids :
        user'[c] = u /\ Saving(c, u) => \A i \in EnsureCalls(c, u)' : Finds(calls'[c][i], u)

(* No handler is new. *)
OldCalls ==
    \A c \in Clients : \A i \in 1..Len(calls'[c]) :
        \E j \in 1..Len(calls[c]) : calls[c][j] = calls'[c][i]

LEMMA OldCallsFound ==
    ASSUME SavedInv, OldCalls, \A c \in Clients : user'[c] \in {user[c], None}
    PROVE  Found /\ Unreported
<1>1. Unreported
  BY DEF OldCalls, Unreported
<1>2. Found
  <2> SUFFICES ASSUME NEW c \in Clients, NEW u \in Uids, user'[c] = u, Saving(c, u),
                      NEW i \in EnsureCalls(c, u)'
               PROVE  Finds(calls'[c][i], u)
    BY DEF Found
  <2>1. user[c] = u
    BY FirestoreAssumption
  <2>2. /\ i \in 1..Len(calls'[c]) /\ calls'[c][i].kind = "read"
        /\ calls'[c][i].tag.kind = "ensure" /\ calls'[c][i].tag.uid = u
    BY DEF EnsureCalls
  <2>3. PICK j \in 1..Len(calls[c]) : calls[c][j] = calls'[c][i]
    BY <2>2 DEF OldCalls
  <2>4. j \in EnsureCalls(c, u)
    BY <2>2, <2>3 DEF EnsureCalls
  <2>5. Finds(calls[c][j], u)
    BY <2>1, <2>4 DEF SavedInv, SavingOf
  <2>6. QED
    BY <2>3, <2>5
<1>3. QED
  BY <1>1, <1>2

LEMMA TakenOld ==
    ASSUME NEW c \in Clients, Taken(c)
    PROVE  OldCalls
<1> SUFFICES ASSUME NEW e \in Clients, NEW i \in 1..Len(calls'[e])
             PROVE  \E j \in 1..Len(calls[e]) : calls[e][j] = calls'[e][i]
  BY DEF OldCalls
<1>1. CASE e = c
  BY <1>1 DEF Taken
<1>2. CASE e # c
  <2>1. calls'[e] = calls[e]
    BY <1>2 DEF Taken
  <2>2. QED
    BY <2>1
<1>3. QED
  BY <1>1, <1>2

LEMMA SavedKept ==
    ASSUME NameInv, NameInv', SavedInv, Grown, Carried, Unreported, Found,
           UNCHANGED <<server, saved, updates>>,
           \A c \in Clients, u \in Uids : Pending(c, u)' \subseteq Pending(c, u),
           \A c \in Clients : (sent'[c] = sent[c] /\ user'[c] = user[c]) \/ sent'[c] = 0
    PROVE  SavedInv'
<1>1. updates \in Nat /\ updates <= updates'
  BY DEF NameInv, StateInv
<1>2. TagInv' /\ NumberInv'
  BY <1>1, TagKept, NumberKept DEF SavedInv
<1>3. ASSUME NEW c \in Clients, NEW u \in Uids PROVE SavingOf(c, u)'
  <2>1. SavingOf(c, u)
    BY DEF SavedInv
  <2>2. user'[c] = u => sent'[c] = 0 \/ (user[c] = u /\ sent'[c] = sent[c])
    OBVIOUS
  <2>3. user'[c] = u /\ Saving(c, u) => \A i \in EnsureCalls(c, u)' : Finds(calls'[c][i], u)
    BY DEF Found
  <2>4. /\ server'[Profile(u)] = server[Profile(u)] /\ saved'[u] = saved[u]
        /\ Pending(c, u)' \subseteq Pending(c, u)
    OBVIOUS
  <2>5. QED
    BY <2>1, <2>2, <2>3, <2>4, SavingKept
<1>4. QED
  BY <1>2, <1>3 DEF SavedInv

LEMMA QuietSaved ==
    ASSUME NameInv, NameInv', SavedInv, Grown, Quiet, Unreported, Found, UNCHANGED <<saved, updates>>
    PROVE  SavedInv'
<1>1. Carried /\ \A c \in Clients, u \in Uids : Pending(c, u)' \subseteq Pending(c, u)
  BY SameCarried DEF Quiet
<1>2. QED
  BY <1>1, SavedKept DEF Quiet

LEMMA SignInSaved ==
    ASSUME NameInv, NameInv', CalmInv, SavedInv, ~Overlap, NEW c \in Clients, NEW u \in Uids,
           SignIn(c, u)
    PROVE  SavedInv'
<1>1. Grown
  BY SignInCalm
<1>2. Quiet
  <2>1. HandleCredentialChange(c, u) /\ UNCHANGED <<server, cache>>
    BY DEF SignIn
  <2>2. QED
    BY <2>1, CredentialQuiet
<1> DEFINE k == [kind |-> "completion", tag |-> Tag("ensure", u, 0, Blank), ok |-> TRUE, docs |-> <<>>]
<1>3. /\ calls' = [calls EXCEPT ![c] = Append(calls[c], k)] /\ ~Ensuring(c)
      /\ user' = [user EXCEPT ![c] = u] /\ UNCHANGED <<saved, updates>>
  BY DEF SignIn, HandleCredentialChange
<1>4. k.kind = "completion"
  OBVIOUS
<1> HIDE DEF k
<1>5. calls \in [Clients -> Seq(Handlers)] /\ user \in [Clients -> Users]
  BY DEF NameInv, StateInv
<1>6. ASSUME NEW e \in Clients, e # c PROVE calls'[e] = calls[e] /\ user'[e] = user[e]
  BY <1>3, <1>5, <1>6
<1>7. ASSUME NEW i \in 1..Len(calls'[c])
      PROVE  \/ i \in 1..Len(calls[c]) /\ calls'[c][i] = calls[c][i]
             \/ calls'[c][i].kind = "completion"
  <2>1. calls[c] \in Seq(Handlers) /\ calls'[c] = Append(calls[c], k)
    BY <1>3, <1>5
  <2>2. QED
    BY <1>4, <2>1
<1>8. Unreported
  <2> SUFFICES ASSUME NEW e \in Clients, NEW i \in 1..Len(calls'[e]), calls'[e][i].kind = "write"
               PROVE  \E j \in 1..Len(calls[e]) : calls[e][j] = calls'[e][i]
    BY DEF Unreported
  <2>1. CASE e = c
    BY <1>7, <2>1
  <2>2. CASE e # c
    BY <1>6, <2>2
  <2>3. QED
    BY <2>1, <2>2
<1>9. Found
  <2> SUFFICES ASSUME NEW e \in Clients, NEW v \in Uids, user'[e] = v, Saving(e, v),
                      NEW i \in EnsureCalls(e, v)'
               PROVE  Finds(calls'[e][i], v)
    BY DEF Found
  <2>1. /\ i \in 1..Len(calls'[e]) /\ calls'[e][i].kind = "read"
        /\ calls'[e][i].tag.kind = "ensure" /\ calls'[e][i].tag.uid = v
    BY DEF EnsureCalls
  <2>2. CASE e = c
    <3>1. i \in 1..Len(calls[c]) /\ calls'[c][i] = calls[c][i]
      BY <1>7, <2>1, <2>2
    <3>2. QED
      BY <1>3, <2>1, <2>2, <3>1 DEF Ensuring
  <2>3. CASE e # c
    <3>1. calls'[e] = calls[e] /\ user'[e] = user[e]
      BY <1>6, <2>3
    <3>2. i \in EnsureCalls(e, v)
      BY <2>1, <3>1 DEF EnsureCalls
    <3>3. QED
      BY <3>1, <3>2 DEF SavedInv, SavingOf
  <2>4. QED
    BY <2>2, <2>3
<1>10. QED
  BY <1>1, <1>2, <1>3, <1>8, <1>9, QuietSaved

LEMMA SignOutSaved ==
    ASSUME NameInv, NameInv', CalmInv, SavedInv, NEW c \in Clients, ForcedSignOut(c) \/ SignOut(c)
    PROVE  SavedInv'
<1>1. Grown
  BY SignOutCalm
<1>2. /\ HandleCredentialChange(c, None) /\ UNCHANGED <<server, cache, calls, saved, updates>>
  BY DEF ForcedSignOut, SignOut, appVars
<1>3. Quiet
  BY <1>2, CredentialQuiet
<1>4. user' = [user EXCEPT ![c] = None] /\ user \in [Clients -> Users]
  BY <1>2 DEF HandleCredentialChange, NameInv, StateInv
<1>5. \A e \in Clients : user'[e] \in {user[e], None}
  BY <1>4
<1>6. OldCalls
  BY <1>2 DEF OldCalls
<1>7. QED
  BY <1>1, <1>2, <1>3, <1>5, <1>6, OldCallsFound, QuietSaved

LEMMA RelaunchSaved ==
    ASSUME NameInv, NameInv', CalmInv, SavedInv, NEW c \in Clients, Relaunch(c)
    PROVE  SavedInv'
<1>1. Grown
  BY RelaunchCalm
<1>2. /\ calls' = [calls EXCEPT ![c] = <<>>] /\ sent' = [sent EXCEPT ![c] = 0]
      /\ queue' = [queue EXCEPT ![c] = Persisted(@)]
      /\ UNCHANGED <<server, cache, user, saved, updates>>
  BY DEF Relaunch
<1>3. /\ calls \in [Clients -> Seq(Handlers)] /\ sent \in [Clients -> Nat]
      /\ queue \in [Clients -> [Users -> Seq(Writes)]]
  BY DEF NameInv, StateInv
<1>4. ASSUME NEW e \in Clients, NEW u \in Users
      PROVE  SameWrites(queue'[e][u], queue[e][u]) /\ NoneSeen(queue'[e][u], queue[e][u])
  <2>1. CASE e = c
    <3>1. queue'[c] = Persisted(queue[c]) /\ queue[c] \in [Users -> Seq(Writes)]
      BY <1>2, <1>3
    <3>2. QED
      BY <2>1, <3>1, PersistedSame
  <2>2. CASE e # c
    <3>1. queue'[e] = queue[e]
      BY <1>2, <1>3, <2>2
    <3>2. QED
      BY <3>1, SameItself
  <2>3. QED
    BY <2>1, <2>2
<1>5. Quiet
  BY <1>2, <1>3, <1>4 DEF Quiet
<1>6. OldCalls
  <2> SUFFICES ASSUME NEW e \in Clients, NEW i \in 1..Len(calls'[e])
               PROVE  \E j \in 1..Len(calls[e]) : calls[e][j] = calls'[e][i]
    BY DEF OldCalls
  <2>1. e # c /\ calls'[e] = calls[e]
    BY <1>2, <1>3
  <2>2. QED
    BY <2>1
<1>7. \A e \in Clients : user'[e] \in {user[e], None}
  BY <1>2
<1>8. QED
  BY <1>1, <1>2, <1>5, <1>6, <1>7, OldCallsFound, QuietSaved

(* Steps that neither report nor ask for anything of the profile. *)
LEMMA PlainSaved ==
    ASSUME NameInv, NameInv', SavedInv, Grown, UNCHANGED <<server, queue, sent, user, saved, updates>>,
           OldCalls
    PROVE  SavedInv'
<1>1. \A c \in Clients, u \in Users : SameWrites(queue'[c][u], queue[c][u])
  BY SameItself
<1>2. Carried /\ \A c \in Clients, u \in Uids : Pending(c, u)' \subseteq Pending(c, u)
  BY <1>1, SameCarried
<1>3. Found /\ Unreported
  BY OldCallsFound
<1>4. QED
  BY <1>2, <1>3, SavedKept

LEMMA ViewSaved ==
    ASSUME NameInv, NameInv', CalmInv, SavedInv, ~Overlap, NEW c \in Clients,
           OpenMenu(c) \/ CloseMenu(c) \/ OpenView(c)
    PROVE  SavedInv'
<1>1. Grown
  BY MenuCalm, OpenViewCalm
<1>2. UNCHANGED <<server, queue, sent, user, calls, saved, updates>>
  BY DEF OpenMenu, CloseMenu, OpenView, fsVars
<1>3. OldCalls
  BY <1>2 DEF OldCalls
<1>4. QED
  BY <1>1, <1>2, <1>3, PlainSaved

(* updateUserInfo: its write is the last of the profile and the latest.      *)
LEMMA TapUpdateSaved ==
    ASSUME NameInv, NameInv', CalmInv, SavedInv, ~Overlap, OneClient,
           NEW c \in Clients, NEW name \in Uids \cup {Blank}, TapUpdate(c, name)
    PROVE  SavedInv'
<1>0. PICK o \in Uids : user[c] = o
  BY DEF TapUpdate, NameInv, StateInv, Users
<1> DEFINE t == Tag("name", user[c], updates + 1, name)
           w == Write(Profile(user[c]), [f \in {"name"} |-> name], TRUE,
                      Tag("name", user[c], updates + 1, name))
<1>1. CalmInv' /\ Grown /\ Appended(c, w)
  BY TapUpdateCalm
<1>2. /\ user[c] \in Uids /\ view[c].stage = "form" /\ updates' = updates + 1
      /\ saved' = [saved EXCEPT ![user[c]] = None]
      /\ UNCHANGED <<server, sent, user, calls>>
  BY DEF TapUpdate, NameInv, StateInv, Users
<1>3. /\ w.doc = Profile(o) /\ w.data = [f \in {"name"} |-> name] /\ w.tag = t
      /\ t.uid = o /\ t.no = updates + 1 /\ t.name = name
  BY <1>0 DEF Write, Tag
<1> HIDE DEF w, t
<1>4. /\ updates \in Nat /\ saved \in [Uids -> Users \cup {Blank}] /\ sent[c] \in Nat
      /\ sent[c] <= Len(queue[c][o]) /\ o \in Users /\ Len(queue[c][o]) \in Nat
  BY <1>0, WriteAt DEF NameInv, StateInv, Active, Users
(* What is pending was, or is the new write. *)
<1>5. ASSUME NEW u \in Users, NEW i \in 1..Len(queue'[c][u])
      PROVE  \/ i \in 1..Len(queue[c][u]) /\ queue'[c][u][i] = queue[c][u][i]
             \/ u = o /\ i = Len(queue[c][o]) + 1 /\ queue'[c][u][i] = w
  BY <1>0, <1>1 DEF Appended
<1>6. Len(queue[c][o]) + 1 \in 1..Len(queue'[c][o]) /\ queue'[c][o][Len(queue[c][o]) + 1] = w
  BY <1>0, <1>1 DEF Appended
<1>7. TagInv'
  <2> SUFFICES ASSUME NEW e \in Clients, NEW u \in Users, NEW i \in 1..Len(queue'[e][u]),
                      queue'[e][u][i].tag # None
               PROVE  /\ queue'[e][u][i].tag.uid = u /\ queue'[e][u][i].tag.no <= updates'
                      /\ queue'[e][u][i].doc = Profile(u)
                      /\ queue'[e][u][i].data = [f \in {"name"} |-> queue'[e][u][i].tag.name]
    BY DEF TagInv
  <2>1. e = c
    BY DEF OneClient
  <2>2. CASE i \in 1..Len(queue[c][u]) /\ queue'[c][u][i] = queue[c][u][i]
    <3>0. queue[c][u][i].tag # None
      BY <2>1, <2>2
    <3>1. /\ queue[c][u][i].tag.uid = u /\ queue[c][u][i].tag.no <= updates
          /\ queue[c][u][i].doc = Profile(u)
          /\ queue[c][u][i].data = [f \in {"name"} |-> queue[c][u][i].tag.name]
      BY <2>2, <3>0 DEF SavedInv, TagInv
    <3>2. queue[c][u][i].tag.no \in Nat
      BY <2>2, <3>0, TaggedWrite
    <3>3. queue[c][u][i].tag.no <= updates'
      BY <1>2, <1>4, <3>1, <3>2
    <3>4. QED
      BY <2>1, <2>2, <3>1, <3>3
  <2>3. CASE u = o /\ i = Len(queue[c][o]) + 1 /\ queue'[c][u][i] = w
    <3>1. updates + 1 <= updates'
      BY <1>2, <1>4
    <3>2. queue'[e][u][i] = w
      BY <2>1, <2>3
    <3>3. /\ w.tag.uid = o /\ w.tag.no = updates + 1 /\ w.doc = Profile(o)
          /\ w.data = [f \in {"name"} |-> w.tag.name]
      BY <1>3
    <3>4. QED
      BY <2>3, <3>1, <3>2, <3>3
  <2>4. QED
    BY <1>5, <2>1, <2>2, <2>3
<1>8. NumberInv'
  <2>1. Unreported
    BY <1>2 DEF Unreported
  <2>2. updates <= updates'
    BY <1>2, <1>4
  <2>3. QED
    BY <2>1, <2>2, NumberKept DEF SavedInv
(* Earlier names are not the latest any more. *)
<1>9. ASSUME NEW u \in Users, NEW i \in LatestWrites(c, u)'
      PROVE  u = o /\ i = Len(queue[c][o]) + 1 /\ queue'[c][u][i] = w
  <2>1. /\ i \in 1..Len(queue'[c][u]) /\ queue'[c][u][i].tag # None
        /\ queue'[c][u][i].tag.no = updates + 1
    BY <1>2 DEF LatestWrites, Latest
  <2>2. ASSUME i \in 1..Len(queue[c][u]), queue'[c][u][i] = queue[c][u][i] PROVE FALSE
    <3>1. queue[c][u][i].tag.no <= updates /\ queue[c][u][i].tag.no \in Nat
      BY <2>1, <2>2, TaggedWrite DEF SavedInv, TagInv
    <3>2. queue[c][u][i].tag.no = updates + 1
      BY <2>1, <2>2
    <3>3. QED
      BY <1>4, <3>1, <3>2
  <2>3. QED
    BY <1>5, <2>1, <2>2
<1>10. ASSUME NEW u \in Uids PROVE LatestCalls(c, u)' = {}
  <2> SUFFICES ASSUME NEW i \in LatestCalls(c, u)' PROVE FALSE
    OBVIOUS
  <2>1. i \in 1..Len(calls[c]) /\ calls[c][i].kind = "write" /\ calls[c][i].tag.no = updates + 1
    BY <1>2 DEF LatestCalls
  <2>2. calls[c][i].tag.no <= updates
    BY <2>1 DEF SavedInv, NumberInv
  <2>3. QED
    BY <1>4, <2>1, <2>2
<1>11. ASSUME NEW u \in Uids, u # o PROVE SavingOf(c, u)'
  <2>1. u \in Users /\ LatestWrites(c, u)' = {} /\ LatestCalls(c, u)' = {}
    BY <1>9, <1>10, <1>11 DEF Users
  <2>2. saved'[u] = saved[u] /\ SavingOf(c, u)
    BY <1>0, <1>2, <1>4, <1>11 DEF SavedInv
  <2>3. Pending(c, u)' \subseteq Pending(c, u)
    BY <1>5, <1>11, <2>1 DEF Pending
  <2>4. saved'[u] # None => Pending(c, u)' = {} /\ Holds(u, saved[u])'
    BY <1>2, <2>2, <2>3 DEF SavingOf, Holds
  <2>5. Saving(c, u)' => Saving(c, u)
    BY <2>1, <2>2 DEF Saving
  <2>6. Saving(c, u)' => Shown(c, u)'
    BY <1>1, <2>2, <2>5 DEF SavingOf, Grown
  <2>7. user'[c] # u
    BY <1>0, <1>2, <1>11
  <2>8. QED
    BY <2>1, <2>4, <2>6, <2>7 DEF SavingOf
<1>12. SavingOf(c, o)'
  <2>1. LatestCalls(c, o)' = {} /\ saved'[o] = None
    BY <1>0, <1>2, <1>4, <1>10
  <2>2. ASSUME NEW j \in Pending(c, o)' PROVE j <= Len(queue[c][o]) + 1
    <3>1. j \in 1..Len(queue'[c][o])
      BY DEF Pending
    <3>2. j \in 1..Len(queue[c][o]) \/ j = Len(queue[c][o]) + 1
      BY <1>4, <1>5, <3>1
    <3>3. QED
      BY <1>4, <3>2
  <2>3. \A i \in LatestWrites(c, o)' : (\A j \in Pending(c, o)' : j <= i) /\ ~(i <= sent'[c])
    BY <1>2, <1>4, <1>9, <2>2
  <2>4. Len(queue[c][o]) + 1 \in Pending(c, o)'
    BY <1>2, <1>3, <1>6 DEF Pending
  <2>5. Shown(c, o)'
    BY <2>4 DEF Shown
  <2>6. EnsureCalls(c, o)' = {}
    <3>1. EnsureCalls(c, o) = {}
      BY <1>0, <1>2 DEF CalmInv, EnsureInv, EnsureOf
    <3>2. QED
      BY <1>2, <3>1 DEF EnsureCalls
  <2>7. QED
    BY <2>1, <2>3, <2>5, <2>6 DEF SavingOf
<1>13. ASSUME NEW e \in Clients, NEW u \in Uids PROVE SavingOf(e, u)'
  <2>1. e = c
    BY DEF OneClient
  <2>2. SavingOf(c, u)'
    BY <1>11, <1>12
  <2>3. QED
    BY <2>1, <2>2
<1>14. QED
  BY <1>7, <1>8, <1>13 DEF SavedInv

LEMMA RunCompletionSaved ==
    ASSUME NameInv, NameInv', CalmInv, SavedInv, NEW c \in Clients, RunCompletion(c)
    PROVE  SavedInv'
<1>1. Grown /\ OldCalls
  BY RunCompletionCalm, TakenOld
<1>2. UNCHANGED <<server, queue, sent, user, saved, updates>>
  BY DEF RunCompletion, appVars
<1>3. QED
  BY <1>1, <1>2, PlainSaved

LEMMA RunFetchSaved ==
    ASSUME NameInv, NameInv', CalmInv, SavedInv, NEW c \in Clients, RunFetch(c)
    PROVE  SavedInv'
<1>1. Grown /\ OldCalls
  BY RunFetchCalm, TakenOld
<1>2. UNCHANGED <<server, queue, sent, user, saved, updates>>
  BY DEF RunFetch
<1>3. QED
  BY <1>1, <1>2, PlainSaved

(* createOrUpdateUserInFirestore: it does not write while a name is saved.   *)
LEMMA RunEnsureSaved ==
    ASSUME NameInv, NameInv', CalmInv, SavedInv, NEW c \in Clients, RunEnsure(c)
    PROVE  SavedInv'
<1>1. /\ Grown /\ Taken(c)
      /\ \/ Finds(Head(calls[c]), Head(calls[c]).tag.uid) /\ UNCHANGED queue
         \/ /\ ~Finds(Head(calls[c]), Head(calls[c]).tag.uid)
            /\ Appended(c, Write(Profile(Head(calls[c]).tag.uid),
                                 NewProfile(Head(calls[c]).tag.uid, creations + 1), FALSE, None))
  BY RunEnsureCalm
<1>2. /\ UNCHANGED <<server, sent, user, saved, updates>>
      /\ Head(calls[c]).kind = "read" /\ Head(calls[c]).tag.kind = "ensure"
  BY DEF RunEnsure, NextCall
<1>3. OldCalls
  BY <1>1, TakenOld
<1>4. Found /\ Unreported
  BY <1>2, <1>3, OldCallsFound
<1>5. CASE UNCHANGED queue
  BY <1>1, <1>2, <1>3, <1>5, PlainSaved
<1>6. ASSUME NEW h, h = Head(calls[c]).tag.uid, ~Finds(Head(calls[c]), h),
             NEW w, w = Write(Profile(h), NewProfile(h, creations + 1), FALSE, None), Appended(c, w)
      PROVE  SavedInv'
  <2>1. w.tag = None /\ w.doc = Profile(h)
    BY <1>6 DEF Write
  <2>2. /\ Carried
        /\ \A e \in Clients, u \in Uids :
               e # c \/ u # user[c] \/ w.doc # Profile(u) => Pending(e, u)' \subseteq Pending(e, u)
    BY <1>6, <2>1, AppendedCarried
  <2>3. updates \in Nat /\ updates <= updates'
    BY <1>2 DEF NameInv, StateInv
  <2>4. TagInv' /\ NumberInv'
    BY <1>4, <2>2, <2>3, TagKept, NumberKept DEF SavedInv
  <2>5. ASSUME NEW e \in Clients, NEW u \in Uids, Pending(e, u)' \subseteq Pending(e, u)
        PROVE  SavingOf(e, u)'
    <3>1. /\ SavingOf(e, u)
          /\ user'[e] = u => sent'[e] = 0 \/ (user[e] = u /\ sent'[e] = sent[e])
          /\ user'[e] = u /\ Saving(e, u) => \A i \in EnsureCalls(e, u)' : Finds(calls'[e][i], u)
          /\ server'[Profile(u)] = server[Profile(u)] /\ saved'[u] = saved[u]
      BY <1>2, <1>4 DEF SavedInv, Found
    <3>2. QED
      BY <1>1, <1>2, <1>4, <2>2, <2>5, <3>1, SavingKept
  <2>6. ASSUME NEW u \in Uids, user[c] = u, w.doc = Profile(u) PROVE SavingOf(c, u)'
    <3>1. h = u
      BY <2>1, <2>6 DEF Profile
    <3>2. 1 \in EnsureCalls(c, u) /\ calls[c][1] = Head(calls[c])
      BY <1>1, <1>2, <1>6, <3>1 DEF EnsureCalls, Taken
    <3>3. ~Saving(c, u)
      BY <1>6, <2>6, <3>1, <3>2 DEF SavedInv, SavingOf
    <3>4. LatestWrites(c, u)' = {}
      <4> SUFFICES ASSUME NEW i \in LatestWrites(c, u)' PROVE FALSE
        OBVIOUS
      <4>1. /\ i \in 1..Len(queue'[c][u]) /\ queue'[c][u][i].tag # None
            /\ queue'[c][u][i].tag.no = updates
        BY <1>2 DEF LatestWrites, Latest
      <4>2. i \in 1..Len(queue[c][u]) /\ queue'[c][u][i].tag = queue[c][u][i].tag
        BY <2>2, <4>1 DEF Carried, Users
      <4>3. i \in LatestWrites(c, u)
        BY <4>1, <4>2 DEF LatestWrites, Latest
      <4>4. QED
        BY <3>3, <4>3 DEF Saving
    <3>5. LatestCalls(c, u)' = {}
      <4> SUFFICES ASSUME NEW i \in LatestCalls(c, u)' PROVE FALSE
        OBVIOUS
      <4>1. /\ i \in 1..Len(calls'[c]) /\ calls'[c][i].kind = "write" /\ calls'[c][i].ok
            /\ calls'[c][i].tag.uid = u /\ calls'[c][i].tag.no = updates
        BY <1>2 DEF LatestCalls
      <4>2. PICK j \in 1..Len(calls[c]) : calls[c][j] = calls'[c][i]
        BY <1>3, <4>1 DEF OldCalls
      <4>3. j \in LatestCalls(c, u)
        BY <4>1, <4>2 DEF LatestCalls
      <4>4. QED
        BY <3>3, <4>3 DEF Saving
    <3>6. saved'[u] = None
      BY <1>2, <3>3 DEF Saving
    <3>7. QED
      BY <3>4, <3>5, <3>6 DEF SavingOf, Saving
  <2>7. ASSUME NEW e \in Clients, NEW u \in Uids PROVE SavingOf(e, u)'
    <3>1. CASE e = c /\ user[c] = u /\ w.doc = Profile(u)
      BY <2>6, <3>1
    <3>2. CASE ~(e = c /\ user[c] = u /\ w.doc = Profile(u))
      BY <2>2, <2>5, <3>2
    <3>3. QED
      BY <3>1, <3>2
  <2>8. QED
    BY <2>4, <2>7 DEF SavedInv
<1>7. QED
  BY <1>1, <1>5, <1>6

(* The success is announced: what was reported is on the server. *)
LEMMA RunNameSavedSaved ==
    ASSUME NameInv, NameInv', CalmInv, SavedInv, OneClient,
           NEW c \in Clients, RunNameSaved(c)
    PROVE  SavedInv'
<1>1. /\ Grown /\ Taken(c)
      /\ \/ UNCHANGED queue
         \/ \E w \in Writes : Appended(c, w) /\ w.doc[1] # ProfilePath /\ w.tag = None
  BY RunNameSavedCalm
<1>2. /\ UNCHANGED <<server, sent, user, updates>> /\ Head(calls[c]).kind = "write"
      /\ \/ UNCHANGED saved
         \/ /\ Head(calls[c]).ok /\ Head(calls[c]).tag.no = updates
            /\ saved' = [saved EXCEPT ![Head(calls[c]).tag.uid] = Head(calls[c]).tag.name]
  BY DEF RunNameSaved, NextCall
<1>3. OldCalls
  BY <1>1, TakenOld
<1>4. Found /\ Unreported
  BY <1>2, <1>3, OldCallsFound
<1>5. Carried /\ \A e \in Clients, u \in Uids : Pending(e, u)' \subseteq Pending(e, u)
  <2>1. CASE UNCHANGED queue
    <3>1. \A e \in Clients, u \in Users : SameWrites(queue'[e][u], queue[e][u])
      BY <2>1, SameItself
    <3>2. QED
      BY <3>1, SameCarried
  <2>2. ASSUME NEW w \in Writes, Appended(c, w), w.doc[1] # ProfilePath, w.tag = None
        PROVE  Carried /\ \A e \in Clients, u \in Uids : Pending(e, u)' \subseteq Pending(e, u)
    <3>1. \A u \in Uids : w.doc # Profile(u)
      BY <2>2, ProfilePlaces
    <3>2. QED
      BY <2>2, <3>1, AppendedCarried
  <2>3. QED
    BY <1>1, <2>1, <2>2
<1>6. updates \in Nat /\ updates <= updates' /\ saved \in [Uids -> Users \cup {Blank}]
  BY <1>2 DEF NameInv, StateInv
<1>7. TagInv' /\ NumberInv'
  BY <1>4, <1>5, <1>6, TagKept, NumberKept DEF SavedInv
<1>8. ASSUME NEW e \in Clients, NEW u \in Uids PROVE SavingOf(e, u)'
  <2>0. e = c
    BY DEF OneClient
  <2>1. \/ saved'[u] = saved[u]
        \/ \E j \in LatestCalls(e, u) : saved'[u] = calls[e][j].tag.name
    <3>1. CASE UNCHANGED saved
      BY <3>1
    <3>2. CASE /\ Head(calls[c]).ok /\ Head(calls[c]).tag.no = updates
               /\ saved' = [saved EXCEPT ![Head(calls[c]).tag.uid] = Head(calls[c]).tag.name]
      <4>1. CASE u = Head(calls[c]).tag.uid
        <5>1. 1 \in LatestCalls(c, u) /\ Head(calls[c]) = calls[c][1]
          BY <1>1, <1>2, <3>2, <4>1 DEF LatestCalls, Taken
        <5>2. saved'[u] = calls[c][1].tag.name
          BY <1>6, <3>2, <4>1, <5>1
        <5>3. QED
          BY <2>0, <5>1, <5>2
      <4>2. CASE u # Head(calls[c]).tag.uid
        BY <1>6, <3>2, <4>2
      <4>3. QED
        BY <4>1, <4>2
    <3>3. QED
      BY <1>2, <3>1, <3>2
  <2>2. /\ SavingOf(e, u)
        /\ user'[e] = u => sent'[e] = 0 \/ (user[e] = u /\ sent'[e] = sent[e])
        /\ user'[e] = u /\ Saving(e, u) => \A i \in EnsureCalls(e, u)' : Finds(calls'[e][i], u)
        /\ server'[Profile(u)] = server[Profile(u)]
    BY <1>2, <1>4 DEF SavedInv, Found
  <2>3. QED
    BY <1>1, <1>2, <1>4, <1>5, <2>1, <2>2, SavingKept
<1>9. QED
  BY <1>7, <1>8 DEF SavedInv

LEMMA ConnectionSaved ==
    ASSUME NameInv, NameInv', CalmInv, SavedInv, NEW c \in Clients, GoOffline(c) \/ GoOnline(c),
           UNCHANGED appVars
    PROVE  SavedInv'
<1>1. Grown
  BY ConnectionCalm
<1>2. UNCHANGED <<server, cache, user, calls, saved, updates>>
  BY DEF GoOffline, GoOnline, appVars
<1>3. Quiet
  <2>1. CASE GoOffline(c)
    <3>1. /\ queue' = [queue EXCEPT ![c][user[c]] = Unseen(@)] /\ sent' = [sent EXCEPT ![c] = 0]
          /\ sent \in [Clients -> Nat]
      BY <2>1 DEF GoOffline, NameInv, StateInv
    <3>2. \A e \in Clients, u \in Users :
              SameWrites(queue'[e][u], queue[e][u]) /\ NoneSeen(queue'[e][u], queue[e][u])
      BY <3>1, UnseenQueues
    <3>3. QED
      BY <1>2, <3>1, <3>2 DEF Quiet
  <2>2. CASE GoOnline(c)
    <3>1. UNCHANGED <<server, cache, queue, sent, user>>
      BY <2>2 DEF GoOnline
    <3>2. QED
      BY <3>1, SameQueuesQuiet
  <2>3. QED
    BY <2>1, <2>2
<1>4. OldCalls
  BY <1>2 DEF OldCalls
<1>5. Found /\ Unreported
  BY <1>2, <1>4, OldCallsFound
<1>6. QED
  BY <1>1, <1>2, <1>3, <1>5, QuietSaved

LEMMA TagFacts ==
    ASSUME TagInv, NEW c \in Clients, NEW u \in Users, NEW i \in 1..Len(queue[c][u]),
           queue[c][u][i].tag # None
    PROVE  /\ queue[c][u][i].tag.uid = u /\ queue[c][u][i].tag.no <= updates
           /\ queue[c][u][i].doc = Profile(u)
           /\ queue[c][u][i].data = [f \in {"name"} |-> queue[c][u][i].tag.name]
  BY DEF TagInv

LEMMA ApplyName ==
    ASSUME NEW w \in Writes, NEW x \in Contents(w.doc), NEW name,
           w.data = [f \in {"name"} |-> name]
    PROVE  Apply(w, x) # Absent /\ NameOf(Apply(w, x)) = name
<1>1. Apply(w, x) # Absent
  BY ApplyPresent
<1>2. "name" \in DOMAIN w.data /\ w.data["name"] = name
  OBVIOUS
<1>3. "name" \in DOMAIN Apply(w, x) /\ Apply(w, x)["name"] = name
  BY <1>2 DEF Apply, Merged
<1>4. QED
  BY <1>1, <1>3 DEF NameOf

(* The server commits: the latest name is the last to be written. *)
LEMMA CommitSaved ==
    ASSUME NameInv, NameInv', CalmInv, SavedInv, OneClient,
           NEW c \in Clients, Commit(c), UNCHANGED appVars
    PROVE  SavedInv'
<1>0. PICK w : w = Active(c)[sent[c] + 1]
  OBVIOUS
<1>1. /\ server' = [server EXCEPT ![w.doc] = Apply(w, server[w.doc])] /\ user[c] = Owner(w.doc)
      /\ sent' = [sent EXCEPT ![c] = @ + 1] /\ sent[c] < Len(Active(c))
      /\ UNCHANGED <<cache, queue, user, calls, saved, updates>>
  BY <1>0 DEF Commit, Permitted, appVars
<1>2. /\ sent \in [Clients -> Nat] /\ server \in Places /\ server \in [Docs -> {Absent} \cup Documents]
      /\ user[c] \in Users /\ updates \in Nat
  BY DEF NameInv, StateInv, Places
<1>3. /\ sent[c] + 1 \in 1..Len(queue[c][user[c]]) /\ w = queue[c][user[c]][sent[c] + 1]
      /\ w \in Writes /\ w.doc \in Docs
  <2>1. sent[c] \in Nat /\ Len(queue[c][user[c]]) \in Nat /\ sent[c] < Len(queue[c][user[c]])
    BY <1>1, <1>2, WriteAt DEF Active
  <2>2. sent[c] + 1 \in 1..Len(queue[c][user[c]]) /\ w = queue[c][user[c]][sent[c] + 1]
    BY <1>0, <2>1 DEF Active
  <2>3. QED
    BY <1>2, <2>2, WriteAt
<1>4. sent'[c] = sent[c] + 1 /\ sent[c] \in Nat
  BY <1>1, <1>2
<1>5. OldCalls /\ Grown
  BY <1>1, CommitCalm DEF OldCalls
<1>6. Found /\ Unreported
  BY <1>1, <1>5, OldCallsFound
<1>7. Carried
  BY <1>1, SameItself, SameCarried
<1>8. TagInv' /\ NumberInv'
  BY <1>1, <1>2, <1>6, <1>7, TagKept, NumberKept DEF SavedInv
<1>12. TagInv
  BY DEF SavedInv
<1>9. ASSUME NEW u \in Uids PROVE SavingOf(c, u)'
  <2>1. SavingOf(c, u) /\ u \in Users /\ Profile(u) \in Docs
    BY ProfilePlaces DEF SavedInv, Users
  <2>2. /\ LatestWrites(c, u)' = LatestWrites(c, u) /\ LatestCalls(c, u)' = LatestCalls(c, u)
        /\ Pending(c, u)' = Pending(c, u) /\ EnsureCalls(c, u)' = EnsureCalls(c, u)
        /\ LatestWrites(c, u) \subseteq 1..Len(queue[c][u])
    BY <1>1 DEF LatestWrites, LatestCalls, Latest, Pending, EnsureCalls
  <2>3. Saving(c, u)' => /\ Shown(c, u)'
                         /\ user'[c] = u => \A i \in EnsureCalls(c, u)' : Finds(calls'[c][i], u)
    BY <1>1, <1>5, <2>1, <2>2 DEF Saving, SavingOf, Grown
  <2>4. CASE w.doc # Profile(u)
    <3>1. server'[Profile(u)] = server[Profile(u)]
      BY <1>1, <1>2, <1>3, <2>1, <2>4
    <3>2. ASSUME NEW i \in LatestWrites(c, u), user[c] = u, i <= sent[c] + 1 PROVE i <= sent[c]
      <4>1. i \in 1..Len(queue[c][u]) /\ queue[c][u][i].tag # None
        BY <2>2 DEF LatestWrites, Latest
      <4>2. queue[c][u][i].doc = Profile(u)
        BY <1>12, <2>1, <4>1, TagFacts
      <4>3. i # sent[c] + 1
        BY <1>3, <2>4, <3>2, <4>2
      <4>4. QED
        BY <1>4, <3>2, <4>1, <4>3, WriteAt, <2>1
    <3>3. ASSUME NEW i \in LatestWrites(c, u)'
          PROVE  /\ \A j \in Pending(c, u)' : j <= i
                 /\ user'[c] = u /\ i <= sent'[c] => Holds(u, queue[c][u][i].tag.name)'
      BY <1>1, <1>4, <2>1, <2>2, <3>1, <3>2 DEF SavingOf, Holds
    <3>4. \A i \in LatestCalls(c, u)' : Pending(c, u)' = {} /\ Holds(u, calls[c][i].tag.name)'
      BY <1>1, <2>1, <2>2, <3>1 DEF SavingOf, Holds
    <3>5. saved'[u] # None => Pending(c, u)' = {} /\ Holds(u, saved[u])'
      BY <1>1, <2>1, <2>2, <3>1 DEF SavingOf, Holds
    <3>6. QED
      BY <2>3, <3>3, <3>4, <3>5 DEF SavingOf
  <2>5. CASE w.doc = Profile(u)
    <3>1. user[c] = u
      BY <1>1, <2>5, ProfilePlaces DEF Owner
    <3>2. sent[c] + 1 \in Pending(c, u)
      BY <1>3, <2>5, <3>1 DEF Pending
    <3>3. LatestCalls(c, u) = {} /\ saved[u] = None
      BY <2>1, <3>2 DEF SavingOf
    <3>4. ASSUME NEW i \in LatestWrites(c, u)'
          PROVE  /\ \A j \in Pending(c, u)' : j <= i
                 /\ user'[c] = u /\ i <= sent'[c] => Holds(u, queue[c][u][i].tag.name)'
      <4>1. /\ i \in LatestWrites(c, u) /\ i \in 1..Len(queue[c][u])
            /\ \A j \in Pending(c, u) : j <= i
        BY <2>1, <2>2 DEF SavingOf
      <4>2. ASSUME i <= sent'[c] PROVE Holds(u, queue[c][u][i].tag.name)'
        <5>1. i = sent[c] + 1
          BY <1>4, <2>1, <3>2, <4>1, <4>2, WriteAt
        <5>2. queue[c][u][i] = w /\ w.tag # None
          BY <1>3, <3>1, <4>1, <5>1 DEF LatestWrites, Latest
        <5>3. queue[c][u][i].data = [f \in {"name"} |-> queue[c][u][i].tag.name]
          BY <1>12, <2>1, <4>1, <5>2, TagFacts
        <5>4. server[Profile(u)] \in Contents(w.doc)
          BY <1>2, <2>1, <2>5 DEF Places
        <5>5. server'[Profile(u)] = Apply(w, server[Profile(u)])
          BY <1>1, <1>2, <2>1, <2>5
        <5>6. w.data = [f \in {"name"} |-> w.tag.name]
          BY <5>2, <5>3
        <5>9. Apply(w, server[Profile(u)]) # Absent /\ NameOf(Apply(w, server[Profile(u)])) = w.tag.name
          BY <1>3, <5>4, <5>6, ApplyName
        <5>7. queue'[c][u][i].tag.name = w.tag.name
          BY <1>1, <5>2
        <5>8. QED
          BY <5>5, <5>7, <5>9 DEF Holds
      <4>3. QED
        BY <2>2, <4>1, <4>2
    <3>5. LatestCalls(c, u)' = {} /\ saved'[u] = None
      BY <1>1, <2>2, <3>3
    <3>6. QED
      BY <2>3, <3>4, <3>5 DEF SavingOf
  <2>6. QED
    BY <2>4, <2>5
<1>10. ASSUME NEW e \in Clients, NEW u \in Uids PROVE SavingOf(e, u)'
  <2>1. e = c
    BY DEF OneClient
  <2>2. QED
    BY <1>9, <2>1
<1>11. QED
  BY <1>8, <1>10 DEF SavedInv

(* The oldest write leaves the active queue: its report is the latest only   *)
(* if it was the last of the profile, and committed.                         *)
LEMMA LeftSaved ==
    ASSUME NameInv, NameInv', SavedInv, Grown, NEW c \in Clients, NEW ok \in BOOLEAN,
           Left(c, ok), Shortened(c), UNCHANGED <<server, user, saved, updates>>,
           \A e \in Clients : e # c => sent'[e] = sent[e],
           ok => sent[c] > 0 /\ sent'[c] = sent[c] - 1,
           ~ok => sent'[c] = 0
    PROVE  SavedInv'
<1>0. PICK o \in Users : user[c] = o
  BY DEF NameInv, StateInv
<1>1. Reported(c, ok)
  BY ReportedCall
<1>2. PICK h : h = Head(Active(c))
  OBVIOUS
<1>3. /\ Len(queue[c][o]) \in Nat /\ 1 \in 1..Len(queue[c][o]) /\ h = queue[c][o][1] /\ h \in Writes
      /\ sent[c] \in Nat /\ updates \in Nat
  BY <1>0, <1>2 DEF Shortened, NameInv, StateInv
<1>4. ASSUME NEW e \in Clients, NEW u \in Users, e # c \/ u # o PROVE queue'[e][u] = queue[e][u]
  BY <1>0, <1>4 DEF Shortened
<1>5. ASSUME NEW i \in 1..Len(queue'[c][o])
      PROVE  i + 1 \in 1..Len(queue[c][o]) /\ queue'[c][o][i] = queue[c][o][i + 1] /\ i \in Nat
  <2>1. Len(queue'[c][o]) \in Nat
    BY LeftType, <1>0, <1>3
  <2>2. QED
    BY <1>0, <2>1 DEF Shortened
<1>6. TagInv'
  <2> SUFFICES ASSUME NEW e \in Clients, NEW u \in Users, NEW i \in 1..Len(queue'[e][u]),
                      queue'[e][u][i].tag # None
               PROVE  /\ queue'[e][u][i].tag.uid = u /\ queue'[e][u][i].tag.no <= updates'
                      /\ queue'[e][u][i].doc = Profile(u)
                      /\ queue'[e][u][i].data = [f \in {"name"} |-> queue'[e][u][i].tag.name]
    BY DEF TagInv
  <2>1. \E j \in 1..Len(queue[e][u]) : queue'[e][u][i] = queue[e][u][j]
    <3>1. CASE e # c \/ u # o
      <4>1. queue'[e][u] = queue[e][u]
        BY <1>4, <3>1
      <4>2. QED
        BY <4>1
    <3>2. CASE e = c /\ u = o
      BY <1>5, <3>2
    <3>3. QED
      BY <3>1, <3>2
  <2>2. PICK j \in 1..Len(queue[e][u]) : queue'[e][u][i] = queue[e][u][j]
    BY <2>1
  <2>3. queue[e][u][j].tag # None
    BY <2>2
  <2>4. /\ queue[e][u][j].tag.uid = u /\ queue[e][u][j].tag.no <= updates
        /\ queue[e][u][j].doc = Profile(u)
        /\ queue[e][u][j].data = [f \in {"name"} |-> queue[e][u][j].tag.name]
    BY <2>3, TagFacts DEF SavedInv
  <2>5. QED
    BY <2>2, <2>4
<1>7. h.tag # None => h.tag.uid = o /\ h.tag.no <= updates
  BY <1>3 DEF SavedInv, TagInv
<1>8. ASSUME NEW e \in Clients, NEW i \in 1..Len(calls'[e])
      PROVE  \/ i \in 1..Len(calls[e]) /\ calls'[e][i] = calls[e][i]
             \/ /\ e = c /\ h.tag # None /\ calls'[e][i].kind = "write" /\ calls'[e][i].ok = ok
                /\ calls'[e][i].tag = h.tag
  <2>1. CASE e = c
    BY <1>1, <1>2, <2>1 DEF Reported
  <2>2. CASE e # c
    <3>1. calls'[e] = calls[e]
      BY <1>1, <2>2 DEF Reported
    <3>2. QED
      BY <3>1
  <2>3. QED
    BY <2>1, <2>2
<1>9. NumberInv'
  <2> SUFFICES ASSUME NEW e \in Clients, NEW i \in 1..Len(calls'[e]), calls'[e][i].kind = "write"
               PROVE  calls'[e][i].tag.no <= updates
    BY DEF NumberInv
  <2>1. CASE i \in 1..Len(calls[e]) /\ calls'[e][i] = calls[e][i]
    BY <2>1 DEF SavedInv, NumberInv
  <2>2. CASE h.tag # None /\ calls'[e][i].tag = h.tag
    BY <1>7, <2>2
  <2>3. QED
    BY <1>8, <2>1, <2>2
<1>10. ASSUME NEW e \in Clients, NEW u \in Uids PROVE SavingOf(e, u)'
  <2>1. SavingOf(e, u) /\ u \in Users
    BY DEF SavedInv, Users
  <2>2. \A i \in EnsureCalls(e, u)' : i \in EnsureCalls(e, u) /\ calls'[e][i] = calls[e][i]
    BY <1>8 DEF EnsureCalls
  <2>3. CASE e # c \/ u # o
    <3>1. queue'[e][u] = queue[e][u]
      BY <1>4, <2>1, <2>3
    <3>2. ASSUME NEW i \in LatestCalls(e, u)'
          PROVE  i \in LatestCalls(e, u) /\ calls'[e][i] = calls[e][i]
      <4>1. /\ i \in 1..Len(calls'[e]) /\ calls'[e][i].kind = "write" /\ calls'[e][i].ok
            /\ calls'[e][i].tag.uid = u /\ calls'[e][i].tag.no = updates
        BY DEF LatestCalls
      <4>2. i \in 1..Len(calls[e]) /\ calls'[e][i] = calls[e][i]
        BY <1>7, <1>8, <2>3, <4>1
      <4>3. QED
        BY <4>1, <4>2 DEF LatestCalls
    <3>3. Pending(e, u)' = Pending(e, u) /\ LatestWrites(e, u)' = LatestWrites(e, u)
      BY <3>1 DEF Pending, LatestWrites, Latest
    <3>4. user'[e] = u => sent'[e] = sent[e]
      BY <1>0, <2>3
    <3>5. /\ \A i \in LatestWrites(e, u)' :
                 /\ \A j \in Pending(e, u)' : j <= i
                 /\ user'[e] = u /\ i <= sent'[e] => Holds(u, queue[e][u][i].tag.name)'
          /\ \A i \in LatestCalls(e, u)' : Pending(e, u)' = {} /\ Holds(u, calls[e][i].tag.name)'
          /\ saved'[u] # None => Pending(e, u)' = {} /\ Holds(u, saved[u])'
      BY <2>1, <3>1, <3>2, <3>3, <3>4 DEF SavingOf, Holds
    <3>6. Saving(e, u)' => Saving(e, u)
      BY <3>2, <3>3 DEF Saving
    <3>7. QED
      BY <2>1, <2>2, <3>5, <3>6 DEF SavingOf, Grown
  <2>4. CASE e = c /\ u = o
    <3>1. ASSUME NEW i \in Pending(c, u)' PROVE i + 1 \in Pending(c, u) /\ i \in Nat
      BY <1>5, <2>4 DEF Pending
    <3>2. ASSUME NEW i \in LatestWrites(c, u)'
          PROVE  i + 1 \in LatestWrites(c, u) /\ i \in Nat /\ queue'[c][u][i] = queue[c][u][i + 1]
      BY <1>5, <2>4 DEF LatestWrites, Latest
    <3>3. ASSUME NEW i \in LatestWrites(c, u)'
          PROVE  /\ \A j \in Pending(c, u)' : j <= i
                 /\ user'[c] = u /\ i <= sent'[c] => Holds(u, queue[c][u][i].tag.name)'
      <4>1. /\ i + 1 \in LatestWrites(c, u) /\ i \in Nat /\ queue'[c][u][i] = queue[c][u][i + 1]
            /\ i \in 1..Len(queue'[c][u])
        BY <3>2 DEF LatestWrites
      <4>2. /\ \A j \in Pending(c, u) : j <= i + 1
            /\ user[c] = u /\ i + 1 <= sent[c] => Holds(u, queue[c][u][i + 1].tag.name)
        BY <2>1, <2>4, <4>1 DEF SavingOf
      <4>3. \A j \in Pending(c, u)' : j <= i
        BY <3>1, <4>1, <4>2
      <4>4. i <= sent'[c] => i + 1 <= sent[c]
        BY <1>3, <4>1
      <4>5. QED
        BY <1>0, <4>1, <4>2, <4>3, <4>4 DEF Holds
    <3>4. ASSUME NEW i \in LatestCalls(c, u)'
          PROVE  Saving(c, u) /\ Pending(c, u)' = {} /\ Holds(u, calls[c][i].tag.name)'
      <4>1. /\ i \in 1..Len(calls'[c]) /\ calls'[c][i].kind = "write" /\ calls'[c][i].ok
            /\ calls'[c][i].tag.uid = u /\ calls'[c][i].tag.no = updates
        BY DEF LatestCalls
      <4>2. CASE i \in 1..Len(calls[c]) /\ calls'[c][i] = calls[c][i]
        <5>1. i \in LatestCalls(c, u)
          BY <4>1, <4>2 DEF LatestCalls
        <5>2. Pending(c, u) = {} /\ Holds(u, calls[c][i].tag.name)
          BY <2>1, <2>4, <5>1 DEF SavingOf
        <5>3. QED
          BY <3>1, <4>2, <5>1, <5>2 DEF Holds, Saving
      <4>3. CASE h.tag # None /\ calls'[c][i].ok = ok /\ calls'[c][i].tag = h.tag
        <5>1. 1 \in LatestWrites(c, u)
          BY <1>3, <2>4, <4>1, <4>3 DEF LatestWrites, Latest
        <5>2. /\ \A j \in Pending(c, u) : j <= 1
              /\ user[c] = u /\ 1 <= sent[c] => Holds(u, h.tag.name)
          BY <1>3, <2>1, <2>4, <5>1 DEF SavingOf
        <5>3. Pending(c, u)' = {}
          <6> SUFFICES ASSUME NEW j \in Pending(c, u)' PROVE FALSE
            OBVIOUS
          <6>1. j + 1 <= 1 /\ j \in Nat /\ j # 0
            BY <3>1, <5>2 DEF Pending
          <6>2. QED
            BY <6>1
        <5>4. Holds(u, h.tag.name)
          BY <1>0, <1>3, <2>4, <4>1, <4>3, <5>2
        <5>5. QED
          BY <4>3, <5>1, <5>3, <5>4 DEF Holds, Saving
      <4>4. QED
        BY <1>8, <4>1, <4>2, <4>3
    <3>5. saved'[u] # None => Pending(c, u)' = {} /\ Holds(u, saved[u])'
      BY <2>1, <2>4, <3>1 DEF SavingOf, Holds
    <3>6. Saving(c, u)' => Saving(c, u)
      BY <3>2, <3>4 DEF Saving
    <3>7. Saving(c, u)' => /\ Shown(c, u)'
                           /\ user'[c] = u => \A i \in EnsureCalls(c, u)' : Finds(calls'[c][i], u)
      BY <2>1, <2>2, <2>4, <3>6 DEF SavingOf, Grown
    <3>8. QED
      BY <2>4, <3>3, <3>4, <3>5, <3>7 DEF SavingOf
  <2>5. QED
    BY <2>3, <2>4
<1>11. QED
  BY <1>6, <1>9, <1>10 DEF SavedInv

LEMMA AcknowledgeSaved ==
    ASSUME NameInv, NameInv', CalmInv, SavedInv, NEW c \in Clients, Acknowledge(c), UNCHANGED appVars
    PROVE  SavedInv'
<1>1. Grown /\ Left(c, TRUE) /\ Shortened(c)
  BY AcknowledgeCalm
<1>2. /\ UNCHANGED <<server, user, saved, updates>> /\ sent[c] > 0
      /\ sent' = [sent EXCEPT ![c] = @ - 1] /\ sent \in [Clients -> Nat]
  BY DEF Acknowledge, appVars, NameInv, StateInv
<1>3. sent'[c] = sent[c] - 1 /\ \A e \in Clients : e # c => sent'[e] = sent[e]
  BY <1>2
<1>4. QED
  BY <1>1, <1>2, <1>3, LeftSaved

LEMMA RejectSaved ==
    ASSUME NameInv, NameInv', CalmInv, SavedInv, "write" \notin Denials, NEW c \in Clients, Reject(c),
           UNCHANGED appVars
    PROVE  SavedInv'
<1>1. Grown /\ Left(c, FALSE) /\ Shortened(c)
  BY RejectCalm
<1>2. UNCHANGED <<server, sent, user, saved, updates>> /\ sent[c] = 0
  BY DEF Reject, appVars
<1>3. QED
  BY <1>1, <1>2, LeftSaved

(* A profile that is there, or about to be written, is found. *)
LEMMA SnapshotShows ==
    ASSUME NameInv, NEW c \in Clients, NEW u \in Uids, user[c] = u, NEW base \in Places,
           NEW D, Profile(u) \in D, base[Profile(u)] # Absent \/ Pending(c, u) # {}
    PROVE  Profile(u) \in DOMAIN Snapshot(c, D, base)
<1> DEFINE d == Profile(u)
           x == base[Profile(u)]
<1>1. d \in Docs /\ u \in Users
  BY ProfilePlaces DEF Users
<1>2. x \in Contents(d)
  BY <1>1 DEF Places
<1>3. /\ Len(queue[c][user[c]]) \in Nat
      /\ \A i \in 1..Len(queue[c][user[c]]) : queue[c][user[c]][i] \in Writes
  BY <1>1, WriteAt
<1>4. LocalView(c, d, x) # Absent
  <2>1. CASE Pending(c, u) # {}
    <3>1. PICK k : k \in Pending(c, u)
      BY <2>1
    <3>2. k \in 1..Len(queue[c][user[c]]) /\ queue[c][user[c]][k].doc = d
      BY <3>1 DEF Pending
    <3> DEFINE T == Contents(d)
               S == {y \in T : y # Absent}
    <3>3. ASSUME NEW i \in 1..Len(queue[c][user[c]]), NEW y \in T, queue[c][user[c]][i].doc = d
          PROVE  Apply(queue[c][user[c]][i], y) \in S
      <4>1. queue[c][user[c]][i] \in Writes /\ y \in Contents(queue[c][user[c]][i].doc)
        BY <1>3, <3>3
      <4>2. /\ Apply(queue[c][user[c]][i], y) # Absent
            /\ Apply(queue[c][user[c]][i], y) \in Contents(queue[c][user[c]][i].doc)
        BY <4>1, ApplyPresent, ApplyDocument
      <4>3. QED
        BY <3>3, <4>2
    <3>4. S \subseteq T /\ x \in T
      BY <1>2
    <3> HIDE DEF d, x, S, T
    <3>5. LocalView(c, d, x) \in S
      BY <1>3, <3>2, <3>3, <3>4, LocalViewWritten
    <3>6. QED
      BY <3>5 DEF S
  <2>2. CASE Pending(c, u) = {}
    <3>1. x # Absent
      BY <2>2
    <3>2. \A i \in 1..Len(queue[c][user[c]]) : queue[c][user[c]][i].doc # d
      BY <2>2 DEF Pending
    <3> HIDE DEF d, x
    <3>3. LocalView(c, d, x) = x
      BY <1>3, <3>2, LocalViewUnwritten
    <3>4. QED
      BY <3>1, <3>3
  <2>3. QED
    BY <2>1, <2>2
<1>5. QED
  BY <1>4 DEF Snapshot

(* Reads are answered: createOrUpdateUserInFirestore finds a profile that is *)
(* saved or being saved.                                                     *)
LEMMA AnsweredFound ==
    ASSUME NameInv, SavedInv, NEW c \in Clients, NEW D, NEW ok, NEW docs, Answered(c, D, ok, docs),
           UNCHANGED user,
           \A u \in Uids : user[c] = u /\ Shown(c, u) /\ Profile(u) \in D =>
               Profile(u) \in DOMAIN docs /\ BOOLEAN \subseteq ok
    PROVE  Found /\ Unreported
<1>1. Unreported
  <2> SUFFICES ASSUME NEW e \in Clients, NEW i \in 1..Len(calls'[e]), calls'[e][i].kind = "write"
               PROVE  \E j \in 1..Len(calls[e]) : calls[e][j] = calls'[e][i]
    BY DEF Unreported
  <2>1. CASE e = c
    <3>1. i \in 1..Len(calls[c]) /\ calls'[c][i] = calls[c][i]
      BY <2>1 DEF Answered
    <3>2. QED
      BY <2>1, <3>1
  <2>2. CASE e # c
    <3>1. calls'[e] = calls[e]
      BY <2>2 DEF Answered
    <3>2. QED
      BY <3>1
  <2>3. QED
    BY <2>1, <2>2
<1>2. Found
  <2> SUFFICES ASSUME NEW e \in Clients, NEW u \in Uids, user'[e] = u, Saving(e, u),
                      NEW i \in EnsureCalls(e, u)'
               PROVE  Finds(calls'[e][i], u)
    BY DEF Found
  <2>1. user[e] = u /\ SavingOf(e, u) /\ Shown(e, u)
    BY DEF SavedInv, SavingOf
  <2>2. /\ i \in 1..Len(calls'[e]) /\ calls'[e][i].kind = "read"
        /\ calls'[e][i].tag.kind = "ensure" /\ calls'[e][i].tag.uid = u
    BY DEF EnsureCalls
  <2>3. CASE i \in 1..Len(calls[e]) /\ calls'[e][i] = calls[e][i]
    <3>1. i \in EnsureCalls(e, u)
      BY <2>2, <2>3 DEF EnsureCalls
    <3>2. QED
      BY <2>1, <2>3, <3>1 DEF SavingOf
  <2>4. CASE ~(i \in 1..Len(calls[e]) /\ calls'[e][i] = calls[e][i])
    <3>1. e = c
      <4> SUFFICES ASSUME e # c PROVE FALSE
        OBVIOUS
      <4>1. calls'[e] = calls[e]
        BY DEF Answered
      <4>2. QED
        BY <2>2, <2>4, <4>1
    <3>2. /\ calls'[c][i].docs = docs /\ (BOOLEAN \subseteq ok => calls'[c][i].ok)
          /\ \E a \in 1..Len(reads[c]) : reads[c][a].docs = D /\ reads[c][a].tag = calls'[c][i].tag
      BY <2>2, <2>4, <3>1 DEF Answered
    <3>3. PICK a \in 1..Len(reads[c]) : reads[c][a].docs = D /\ reads[c][a].tag = calls'[c][i].tag
      BY <3>2
    <3>4. reads[c] \in Seq(ProfileReads)
      BY DEF NameInv, StateInv
    <3>5. reads[c][a] \in ProfileReads
      BY <3>4
    <3>6. D = {Profile(u)}
      BY <2>2, <3>1, <3>3, <3>5 DEF ProfileReads
    <3>7. Profile(u) \in DOMAIN docs /\ BOOLEAN \subseteq ok
      BY <2>1, <3>1, <3>6
    <3>8. QED
      BY <3>1, <3>2, <3>7 DEF Finds
  <2>5. QED
    BY <2>3, <2>4
<1>3. QED
  BY <1>1, <1>2

LEMMA SynchroniseSaved ==
    ASSUME NameInv, NameInv', CalmInv, SavedInv, ~Overlap, NEW c \in Clients, NEW D \in Queries(c),
           Synchronise(c, D), UNCHANGED appVars
    PROVE  SavedInv'
<1>1. /\ Grown /\ Answered(c, D, BOOLEAN, Snapshot(c, D, server))
      /\ \A e \in Clients, u \in Users : SameWrites(queue'[e][u], queue[e][u])
  BY SynchroniseCalm
<1>2. UNCHANGED <<server, sent, user, saved, updates>> /\ server \in Places
  BY DEF Synchronise, appVars, NameInv, StateInv
<1>3. ASSUME NEW u \in Uids, user[c] = u, Shown(c, u), Profile(u) \in D
      PROVE  Profile(u) \in DOMAIN Snapshot(c, D, server) /\ BOOLEAN \subseteq BOOLEAN
  <2>1. server[Profile(u)] # Absent \/ Pending(c, u) # {}
    BY <1>3, ProfilePlaces DEF Shown, CalmInv, DocumentInv, KnownInv
  <2>2. QED
    BY <1>2, <1>3, <2>1, SnapshotShows
<1> DEFINE docs == Snapshot(c, D, server)
<1>4. Answered(c, D, BOOLEAN, docs) /\ \A u \in Uids : user[c] = u /\ Shown(c, u) /\ Profile(u) \in D =>
          Profile(u) \in DOMAIN docs /\ BOOLEAN \subseteq BOOLEAN
  BY <1>1, <1>3
<1> HIDE DEF docs
<1>5. Found /\ Unreported
  BY <1>2, <1>4, AnsweredFound
<1>6. Carried /\ \A e \in Clients, u \in Uids : Pending(e, u)' \subseteq Pending(e, u)
  BY <1>1, SameCarried
<1>7. QED
  BY <1>1, <1>2, <1>5, <1>6, SavedKept

LEMMA ReadFromCacheSaved ==
    ASSUME NameInv, NameInv', CalmInv, SavedInv, ~Overlap, NEW c \in Clients, NEW D \in Queries(c),
           ReadFromCache(c, D), UNCHANGED appVars
    PROVE  SavedInv'
<1>1. Grown
  BY UnansweredCalm
<1>2. UNCHANGED <<server, cache, queue, sent, user, saved, updates>> /\ cache[c] \in Places
  BY DEF ReadFromCache, appVars, NameInv, StateInv
<1> DEFINE docs == Snapshot(c, D, cache[c])
           ok == IF DOMAIN docs = {} THEN {FALSE} ELSE BOOLEAN
<1>3. Resolve(c, D, ok, docs)
  BY DEF ReadFromCache
<1>4. docs \in Answer
  BY <1>2, QueryDocs, SnapshotAnswer DEF NameInv
<1>5. ASSUME NEW u \in Uids, user[c] = u, Shown(c, u), Profile(u) \in D
      PROVE  Profile(u) \in DOMAIN docs /\ BOOLEAN \subseteq ok
  <2>1. Profile(u) \in DOMAIN docs
    BY <1>2, <1>5, SnapshotShows DEF Shown
  <2> HIDE DEF docs
  <2>2. QED
    BY <2>1
<1> HIDE DEF docs, ok
<1>6. Answered(c, D, ok, docs)
  BY <1>3, <1>4, ResolveAnswered
<1>7. Found /\ Unreported
  BY <1>2, <1>5, <1>6, AnsweredFound
<1>8. Quiet
  BY <1>2, SameQueuesQuiet
<1>9. QED
  BY <1>1, <1>2, <1>7, <1>8, QuietSaved

-----------------------------------------------------------------------------
LEMMA SavedInit == Init => SavedInv
<1> SUFFICES ASSUME Init PROVE SavedInv
  OBVIOUS
<1>1. /\ \A c \in Clients, u \in Users : Len(queue[c][u]) = 0
      /\ \A c \in Clients : Len(calls[c]) = 0
      /\ \A u \in Uids : saved[u] = None
  BY DEF Init, FirestoreInit
<1>2. TagInv /\ NumberInv
  BY <1>1 DEF TagInv, NumberInv
<1>3. ASSUME NEW c \in Clients, NEW u \in Uids PROVE SavingOf(c, u)
  <2>1. Len(queue[c][u]) = 0 /\ Len(calls[c]) = 0
    BY <1>1 DEF Users
  <2>2. LatestWrites(c, u) = {} /\ LatestCalls(c, u) = {} /\ saved[u] = None
    BY <1>1, <2>1 DEF LatestWrites, LatestCalls
  <2>3. QED
    BY <2>2 DEF SavingOf, Saving
<1>4. QED
  BY <1>2, <1>3 DEF SavedInv

LEMMA SavedStep ==
    ASSUME OneClient, ~Overlap, Denials = {}, NameInv, NameInv', CalmInv, SavedInv, [Next]_vars
    PROVE  SavedInv'
<1>0. "write" \notin Denials /\ "read" \notin Denials
  OBVIOUS
<1>1. CASE UNCHANGED vars
  <2>1. UNCHANGED <<server, queue, sent, user, calls, saved, updates>>
    BY <1>1 DEF vars, fsVars, appVars
  <2>2. Grown /\ OldCalls
    BY <1>0, <2>1, CalmStep DEF OldCalls
  <2>3. QED
    BY <2>1, <2>2, PlainSaved
<1>2. ASSUME NEW c \in Clients, People(c) PROVE SavedInv'
  <2>1. ASSUME NEW u \in Uids, SignIn(c, u) PROVE SavedInv'
    BY <2>1, SignInSaved
  <2>2. CASE SignOut(c) \/ ForcedSignOut(c)
    BY <2>2, SignOutSaved
  <2>3. CASE Relaunch(c)
    BY <2>3, RelaunchSaved
  <2>4. CASE OpenMenu(c) \/ CloseMenu(c) \/ OpenView(c)
    BY <2>4, ViewSaved
  <2>5. ASSUME NEW name \in Uids \cup {Blank}, TapUpdate(c, name) PROVE SavedInv'
    BY <2>5, TapUpdateSaved
  <2>6. QED
    BY <1>2, <2>1, <2>2, <2>3, <2>4, <2>5 DEF People
<1>3. ASSUME NEW c \in Clients, RunCall(c) PROVE SavedInv'
  BY <1>3, RunCompletionSaved, RunEnsureSaved, RunFetchSaved, RunNameSavedSaved DEF RunCall
<1>4. ASSUME NEW c \in Clients, FirestoreStep(c), UNCHANGED appVars PROVE SavedInv'
  <2>1. CASE Commit(c)
    BY <1>4, <2>1, CommitSaved
  <2>2. CASE Acknowledge(c)
    BY <1>4, <2>2, AcknowledgeSaved
  <2>3. ASSUME NEW D \in Queries(c), Synchronise(c, D) PROVE SavedInv'
    BY <1>4, <2>3, SynchroniseSaved
  <2>4. CASE Reject(c)
    BY <1>0, <1>4, <2>4, RejectSaved
  <2>5. ASSUME NEW D \in Queries(c), ReadFromCache(c, D) \/ ReadDenied(c, D) PROVE SavedInv'
    <3>1. ReadFromCache(c, D)
      BY <1>0, <2>5 DEF ReadDenied
    <3>2. QED
      BY <1>4, <3>1, ReadFromCacheSaved
  <2>6. CASE GoOffline(c) \/ GoOnline(c)
    BY <1>4, <2>6, ConnectionSaved
  <2>7. QED
    BY <1>4, <2>1, <2>2, <2>3, <2>4, <2>5, <2>6 DEF FirestoreStep, Answers, Faults
<1>5. QED
  BY <1>1, <1>2, <1>3, <1>4 DEF Next

(* With one device, when people wait until a sign-in is complete and the     *)
(* server refuses nothing of an owner, a name that updateUserInfo announced  *)
(* as saved is the name on the server: no later handler of                   *)
(* createOrUpdateUserInFirestore, no write that is sent twice and no restart *)
(* takes it back, for any number of accounts, sign-ins and saves.            *)
THEOREM CalmSavedNameKept ==
    ASSUME OneClient, ~Overlap, Denials = {}
    PROVE  Spec => []SavedNameKept
<1>1. Init => NameInv /\ CalmInv /\ SavedInv
  BY NameInit, CalmInit, SavedInit
<1>2. NameInv /\ CalmInv /\ SavedInv /\ [Next]_vars => NameInv' /\ CalmInv' /\ SavedInv'
  BY NameStep, CalmStep, SavedStep
<1>3. SavedInv => SavedNameKept
  <2> SUFFICES ASSUME SavedInv, NEW u \in Uids, saved[u] # None, ~Unsettled(u)
               PROVE  server[Profile(u)] # Absent /\ NameOf(server[Profile(u)]) = saved[u]
    BY DEF SavedNameKept
  <2>1. PICK c : c \in Clients
    BY DEF OneClient
  <2>2. QED
    BY <2>1 DEF SavedInv, SavingOf, Holds
<1>4. QED
  BY <1>1, <1>2, <1>3, PTL DEF Spec
=============================================================================
