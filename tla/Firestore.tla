----------------------------- MODULE Firestore -----------------------------
(***************************************************************************)
(* Documents as the app sees them through the Firestore SDK it embeds: a    *)
(* server, and per client a persistent cache of server documents, one       *)
(* persistent queue of pending writes per user, one-shot reads of a          *)
(* document or a collection (getDocument, getDocuments) and completion       *)
(* handlers that run on the client's main queue in the order the SDK issued  *)
(* them.                                                                     *)
(*                                                                          *)
(* A document is a function from the fields it has to their values.  A      *)
(* module that EXTENDS this one supplies what the handlers do: it calls     *)
(* GetDocument, GetDocuments, SetData and Delete and takes handlers from    *)
(* the head of calls[c].                                                     *)
(***************************************************************************)
EXTENDS Naturals, Sequences, FiniteSets

CONSTANTS Clients,      \* installations of the app
          Uids,         \* accounts
          Paths,        \* places of documents that every uid has
          None,         \* nobody signed in
          Absent,       \* no document
          Denials       \* what the server may refuse at will: "read", "write"

ASSUME FirestoreAssumption ==
    /\ None \notin Uids
    /\ Denials \subseteq {"read", "write"}

VARIABLES
    server,    \* per place: the document, or Absent
    cache,     \* per client and place: the server document last known
    queue,     \* per client and user: pending writes, oldest first
    sent,      \* per client: writes of the user's queue the server committed
               \*   and the client has not heard about
    user,      \* per client: the user whose queue is active
    online,    \* per client: the streams to the server are up
    reads,     \* per client: one-shot reads waiting for a snapshot
    calls      \* per client: completion handlers on the main queue

fsVars == <<server, cache, queue, sent, user, online, reads, calls>>

Docs     == Paths \X Uids
Owner(d) == d[2]
Users    == Uids \cup {None}

(* A read waits for the documents D of its query; one: it is getDocument.    *)
(* tag says whose handler it is.                                             *)
Read(D, one, tag) == [docs |-> D, one |-> one, tag |-> tag]

(* setData: replace the document, or merge the given fields into it; delete  *)
(* replaces it by nothing.  seen: a snapshot of the server newer than the    *)
(* commit is already in the cache.                                           *)
Write(d, data, merge, tag) ==
    [doc |-> d, data |-> data, merge |-> merge, tag |-> tag, seen |-> FALSE]

(* The fields of both, of new where both have one. *)
Merged(new, old) ==
    [f \in DOMAIN new \cup DOMAIN old |-> IF f \in DOMAIN new THEN new[f] ELSE old[f]]

Apply(w, doc) ==
    IF w.merge /\ doc # Absent THEN Merged(w.data, doc) ELSE w.data

(* Mutation: local documents leave out the writes that are still pending. *)
LocalViewOfServerOnly(c, d, base) == base

(* The document as the client shows it: pending writes over base. *)
LocalView(c, d, base) ==
    LET q == queue[c][user[c]]
        v[i \in 0..Len(q)] ==
            IF i = 0 THEN base
            ELSE IF q[i].doc = d THEN Apply(q[i], v[i - 1]) ELSE v[i - 1]
    IN  v[Len(q)]

(* Those of the documents D that exist, over base. *)
Snapshot(c, D, base) ==
    LET v == [d \in D |-> LocalView(c, d, base[d])]
    IN  [d \in {e \in D : v[e] # Absent} |-> v[d]]

ReadCall(tag, ok, docs) == [kind |-> "read", tag |-> tag, ok |-> ok, docs |-> docs]
WriteCall(tag, ok)      == [kind |-> "write", tag |-> tag, ok |-> ok, docs |-> <<>>]

(* The reads of q that wait for one of the queries Ds, in their order. *)
Among(q, Ds) ==
    LET f[i \in 0..Len(q)] ==
            IF i = 0 THEN <<>>
            ELSE IF q[i].docs \in Ds THEN Append(f[i - 1], q[i]) ELSE f[i - 1]
    IN  f[Len(q)]

Queries(c) == {reads[c][i].docs : i \in 1..Len(reads[c])}

(* The handlers of all reads of D, in order: they listen to one query and    *)
(* get the same snapshot.  ok says which succeed: reads of one document      *)
(* (TRUE), reads of a collection (FALSE).                                    *)
Resolve(c, D, ok, docs) ==
    LET ready == Among(reads[c], {D})
    IN  /\ D \in Queries(c)
        /\ reads' = [reads EXCEPT ![c] = Among(@, Queries(c) \ {D})]
        /\ calls' = [calls EXCEPT ![c] =
                        @ \o [i \in 1..Len(ready) |->
                                 ReadCall(ready[i].tag, ready[i].one \in ok, docs)]]

(* Writes that will be committed anew: the cache has not seen that yet. *)
Unseen(q) == [i \in DOMAIN q |-> [q[i] EXCEPT !.seen = FALSE]]

(* The first n writes were committed; snapshots of D have what they did. *)
Seen(q, n, D) ==
    [i \in DOMAIN q |-> [q[i] EXCEPT !.seen = q[i].seen \/ (i <= n /\ q[i].doc \in D)]]

FirestoreInit ==
    /\ cache = [c \in Clients |-> [d \in Docs |-> Absent]]
    /\ queue = [c \in Clients |-> [u \in Users |-> <<>>]]
    /\ sent = [c \in Clients |-> 0]
    /\ user = [c \in Clients |-> None]
    /\ online \in [Clients -> BOOLEAN]
    /\ reads = [c \in Clients |-> <<>>]
    /\ calls = [c \in Clients |-> <<>>]

-----------------------------------------------------------------------------
(* What the app calls.  Each leaves alone what it does not name.             *)

GetDocument(c, d, tag) ==
    reads' = [reads EXCEPT ![c] = Append(@, Read({d}, TRUE, tag))]

GetDocuments(c, D, tag) ==
    reads' = [reads EXCEPT ![c] = Append(@, Read(D, FALSE, tag))]

SetData(c, d, data, merge, tag) ==
    queue' = [queue EXCEPT ![c][user[c]] = Append(@, Write(d, data, merge, tag))]

Delete(c, d, tag) == SetData(c, d, Absent, FALSE, tag)

(* Mutation: the write pipeline of the previous user is not emptied. *)
HandleCredentialChangeKeepsPipeline(c, u) ==
    /\ user' = [user EXCEPT ![c] = u]
    /\ queue' = [queue EXCEPT ![c][user[c]] = Unseen(@)]
    /\ UNCHANGED sent

(* The active queue changes with the user and the streams are restarted:    *)
(* what was sent and not acknowledged will be sent again.                   *)
HandleCredentialChange(c, u) ==
    /\ user' = [user EXCEPT ![c] = u]
    /\ sent' = [sent EXCEPT ![c] = 0]
    /\ queue' = [queue EXCEPT ![c][user[c]] = Unseen(@)]

(* A new process: the queues and the cache persist, handlers do not. *)
Persisted(queues) ==
    [u \in Users |-> [i \in DOMAIN queues[u] |->
                         [queues[u][i] EXCEPT !.seen = FALSE, !.tag = None]]]

-----------------------------------------------------------------------------
(* Steps of the SDK and of the server.                                       *)

Active(c) == queue[c][user[c]]

(* Security rules (external): only its owner may write a document. *)
Permitted(c, w) == user[c] = Owner(w.doc)

(* The server commits the next write of the pipeline. *)
Commit(c) ==
    /\ online[c] /\ sent[c] < Len(Active(c))
    /\ LET w == Active(c)[sent[c] + 1]
       IN  /\ Permitted(c, w)
           /\ server' = [server EXCEPT ![w.doc] = Apply(w, @)]
    /\ sent' = [sent EXCEPT ![c] = @ + 1]
    /\ UNCHANGED <<cache, queue, user, online, reads, calls>>

(* The client hears that its oldest write was committed. *)
Acknowledge(c) ==
    /\ online[c] /\ sent[c] > 0
    /\ LET w == Head(Active(c))
       IN  /\ cache' = IF w.seen THEN cache
                       ELSE [cache EXCEPT ![c][w.doc] = Apply(w, @)]
           /\ calls' = IF w.tag = None THEN calls
                       ELSE [calls EXCEPT ![c] = Append(@, WriteCall(w.tag, TRUE))]
    /\ queue' = [queue EXCEPT ![c][user[c]] = Tail(@)]
    /\ sent' = [sent EXCEPT ![c] = @ - 1]
    /\ UNCHANGED <<server, user, online, reads>>

(* Mutation: a permanent error is retried like a transient one. *)
RejectRetries(c) ==
    /\ online[c] /\ sent[c] = 0 /\ Active(c) # <<>>
    /\ "write" \in Denials \/ ~Permitted(c, Head(Active(c)))
    /\ UNCHANGED fsVars

(* A permanent error: the write is dropped.  Transient ones are retried. *)
Reject(c) ==
    /\ online[c] /\ sent[c] = 0 /\ Active(c) # <<>>
    /\ LET w == Head(Active(c))
       IN  /\ "write" \in Denials \/ ~Permitted(c, w)
           /\ calls' = IF w.tag = None THEN calls
                       ELSE [calls EXCEPT ![c] = Append(@, WriteCall(w.tag, FALSE))]
    /\ queue' = [queue EXCEPT ![c][user[c]] = Tail(@)]
    /\ UNCHANGED <<server, cache, sent, user, online, reads>>

(* Mutation: what the server sends is shown and not kept. *)
ApplyRemoteEventUncached(c, D) == UNCHANGED <<cache, queue>>

(* The server's documents D get into the cache; what the server committed of *)
(* the pending writes is in them.                                            *)
ApplyRemoteEvent(c, D) ==
    /\ cache' = [cache EXCEPT ![c] =
                    [d \in Docs |-> IF d \in D THEN server[d] ELSE @[d]]]
    /\ queue' = [queue EXCEPT ![c][user[c]] = Seen(@, sent[c], D)]

(* Online, a read waits for the server's documents. *)
Synchronise(c, D) ==
    /\ online[c]
    /\ Resolve(c, D, BOOLEAN, Snapshot(c, D, server))
    /\ ApplyRemoteEvent(c, D)
    /\ UNCHANGED <<server, sent, user, online>>

(* Offline, it gets the local documents; for getDocument a missing one is an *)
(* error.                                                                    *)
ReadFromCache(c, D) ==
    /\ ~online[c]
    /\ LET docs == Snapshot(c, D, cache[c])
       IN  Resolve(c, D, IF DOMAIN docs = {} THEN {FALSE} ELSE BOOLEAN, docs)
    /\ UNCHANGED <<server, cache, queue, sent, user, online>>

(* The server refuses the read. *)
ReadDenied(c, D) ==
    /\ online[c] /\ "read" \in Denials
    /\ Resolve(c, D, {}, <<>>)
    /\ UNCHANGED <<server, cache, queue, sent, user, online>>

GoOffline(c) ==
    /\ online[c]
    /\ online' = [online EXCEPT ![c] = FALSE]
    /\ sent' = [sent EXCEPT ![c] = 0]
    /\ queue' = [queue EXCEPT ![c][user[c]] = Unseen(@)]
    /\ UNCHANGED <<server, cache, user, reads, calls>>

GoOnline(c) ==
    /\ ~online[c]
    /\ online' = [online EXCEPT ![c] = TRUE]
    /\ UNCHANGED <<server, cache, queue, sent, user, reads, calls>>

(* The server does what it is asked; or it refuses, or cannot be asked. *)
Answers(c) ==
    Commit(c) \/ Acknowledge(c) \/ \E D \in Queries(c) : Synchronise(c, D)

Faults(c) ==
    Reject(c) \/ \E D \in Queries(c) : ReadFromCache(c, D) \/ ReadDenied(c, D)

FirestoreStep(c) == Answers(c) \/ Faults(c) \/ GoOffline(c) \/ GoOnline(c)
=============================================================================
