--------------------------- MODULE FirestoreSync ---------------------------
(***************************************************************************)
(* The part of the Cloud Firestore client that ApiClient relies on, and    *)
(* the backend behind it.                                                  *)
(*                                                                         *)
(* Writes.  setData and delete return as soon as a task is on the worker   *)
(* queue (calls).  The task appends one mutation to the mutation queue on  *)
(* disk (queue).  The write stream sends at most MaxPipeline of them, the  *)
(* backend commits them in order and each acknowledgement removes the head *)
(* of the queue.  A stream that breaks loses the acknowledgements under    *)
(* way and the next one sends the pipeline again: a mutation is committed  *)
(* at least once.  A mutation the backend refuses for good is dropped, and *)
(* ApiClient, which passes no completion handler, never learns of it.      *)
(*                                                                         *)
(* Queries.  getDocuments puts a task on the same worker queue; the answer *)
(* is the remote document cache, brought up to date when the device is     *)
(* online, with the pending mutations on top, delivered later on the main  *)
(* queue.                                                                  *)
(*                                                                         *)
(* A mutation sets a whole document or, with NoDoc, deletes it.            *)
(***************************************************************************)
EXTENDS Naturals, Sequences, FiniteSetsExt

CONSTANTS
    Devices,        \* the installations of the app
    Keys,           \* the paths of the documents
    Queried,        \* the paths a query reads
    Docs,           \* the contents a document may have
    NoDoc,          \* "there is no such document"
    Query,          \* the worker-queue task of a query
    MayRefuse,      \* whether the backend's rules may refuse a write
    QueriesMayFail, \* whether a query may end with an error
    MaxPipeline,    \* kMaxPendingWrites: writes sent and not acknowledged
    MaxPending,     \* bound: the writes a device has in calls and queue
    MaxLoads        \* bound: the queries of a device not yet answered

Mutation == [key : Keys, doc : Docs \cup {NoDoc}]

ASSUME SyncAssumption ==
    /\ Queried \subseteq Keys
    /\ NoDoc \notin Docs
    /\ Query \notin Mutation
    /\ MayRefuse \in BOOLEAN
    /\ QueriesMayFail \in BOOLEAN
    /\ MaxPipeline \in Nat \ {0}
    /\ MaxPending \in Nat
    /\ MaxLoads \in Nat

VARIABLES
    server,     \* the backend's documents
    calls,      \* per device: the tasks on the worker queue (lost by a crash)
    queue,      \* per device: the mutation queue (kept on disk)
    applied,    \* per device: how many mutations at the head of the queue the
                \* backend has committed on the open stream, with their
                \* acknowledgements under way
    synced,     \* per device: how many of these the cache has already seen
                \* through a query
    cache,      \* per device: the remote document cache (kept on disk)
    refused,    \* the documents for which the backend has refused a write
    listens,    \* per device: the queries waiting for their first snapshot
    snapshots   \* per device: the answers on their way to the main queue

writeVars == <<server, calls, queue, applied, synced, cache, refused>>
queryVars == <<listens, snapshots>>
syncVars  == <<server, calls, queue, applied, synced, cache, refused,
               listens, snapshots>>

MaybeDoc == Docs \cup {NoDoc}
Snapshot == [Queried -> MaybeDoc]

SyncTypeOK ==
    /\ server \in [Keys -> MaybeDoc]
    /\ calls \in [Devices -> Seq(Mutation \cup {Query})]
    /\ queue \in [Devices -> Seq(Mutation)]
    /\ applied \in [Devices -> Nat]
    /\ synced \in [Devices -> Nat]
    /\ cache \in [Devices -> Snapshot]
    /\ refused \subseteq Keys
    /\ listens \in [Devices -> Nat]
    /\ snapshots \in [Devices -> Seq(Snapshot)]
    /\ \A d \in Devices : /\ synced[d] <= applied[d]
                          /\ applied[d] <= Len(queue[d])
                          /\ applied[d] <= MaxPipeline

----------------------------------------------------------------------------
Set(k, doc) == [key |-> k, doc |-> doc]
Delete(k)   == [key |-> k, doc |-> NoDoc]

Write(docs, m) == [docs EXCEPT ![m.key] = m.doc]

\* What a reader of the device sees: the documents docs with the pending
\* mutations on top, in the order they were made.
Overlay(docs, muts) ==
    [k \in DOMAIN docs |->
        LET writes == {i \in DOMAIN muts : muts[i].key = k}
        IN  IF writes = {} THEN docs[k] ELSE muts[Max(writes)].doc]

IsQuery(task) == task = Query

\* What the bounds count: the writes and the queries of a device on their way.
Pending(d) == Cardinality({i \in DOMAIN calls[d] : ~IsQuery(calls[d][i])})
              + Len(queue[d])
Loads(d)   == Cardinality({i \in DOMAIN calls[d] : IsQuery(calls[d][i])})
              + listens[d] + Len(snapshots[d])

----------------------------------------------------------------------------
SyncInit ==
    /\ server = [k \in Keys |-> NoDoc]
    /\ calls = [d \in Devices |-> <<>>]
    /\ queue = [d \in Devices |-> <<>>]
    /\ applied = [d \in Devices |-> 0]
    /\ synced = [d \in Devices |-> 0]
    /\ cache = [d \in Devices |-> [k \in Queried |-> NoDoc]]
    /\ refused = {}
    /\ listens = [d \in Devices |-> 0]
    /\ snapshots = [d \in Devices |-> <<>>]

\* setData and delete return once their tasks are on the worker queue; muts are
\* the calls one method of ApiClient makes, in order.
Submit(d, muts) ==
    /\ Pending(d) + Len(muts) <= MaxPending
    /\ calls' = [calls EXCEPT ![d] = @ \o muts]
    /\ UNCHANGED <<server, queue, applied, synced, cache, refused>>
    /\ UNCHANGED queryVars

\* The worker queue runs a write task: the mutation is on disk from here on.
WriteLocally(d) ==
    /\ calls[d] # <<>>
    /\ Head(calls[d]) # Query
    /\ queue' = [queue EXCEPT ![d] = Append(@, Head(calls[d]))]
    /\ calls' = [calls EXCEPT ![d] = Tail(@)]
    /\ UNCHANGED <<server, applied, synced, cache, refused>>
    /\ UNCHANGED queryVars

\* Mutant of Commit: the pipeline is filled one short of the queue.
CommitAllButLast(d) ==
    /\ applied[d] + 1 < Len(queue[d])
    /\ applied[d] < MaxPipeline
    /\ server' = Write(server, queue[d][applied[d] + 1])
    /\ applied' = [applied EXCEPT ![d] = @ + 1]
    /\ UNCHANGED <<calls, queue, synced, cache, refused>>
    /\ UNCHANGED queryVars

\* The backend commits the next mutation of the pipeline.
Commit(d) ==
    /\ applied[d] < Len(queue[d])
    /\ applied[d] < MaxPipeline
    /\ server' = Write(server, queue[d][applied[d] + 1])
    /\ applied' = [applied EXCEPT ![d] = @ + 1]
    /\ UNCHANGED <<calls, queue, synced, cache, refused>>
    /\ UNCHANGED queryVars

\* Mutant of Acknowledge: the pipeline keeps counting the acknowledged write.
AcknowledgeUncounted(d) ==
    /\ applied[d] > 0
    /\ queue' = [queue EXCEPT ![d] = Tail(@)]
    /\ UNCHANGED <<server, calls, applied, synced, cache, refused>>
    /\ UNCHANGED queryVars

\* The acknowledgement of the head of the pipeline arrives.  The cache takes the
\* written document unless a query has shown it that version or a later one.
Acknowledge(d) ==
    /\ applied[d] > 0
    /\ cache' = IF synced[d] = 0 /\ Head(queue[d]).key \in Queried
                THEN [cache EXCEPT ![d] = Write(@, Head(queue[d]))]
                ELSE cache
    /\ queue' = [queue EXCEPT ![d] = Tail(@)]
    /\ applied' = [applied EXCEPT ![d] = @ - 1]
    /\ synced' = [synced EXCEPT ![d] = IF @ = 0 THEN 0 ELSE @ - 1]
    /\ UNCHANGED <<server, calls, refused>>
    /\ UNCHANGED queryVars

\* Mutant of LoseStream: what the backend has committed is not sent again, and
\* leaves the queue before the cache has it.
LoseStreamAndCommitted(d) ==
    /\ applied[d] > 0
    /\ queue' = [queue EXCEPT ![d] = SubSeq(@, applied[d] + 1, Len(@))]
    /\ applied' = [applied EXCEPT ![d] = 0]
    /\ synced' = [synced EXCEPT ![d] = 0]
    /\ UNCHANGED <<server, calls, cache, refused>>
    /\ UNCHANGED queryVars

\* The write stream breaks with a transient error: the acknowledgements under
\* way are lost and the next stream starts again at the head of the queue.
LoseStream(d) ==
    /\ applied[d] > 0
    /\ applied' = [applied EXCEPT ![d] = 0]
    /\ synced' = [synced EXCEPT ![d] = 0]
    /\ UNCHANGED <<server, calls, queue, cache, refused>>
    /\ UNCHANGED queryVars

\* The backend closes the stream with a permanent error: the head of the
\* pipeline is dropped.
Refuse(d) ==
    /\ MayRefuse
    /\ applied[d] = 0
    /\ queue[d] # <<>>
    /\ refused' = refused \cup {Head(queue[d]).key}
    /\ queue' = [queue EXCEPT ![d] = Tail(@)]
    /\ UNCHANGED <<server, calls, applied, synced, cache>>
    /\ UNCHANGED queryVars

----------------------------------------------------------------------------
\* getDocuments puts its task behind the writes made before it.
Ask(d) ==
    /\ Loads(d) < MaxLoads
    /\ calls' = [calls EXCEPT ![d] = Append(@, Query)]
    /\ UNCHANGED <<server, queue, applied, synced, cache, refused>>
    /\ UNCHANGED queryVars

\* The worker queue runs the query task: a listener waits for a snapshot.
Listen(d) ==
    /\ calls[d] # <<>>
    /\ Head(calls[d]) = Query
    /\ calls' = [calls EXCEPT ![d] = Tail(@)]
    /\ listens' = [listens EXCEPT ![d] = @ + 1]
    /\ UNCHANGED <<server, queue, applied, synced, cache, refused, snapshots>>

Raise(d, docs) ==
    /\ listens[d] > 0
    /\ listens' = [listens EXCEPT ![d] = @ - 1]
    /\ snapshots' = [snapshots EXCEPT ![d] = Append(@, Overlay(docs, queue[d]))]
    /\ UNCHANGED <<server, calls, queue, applied, refused>>

\* Online, the first snapshot waits until the backend has brought the cache up
\* to date, the device's own commits included.
RaiseFromServer(d) ==
    LET current == [k \in Queried |-> server[k]]
    IN  /\ Raise(d, current)
        /\ cache' = [cache EXCEPT ![d] = current]
        /\ synced' = [synced EXCEPT ![d] = applied[d]]

\* Offline, the cache is raised as it is.
RaiseFromCache(d) ==
    /\ Raise(d, cache[d])
    /\ UNCHANGED <<synced, cache>>

\* The query ends with an error: getAllDefects prints it and its completion is
\* never called.
FailQuery(d) ==
    /\ QueriesMayFail
    /\ listens[d] > 0
    /\ listens' = [listens EXCEPT ![d] = @ - 1]
    /\ UNCHANGED snapshots
    /\ UNCHANGED writeVars

\* The main queue takes the oldest answer.
Deliver(d) ==
    /\ snapshots[d] # <<>>
    /\ snapshots' = [snapshots EXCEPT ![d] = Tail(@)]
    /\ UNCHANGED listens
    /\ UNCHANGED writeVars

----------------------------------------------------------------------------
\* The process dies: what the worker queue had not run and what had not been
\* delivered is gone, what is on disk stays, and the next launch opens a new
\* stream.
Crash(d) ==
    /\ calls' = [calls EXCEPT ![d] = <<>>]
    /\ applied' = [applied EXCEPT ![d] = 0]
    /\ synced' = [synced EXCEPT ![d] = 0]
    /\ listens' = [listens EXCEPT ![d] = 0]
    /\ snapshots' = [snapshots EXCEPT ![d] = <<>>]
    /\ UNCHANGED <<server, queue, cache, refused>>

\* The steps of the SDK, its connection and the backend.
SyncStep(d) ==
    \/ WriteLocally(d)
    \/ Commit(d)
    \/ Acknowledge(d)
    \/ LoseStream(d)
    \/ Refuse(d)
    \/ Listen(d)
    \/ RaiseFromServer(d)
    \/ RaiseFromCache(d)
    \/ FailQuery(d)
============================================================================
