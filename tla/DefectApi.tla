----------------------------- MODULE DefectApi -----------------------------
(***************************************************************************)
(* ApiClient: every write and query the app makes on the Defects and the   *)
(* Archive collections, by clients that may call it in any order, over     *)
(* FirestoreSync.                                                          *)
(***************************************************************************)
EXTENDS FirestoreSync

CONSTANT Ids     \* the ids of the defects

\* The paths of a defect's document in the two collections.
Live(id)     == <<"Defects", id>>
Archived(id) == <<"Archive", id>>

ASSUME PathAssumption ==
    /\ Keys = {"Defects", "Archive"} \X Ids
    /\ Queried \subseteq {"Defects"} \X Ids

----------------------------------------------------------------------------
\* The calls each method makes on Firestore.  post and put are the same
\* unconditional setData of the whole document.
PostCalls(id, doc)    == <<Set(Live(id), doc)>>
PutCalls(id, doc)     == <<Set(Live(id), doc)>>
DeleteCalls(id)       == <<Delete(Live(id))>>
\* Mutant of ArchiveCalls: the two writes in the other order.
DeleteThenArchiveCalls(id, doc) == DeleteCalls(id) \o <<Set(Archived(id), doc)>>

ArchiveCalls(id, doc) == <<Set(Archived(id), doc)>> \o DeleteCalls(id)

Post(d, id, doc)    == Submit(d, PostCalls(id, doc))
Put(d, id, doc)     == Submit(d, PutCalls(id, doc))
Archive(d, id, doc) == Submit(d, ArchiveCalls(id, doc))
GetAllDefects(d)    == Ask(d)

ApiInit == SyncInit

ApiNext == \E d \in Devices :
    \/ \E id \in Ids, doc \in Docs :
        \/ Post(d, id, doc)
        \/ Put(d, id, doc)
        \/ Archive(d, id, doc)
    \/ GetAllDefects(d)
    \/ Deliver(d)
    \/ SyncStep(d)
    \/ Crash(d)

ApiSpec == ApiInit /\ [][ApiNext]_syncVars

\* The worker queue runs its tasks; the write stream is opened again after each
\* failure (exponential backoff, for as long as the app lives), so a commit or
\* an acknowledgement that is possible again and again happens in the end.
ApiFairness == \A d \in Devices :
    /\ WF_syncVars(WriteLocally(d))
    /\ WF_syncVars(Listen(d))
    /\ WF_syncVars(RaiseFromServer(d) \/ RaiseFromCache(d) \/ FailQuery(d))
    /\ SF_syncVars(Commit(d))
    /\ SF_syncVars(Acknowledge(d))

FairApiSpec == ApiSpec /\ ApiFairness

----------------------------------------------------------------------------
\* PROPERTIES

\* The archive write of the defect has taken effect, or never will.
Settled(id) == server[Archived(id)] # NoDoc \/ Archived(id) \in refused

\* archive(_:) sets the Archive document and then deletes the Defects document,
\* as two separate writes.  Whatever crashes, broken streams, replays and other
\* devices do in between, a defect leaves the Defects collection only when its
\* archived copy is on the server -- unless the backend refused the first of the
\* two writes and took the second.
LeavesOnlyArchived == [][\A id \in Ids :
    (server[Live(id)] # NoDoc /\ server'[Live(id)] = NoDoc)
        => Settled(id)]_syncVars

\* Why that holds.  Nothing ever deletes from the Archive; a deletion that waits
\* on a device has its archive write before it, or that write is settled; and an
\* archive write the backend has committed on the open stream is there to see.
ArchiveWriteIn(tasks, n, id) ==
    \E j \in 1..n, doc \in Docs : tasks[j] = Set(Archived(id), doc)

ArchiveNeverDeleted == \A d \in Devices, id \in Ids :
    /\ \A i \in 1..Len(queue[d]) : queue[d][i] # Delete(Archived(id))
    /\ \A i \in 1..Len(calls[d]) : calls[d][i] # Delete(Archived(id))

CommittedArchiveExists == \A d \in Devices, id \in Ids : \A i \in 1..applied[d] :
    queue[d][i].key = Archived(id) => server[Archived(id)] # NoDoc

DeleteFollowsArchive == \A d \in Devices, id \in Ids :
    /\ \A i \in 1..Len(queue[d]) : queue[d][i] = Delete(Live(id))
        => \/ ArchiveWriteIn(queue[d], i - 1, id)
           \/ Settled(id)
    /\ \A i \in 1..Len(calls[d]) : calls[d][i] = Delete(Live(id))
        => \/ ArchiveWriteIn(calls[d], i - 1, id)
           \/ ArchiveWriteIn(queue[d], Len(queue[d]), id)
           \/ Settled(id)

\* A defect's deletion never runs ahead of its archiving, on any device, on disk
\* or in memory: the inductive invariant behind LeavesOnlyArchived.
ArchiveFirst ==
    ArchiveNeverDeleted /\ CommittedArchiveExists /\ DeleteFollowsArchive

\* A write that has reached the mutation queue is never stuck: as long as the
\* queue is not empty its head keeps leaving it, acknowledged or refused, however
\* often the stream breaks and the app restarts.
QueueNeverStuck == \A d \in Devices :
    \/ []<>(queue[d] = <<>>)
    \/ []<><<Acknowledge(d) \/ Refuse(d)>>_syncVars

\* The documents of which the cache has another version than the backend, with no
\* write of the device over it.
Doubtful(d) == {k \in Queried :
    cache[d][k] # server[k] /\ \A i \in 1..Len(queue[d]) : queue[d][i].key # k}

\* Alone with the backend a device sees an atomic store: no stream loss, replay or
\* crash is visible in what its queries answer, and every query reads its own earlier
\* writes, online and offline.  Only a refusal takes a write back, and leaves that one
\* document in doubt until it is written again or a query is answered online.
Solo == CHOOSE d \in Devices : TRUE
Seen == INSTANCE AtomicStore WITH
            store   <- Overlay(server, queue[Solo]),
            waiting <- calls[Solo],
            reading <- listens[Solo],
            answers <- snapshots[Solo],
            doubtful <- Doubtful(Solo)
SoloSeesAtomicStore == Seen!Spec

\* Why that holds.  The cache lags behind the backend and the backend runs ahead of
\* what the device knows, a broken stream even takes the backend back in time when
\* the pipeline is committed again; but wherever two of them differ a write that is
\* still queued lies over the difference, on all that a query can show.  Only a refusal
\* takes that write away before the cache has it: of one that was committed, and is
\* refused when it is sent again.
Rewritten(d, i) == \E j \in (i + 1)..Len(queue[d]) : queue[d][j].key = queue[d][i].key

CommittedIsThere == \A d \in Devices : \A i \in 1..applied[d] :
    server[queue[d][i].key] = queue[d][i].doc \/ Rewritten(d, i)

SyncedIsCached == \A d \in Devices : \A i \in 1..synced[d] :
    queue[d][i].key \in Queried =>
        cache[d][queue[d][i].key] = queue[d][i].doc \/ Rewritten(d, i)

DoubtNeedsRefusal == \A d \in Devices : Doubtful(d) \subseteq refused

QueueHidesDelay == CommittedIsThere /\ SyncedIsCached /\ DoubtNeedsRefusal
============================================================================
