-------------------------- MODULE DefectApi_proofs --------------------------
(***************************************************************************)
(* Proofs about DefectApi, for any number of devices and defects, any      *)
(* documents and any bounds:                                               *)
(*   - type correctness,                                                   *)
(*   - a defect leaves the Defects collection only for the Archive.        *)
(***************************************************************************)
EXTENDS DefectApi, SequenceTheorems, FiniteSetTheorems,
        WellFoundedInduction, TLAPS

Task == Mutation \cup {Query}

----------------------------------------------------------------------------
\* LEMMAS

\* Max picks the largest element of a non-empty set of positions.
LEMMA MaxOfPositions ==
    ASSUME NEW n \in Nat, NEW S \in SUBSET (1..n), S # {}
    PROVE  Max(S) \in S /\ \A y \in S : y <= Max(S)
<1> DEFINE Above(i) == {j \in S : j >= i}
           Aboves == {Above(i) : i \in S}
<1>1. IsFiniteSet(S)
  <2>1. IsFiniteSet(1..n)
    <3>1. 1 \in Int /\ n \in Int
      OBVIOUS
    <3> QED BY <3>1, FS_Interval
  <2>2. S \in SUBSET (1..n)
    OBVIOUS
  <2> QED BY <2>1, <2>2, FS_Subset
<1>2. Aboves \subseteq FiniteSubsetsOf(S) /\ Aboves # {}
  <2>1. ASSUME NEW i \in S PROVE Above(i) \in FiniteSubsetsOf(S)
    <3>1. Above(i) \in SUBSET S
      OBVIOUS
    <3>2. IsFiniteSet(Above(i))
      <4> HIDE DEF Above
      <4> QED BY <3>1, <1>1, FS_Subset
    <3> QED BY <3>1, <3>2 DEF FiniteSubsetsOf
  <2> QED BY <2>1
<1>3. PICK A \in Aboves :
            \A B \in Aboves : <<B, A>> \notin StrictSubsetOrdering(S)
  BY <1>2, WFMin, FS_StrictSubsetOrderingWellFounded
<1>4. PICK x \in S : A = Above(x)
  OBVIOUS
<1>5. ASSUME NEW y \in S, y > x PROVE FALSE
  <2>1. x \in Nat /\ y \in Nat /\ S \subseteq Nat
    OBVIOUS
  <2>2. Above(y) \subseteq Above(x) /\ Above(y) # Above(x)
    <3>1. x \in Above(x) /\ x \notin Above(y)
      BY <1>5, <2>1
    <3>2. \A j \in S : j >= y => j >= x
      BY <1>5, <2>1
    <3> QED BY <3>1, <3>2
  <2>3. <<Above(y), A>> \in StrictSubsetOrdering(S)
    BY <2>2, <1>4 DEF StrictSubsetOrdering
  <2> QED BY <2>3, <1>3
<1>6. \A y \in S : x >= y
  <2>1. x \in Nat /\ S \subseteq Nat
    OBVIOUS
  <2> QED BY <1>5, <2>1
<1>7. Max(S) \in S /\ \A y \in S : Max(S) >= y
  BY <1>6 DEF Max
<1> QED BY <1>7

\* Laying pending mutations over documents yields documents.
LEMMA OverlayType ==
    ASSUME NEW K \in SUBSET Keys, NEW docs \in [K -> MaybeDoc],
           NEW muts \in Seq(Mutation)
    PROVE  Overlay(docs, muts) \in [K -> MaybeDoc]
<1>1. DOMAIN docs = K /\ DOMAIN muts = 1..Len(muts) /\ Len(muts) \in Nat
  OBVIOUS
<1>2. SUFFICES ASSUME NEW k \in K PROVE Overlay(docs, muts)[k] \in MaybeDoc
  BY <1>1 DEF Overlay
<1> DEFINE writes == {i \in DOMAIN muts : muts[i].key = k}
<1>3. CASE writes = {}
  BY <1>1, <1>3 DEF Overlay
<1>4. CASE writes # {}
  <2>1. Max(writes) \in 1..Len(muts)
    <3>1. writes \in SUBSET (1..Len(muts))
      BY <1>1
    <3> HIDE DEF writes
    <3> QED BY <3>1, <1>1, <1>4, MaxOfPositions
  <2>2. muts[Max(writes)] \in Mutation
    BY <2>1
  <2>3. Overlay(docs, muts)[k] = muts[Max(writes)].doc
    BY <1>1, <1>4 DEF Overlay
  <2> QED BY <2>2, <2>3 DEF Mutation, MaybeDoc
<1> QED BY <1>3, <1>4

\* Writing one mutation keeps documents documents.
LEMMA WriteType ==
    ASSUME NEW K \in SUBSET Keys, NEW docs \in [K -> MaybeDoc],
           NEW m \in Mutation
    PROVE  Write(docs, m) \in [K -> MaybeDoc]
BY DEF Write, Mutation, MaybeDoc

\* The calls of ApiClient's methods are mutations.
LEMMA CallsType ==
    ASSUME NEW id \in Ids, NEW doc \in Docs
    PROVE  /\ PostCalls(id, doc) = <<Set(Live(id), doc)>>
           /\ PutCalls(id, doc) = <<Set(Live(id), doc)>>
           /\ ArchiveCalls(id, doc) =
                    <<Set(Archived(id), doc), Delete(Live(id))>>
           /\ Set(Live(id), doc) \in Mutation
           /\ Set(Archived(id), doc) \in Mutation
           /\ Delete(Live(id)) \in Mutation
<1>1. Live(id) \in Keys /\ Archived(id) \in Keys
  BY PathAssumption DEF Live, Archived
<1>2. /\ Set(Live(id), doc) \in Mutation
      /\ Set(Archived(id), doc) \in Mutation
      /\ Delete(Live(id)) \in Mutation
  BY <1>1 DEF Set, Delete, Mutation
<1>3. PostCalls(id, doc) = <<Set(Live(id), doc)>> /\ PutCalls(id, doc) = <<Set(Live(id), doc)>>
  BY DEF PostCalls, PutCalls
<1>4. ArchiveCalls(id, doc) = <<Set(Archived(id), doc), Delete(Live(id))>>
  <2>1. ASSUME NEW a \in Mutation, NEW b \in Mutation
        PROVE  <<a>> \o <<b>> = <<a, b>>
    <3>1. <<a>> \in Seq(Mutation) /\ <<b>> \in Seq(Mutation) /\ <<a, b>> \in Seq(Mutation)
      OBVIOUS
    <3>2. /\ <<a>> \o <<b>> \in Seq(Mutation)
          /\ Len(<<a>> \o <<b>>) = 2
          /\ (<<a>> \o <<b>>)[1] = a
          /\ (<<a>> \o <<b>>)[2] = b
      BY <3>1, ConcatProperties
    <3>3. \A i \in 1..2 : (<<a>> \o <<b>>)[i] = <<a, b>>[i]
      BY <3>2
    <3> QED BY <3>1, <3>2, <3>3, SeqEqual
  <2> QED BY <1>2, <2>1 DEF ArchiveCalls, DeleteCalls
<1> QED
  BY <1>2, <1>3, <1>4

----------------------------------------------------------------------------
\* TYPE CORRECTNESS

\* The two halves of SyncTypeOK: what kind of value each variable has, and how
\* the counters of the write stream are bounded.
Kinds ==
    /\ server \in [Keys -> MaybeDoc]
    /\ calls \in [Devices -> Seq(Mutation \cup {Query})]
    /\ queue \in [Devices -> Seq(Mutation)]
    /\ applied \in [Devices -> Nat]
    /\ synced \in [Devices -> Nat]
    /\ cache \in [Devices -> Snapshot]
    /\ refused \subseteq Keys
    /\ listens \in [Devices -> Nat]
    /\ snapshots \in [Devices -> Seq(Snapshot)]

Bounded == \A d \in Devices :
    /\ synced[d] <= applied[d]
    /\ applied[d] <= Len(queue[d])
    /\ applied[d] <= MaxPipeline

\* The type invariant in two parts: the kinds of the values, and the bounds of the counters.
LEMMA TypeParts == /\ SyncTypeOK <=> Kinds /\ Bounded
                   /\ SyncTypeOK' <=> Kinds' /\ Bounded'
<1>1. SyncTypeOK <=> Kinds /\ Bounded
  BY Zenon DEF SyncTypeOK, Kinds, Bounded
<1>2. SyncTypeOK' <=> Kinds' /\ Bounded'
  BY Zenon DEF SyncTypeOK, Kinds, Bounded
<1> QED BY <1>1, <1>2

\* One step per action; each names the conjuncts of SyncTypeOK it can disturb.
LEMMA TypeStep == SyncTypeOK /\ [ApiNext]_syncVars => SyncTypeOK'
<1> SUFFICES ASSUME SyncTypeOK, [ApiNext]_syncVars PROVE SyncTypeOK'
  OBVIOUS
<1> USE SyncAssumption
<1>1. ASSUME NEW d \in Devices, NEW muts \in Seq(Mutation), Submit(d, muts)
      PROVE  SyncTypeOK'
  <2>1. muts \in Seq(Mutation \cup {Query})
    BY SeqMonotonic
  <2>2. calls[d] \o muts \in Seq(Mutation \cup {Query})
    BY <2>1, ConcatProperties DEF SyncTypeOK
  <2>3. calls' \in [Devices -> Seq(Mutation \cup {Query})]
    BY <1>1, <2>2 DEF SyncTypeOK, Submit
  <2> QED BY <1>1, <2>3 DEF SyncTypeOK, Submit, queryVars
<1>2. ASSUME NEW d \in Devices, NEW id \in Ids, NEW doc \in Docs,
             Post(d, id, doc) \/ Put(d, id, doc) \/ Archive(d, id, doc)
      PROVE  SyncTypeOK'
  <2>1. /\ <<Set(Live(id), doc)>> \in Seq(Mutation)
        /\ <<Set(Archived(id), doc), Delete(Live(id))>> \in Seq(Mutation)
    BY CallsType
  <2> QED BY <1>1, <1>2, <2>1, CallsType DEF Post, Put, Archive
<1>3. ASSUME NEW d \in Devices, GetAllDefects(d) PROVE SyncTypeOK'
  <2> DEFINE c == Append(calls[d], Query)
  <2>1. /\ calls' = [calls EXCEPT ![d] = c]
        /\ UNCHANGED <<server, queue, applied, synced, cache, refused,
                       listens, snapshots>>
    BY <1>3 DEF GetAllDefects, Ask, queryVars
  <2>2. c \in Seq(Mutation \cup {Query})
    BY DEF SyncTypeOK
  <2> HIDE DEF c
  <2> QED BY <2>1, <2>2 DEF SyncTypeOK
<1>4. ASSUME NEW d \in Devices, Deliver(d) PROVE SyncTypeOK'
  <2> DEFINE s == Tail(snapshots[d])
  <2>1. /\ snapshots[d] # <<>> /\ snapshots' = [snapshots EXCEPT ![d] = s]
        /\ UNCHANGED <<server, calls, queue, applied, synced, cache, refused, listens>>
    BY <1>4 DEF Deliver, writeVars
  <2>2. s \in Seq(Snapshot)
    BY <2>1 DEF SyncTypeOK
  <2> HIDE DEF s
  <2> QED BY <2>1, <2>2 DEF SyncTypeOK
<1>5. ASSUME NEW d \in Devices, WriteLocally(d) PROVE SyncTypeOK'
  <2> DEFINE c == Tail(calls[d])
             q == Append(queue[d], Head(calls[d]))
  <2>1. /\ calls[d] # <<>> /\ Head(calls[d]) # Query
        /\ calls' = [calls EXCEPT ![d] = c] /\ queue' = [queue EXCEPT ![d] = q]
        /\ UNCHANGED <<server, applied, synced, cache, refused, listens, snapshots>>
    BY <1>5 DEF WriteLocally, queryVars
  <2>2. c \in Seq(Mutation \cup {Query}) /\ Head(calls[d]) \in Mutation
    BY <2>1 DEF SyncTypeOK
  <2>3. q \in Seq(Mutation) /\ Len(q) = Len(queue[d]) + 1
    BY <2>2 DEF SyncTypeOK
  <2> HIDE DEF c, q
  <2>4. \A e \in Devices : queue'[e] = IF e = d THEN q ELSE queue[e]
    BY <2>1 DEF SyncTypeOK
  <2>5. \A e \in Devices : applied[e] <= Len(queue'[e])
    <3>1. \A e \in Devices : applied[e] \in Nat /\ Len(queue[e]) \in Nat
                             /\ applied[e] <= Len(queue[e])
      BY DEF SyncTypeOK
    <3> QED BY <2>3, <2>4, <3>1
  <2>6. /\ calls' \in [Devices -> Seq(Mutation \cup {Query})]
        /\ queue' \in [Devices -> Seq(Mutation)]
    BY <2>1, <2>2, <2>3 DEF SyncTypeOK
  <2> QED BY <2>1, <2>5, <2>6 DEF SyncTypeOK
<1>6. ASSUME NEW d \in Devices, Commit(d) PROVE SyncTypeOK'
  <2>1. queue[d][applied[d] + 1] \in Mutation
    BY <1>6 DEF Commit, SyncTypeOK
  <2>2. server' \in [Keys -> MaybeDoc]
    BY <1>6, <2>1, WriteType DEF Commit, SyncTypeOK
  <2>3. /\ applied' \in [Devices -> Nat]
        /\ \A e \in Devices : /\ synced[e] <= applied'[e]
                              /\ applied'[e] <= Len(queue[e])
                              /\ applied'[e] <= MaxPipeline
    <3>1. /\ applied \in [Devices -> Nat]
          /\ applied' = [applied EXCEPT ![d] = applied[d] + 1]
          /\ applied[d] < Len(queue[d]) /\ applied[d] < MaxPipeline
          /\ \A e \in Devices : /\ synced[e] \in Nat /\ applied[e] \in Nat
                                /\ Len(queue[e]) \in Nat
                                /\ synced[e] <= applied[e]
                                /\ applied[e] <= Len(queue[e])
                                /\ applied[e] <= MaxPipeline
      BY <1>6 DEF Commit, SyncTypeOK
    <3> QED BY <3>1
  <2>4. UNCHANGED <<calls, queue, synced, cache, refused, listens, snapshots>>
    BY <1>6 DEF Commit, queryVars
  <2> QED BY <2>2, <2>3, <2>4 DEF SyncTypeOK
<1>7. ASSUME NEW d \in Devices, Acknowledge(d) PROVE SyncTypeOK'
  <2>1. queue[d] # <<>> /\ Head(queue[d]) \in Mutation
    BY <1>7 DEF Acknowledge, SyncTypeOK
  <2>2. cache' \in [Devices -> Snapshot]
    <3>1. Write(cache[d], Head(queue[d])) \in Snapshot
      BY <2>1, WriteType DEF SyncTypeOK, Snapshot
    <3> QED BY <1>7, <3>1 DEF Acknowledge, SyncTypeOK
  <2> DEFINE q == Tail(queue[d])
  <2>3. q \in Seq(Mutation) /\ Len(q) = Len(queue[d]) - 1
    BY <2>1 DEF SyncTypeOK
  <2>4. /\ queue' = [queue EXCEPT ![d] = q]
        /\ applied[d] > 0 /\ applied' = [applied EXCEPT ![d] = applied[d] - 1]
        /\ synced' = [synced EXCEPT ![d] = IF synced[d] = 0 THEN 0 ELSE synced[d] - 1]
        /\ UNCHANGED <<server, calls, refused, listens, snapshots>>
    BY <1>7 DEF Acknowledge, queryVars
  <2> HIDE DEF q
  <2>5. \A e \in Devices : /\ queue'[e] = IF e = d THEN q ELSE queue[e]
                           /\ applied'[e] = IF e = d THEN applied[d] - 1 ELSE applied[e]
                           /\ synced'[e] = IF e # d THEN synced[e]
                                ELSE IF synced[d] = 0 THEN 0 ELSE synced[d] - 1
    BY <2>4 DEF SyncTypeOK
  <2>6. \A e \in Devices : /\ synced[e] \in Nat /\ applied[e] \in Nat
                           /\ Len(queue[e]) \in Nat
                           /\ synced[e] <= applied[e]
                           /\ applied[e] <= Len(queue[e])
                           /\ applied[e] <= MaxPipeline
    BY DEF SyncTypeOK
  <2>7. \A e \in Devices : /\ synced'[e] \in Nat /\ applied'[e] \in Nat
                           /\ synced'[e] <= applied'[e]
                           /\ applied'[e] <= Len(queue'[e])
                           /\ applied'[e] <= MaxPipeline
    <3> SUFFICES ASSUME NEW e \in Devices
                 PROVE  /\ synced'[e] \in Nat /\ applied'[e] \in Nat
                        /\ synced'[e] <= applied'[e]
                        /\ applied'[e] <= Len(queue'[e])
                        /\ applied'[e] <= MaxPipeline
      OBVIOUS
    <3>1. CASE e = d
      BY <2>3, <2>4, <2>5, <2>6, <3>1
    <3>2. CASE e # d
      BY <2>5, <2>6, <3>2
    <3> QED BY <3>1, <3>2
  <2>8. /\ queue' \in [Devices -> Seq(Mutation)]
        /\ applied' \in [Devices -> Nat] /\ synced' \in [Devices -> Nat]
    BY <2>3, <2>4, <2>5, <2>7 DEF SyncTypeOK
  <2> QED BY <2>2, <2>4, <2>7, <2>8 DEF SyncTypeOK
<1>8. ASSUME NEW d \in Devices, LoseStream(d) PROVE SyncTypeOK'
  <2>1. /\ applied' = [applied EXCEPT ![d] = 0] /\ synced' = [synced EXCEPT ![d] = 0]
        /\ UNCHANGED <<server, calls, queue, cache, refused, listens, snapshots>>
    BY <1>8 DEF LoseStream, queryVars
  <2>2. /\ applied' \in [Devices -> Nat] /\ synced' \in [Devices -> Nat]
        /\ \A e \in Devices : /\ applied'[e] = IF e = d THEN 0 ELSE applied[e]
                              /\ synced'[e] = IF e = d THEN 0 ELSE synced[e]
    BY <2>1 DEF SyncTypeOK
  <2>3. Kinds'
    BY <2>1, <2>2, TypeParts DEF Kinds
  <2>4. Bounded'
    <3>1. \A e \in Devices : Len(queue[e]) \in Nat
      BY DEF SyncTypeOK
    <3> QED BY <2>1, <2>2, <3>1, TypeParts DEF Bounded
  <2> QED BY <2>3, <2>4, TypeParts
<1>9. ASSUME NEW d \in Devices, Refuse(d) PROVE SyncTypeOK'
  <2>1. Head(queue[d]).key \in Keys
    <3>1. Head(queue[d]) \in Mutation
      BY <1>9 DEF Refuse, SyncTypeOK
    <3> QED BY <3>1 DEF Mutation
  <2> DEFINE q == Tail(queue[d])
  <2>2. /\ queue[d] # <<>> /\ applied[d] = 0 /\ queue' = [queue EXCEPT ![d] = q]
        /\ refused' = refused \cup {Head(queue[d]).key}
        /\ UNCHANGED <<server, calls, applied, synced, cache, listens, snapshots>>
    BY <1>9 DEF Refuse, queryVars
  <2>3. q \in Seq(Mutation) /\ Len(q) \in Nat
    BY <2>2 DEF SyncTypeOK
  <2> HIDE DEF q
  <2>4. /\ queue' \in [Devices -> Seq(Mutation)]
        /\ \A e \in Devices : queue'[e] = IF e = d THEN q ELSE queue[e]
    BY <2>2, <2>3 DEF SyncTypeOK
  <2>5. Kinds'
    BY <2>1, <2>2, <2>4, TypeParts DEF Kinds
  <2>6. Bounded'
    BY <2>2, <2>3, <2>4, TypeParts DEF Bounded
  <2> QED BY <2>5, <2>6, TypeParts
<1>10. ASSUME NEW d \in Devices, Listen(d) PROVE SyncTypeOK'
  <2> DEFINE c == Tail(calls[d])
  <2>1. /\ calls[d] # <<>> /\ calls' = [calls EXCEPT ![d] = c]
        /\ listens' = [listens EXCEPT ![d] = listens[d] + 1]
        /\ UNCHANGED <<server, queue, applied, synced, cache, refused, snapshots>>
    BY <1>10 DEF Listen
  <2>2. c \in Seq(Mutation \cup {Query})
    BY <2>1 DEF SyncTypeOK
  <2> HIDE DEF c
  <2>3. calls' \in [Devices -> Seq(Mutation \cup {Query})]
    BY <2>1, <2>2 DEF SyncTypeOK
  <2>4. listens' \in [Devices -> Nat]
    BY <2>1 DEF SyncTypeOK
  <2>5. Kinds'
    BY <2>1, <2>3, <2>4, TypeParts DEF Kinds
  <2>6. Bounded'
    BY <2>1, TypeParts DEF Bounded
  <2> QED BY <2>5, <2>6, TypeParts
<1>11. ASSUME NEW d \in Devices, NEW docs \in Snapshot, Raise(d, docs)
       PROVE  /\ snapshots' \in [Devices -> Seq(Snapshot)]
              /\ listens' \in [Devices -> Nat]
  <2>1. Overlay(docs, queue[d]) \in Snapshot
    BY OverlayType DEF SyncTypeOK, Snapshot
  <2> DEFINE s == Append(snapshots[d], Overlay(docs, queue[d]))
  <2>2. s \in Seq(Snapshot)
    <3> DEFINE o == Overlay(docs, queue[d])
    <3> HIDE DEF o
    <3>1. Append(snapshots[d], o) \in Seq(Snapshot)
      BY <2>1 DEF SyncTypeOK, o
    <3> QED BY <3>1 DEF o
  <2>3. /\ snapshots' = [snapshots EXCEPT ![d] = s]
        /\ listens[d] > 0 /\ listens' = [listens EXCEPT ![d] = listens[d] - 1]
    BY <1>11 DEF Raise
  <2> HIDE DEF s
  <2> QED BY <2>2, <2>3 DEF SyncTypeOK
<1>12. ASSUME NEW d \in Devices, RaiseFromServer(d) PROVE SyncTypeOK'
  <2>1. [k \in Queried |-> server[k]] \in Snapshot
    BY DEF SyncTypeOK, Snapshot
  <2>2. /\ snapshots' \in [Devices -> Seq(Snapshot)]
        /\ listens' \in [Devices -> Nat]
        /\ cache' \in [Devices -> Snapshot]
    BY <1>11, <1>12, <2>1 DEF RaiseFromServer, SyncTypeOK
  <2>3. /\ synced' = [synced EXCEPT ![d] = applied[d]]
        /\ UNCHANGED <<server, calls, queue, applied, refused>>
    BY <1>12 DEF RaiseFromServer, Raise
  <2>4. /\ synced' \in [Devices -> Nat]
        /\ \A e \in Devices : synced'[e] = IF e = d THEN applied[d] ELSE synced[e]
    BY <2>3 DEF SyncTypeOK
  <2>5. \A e \in Devices : applied[e] \in Nat
    BY DEF SyncTypeOK
  <2>6. Kinds'
    BY <2>2, <2>3, <2>4, TypeParts DEF Kinds
  <2>7. Bounded'
    BY <2>3, <2>4, <2>5, TypeParts DEF Bounded
  <2> QED BY <2>6, <2>7, TypeParts
<1>13. ASSUME NEW d \in Devices, RaiseFromCache(d) PROVE SyncTypeOK'
  <2>1. cache[d] \in Snapshot
    BY DEF SyncTypeOK
  <2>2. /\ snapshots' \in [Devices -> Seq(Snapshot)]
        /\ listens' \in [Devices -> Nat]
    BY <1>11, <1>13, <2>1 DEF RaiseFromCache
  <2>3. UNCHANGED <<server, calls, queue, applied, synced, cache, refused>>
    BY <1>13 DEF RaiseFromCache, Raise
  <2>4. Kinds'
    BY <2>2, <2>3, TypeParts DEF Kinds
  <2>5. Bounded'
    BY <2>3, TypeParts DEF Bounded
  <2> QED BY <2>4, <2>5, TypeParts
<1>14. ASSUME NEW d \in Devices, FailQuery(d) PROVE SyncTypeOK'
  <2>1. /\ listens[d] > 0 /\ listens' = [listens EXCEPT ![d] = listens[d] - 1]
        /\ UNCHANGED <<server, calls, queue, applied, synced, cache, refused, snapshots>>
    BY <1>14 DEF FailQuery, writeVars
  <2>2. listens' \in [Devices -> Nat]
    BY <2>1 DEF SyncTypeOK
  <2>3. Kinds'
    BY <2>1, <2>2, TypeParts DEF Kinds
  <2>4. Bounded'
    BY <2>1, TypeParts DEF Bounded
  <2> QED BY <2>3, <2>4, TypeParts
<1>15. ASSUME NEW d \in Devices, Crash(d) PROVE SyncTypeOK'
  <2>1. /\ <<>> \in Seq(Mutation \cup {Query}) /\ <<>> \in Seq(Snapshot)
    OBVIOUS
  <2>2. /\ calls' \in [Devices -> Seq(Mutation \cup {Query})]
        /\ listens' \in [Devices -> Nat] /\ snapshots' \in [Devices -> Seq(Snapshot)]
        /\ applied' \in [Devices -> Nat] /\ synced' \in [Devices -> Nat]
    BY <1>15, <2>1 DEF Crash, SyncTypeOK
  <2>3. /\ \A e \in Devices : /\ applied'[e] = IF e = d THEN 0 ELSE applied[e]
                              /\ synced'[e] = IF e = d THEN 0 ELSE synced[e]
        /\ UNCHANGED <<server, queue, cache, refused>>
    BY <1>15 DEF Crash, SyncTypeOK
  <2>4. \A e \in Devices : Len(queue[e]) \in Nat
    BY DEF SyncTypeOK
  <2>5. Kinds'
    BY <2>2, <2>3, TypeParts DEF Kinds
  <2>6. Bounded'
    BY <2>3, <2>4, SyncAssumption, TypeParts DEF Bounded
  <2> QED BY <2>5, <2>6, TypeParts
<1>16. CASE UNCHANGED syncVars
  BY <1>16 DEF syncVars, SyncTypeOK
<1> QED
  BY <1>2, <1>3, <1>4, <1>5, <1>6, <1>7, <1>8, <1>9, <1>10, <1>12, <1>13,
     <1>14, <1>15, <1>16 DEF ApiNext, SyncStep

\* The initial states are well typed.
LEMMA TypeInit == ApiInit => SyncTypeOK
BY SyncAssumption DEF ApiInit, SyncInit, SyncTypeOK, Snapshot, MaybeDoc

\* Every reachable state is well typed, and the acknowledgements under way
\* never outnumber the queued writes, the pipeline or what a query has seen.
THEOREM TypeCorrect == ApiSpec => []SyncTypeOK
BY TypeInit, TypeStep, PTL DEF ApiSpec

----------------------------------------------------------------------------
\* A DEFECT LEAVES Defects ONLY FOR THE Archive

\* The tasks that touch a defect's two documents are told apart.
LEMMA TasksDiffer ==
    ASSUME NEW i \in Ids, NEW j \in Ids, NEW doc \in Docs
    PROVE  /\ Set(Live(i), doc) # Delete(Live(j))
           /\ Set(Live(i), doc) # Delete(Archived(j))
           /\ Set(Archived(i), doc) # Delete(Live(j))
           /\ Set(Archived(i), doc) # Delete(Archived(j))
           /\ Delete(Live(i)) # Delete(Archived(j))
           /\ Delete(Live(i)) = Delete(Live(j)) => i = j
           /\ Query # Delete(Live(i))
           /\ Query # Delete(Archived(i))
           /\ Query # Set(Archived(i), doc)
<1>1. doc # NoDoc
  BY SyncAssumption
<1>2. Live(i) # Archived(j) /\ (Live(i) = Live(j) => i = j)
  BY DEF Live, Archived
<1>3. /\ Set(Archived(i), doc) \in Mutation
      /\ Delete(Live(i)) \in Mutation
      /\ Delete(Archived(i)) \in Mutation
  <2>1. Archived(i) \in Keys
    BY PathAssumption DEF Archived
  <2> QED BY <2>1, CallsType DEF Delete, Mutation
<1> QED
  BY <1>1, <1>2, <1>3, SyncAssumption DEF Set, Delete

\* A write to the Archive that deletes nothing sets a document.
LEMMA ArchiveWriteSets ==
    ASSUME NEW m \in Mutation, NEW id \in Ids,
           m.key = Archived(id), m # Delete(Archived(id))
    PROVE  m.doc \in Docs /\ m.doc # NoDoc /\ m = Set(Archived(id), m.doc)
BY SyncAssumption DEF Mutation, Delete, Set

\* Calls that archive before they delete keep ArchiveFirst.
LEMMA SubmitKeepsArchiveFirst ==
    ASSUME SyncTypeOK, ArchiveFirst,
           NEW d \in Devices, NEW muts \in Seq(Mutation), Submit(d, muts),
           \A id \in Ids : \A i \in 1..Len(muts) :
                /\ muts[i] # Delete(Archived(id))
                /\ muts[i] = Delete(Live(id)) => ArchiveWriteIn(muts, i - 1, id)
    PROVE  ArchiveFirst'
<1> DEFINE old == calls[d]
           new == calls[d] \o muts
<1>1. /\ old \in Seq(Task) /\ muts \in Seq(Task)
      /\ Len(old) \in Nat /\ Len(muts) \in Nat
  BY SeqMonotonic DEF SyncTypeOK, Task
<1>2. /\ Len(new) = Len(old) + Len(muts)
      /\ \A i \in 1..Len(old) : new[i] = old[i]
      /\ \A i \in 1..Len(muts) : new[Len(old) + i] = muts[i]
      /\ \A i \in 1..Len(new) : \/ i \in 1..Len(old)
                               \/ i - Len(old) \in 1..Len(muts)
  BY <1>1, ConcatProperties
<1>3. \A i \in 1..Len(new) : i \notin 1..Len(old)
            => new[i] = muts[i - Len(old)] /\ i - Len(old) \in 1..Len(muts)
  BY <1>1, <1>2
<1>4. /\ calls' = [calls EXCEPT ![d] = new]
      /\ UNCHANGED <<server, queue, applied, refused>>
  BY DEF Submit
<1>5. \A e \in Devices : calls'[e] = IF e = d THEN new ELSE calls[e]
  BY <1>4 DEF SyncTypeOK
<1> HIDE DEF old, new
<1>6. ArchiveNeverDeleted'
  <2>0. \A id \in Ids : \A i \in 1..Len(old) : old[i] # Delete(Archived(id))
    BY DEF ArchiveFirst, ArchiveNeverDeleted, old
  <2>1. \A id \in Ids : \A i \in 1..Len(new) : new[i] # Delete(Archived(id))
    <3> SUFFICES ASSUME NEW id \in Ids, NEW i \in 1..Len(new)
                 PROVE  new[i] # Delete(Archived(id))
      OBVIOUS
    <3>1. CASE i \in 1..Len(old)
      BY <1>2, <2>0, <3>1
    <3>2. CASE i \notin 1..Len(old)
      BY <1>3, <3>2
    <3> QED BY <3>1, <3>2
  <2> QED
    BY <1>4, <1>5, <2>1 DEF ArchiveFirst, ArchiveNeverDeleted
<1>7. CommittedArchiveExists'
  BY <1>4 DEF ArchiveFirst, CommittedArchiveExists
<1>8. DeleteFollowsArchive'
  <2>1. ASSUME NEW id \in Ids, NEW i \in 1..Len(new), new[i] = Delete(Live(id))
        PROVE  \/ ArchiveWriteIn(new, i - 1, id)
               \/ ArchiveWriteIn(queue[d], Len(queue[d]), id)
               \/ Settled(id)
    <3>1. CASE i \in 1..Len(old)
      <4>1. \/ ArchiveWriteIn(old, i - 1, id)
            \/ ArchiveWriteIn(queue[d], Len(queue[d]), id)
            \/ Settled(id)
        BY <1>2, <2>1, <3>1 DEF ArchiveFirst, DeleteFollowsArchive, old
      <4>2. ASSUME ArchiveWriteIn(old, i - 1, id)
            PROVE  ArchiveWriteIn(new, i - 1, id)
        <5>1. PICK j \in 1..(i - 1), doc \in Docs :
                    old[j] = Set(Archived(id), doc)
          BY <4>2 DEF ArchiveWriteIn
        <5>2. j \in 1..Len(old)
          BY <1>1, <3>1
        <5> QED BY <1>2, <5>1, <5>2 DEF ArchiveWriteIn
      <4> QED BY <4>1, <4>2
    <3>2. CASE i \notin 1..Len(old)
      <4>1. ArchiveWriteIn(muts, i - Len(old) - 1, id)
        BY <1>3, <2>1, <3>2
      <4>2. PICK j \in 1..(i - Len(old) - 1), doc \in Docs :
                    muts[j] = Set(Archived(id), doc)
        BY <4>1 DEF ArchiveWriteIn
      <4>3. /\ Len(old) + j \in 1..(i - 1)
            /\ j \in 1..Len(muts)
        BY <1>1, <1>2, <1>3, <3>2
      <4>4. new[Len(old) + j] = Set(Archived(id), doc)
        BY <1>2, <4>2, <4>3
      <4> QED BY <4>3, <4>4 DEF ArchiveWriteIn
    <3> QED BY <3>1, <3>2
  <2>2. ASSUME NEW e \in Devices, NEW id \in Ids,
               NEW i \in 1..Len(calls'[e]), calls'[e][i] = Delete(Live(id))
        PROVE  \/ ArchiveWriteIn(calls'[e], i - 1, id)
               \/ ArchiveWriteIn(queue[e], Len(queue[e]), id)
               \/ Settled(id)
    <3>1. CASE e = d
      BY <1>5, <2>1, <2>2, <3>1
    <3>2. CASE e # d
      BY <1>5, <2>2, <3>2 DEF ArchiveFirst, DeleteFollowsArchive
    <3> QED BY <3>1, <3>2
  <2>3. ASSUME NEW e \in Devices, NEW id \in Ids,
               NEW i \in 1..Len(queue[e]), queue[e][i] = Delete(Live(id))
        PROVE  ArchiveWriteIn(queue[e], i - 1, id) \/ Settled(id)
    BY <2>3 DEF ArchiveFirst, DeleteFollowsArchive
  <2>4. \A id : Settled(id)' <=> Settled(id)
    BY <1>4 DEF Settled
  <2> QED
    BY <1>4, <2>2, <2>3, <2>4 DEF DeleteFollowsArchive
<1> QED
  BY <1>6, <1>7, <1>8 DEF ArchiveFirst

\* The six actions of the SDK that move a write, and the crash.
LEMMA SyncKeepsArchiveFirst ==
    ASSUME SyncTypeOK, ArchiveFirst, NEW d \in Devices,
           \/ WriteLocally(d) \/ Commit(d) \/ Acknowledge(d) \/ LoseStream(d)
           \/ Refuse(d) \/ Listen(d) \/ Ask(d) \/ Crash(d)
    PROVE  ArchiveFirst'
<1> DEFINE q == queue[d]
           c == calls[d]
<1>1. /\ q \in Seq(Mutation) /\ c \in Seq(Task)
      /\ Len(q) \in Nat /\ Len(c) \in Nat
  BY DEF SyncTypeOK, Task
<1>2. /\ q # <<>> => /\ Len(Tail(q)) = Len(q) - 1
                     /\ \A i \in 1..Len(Tail(q)) : Tail(q)[i] = q[i + 1]
                     /\ Head(q) = q[1]
                     /\ 1 \in 1..Len(q)
      /\ c # <<>> => /\ Len(Tail(c)) = Len(c) - 1
                     /\ \A i \in 1..Len(Tail(c)) : Tail(c)[i] = c[i + 1]
                     /\ Head(c) = c[1]
                     /\ 1 \in 1..Len(c)
  BY <1>1, HeadTailProperties
<1>3. /\ \A id \in Ids : \A i \in 1..Len(q) : q[i] # Delete(Archived(id))
      /\ \A id \in Ids : \A i \in 1..Len(c) : c[i] # Delete(Archived(id))
  BY DEF ArchiveFirst, ArchiveNeverDeleted
<1>4. \A id \in Ids : \A i \in 1..applied[d] :
            q[i].key = Archived(id) => server[Archived(id)] # NoDoc
  BY DEF ArchiveFirst, CommittedArchiveExists
<1>5. \A id \in Ids : \A i \in 1..Len(q) : q[i] = Delete(Live(id))
            => ArchiveWriteIn(q, i - 1, id) \/ Settled(id)
  BY DEF ArchiveFirst, DeleteFollowsArchive
<1>6. \A id \in Ids : \A i \in 1..Len(c) : c[i] = Delete(Live(id))
            => \/ ArchiveWriteIn(c, i - 1, id)
               \/ ArchiveWriteIn(q, Len(q), id)
               \/ Settled(id)
  BY DEF ArchiveFirst, DeleteFollowsArchive
<1> HIDE DEF q, c
\* It is enough that what is settled stays settled, that the Archive keeps its
\* documents and that the stepping device keeps its part of the invariant.
<1> DEFINE SettledStays == \A id \in Ids :
                /\ Settled(id) => Settled(id)'
                /\ server[Archived(id)] # NoDoc => server'[Archived(id)] # NoDoc
           NoneDeletes(s) == \A id \in Ids : \A i \in 1..Len(s) :
                s[i] # Delete(Archived(id))
           CommittedAreThere(q2, n) == \A id \in Ids : \A i \in 1..n :
                q2[i].key = Archived(id) => server'[Archived(id)] # NoDoc
           QueueFollows(q2) == \A id \in Ids : \A i \in 1..Len(q2) :
                q2[i] = Delete(Live(id))
                    => ArchiveWriteIn(q2, i - 1, id) \/ Settled(id)'
           CallsFollow(q2, c2) == \A id \in Ids : \A i \in 1..Len(c2) :
                c2[i] = Delete(Live(id))
                    => \/ ArchiveWriteIn(c2, i - 1, id)
                       \/ ArchiveWriteIn(q2, Len(q2), id)
                       \/ Settled(id)'
<1>7. ASSUME NEW q2, NEW c2, NEW n,
             queue' = [queue EXCEPT ![d] = q2],
             calls' = [calls EXCEPT ![d] = c2],
             applied' = [applied EXCEPT ![d] = n],
             SettledStays, NoneDeletes(q2), NoneDeletes(c2),
             CommittedAreThere(q2, n), QueueFollows(q2), CallsFollow(q2, c2)
      PROVE  ArchiveFirst'
  <2>1. /\ queue'[d] = q2 /\ calls'[d] = c2 /\ applied'[d] = n
        /\ \A e \in Devices \ {d} : /\ queue'[e] = queue[e]
                                    /\ calls'[e] = calls[e]
                                    /\ applied'[e] = applied[e]
    BY <1>7 DEF SyncTypeOK
  <2>2. ArchiveNeverDeleted'
    BY <1>7, <2>1 DEF ArchiveFirst, ArchiveNeverDeleted
  <2>3. CommittedArchiveExists'
    <3> SUFFICES ASSUME NEW e \in Devices, NEW id \in Ids,
                        NEW i \in 1..applied'[e], queue'[e][i].key = Archived(id)
                 PROVE  server'[Archived(id)] # NoDoc
      BY DEF CommittedArchiveExists
    <3>1. CASE e = d
      BY <1>7, <2>1, <3>1
    <3>2. CASE e # d
      BY <1>7, <2>1, <3>2 DEF ArchiveFirst, CommittedArchiveExists
    <3> QED BY <3>1, <3>2
  <2>4. DeleteFollowsArchive'
    <3>1. ASSUME NEW e \in Devices, NEW id \in Ids, NEW i \in 1..Len(queue'[e]),
                 queue'[e][i] = Delete(Live(id))
          PROVE  ArchiveWriteIn(queue'[e], i - 1, id) \/ Settled(id)'
      <4>1. CASE e = d
        BY <1>7, <2>1, <3>1, <4>1
      <4>2. CASE e # d
        <5>1. ArchiveWriteIn(queue[e], i - 1, id) \/ Settled(id)
          BY <2>1, <3>1, <4>2 DEF ArchiveFirst, DeleteFollowsArchive
        <5> QED BY <1>7, <2>1, <4>2, <5>1
      <4> QED BY <4>1, <4>2
    <3>2. ASSUME NEW e \in Devices, NEW id \in Ids, NEW i \in 1..Len(calls'[e]),
                 calls'[e][i] = Delete(Live(id))
          PROVE  \/ ArchiveWriteIn(calls'[e], i - 1, id)
                 \/ ArchiveWriteIn(queue'[e], Len(queue'[e]), id)
                 \/ Settled(id)'
      <4>1. CASE e = d
        BY <1>7, <2>1, <3>2, <4>1
      <4>2. CASE e # d
        <5>1. \/ ArchiveWriteIn(calls[e], i - 1, id)
              \/ ArchiveWriteIn(queue[e], Len(queue[e]), id)
              \/ Settled(id)
          BY <2>1, <3>2, <4>2 DEF ArchiveFirst, DeleteFollowsArchive
        <5> QED BY <1>7, <2>1, <4>2, <5>1
      <4> QED BY <4>1, <4>2
    <3> QED BY <3>1, <3>2 DEF DeleteFollowsArchive
  <2> QED BY <2>2, <2>3, <2>4 DEF ArchiveFirst
<1>8. /\ queue = [queue EXCEPT ![d] = q]
      /\ calls = [calls EXCEPT ![d] = c]
      /\ applied = [applied EXCEPT ![d] = applied[d]]
      /\ applied[d] \in Nat /\ applied[d] <= Len(q)
  BY DEF SyncTypeOK, q, c
<1>9. ASSUME UNCHANGED <<server, refused>>
      PROVE  /\ SettledStays
             /\ \A id \in Ids : Settled(id) => Settled(id)'
             /\ CommittedAreThere(q, applied[d])
             /\ CommittedAreThere(q, 0)
             /\ QueueFollows(q)
  BY <1>4, <1>5, <1>8, <1>9 DEF Settled
<1>20. NoneDeletes(q) /\ NoneDeletes(c)
  BY <1>3
<1>10. CASE WriteLocally(d)
  <2>1. /\ c # <<>> /\ Head(c) # Query
        /\ queue' = [queue EXCEPT ![d] = Append(q, Head(c))]
        /\ calls' = [calls EXCEPT ![d] = Tail(c)]
        /\ UNCHANGED <<server, applied, refused>>
    BY <1>10 DEF WriteLocally, q, c
  <2>2. Head(c) \in Mutation
    BY <1>1, <1>2, <2>1 DEF Task
  <2> DEFINE q2 == Append(q, Head(c))
  <2>3. /\ Len(q2) = Len(q) + 1
        /\ \A i \in 1..Len(q) : q2[i] = q[i]
        /\ q2[Len(q) + 1] = c[1]
    BY <1>1, <1>2, <2>1, <2>2
  <2> HIDE DEF q2
  <2>4. NoneDeletes(q2) /\ NoneDeletes(Tail(c)) /\ CommittedAreThere(q2, applied[d])
    <3>1. \A i \in 1..Len(q2) : i \in 1..Len(q) \/ i = Len(q) + 1
      BY <1>1, <2>3
    <3>2. NoneDeletes(q2)
      BY <1>2, <1>3, <2>1, <2>3, <3>1
    <3>3. \A i \in 1..Len(Tail(c)) : Tail(c)[i] = c[i + 1] /\ i + 1 \in 1..Len(c)
      BY <1>1, <1>2, <2>1
    <3>4. NoneDeletes(Tail(c))
      BY <1>3, <3>3
    <3>5. \A i \in 1..applied[d] : q2[i] = q[i]
      BY <1>1, <1>8, <2>3
    <3> QED BY <1>4, <2>1, <3>2, <3>4, <3>5
  <2>5. ASSUME NEW id \in Ids, ArchiveWriteIn(q, Len(q), id)
        PROVE  ArchiveWriteIn(q2, Len(q), id) /\ ArchiveWriteIn(q2, Len(q2), id)
    BY <1>1, <2>3, <2>5 DEF ArchiveWriteIn
  <2>6. ASSUME NEW id \in Ids, NEW i \in 1..Len(q2), q2[i] = Delete(Live(id))
        PROVE  ArchiveWriteIn(q2, i - 1, id) \/ Settled(id)
    <3>1. CASE i \in 1..Len(q)
      <4>1. ArchiveWriteIn(q, i - 1, id) \/ Settled(id)
        BY <1>5, <2>3, <2>6, <3>1
      <4>2. ASSUME ArchiveWriteIn(q, i - 1, id)
            PROVE  ArchiveWriteIn(q2, i - 1, id)
        BY <1>1, <2>3, <3>1, <4>2 DEF ArchiveWriteIn
      <4> QED BY <4>1, <4>2
    <3>2. CASE i = Len(q) + 1
      <4>1. c[1] = Delete(Live(id)) /\ 1 \in 1..Len(c)
        BY <1>2, <2>1, <2>3, <2>6, <3>2
      <4>2. ~ArchiveWriteIn(c, 1 - 1, id)
        BY DEF ArchiveWriteIn
      <4>3. i - 1 = Len(q)
        BY <1>1, <3>2
      <4> QED BY <1>6, <2>5, <4>1, <4>2, <4>3
    <3> QED BY <1>1, <2>3, <2>6, <3>1, <3>2
  <2>7. ASSUME NEW id \in Ids, NEW i \in 1..Len(Tail(c)),
               Tail(c)[i] = Delete(Live(id))
        PROVE  \/ ArchiveWriteIn(Tail(c), i - 1, id)
               \/ ArchiveWriteIn(q2, Len(q2), id)
               \/ Settled(id)
    <3>1. c[i + 1] = Delete(Live(id)) /\ i + 1 \in 1..Len(c) /\ (i + 1) - 1 = i
      BY <1>1, <1>2, <2>1, <2>7
    <3>2. \/ ArchiveWriteIn(c, i, id)
          \/ ArchiveWriteIn(q, Len(q), id)
          \/ Settled(id)
      BY <1>6, <3>1
    <3>3. ASSUME ArchiveWriteIn(c, i, id)
          PROVE  \/ ArchiveWriteIn(Tail(c), i - 1, id)
                 \/ ArchiveWriteIn(q2, Len(q2), id)
      <4>1. PICK j \in 1..i, doc \in Docs : c[j] = Set(Archived(id), doc)
        BY <3>3 DEF ArchiveWriteIn
      <4>2. CASE j = 1
        BY <1>1, <2>3, <4>1, <4>2 DEF ArchiveWriteIn
      <4>3. CASE j # 1
        <5>1. j - 1 \in 1..(i - 1) /\ j - 1 \in 1..Len(Tail(c)) /\ (j - 1) + 1 = j
          BY <4>1, <4>3, <2>7, <1>1, <1>2, <2>1
        <5>2. Tail(c)[j - 1] = Set(Archived(id), doc)
          BY <1>2, <2>1, <4>1, <5>1
        <5> QED BY <5>1, <5>2 DEF ArchiveWriteIn
      <4> QED BY <4>2, <4>3
    <3> QED BY <2>5, <3>2, <3>3
  <2>8. /\ queue' = [queue EXCEPT ![d] = q2]
        /\ applied' = [applied EXCEPT ![d] = applied[d]]
    BY <1>8, <2>1 DEF q2
  <2>9. SettledStays /\ QueueFollows(q2) /\ CallsFollow(q2, Tail(c))
    BY <1>9, <2>1, <2>6, <2>7
  <2> HIDE DEF SettledStays, NoneDeletes, CommittedAreThere, QueueFollows, CallsFollow
  <2> QED
    BY <1>7, <2>1, <2>4, <2>8, <2>9
<1>11. CASE Commit(d)
  <2>1. /\ applied[d] + 1 \in 1..Len(q)
        /\ server' = Write(server, q[applied[d] + 1])
        /\ applied' = [applied EXCEPT ![d] = applied[d] + 1]
        /\ UNCHANGED <<calls, queue, refused>>
    BY <1>1, <1>8, <1>11 DEF Commit, q
  <2> DEFINE m == q[applied[d] + 1]
  <2>2. m \in Mutation
    BY <1>1, <2>1
  <2>3. ASSUME NEW id \in Ids
        PROVE  /\ server[Archived(id)] # NoDoc => server'[Archived(id)] # NoDoc
               /\ m.key = Archived(id) => server'[Archived(id)] # NoDoc
    <3>1. Archived(id) \in DOMAIN server
      BY PathAssumption DEF SyncTypeOK, Archived
    <3>2. m.key = Archived(id) => m.doc # NoDoc
      BY <1>3, <2>1, <2>2, ArchiveWriteSets
    <3>3. server'[Archived(id)] = IF m.key = Archived(id) THEN m.doc
                                  ELSE server[Archived(id)]
      BY <2>1, <3>1 DEF Write
    <3> QED BY <3>2, <3>3
  <2>4. \A id \in Ids : Settled(id) => Settled(id)'
    BY <2>1, <2>3 DEF Settled
  <2>5. \A id \in Ids : \A i \in 1..(applied[d] + 1) :
            q[i].key = Archived(id) => server'[Archived(id)] # NoDoc
    <3> SUFFICES ASSUME NEW id \in Ids, NEW i \in 1..(applied[d] + 1),
                        q[i].key = Archived(id)
                 PROVE  server'[Archived(id)] # NoDoc
      OBVIOUS
    <3>1. i \in 1..applied[d] \/ i = applied[d] + 1
      BY <1>8
    <3> QED BY <1>4, <2>3, <3>1
  <2>6. queue' = [queue EXCEPT ![d] = q] /\ calls' = [calls EXCEPT ![d] = c]
    BY <1>8, <2>1
  <2>7. /\ SettledStays /\ CommittedAreThere(q, applied[d] + 1)
        /\ QueueFollows(q) /\ CallsFollow(q, c)
    BY <1>5, <1>6, <2>3, <2>4, <2>5
  <2> HIDE DEF SettledStays, NoneDeletes, CommittedAreThere, QueueFollows, CallsFollow
  <2> QED
    BY <1>7, <1>20, <2>1, <2>6, <2>7
\* An acknowledged head is settled when it archives; a refused one too.
<1>12. ASSUME NEW n \in Nat, n = applied[d] - 1 \/ n = 0,
              q # <<>>, queue' = [queue EXCEPT ![d] = Tail(q)],
              calls' = calls, applied' = [applied EXCEPT ![d] = n], server' = server,
              refused \subseteq refused',
              \A id \in Ids : q[1].key = Archived(id) => Settled(id)'
       PROVE  ArchiveFirst'
  <2>1. \A id \in Ids : Settled(id) => Settled(id)'
    BY <1>12 DEF Settled
  <2>2. ASSUME NEW id \in Ids, NEW k \in 0..Len(q), ArchiveWriteIn(q, k, id)
        PROVE  ArchiveWriteIn(Tail(q), k - 1, id) \/ Settled(id)'
    <3>1. PICK j \in 1..k, doc \in Docs : q[j] = Set(Archived(id), doc)
      BY <2>2 DEF ArchiveWriteIn
    <3>2. CASE j = 1
      BY <1>12, <3>1, <3>2 DEF Set
    <3>3. CASE j # 1
      <4>1. j - 1 \in 1..(k - 1) /\ j - 1 \in 1..Len(Tail(q)) /\ (j - 1) + 1 = j
        BY <1>1, <1>2, <1>12, <3>1, <3>3
      <4>2. Tail(q)[j - 1] = Set(Archived(id), doc)
        BY <1>2, <1>12, <3>1, <4>1
      <4> QED BY <4>1, <4>2 DEF ArchiveWriteIn
    <3> QED BY <3>2, <3>3
  <2>3. ASSUME NEW i \in 1..Len(Tail(q))
        PROVE  Tail(q)[i] = q[i + 1] /\ i + 1 \in 1..Len(q) /\ i \in 0..Len(q)
                    /\ (i + 1) - 1 = i
    BY <1>1, <1>2, <1>12
  <2>4. ASSUME NEW id \in Ids, NEW i \in 1..Len(Tail(q)),
               Tail(q)[i] = Delete(Live(id))
        PROVE  ArchiveWriteIn(Tail(q), i - 1, id) \/ Settled(id)'
    BY <1>5, <2>1, <2>2, <2>3, <2>4
  <2>5. ASSUME NEW id \in Ids, NEW i \in 1..Len(c), c[i] = Delete(Live(id))
        PROVE  \/ ArchiveWriteIn(c, i - 1, id)
               \/ ArchiveWriteIn(Tail(q), Len(Tail(q)), id)
               \/ Settled(id)'
    <3>1. Len(q) \in 0..Len(q) /\ Len(Tail(q)) = Len(q) - 1
      BY <1>1, <1>2, <1>12
    <3> QED BY <1>6, <2>1, <2>2, <2>5, <3>1
  <2>6. \A id \in Ids : \A i \in 1..n :
            Tail(q)[i].key = Archived(id) => server'[Archived(id)] # NoDoc
    <3> SUFFICES ASSUME NEW id \in Ids, NEW i \in 1..n,
                        Tail(q)[i].key = Archived(id)
                 PROVE  server[Archived(id)] # NoDoc
      BY <1>12
    <3>1. i + 1 \in 1..applied[d] /\ i \in 1..Len(Tail(q))
      BY <1>1, <1>2, <1>8, <1>12
    <3> QED BY <1>4, <2>3, <3>1
  <2>7. \A id \in Ids : \A i \in 1..Len(Tail(q)) : Tail(q)[i] # Delete(Archived(id))
    BY <1>3, <2>3
  <2>8. calls' = [calls EXCEPT ![d] = c]
    BY <1>8, <1>12
  <2>9. /\ SettledStays /\ NoneDeletes(Tail(q)) /\ CommittedAreThere(Tail(q), n)
        /\ QueueFollows(Tail(q)) /\ CallsFollow(Tail(q), c)
    BY <1>12, <2>1, <2>4, <2>5, <2>6, <2>7
  <2> HIDE DEF SettledStays, NoneDeletes, CommittedAreThere, QueueFollows, CallsFollow
  <2> QED
    BY <1>7, <1>12, <1>20, <2>8, <2>9
<1>13. CASE Acknowledge(d)
  <2>1. /\ applied[d] > 0 /\ q # <<>>
        /\ queue' = [queue EXCEPT ![d] = Tail(q)]
        /\ applied' = [applied EXCEPT ![d] = applied[d] - 1]
        /\ applied[d] - 1 \in Nat
        /\ UNCHANGED <<server, calls, refused>>
    BY <1>1, <1>8, <1>13 DEF Acknowledge, q
  <2>2. \A id \in Ids : q[1].key = Archived(id) => Settled(id)'
    <3>1. 1 \in 1..applied[d]
      BY <1>8, <2>1
    <3> QED BY <1>4, <2>1, <3>1 DEF Settled
  <2> QED BY <1>12, <2>1, <2>2
<1>14. CASE Refuse(d)
  <2>1. /\ applied[d] = 0 /\ q # <<>>
        /\ queue' = [queue EXCEPT ![d] = Tail(q)]
        /\ refused' = refused \cup {Head(q).key}
        /\ applied' = [applied EXCEPT ![d] = 0]
        /\ UNCHANGED <<server, calls>>
    BY <1>8, <1>14 DEF Refuse, q
  <2>2. \A id \in Ids : q[1].key = Archived(id) => Settled(id)'
    BY <1>2, <2>1 DEF Settled
  <2>3. 0 \in Nat /\ refused \subseteq refused' /\ calls' = calls /\ server' = server
    BY <2>1
  <2> QED BY <1>12, <2>1, <2>2, <2>3
<1>15. CASE LoseStream(d)
  <2>1. /\ applied' = [applied EXCEPT ![d] = 0]
        /\ queue' = [queue EXCEPT ![d] = q]
        /\ calls' = [calls EXCEPT ![d] = c]
        /\ UNCHANGED <<server, refused>>
    BY <1>8, <1>15 DEF LoseStream
  <2>2. CallsFollow(q, c)
    BY <1>6, <1>9, <2>1
  <2> HIDE DEF SettledStays, NoneDeletes, CommittedAreThere, QueueFollows, CallsFollow
  <2> QED BY <1>7, <1>9, <1>20, <2>1, <2>2
<1>16. CASE Listen(d)
  <2>1. /\ c # <<>> /\ Head(c) = Query
        /\ calls' = [calls EXCEPT ![d] = Tail(c)]
        /\ queue' = [queue EXCEPT ![d] = q]
        /\ applied' = [applied EXCEPT ![d] = applied[d]]
        /\ UNCHANGED <<server, refused>>
    BY <1>8, <1>16 DEF Listen, c
  <2>2. ASSUME NEW i \in 1..Len(Tail(c))
        PROVE  Tail(c)[i] = c[i + 1] /\ i + 1 \in 1..Len(c) /\ (i + 1) - 1 = i
    BY <1>1, <1>2, <2>1
  <2>3. ASSUME NEW id \in Ids, NEW i \in 1..Len(Tail(c)), ArchiveWriteIn(c, i, id)
        PROVE  ArchiveWriteIn(Tail(c), i - 1, id)
    <3>1. PICK j \in 1..i, doc \in Docs : c[j] = Set(Archived(id), doc)
      BY <2>3 DEF ArchiveWriteIn
    <3>2. j # 1
      BY <1>2, <2>1, <3>1, TasksDiffer
    <3>3. j - 1 \in 1..(i - 1) /\ j - 1 \in 1..Len(Tail(c)) /\ (j - 1) + 1 = j
      BY <1>1, <1>2, <2>1, <2>3, <3>1, <3>2
    <3>4. Tail(c)[j - 1] = Set(Archived(id), doc)
      BY <1>2, <2>1, <3>1, <3>3
    <3> QED BY <3>3, <3>4 DEF ArchiveWriteIn
  <2>4. ASSUME NEW id \in Ids, NEW i \in 1..Len(Tail(c)),
               Tail(c)[i] = Delete(Live(id))
        PROVE  \/ ArchiveWriteIn(Tail(c), i - 1, id)
               \/ ArchiveWriteIn(q, Len(q), id)
               \/ Settled(id)
    BY <1>6, <2>2, <2>3, <2>4
  <2>5. \A id \in Ids : \A i \in 1..Len(Tail(c)) : Tail(c)[i] # Delete(Archived(id))
    BY <1>3, <2>2
  <2>6. NoneDeletes(Tail(c)) /\ CallsFollow(q, Tail(c))
    BY <1>9, <2>1, <2>4, <2>5
  <2> HIDE DEF SettledStays, NoneDeletes, CommittedAreThere, QueueFollows, CallsFollow
  <2> QED BY <1>7, <1>9, <1>20, <2>1, <2>6
<1>17. CASE Ask(d)
  <2> DEFINE c2 == Append(c, Query)
  <2>1. /\ calls' = [calls EXCEPT ![d] = c2]
        /\ queue' = [queue EXCEPT ![d] = q]
        /\ applied' = [applied EXCEPT ![d] = applied[d]]
        /\ UNCHANGED <<server, refused>>
    BY <1>8, <1>17 DEF Ask, c
  <2>2. /\ Len(c2) = Len(c) + 1
        /\ \A i \in 1..Len(c) : c2[i] = c[i]
        /\ c2[Len(c) + 1] = Query
        /\ \A i \in 1..Len(c2) : i \in 1..Len(c) \/ i = Len(c) + 1
    BY <1>1 DEF Task
  <2> HIDE DEF c2
  <2>3. \A id \in Ids : Query # Delete(Archived(id)) /\ Query # Delete(Live(id))
    <3> SUFFICES ASSUME NEW id \in Ids
                 PROVE  Query # Delete(Archived(id)) /\ Query # Delete(Live(id))
      OBVIOUS
    <3>1. Delete(Archived(id)) \in Mutation /\ Delete(Live(id)) \in Mutation
      BY PathAssumption DEF Delete, Mutation, Live, Archived
    <3> QED BY <3>1, SyncAssumption
  <2>4. ASSUME NEW id \in Ids, NEW i \in 1..Len(c2), c2[i] = Delete(Live(id))
        PROVE  \/ ArchiveWriteIn(c2, i - 1, id)
               \/ ArchiveWriteIn(q, Len(q), id)
               \/ Settled(id)
    <3>1. i \in 1..Len(c) /\ c[i] = Delete(Live(id))
      BY <2>2, <2>3, <2>4
    <3>2. ASSUME ArchiveWriteIn(c, i - 1, id) PROVE ArchiveWriteIn(c2, i - 1, id)
      <4>1. PICK j \in 1..(i - 1), doc \in Docs : c[j] = Set(Archived(id), doc)
        BY <3>2 DEF ArchiveWriteIn
      <4>2. j \in 1..Len(c)
        BY <1>1, <3>1
      <4> QED BY <2>2, <4>1, <4>2 DEF ArchiveWriteIn
    <3> QED BY <1>6, <3>1, <3>2
  <2>5. \A id \in Ids : \A i \in 1..Len(c2) : c2[i] # Delete(Archived(id))
    BY <1>3, <2>2, <2>3
  <2>6. NoneDeletes(c2) /\ CallsFollow(q, c2)
    BY <1>9, <2>1, <2>4, <2>5
  <2> HIDE DEF SettledStays, NoneDeletes, CommittedAreThere, QueueFollows, CallsFollow
  <2> QED BY <1>7, <1>9, <1>20, <2>1, <2>6
<1>18. CASE Crash(d)
  <2>1. /\ calls' = [calls EXCEPT ![d] = <<>>]
        /\ queue' = [queue EXCEPT ![d] = q]
        /\ applied' = [applied EXCEPT ![d] = 0]
        /\ UNCHANGED <<server, refused>>
    BY <1>8, <1>18 DEF Crash
  <2>2. NoneDeletes(<<>>) /\ CallsFollow(q, <<>>)
    OBVIOUS
  <2> HIDE DEF SettledStays, NoneDeletes, CommittedAreThere, QueueFollows, CallsFollow
  <2> QED BY <1>7, <1>9, <1>20, <2>1, <2>2
<1> QED
  BY <1>10, <1>11, <1>13, <1>14, <1>15, <1>16, <1>17, <1>18

\* A step that leaves the writes alone keeps ArchiveFirst.
LEMMA UnchangedKeepsArchiveFirst ==
    ASSUME ArchiveFirst, UNCHANGED <<server, calls, queue, applied, refused>>
    PROVE  ArchiveFirst'
<1>1. ArchiveNeverDeleted' /\ CommittedArchiveExists'
  BY DEF ArchiveFirst, ArchiveNeverDeleted, CommittedArchiveExists
<1>2. \A id : Settled(id)' <=> Settled(id)
  BY DEF Settled
<1>3. DeleteFollowsArchive'
  BY <1>2 DEF ArchiveFirst, DeleteFollowsArchive
<1> QED BY <1>1, <1>3 DEF ArchiveFirst

\* Every step keeps the archive writes ahead of the deletions.
LEMMA ArchiveFirstStep ==
    SyncTypeOK /\ ArchiveFirst /\ [ApiNext]_syncVars => ArchiveFirst'
<1> SUFFICES ASSUME SyncTypeOK, ArchiveFirst, [ApiNext]_syncVars
             PROVE  ArchiveFirst'
  OBVIOUS
<1>1. ASSUME NEW d \in Devices, NEW id \in Ids, NEW doc \in Docs,
             Post(d, id, doc) \/ Put(d, id, doc)
      PROVE  ArchiveFirst'
  <2> DEFINE muts == <<Set(Live(id), doc)>>
  <2>1. Submit(d, muts) /\ muts \in Seq(Mutation)
    BY <1>1, CallsType DEF Post, Put
  <2>2. \A k \in Ids : \A i \in 1..Len(muts) :
            muts[i] # Delete(Archived(k)) /\ muts[i] # Delete(Live(k))
    BY TasksDiffer
  <2> HIDE DEF muts
  <2> QED BY <2>1, <2>2, SubmitKeepsArchiveFirst
<1>2. ASSUME NEW d \in Devices, NEW id \in Ids, NEW doc \in Docs,
             Archive(d, id, doc)
      PROVE  ArchiveFirst'
  <2> DEFINE muts == <<Set(Archived(id), doc), Delete(Live(id))>>
  <2>1. Submit(d, muts) /\ muts \in Seq(Mutation)
    BY <1>2, CallsType DEF Archive
  <2>2. ASSUME NEW k \in Ids, NEW i \in 1..Len(muts)
        PROVE  /\ muts[i] # Delete(Archived(k))
               /\ muts[i] = Delete(Live(k)) => ArchiveWriteIn(muts, i - 1, k)
    <3>1. CASE i = 1
      BY <3>1, TasksDiffer
    <3>2. CASE i = 2
      <4>1. muts[2] # Delete(Archived(k)) /\ (muts[2] = Delete(Live(k)) => id = k)
        BY TasksDiffer
      <4>2. ArchiveWriteIn(muts, 1, id)
        BY DEF ArchiveWriteIn
      <4> QED BY <3>2, <4>1, <4>2
    <3> QED BY <2>2, <3>1, <3>2
  <2> HIDE DEF muts
  <2> QED BY <2>1, <2>2, SubmitKeepsArchiveFirst
<1>3. ASSUME NEW d \in Devices,
             Deliver(d) \/ RaiseFromServer(d) \/ RaiseFromCache(d) \/ FailQuery(d)
      PROVE  ArchiveFirst'
  BY <1>3, UnchangedKeepsArchiveFirst
     DEF Deliver, RaiseFromServer, RaiseFromCache, Raise, FailQuery, writeVars
<1>4. CASE UNCHANGED syncVars
  BY <1>4, UnchangedKeepsArchiveFirst DEF syncVars
<1> QED
  BY <1>1, <1>2, <1>3, <1>4, SyncKeepsArchiveFirst
     DEF ApiNext, SyncStep, GetAllDefects

\* At the start nothing is deleted.
LEMMA ArchiveFirstInit == ApiInit => ArchiveFirst
BY DEF ApiInit, SyncInit, ArchiveFirst, ArchiveNeverDeleted,
       CommittedArchiveExists, DeleteFollowsArchive

\* archive(_:) queues the Archive write before the deletion, and no crash,
\* broken stream, replay or refusal lets the deletion overtake it.
THEOREM ArchiveComesFirst == ApiSpec => []ArchiveFirst
<1>1. SyncTypeOK /\ ArchiveFirst /\ [ApiNext]_syncVars
        => (SyncTypeOK /\ ArchiveFirst)'
  BY TypeStep, ArchiveFirstStep
<1>2. ApiInit => SyncTypeOK /\ ArchiveFirst
  BY TypeInit, ArchiveFirstInit
<1> QED BY <1>1, <1>2, PTL DEF ApiSpec

\* Only a commit changes the backend, and it is a deletion from Defects only
\* if the device's queue had the archive write before it.
LEMMA LeavingStep ==
    ASSUME SyncTypeOK, ArchiveFirst, ApiNext, NEW id \in Ids,
           server[Live(id)] # NoDoc, server'[Live(id)] = NoDoc
    PROVE  Settled(id)
<1>1. server' # server
  OBVIOUS
<1>2. PICK d \in Devices : Commit(d)
  BY <1>1 DEF ApiNext, SyncStep, Post, Put, Archive, Submit, GetAllDefects,
     Ask, Deliver, WriteLocally, Acknowledge, LoseStream, Refuse, Listen,
     RaiseFromServer, RaiseFromCache, Raise, FailQuery, Crash, writeVars
<1> DEFINE n == applied[d] + 1
           m == queue[d][n]
<1>3. /\ n \in 1..Len(queue[d]) /\ n - 1 = applied[d] /\ applied[d] \in Nat
      /\ m \in Mutation
      /\ server' = Write(server, m)
  BY <1>2 DEF Commit, SyncTypeOK
<1>4. m = Delete(Live(id))
  <2>1. Live(id) \in DOMAIN server
    BY PathAssumption DEF SyncTypeOK, Live
  <2>2. server'[Live(id)] = IF m.key = Live(id) THEN m.doc ELSE server[Live(id)]
    BY <1>3, <2>1 DEF Write
  <2>3. m.key = Live(id) /\ m.doc = NoDoc
    BY <2>2
  <2> QED BY <1>3, <2>3 DEF Mutation, Delete
<1>5. CASE ArchiveWriteIn(queue[d], n - 1, id)
  <2>1. PICK j \in 1..applied[d], doc \in Docs :
                queue[d][j] = Set(Archived(id), doc)
    BY <1>3, <1>5 DEF ArchiveWriteIn
  <2>2. queue[d][j].key = Archived(id)
    BY <2>1 DEF Set
  <2> QED BY <2>2 DEF ArchiveFirst, CommittedArchiveExists, Settled
<1>6. ArchiveWriteIn(queue[d], n - 1, id) \/ Settled(id)
  BY <1>3, <1>4 DEF ArchiveFirst, DeleteFollowsArchive
<1> QED BY <1>5, <1>6

\* Whatever the devices, the connection and the backend do, a defect leaves the
\* Defects collection only when its archived copy is there or was refused.
THEOREM NoDefectIsLost == ApiSpec => LeavesOnlyArchived
<1> DEFINE Leaving == \A id \in Ids :
                (server[Live(id)] # NoDoc /\ server'[Live(id)] = NoDoc)
                    => Settled(id)
<1>1. SyncTypeOK /\ ArchiveFirst /\ [ApiNext]_syncVars => [Leaving]_syncVars
  BY LeavingStep
<1>2. ApiSpec => []SyncTypeOK /\ []ArchiveFirst /\ [][ApiNext]_syncVars
  BY TypeCorrect, ArchiveComesFirst DEF ApiSpec
<1> QED BY <1>1, <1>2, PTL DEF LeavesOnlyArchived
============================================================================
