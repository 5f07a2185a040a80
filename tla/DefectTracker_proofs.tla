------------------------ MODULE DefectTracker_proofs ------------------------
(***************************************************************************)
(* Proofs about DefectTracker, for any number of devices and defects:      *)
(*   - the screens are well typed, and in read mode show their defect,     *)
(*   - an object shared with the feed changes only with a write of it,     *)
(*   - the app is a client of ApiClient (refinement of DefectApi), so that *)
(*     what is proved there holds of it,                                   *)
(*   - the list of a device alone falls behind only over what no screen is *)
(*     told of, and is current once no load is outstanding.                *)
(***************************************************************************)
EXTENDS DefectTracker, AtomicStore_proofs

----------------------------------------------------------------------------
\* THE INDUCTIVE INVARIANT

\* A detail screen in order: a defect on it has an id, only a defect is shared, and
\* in read mode the inputs show the defect.
ScreenOK(s) ==
    /\ s \in Detail
    /\ s.defect # NoDoc => s.id \in Ids
    /\ s.linked => s.defect # NoDoc
    /\ s.readOnly => /\ s.defect # NoDoc
                     /\ s.content = s.defect.content
                     /\ s.resolution = s.defect.resolution

AppOK ==
    /\ repository \in [Devices -> [Ids -> MaybeDoc]]
    /\ top \in [Devices -> {"home", "feed", "detail"}]
    /\ detail \in [Devices -> Detail]
    /\ \A d \in Devices : ScreenOK(detail[d])

Inv == SyncTypeOK /\ AppOK

\* Repositories as they were, or replaced by an answer, or changed in one object
\* together with a write of it.
EditStep == \A d \in Devices, id \in Ids :
    repository'[d][id] \notin {repository[d][id], NoDoc}
        => \/ snapshots'[d] # snapshots[d]
           \/ /\ calls'[d] # calls[d]
              /\ calls'[d][Len(calls'[d])] = Set(Live(id), repository'[d][id])

\* What every step of a device amounts to.
StepOK(d) ==
    /\ repository' \in [Devices -> [Ids -> MaybeDoc]]
    /\ top' \in [Devices -> {"home", "feed", "detail"}]
    /\ \E s : ScreenOK(s) /\ detail' = [detail EXCEPT ![d] = s]
    /\ [ApiNext]_syncVars
    /\ EditStep

----------------------------------------------------------------------------
\* THE SCREENS

\* A screen without a defect is in order.
LEMMA EmptyScreen == ScreenOK(EmptyDetail)
BY TrackerAssumption DEF ScreenOK, EmptyDetail, Detail, Drafts

\* A step that leaves the repositories alone.
LEMMA SameObjects ==
    ASSUME Inv, NEW d \in Devices, UNCHANGED repository, [ApiNext]_syncVars,
           top' = top \/ \E s \in {"home", "feed", "detail"} : top' = [top EXCEPT ![d] = s],
           NEW s, ScreenOK(s), detail' = [detail EXCEPT ![d] = s]
    PROVE  StepOK(d)
<1>1. top' \in [Devices -> {"home", "feed", "detail"}]
  BY DEF Inv, AppOK
<1>2. EditStep
  BY DEF EditStep
<1> QED BY <1>1, <1>2 DEF StepOK, Inv, AppOK

\* The screen of a device as it is.
LEMMA SameScreen ==
    ASSUME Inv, NEW d \in Devices
    PROVE  ScreenOK(detail[d]) /\ detail[d] \in Detail
           /\ detail = [detail EXCEPT ![d] = detail[d]]
BY DEF Inv, AppOK, ScreenOK

\* viewWillAppear of the feed.
LEMMA FeedAppearsStep ==
    ASSUME Inv, NEW d \in Devices, FeedAppears(d)
    PROVE  StepOK(d)
<1>1. [ApiNext]_syncVars
  BY DEF FeedAppears, ApiNext
<1> QED BY <1>1, EmptyScreen, SameObjects DEF FeedAppears

\* An alert over a screen in order.
LEMMA AlertStep ==
    ASSUME Inv, NEW d \in Devices, NEW s, ScreenOK(s),
           NEW kind \in {"none", "basic", "returning"}, Alert(d, s, kind)
    PROVE  /\ \E q : ScreenOK(q) /\ detail' = [detail EXCEPT ![d] = q]
           /\ UNCHANGED top
<1> DEFINE q == [s EXCEPT !.alert = kind]
<1>1. ScreenOK(q)
  BY DEF ScreenOK, Detail
<1> QED BY <1>1 DEF Alert

\* The screen shows a defect in read mode.
LEMMA ShowsDefect ==
    ASSUME NEW s \in Detail, NEW id \in Ids, NEW defect \in Docs, NEW linked \in BOOLEAN
    PROVE  ScreenOK([ForDefect(s, defect) EXCEPT
                !.id = id, !.defect = defect, !.linked = linked, !.readOnly = TRUE])
<1>1. /\ defect.content \in Contents
      /\ defect.resolution \in Resolutions \cup {NoResolution}
      /\ defect # NoDoc
  BY TrackerAssumption, SyncAssumption DEF Defect
<1> QED BY <1>1 DEF ScreenOK, ForDefect, Detail, Drafts

----------------------------------------------------------------------------
\* THE HANDLERS

\* The completion of loadAllDefects.
LEMMA LoadStep ==
    ASSUME Inv, NEW d \in Devices, LoadAllDefects(d)
    PROVE  StepOK(d)
<1>1. snapshots[d] # <<>> /\ snapshots[d] \in Seq(Snapshot)
  BY DEF LoadAllDefects, Deliver, Inv, SyncTypeOK
<1>2. Head(snapshots[d]) \in Snapshot
  BY <1>1
<1>3. \A id \in Ids : Head(snapshots[d])[Live(id)] \in MaybeDoc
  BY <1>2, TrackerAssumption DEF Snapshot, Live
<1>4. [id \in Ids |-> Head(snapshots[d])[Live(id)]] \in [Ids -> MaybeDoc]
  BY <1>3
<1>5. /\ repository' \in [Devices -> [Ids -> MaybeDoc]]
      /\ \A e \in Devices \ {d} : repository'[e] = repository[e]
  BY <1>4 DEF LoadAllDefects, Inv, AppOK
<1>6. snapshots'[d] # snapshots[d]
  <2>1. Len(Tail(snapshots[d])) # Len(snapshots[d])
    BY <1>1
  <2>2. snapshots'[d] = Tail(snapshots[d])
    BY DEF LoadAllDefects, Deliver, Inv, SyncTypeOK
  <2> QED BY <2>1, <2>2
<1>7. EditStep
  BY <1>5, <1>6 DEF EditStep
<1>8. ApiNext
  BY DEF LoadAllDefects, ApiNext
<1> DEFINE s == [detail[d] EXCEPT !.linked = FALSE]
<1>9. ScreenOK(s)
  BY SameScreen DEF ScreenOK, Detail
<1>10. detail' = [detail EXCEPT ![d] = s] /\ top' = top
  BY DEF LoadAllDefects, Inv, AppOK
<1> QED BY <1>5, <1>7, <1>8, <1>9, <1>10 DEF StepOK, Inv, AppOK

\* The way from the feed to a screen that is in order.
LEMMA OpenStep ==
    ASSUME Inv, NEW d \in Devices, NEW s, ScreenOK(s), OpenDetail(d, s)
    PROVE  StepOK(d)
BY SameObjects DEF OpenDetail

\* A tap on a row.
LEMMA SelectStep ==
    ASSUME Inv, NEW d \in Devices, NEW id \in Ids, SelectRow(d, id)
    PROVE  StepOK(d)
<1>1. repository[d][id] \in Docs
  BY DEF SelectRow, Inv, AppOK, MaybeDoc
<1>2. EmptyDetail \in Detail
  BY EmptyScreen DEF ScreenOK
<1> QED BY <1>1, <1>2, ShowsDefect, OpenStep DEF SelectRow

\* Input and the Edit button.
LEMMA TypingStep ==
    ASSUME Inv, NEW d \in Devices,
           \/ \E c \in Drafts : TypeContent(d, c)
           \/ \E r \in Resolutions \cup {NoResolution} : TypeResolution(d, r)
           \/ onEdit(d)
    PROVE  StepOK(d)
<1>1. SUFFICES \E s : ScreenOK(s) /\ detail' = [detail EXCEPT ![d] = s]
  BY SameObjects DEF TypeContent, TypeResolution, onEdit
<1>2. ASSUME NEW c \in Drafts, TypeContent(d, c)
      PROVE  \E s : ScreenOK(s) /\ detail' = [detail EXCEPT ![d] = s]
  <2> DEFINE s == [detail[d] EXCEPT !.content = c]
  <2>1. ScreenOK(s)
    BY <1>2, SameScreen DEF TypeContent, ScreenOK, Detail
  <2> QED BY <1>2, <2>1 DEF TypeContent, Inv, AppOK
<1>3. ASSUME NEW r \in Resolutions \cup {NoResolution}, TypeResolution(d, r)
      PROVE  \E s : ScreenOK(s) /\ detail' = [detail EXCEPT ![d] = s]
  <2> DEFINE s == [detail[d] EXCEPT !.resolution = r]
  <2>1. ScreenOK(s)
    BY <1>3, SameScreen DEF TypeResolution, ScreenOK, Detail
  <2> QED BY <1>3, <2>1 DEF TypeResolution, Inv, AppOK
<1>4. ASSUME onEdit(d)
      PROVE  \E s : ScreenOK(s) /\ detail' = [detail EXCEPT ![d] = s]
  <2> DEFINE s == [detail[d] EXCEPT !.readOnly = FALSE]
  <2>1. ScreenOK(s)
    BY SameScreen DEF ScreenOK, Detail
  <2> QED BY <1>4, <2>1 DEF onEdit, Inv, AppOK
<1> QED BY <1>2, <1>3, <1>4

\* The Cancel button.
LEMMA CancelStep ==
    ASSUME Inv, NEW d \in Devices, onCancel(d)
    PROVE  StepOK(d)
<1>1. CASE ~defectExists(d)
  BY <1>1, FeedAppearsStep DEF onCancel
<1>2. CASE defectExists(d)
  <2> DEFINE s == [ForDefect(detail[d], detail[d].defect) EXCEPT !.readOnly = TRUE]
  <2>1. ScreenOK(s)
    <3>1. detail[d].defect \in Docs
      BY <1>2, SameScreen DEF defectExists, Detail
    <3>2. /\ detail[d].defect.content \in Contents
          /\ detail[d].defect.resolution \in Resolutions \cup {NoResolution}
      BY <3>1, TrackerAssumption DEF Defect
    <3> QED BY <1>2, <3>2, SameScreen
            DEF defectExists, ScreenOK, ForDefect, Detail, Drafts
  <2>2. /\ detail' = [detail EXCEPT ![d] = s]
        /\ UNCHANGED <<repository, top, syncVars>>
    BY <1>2 DEF onCancel, Inv, AppOK
  <2> QED BY <2>1, <2>2, SameObjects
<1> QED BY <1>1, <1>2

\* A defect is written, and its object changed in the repository or not.
LEMMA WriteStep ==
    ASSUME Inv, NEW d \in Devices, NEW id \in Ids, NEW defect \in Docs,
           Submit(d, <<Set(Live(id), defect)>>),
           \/ repository' = repository
           \/ repository' = [repository EXCEPT ![d][id] = defect],
           NEW s, ScreenOK(s), Alert(d, s, "basic")
    PROVE  StepOK(d)
<1>1. repository' \in [Devices -> [Ids -> MaybeDoc]]
  <2>1. repository \in [Devices -> [Ids -> MaybeDoc]] /\ defect \in MaybeDoc
    BY DEF Inv, AppOK, MaybeDoc
  <2> QED BY <2>1
<1>2. \A e \in Devices, i \in Ids : repository'[e][i] # repository[e][i]
          => e = d /\ i = id /\ repository'[e][i] = defect
  BY DEF Inv, AppOK
<1>3. calls'[d] # calls[d] /\ calls'[d][Len(calls'[d])] = Set(Live(id), defect)
  <2> DEFINE m == Set(Live(id), defect)
  <2>1. m \in Task
    BY PathAssumption DEF Task, Mutation, Set, Live
  <2>2. calls[d] \in Seq(Task) /\ calls'[d] = calls[d] \o <<m>>
    BY DEF Inv, SyncTypeOK, Submit, Task
  <2> HIDE DEF m
  <2>3. /\ Len(calls'[d]) = Len(calls[d]) + 1
        /\ calls'[d][Len(calls[d]) + 1] = m
    BY <2>1, <2>2
  <2>4. Len(calls[d]) \in Nat
    BY <2>2
  <2> QED BY <2>3, <2>4 DEF m
<1>4. EditStep
  BY <1>2, <1>3 DEF EditStep
<1>5. ApiNext
  BY DEF ApiNext, Put, PutCalls
<1> QED BY <1>1, <1>4, <1>5, AlertStep DEF StepOK, Inv, AppOK

\* createDefect.
LEMMA CreateStep ==
    ASSUME Inv, NEW d \in Devices, NEW id \in Ids, validInput(d), createDefect(d, id)
    PROVE  StepOK(d)
<1> DEFINE defect == [content |-> detail[d].content, resolution |-> NoResolution,
                      isResolved |-> FALSE]
           s == [ForDefect(detail[d], defect) EXCEPT
                    !.id = id, !.defect = defect, !.linked = TRUE, !.readOnly = TRUE]
<1>1. defect \in Docs
  BY SameScreen, TrackerAssumption DEF validInput, Defect, Detail, Drafts
<1>2. ScreenOK(s)
  <2> HIDE DEF defect
  <2> QED BY <1>1, SameScreen, ShowsDefect
<1>3. /\ Submit(d, <<Set(Live(id), defect)>>)
      /\ repository' = [repository EXCEPT ![d][id] = defect]
      /\ Alert(d, s, "basic")
  BY DEF createDefect, Post, PostCalls
<1> HIDE DEF defect, s
<1> QED BY <1>1, <1>2, <1>3, WriteStep

\* updateDefect, which Submit and Close share.
LEMMA UpdateStep ==
    ASSUME Inv, NEW d \in Devices, NEW isResolved \in BOOLEAN,
           validInput(d), defectExists(d), updateDefect(d, isResolved)
    PROVE  StepOK(d)
<1> DEFINE defect == [content |-> detail[d].content,
                      resolution |-> detail[d].resolution,
                      isResolved |-> isResolved]
           s == [detail[d] EXCEPT !.defect = defect, !.readOnly = TRUE]
<1>1. defect \in Docs
  BY SameScreen, TrackerAssumption DEF validInput, Defect, Detail, Drafts
<1>2. detail[d].id \in Ids
  BY SameScreen DEF defectExists, ScreenOK
<1>3. ScreenOK(s)
  <2>1. defect # NoDoc /\ defect \in Docs
    BY <1>1, SyncAssumption
  <2> QED BY <2>1, <1>2, SameScreen DEF ScreenOK, Detail
<1>4. /\ Submit(d, <<Set(Live(detail[d].id), defect)>>)
      /\ \/ repository' = repository
         \/ repository' = [repository EXCEPT ![d][detail[d].id] = defect]
      /\ Alert(d, s, "basic")
  BY DEF updateDefect, Put, PutCalls, InRepository
<1> HIDE DEF defect, s
<1> QED BY <1>1, <1>2, <1>3, <1>4, WriteStep

\* The alert of a handler that throws.
LEMMA ReportStep ==
    ASSUME Inv, NEW d \in Devices, Reports(d)
    PROVE  StepOK(d)
<1>1. PICK s : ScreenOK(s) /\ detail' = [detail EXCEPT ![d] = s]
  BY SameScreen, AlertStep DEF Reports
<1> QED BY <1>1, SameObjects DEF Reports, Alert

\* The Submit button.
LEMMA SubmitStep ==
    ASSUME Inv, NEW d \in Devices, onSubmit(d)
    PROVE  StepOK(d)
<1>1. CASE ~validInput(d) /\ Reports(d)
  BY <1>1, ReportStep
<1>2. CASE validInput(d) /\ defectExists(d) /\ updateDefect(d, detail[d].defect.isResolved)
  <2>1. detail[d].defect.isResolved \in BOOLEAN
    BY <1>2, SameScreen, TrackerAssumption DEF defectExists, Detail, Defect
  <2> QED BY <1>2, <2>1, UpdateStep
<1>3. CASE validInput(d) /\ \E id \in Ids : createDefect(d, id)
  BY <1>3, CreateStep
<1> QED BY <1>1, <1>2, <1>3 DEF onSubmit

\* A process that dies and is started again.
LEMMA RelaunchStep ==
    ASSUME Inv, NEW d \in Devices, Relaunch(d)
    PROVE  StepOK(d)
<1>1. /\ repository' \in [Devices -> [Ids -> MaybeDoc]]
      /\ top' \in [Devices -> {"home", "feed", "detail"}]
  BY DEF Relaunch, EmptyRepository, Inv, AppOK, MaybeDoc
<1>2. EditStep
  BY DEF EditStep, Relaunch, EmptyRepository, Inv, AppOK
<1>3. ApiNext
  BY DEF Relaunch, ApiNext
<1> QED BY <1>1, <1>2, <1>3, EmptyScreen DEF StepOK, Relaunch

\* The Close button.
LEMMA CloseStep ==
    ASSUME Inv, NEW d \in Devices, onClose(d)
    PROVE  StepOK(d)
BY ReportStep, UpdateStep, RelaunchStep DEF onClose

\* The Archive button.
LEMMA ArchiveStep ==
    ASSUME Inv, NEW d \in Devices, onArchive(d)
    PROVE  StepOK(d)
<1>1. [ApiNext]_syncVars
  <2>1. CASE defectExists(d)
    <3>1. detail[d].id \in Ids /\ detail[d].defect \in Docs
      BY <2>1, SameScreen DEF defectExists, ScreenOK, Detail
    <3> QED BY <2>1, <3>1 DEF onArchive, ApiNext
  <2> QED BY <2>1 DEF onArchive
<1>2. PICK s : ScreenOK(s) /\ detail' = [detail EXCEPT ![d] = s]
  BY SameScreen, AlertStep DEF onArchive
<1> QED BY <1>1, <1>2, SameObjects DEF onArchive, Alert

\* The alert goes away.
LEMMA DismissStep ==
    ASSUME Inv, NEW d \in Devices, DismissAlert(d)
    PROVE  StepOK(d)
<1>1. CASE detail[d].alert = "returning"
  BY <1>1, FeedAppearsStep DEF DismissAlert
<1>2. CASE detail[d].alert # "returning"
  <2>1. PICK s : ScreenOK(s) /\ detail' = [detail EXCEPT ![d] = s]
    BY <1>2, SameScreen, AlertStep DEF DismissAlert
  <2> QED BY <1>2, <2>1, SameObjects DEF DismissAlert, Alert
<1> QED BY <1>1, <1>2

----------------------------------------------------------------------------
\* THE STEPS

\* Every handler is a step in order.
LEMMA HandlerStep ==
    ASSUME Inv, NEW d \in Devices,
           \/ EnterFeed(d) \/ LeaveFeed(d) \/ LoadAllDefects(d)
           \/ \E id \in Ids : SelectRow(d, id)
           \/ NewDefect(d)
           \/ \E c \in Drafts : TypeContent(d, c)
           \/ \E r \in Resolutions \cup {NoResolution} : TypeResolution(d, r)
           \/ onEdit(d) \/ onCancel(d) \/ onSubmit(d) \/ onClose(d)
           \/ onArchive(d) \/ DismissAlert(d) \/ Back(d) \/ Relaunch(d)
    PROVE  StepOK(d)
<1>1. CASE EnterFeed(d) \/ Back(d)
  BY <1>1, FeedAppearsStep DEF EnterFeed, Back
<1>2. CASE LeaveFeed(d)
  BY <1>2, SameScreen, SameObjects DEF LeaveFeed
<1>3. CASE NewDefect(d)
  BY <1>3, EmptyScreen, OpenStep DEF NewDefect
<1> QED BY <1>1, <1>2, <1>3, LoadStep, SelectStep, TypingStep, CancelStep, SubmitStep,
           CloseStep, ArchiveStep, DismissStep, RelaunchStep

\* Every step of the tracker is one of ApiClient's or none, edits no shared object
\* without a write of it, and keeps the invariant.
LEMMA TrackerStep ==
    ASSUME Inv, [Next]_vars
    PROVE  Inv' /\ [ApiNext]_syncVars /\ EditStep
<1>1. CASE UNCHANGED vars
  <2>1. UNCHANGED syncVars /\ AppOK' /\ EditStep
    BY <1>1 DEF vars, Inv, AppOK, EditStep
  <2>2. SyncTypeOK'
    BY <2>1, TypeStep DEF Inv
  <2> QED BY <2>1, <2>2 DEF Inv
<1>2. ASSUME NEW d \in Devices, StepOK(d)
      PROVE  Inv' /\ [ApiNext]_syncVars /\ EditStep
  <2>1. PICK s : ScreenOK(s) /\ detail' = [detail EXCEPT ![d] = s]
    BY <1>2 DEF StepOK
  <2>2. AppOK'
    <3>1. detail' \in [Devices -> Detail]
      BY <2>1 DEF Inv, AppOK, ScreenOK
    <3>2. \A e \in Devices : detail'[e] = detail[e] \/ detail'[e] = s
      BY <2>1 DEF Inv, AppOK
    <3>3. \A e \in Devices : ScreenOK(detail'[e])
      BY <2>1, <3>2 DEF Inv, AppOK
    <3> QED BY <1>2, <3>1, <3>3 DEF StepOK, AppOK
  <2>3. SyncTypeOK'
    BY <1>2, TypeStep DEF StepOK, Inv
  <2> QED BY <1>2, <2>2, <2>3 DEF StepOK, Inv
<1>3. ASSUME NEW d \in Devices, SyncStep(d), UNCHANGED appVars
      PROVE  Inv' /\ [ApiNext]_syncVars /\ EditStep
  <2>1. ApiNext
    BY <1>3 DEF ApiNext
  <2>2. AppOK' /\ EditStep
    BY <1>3 DEF appVars, Inv, AppOK, EditStep
  <2> QED BY <2>1, <2>2, TypeStep DEF Inv
<1> QED BY <1>1, <1>2, <1>3, HandlerStep DEF Next

\* At the start every screen is empty.
LEMMA TrackerInit == Init => Inv
<1> SUFFICES ASSUME Init PROVE Inv
  OBVIOUS
<1>1. SyncTypeOK
  BY TypeInit DEF Init
<1>2. AppOK
  BY EmptyScreen DEF Init, AppOK, EmptyRepository, ScreenOK, MaybeDoc
<1> QED BY <1>1, <1>2 DEF Inv

\* The invariant holds in every reachable state: all state is typed, and every
\* detail screen, on top or not, is in order.
THEOREM TrackerInvariant == Spec => []Inv
BY TrackerInit, TrackerStep, PTL DEF Spec

----------------------------------------------------------------------------
\* THE THEOREMS

\* The variables of the devices have their types.
THEOREM TrackerTypeCorrect == Spec => []TypeOK
<1>1. Inv => TypeOK
  BY DEF Inv, AppOK, TypeOK
<1> QED BY <1>1, TrackerInvariant, PTL

\* configureForDefect has run whenever the screen is in read mode: no draft stays in
\* the labels.
THEOREM ReadModeIsHonest == Spec => []ReadModeShowsDefect
<1>1. Inv => ReadModeShowsDefect
  BY DEF Inv, AppOK, ScreenOK, ReadModeShowsDefect
<1> QED BY <1>1, TrackerInvariant, PTL

\* createDefect, updateDefect and closeDefect change the object they share with the
\* feed only together with the post or the put of it.
THEOREM EditsReachTheQueue == Spec => EditsAreSubmitted
<1>1. Inv /\ [Next]_vars => [EditStep]_vars
  BY TrackerStep
<1>2. Spec => [][EditStep]_vars
  BY <1>1, TrackerInvariant, PTL DEF Spec
<1> QED BY <1>2 DEF EditsAreSubmitted, EditStep

\* The screens are one of the clients that DefectApi speaks of.
THEOREM TrackerImplementsApi == Spec => ImplementsApi
<1>1. Init => ApiInit
  BY DEF Init
<1>2. Inv /\ [Next]_vars => [ApiNext]_syncVars
  BY TrackerStep
<1> QED BY <1>1, <1>2, TrackerInvariant, PTL DEF Spec, ImplementsApi, ApiSpec

\* Whatever the users do on their screens, archive(_:) loses no defect.
THEOREM TrackerLosesNoDefect == Spec => LeavesOnlyArchived
BY TrackerImplementsApi, NoDefectIsLost DEF ImplementsApi

----------------------------------------------------------------------------
\* THE FEED OF A DEVICE ALONE

\* KeepsUp of one device and the defect id: its list r, the screen t on top and the
\* detail screen s, and of the store it sees (AtomicStore) the documents st, the calls w
\* that wait, the number n of queries that read and the answers a.
InTouchWith(t, s) ==
    \/ t = "feed"
    \/ t = "detail" /\ s.alert # "returning" /\ (s.linked \/ s.defect = NoDoc)

NoQuery(w)      == \A i \in 1..Len(w) : w[i] # Query
NoLoad(w, n, a) == NoQuery(w) /\ n = 0 /\ a = <<>>

LastIsCurrent(id, st, w, n, a) ==
    IF NoQuery(w)
    THEN w = <<>> /\ (n = 0 => a[Len(a)][Live(id)] = st[Live(id)])
    ELSE w[Len(w)] = Query

CatchesUp(id, r, t, s, st, w, n, a) == InTouchWith(t, s) =>
    /\ NoLoad(w, n, a) => r[id] = Overlay(st, w)[Live(id)]
    /\ ~NoLoad(w, n, a) /\ (t = "feed" \/ ~s.linked) => LastIsCurrent(id, st, w, n, a)

\* No load is outstanding when the bound on them counts none.
LEMMA LoadsCounted ==
    ASSUME NEW w \in Seq(Mutation \cup {Query}), NEW n \in Nat, NEW a \in Seq(Snapshot)
    PROVE  Cardinality({i \in DOMAIN w : IsQuery(w[i])}) + n + Len(a) = 0
                <=> NoLoad(w, n, a)
<1> DEFINE queries == {i \in DOMAIN w : IsQuery(w[i])}
<1>1. IsFiniteSet(queries)
  <2>1. IsFiniteSet(1..Len(w)) /\ queries \in SUBSET (1..Len(w))
    BY FS_Interval
  <2> HIDE DEF queries
  <2> QED BY <2>1, FS_Subset
<1>2. queries = {} <=> NoQuery(w)
  BY DEF NoQuery, IsQuery
<1> HIDE DEF queries
<1>3. Cardinality(queries) \in Nat /\ (Cardinality(queries) = 0 <=> queries = {})
  BY <1>1, FS_CardinalityType, FS_EmptySet
<1>4. Len(a) \in Nat /\ (Len(a) = 0 <=> a = <<>>)
  <2>1. a # <<>> => Len(a) \in Nat \ {0}
    BY EmptySeq
  <2>2. a = <<>> => Len(a) = 0
    OBVIOUS
  <2> QED BY <2>1, <2>2
<1> DEFINE c == Cardinality(queries)
           l == Len(a)
<1>5. c + n + l = 0 <=> c = 0 /\ n = 0 /\ l = 0
  <2> HIDE DEF c, l
  <2>1. c \in Nat /\ l \in Nat
    BY <1>3, <1>4 DEF c, l
  <2> QED BY <2>1
<1> QED BY <1>2, <1>3, <1>4, <1>5 DEF NoLoad, queries

\* KeepsUp of a device of the model.
Mine(d, id) == CatchesUp(id, repository[d], top[d], detail[d],
                         Local(d), calls[d], listens[d], snapshots[d])

LEMMA KeepsUpIsMine ==
    ASSUME SyncTypeOK, NEW d \in Devices, NEW id \in Ids
    PROVE  KeepsUp(d, id) <=> Mine(d, id)
<1>1. /\ calls[d] \in Seq(Mutation \cup {Query}) /\ listens[d] \in Nat
      /\ snapshots[d] \in Seq(Snapshot)
  BY DEF SyncTypeOK
<1>2. Loads(d) = 0 <=> NoLoad(calls[d], listens[d], snapshots[d])
  BY <1>1, LoadsCounted DEF Loads
<1>3. DOMAIN calls[d] = 1..Len(calls[d])
  BY <1>1
<1>4. LastLoadIsCurrent(d, id)
            <=> LastIsCurrent(id, Local(d), calls[d], listens[d], snapshots[d])
  BY <1>3 DEF LastLoadIsCurrent, LastIsCurrent, NoQuery, IsQuery
<1>5. InTouch(d) <=> InTouchWith(top[d], detail[d])
  BY DEF InTouch, InTouchWith, defectExists
<1>6. Coming(d) = Overlay(Local(d), calls[d])
  BY DEF Coming
<1> QED BY <1>2, <1>4, <1>5, <1>6 DEF KeepsUp, Mine, CatchesUp

\* The same after a step.
LEMMA KeepsUpIsMineNext ==
    ASSUME SyncTypeOK', NEW d \in Devices, NEW id \in Ids
    PROVE  KeepsUp(d, id)' <=> Mine(d, id)'
<1>1. /\ calls'[d] \in Seq(Mutation \cup {Query}) /\ listens'[d] \in Nat
      /\ snapshots'[d] \in Seq(Snapshot)
  BY DEF SyncTypeOK
<1>2. Loads(d)' = 0 <=> NoLoad(calls'[d], listens'[d], snapshots'[d])
  BY <1>1, LoadsCounted DEF Loads
<1>3. DOMAIN calls'[d] = 1..Len(calls'[d])
  BY <1>1
<1>4. LastLoadIsCurrent(d, id)'
            <=> LastIsCurrent(id, Local(d)', calls'[d], listens'[d], snapshots'[d])
  BY <1>3 DEF LastLoadIsCurrent, LastIsCurrent, NoQuery, IsQuery
<1>5. InTouch(d)' <=> InTouchWith(top'[d], detail'[d])
  BY DEF InTouch, InTouchWith, defectExists
<1>6. Coming(d)' = Overlay(Local(d)', calls'[d])
  BY DEF Coming
<1> QED BY <1>2, <1>4, <1>5, <1>6 DEF KeepsUp, Mine, CatchesUp

----------------------------------------------------------------------------
\* The store takes a write that waited.
LEMMA CatchesTakeEffect ==
    ASSUME NEW id \in Ids, NEW r, NEW t, NEW s, NEW st \in [Keys -> MaybeDoc],
           NEW w \in Seq(Mutation \cup {Query}), NEW n, NEW a,
           w # <<>>, Head(w) # Query, CatchesUp(id, r, t, s, st, w, n, a)
    PROVE  CatchesUp(id, r, t, s, Write(st, Head(w)), Tail(w), n, a)
<1> DEFINE m == Head(w)
           rest == Tail(w)
<1>1. /\ Len(w) \in Nat \ {0} /\ Len(rest) = Len(w) - 1 /\ w[1] = m /\ m \in Mutation
      /\ \A i \in 1..Len(rest) : rest[i] = w[i + 1]
      /\ rest \in Seq(Mutation \cup {Query})
  OBVIOUS
<1>2. NoQuery(rest) <=> NoQuery(w)
  <2>1. \A i \in 1..Len(w) : i = 1 \/ (i - 1 \in 1..Len(rest) /\ rest[i - 1] = w[i])
    BY <1>1
  <2>2. \A i \in 1..Len(rest) : i + 1 \in 1..Len(w)
    BY <1>1
  <2> HIDE DEF rest, m
  <2> QED BY <1>1, <2>1, <2>2 DEF NoQuery, m
<1>3. ASSUME NoQuery(w), NEW k \in Keys PROVE Overlay(Write(st, m), rest)[k] = Overlay(st, w)[k]
  <2> DEFINE after == Write(st, m)
  <2>1. /\ w \in Seq(Mutation) /\ rest \in Seq(Mutation)
    <3>1. \A i \in 1..Len(w) : w[i] \in Mutation
      BY <1>3 DEF NoQuery
    <3>2. w \in Seq(Mutation)
      BY <3>1
    <3> QED BY <3>2
  <2>2. /\ after \in [Keys -> MaybeDoc] /\ after[m.key] = m.doc
        /\ \A l \in Keys : l # m.key => after[l] = st[l]
    BY <1>1 DEF Write, Mutation, MaybeDoc
  <2> HIDE DEF after, m, rest
  <2>3. after[k] = st[k] \/ \E i \in 1..Len(w) : w[i].key = k
    BY <1>1, <2>2
  <2>4. Overlay(after, w)[k] = Overlay(st, w)[k]
    BY <2>1, <2>2, <2>3, OverlayHides
  <2>5. Overlay(after, Tail(w))[k] = Overlay(after, w)[k]
    <3>1. w[1].key = k => after[k] = w[1].doc
      BY <1>1, <2>2
    <3> QED BY <2>1, <2>2, <3>1, OverlayTail
  <2> QED BY <2>4, <2>5 DEF rest, after
<1>4. ~NoQuery(w) /\ w[Len(w)] = Query => rest[Len(rest)] = Query
  <2>1. w[Len(w)] = Query => Len(w) # 1
    BY <1>1
  <2> HIDE DEF rest, m
  <2> QED BY <1>1, <2>1
<1>5. Live(id) \in Keys
  BY PathAssumption DEF Live
<1> HIDE DEF rest, m
<1>6. NoLoad(rest, n, a) <=> NoLoad(w, n, a)
  BY <1>2 DEF NoLoad
<1>7. LastIsCurrent(id, st, w, n, a) => LastIsCurrent(id, Write(st, m), rest, n, a)
  BY <1>1, <1>2, <1>4 DEF LastIsCurrent
<1>8. NoLoad(w, n, a) => Overlay(Write(st, m), rest)[Live(id)] = Overlay(st, w)[Live(id)]
  BY <1>3, <1>5 DEF NoLoad
<1> QED BY <1>6, <1>7, <1>8 DEF CatchesUp, m, rest

\* A query begins to read.
LEMMA CatchesStart ==
    ASSUME NEW id \in Ids, NEW r, NEW t, NEW s, NEW st,
           NEW w \in Seq(Mutation \cup {Query}), NEW n \in Nat, NEW a,
           w # <<>>, Head(w) = Query, CatchesUp(id, r, t, s, st, w, n, a)
    PROVE  CatchesUp(id, r, t, s, st, Tail(w), n + 1, a)
<1> DEFINE rest == Tail(w)
<1>1. /\ Len(w) \in Nat \ {0} /\ Len(rest) = Len(w) - 1 /\ w[1] = Query
      /\ \A i \in 1..Len(rest) : rest[i] = w[i + 1]
      /\ rest \in Seq(Mutation \cup {Query})
  OBVIOUS
<1> HIDE DEF rest
<1>7. Len(rest) = 0 => rest = <<>>
  BY <1>1, EmptySeq
<1>2. ~NoQuery(w) /\ n + 1 # 0
  BY <1>1 DEF NoQuery
<1>3. w[Len(w)] = Query => rest = <<>> \/ (~NoQuery(rest) /\ rest[Len(rest)] = Query)
  BY <1>1, <1>7 DEF NoQuery
<1>4. ~NoLoad(rest, n + 1, a) /\ ~NoLoad(w, n, a)
  BY <1>2 DEF NoLoad
<1>5. NoQuery(<<>>)
  BY DEF NoQuery
<1>6. LastIsCurrent(id, st, w, n, a) => LastIsCurrent(id, st, rest, n + 1, a)
  BY <1>2, <1>3, <1>5 DEF LastIsCurrent
<1> QED BY <1>4, <1>6 DEF CatchesUp, rest

\* A query is answered, as far as the defect goes with what the store has.
LEMMA CatchesAnswer ==
    ASSUME NEW id \in Ids, NEW r, NEW t, NEW s, NEW st, NEW w, NEW n \in Nat,
           NEW a \in Seq(Snapshot), NEW new \in Snapshot, new[Live(id)] = st[Live(id)],
           n > 0, CatchesUp(id, r, t, s, st, w, n, a)
    PROVE  CatchesUp(id, r, t, s, st, w, n - 1, Append(a, new))
<1> DEFINE more == Append(a, new)
<1>1. more[Len(more)] = new /\ more # <<>>
  OBVIOUS
<1> HIDE DEF more
<1>2. ~NoLoad(w, n, a) /\ ~NoLoad(w, n - 1, more)
  BY <1>1 DEF NoLoad
<1>3. LastIsCurrent(id, st, w, n, a) => LastIsCurrent(id, st, w, n - 1, more)
  BY <1>1 DEF LastIsCurrent
<1> QED BY <1>2, <1>3 DEF CatchesUp, more

\* The store changes, but not the defect.
LEMMA CatchesElsewhere ==
    ASSUME NEW id \in Ids, NEW r, NEW t, NEW s, NEW st \in [Keys -> MaybeDoc],
           NEW other \in [Keys -> MaybeDoc], other[Live(id)] = st[Live(id)],
           NEW w \in Seq(Mutation \cup {Query}), NEW n, NEW a,
           CatchesUp(id, r, t, s, st, w, n, a)
    PROVE  CatchesUp(id, r, t, s, other, w, n, a)
<1>1. ASSUME NoQuery(w) PROVE Overlay(other, w)[Live(id)] = Overlay(st, w)[Live(id)]
  <2>1. \A i \in 1..Len(w) : w[i] \in Mutation
    BY <1>1 DEF NoQuery
  <2>2. w \in Seq(Mutation) /\ Live(id) \in Keys
    BY <2>1, PathAssumption DEF Live
  <2> QED BY <2>2, OverlayHides
<1>2. LastIsCurrent(id, st, w, n, a) => LastIsCurrent(id, other, w, n, a)
  BY DEF LastIsCurrent
<1> QED BY <1>1, <1>2 DEF CatchesUp, NoLoad

\* An answer replaces the list, and the detail screen is left with its own object.
LEMMA CatchesLoad ==
    ASSUME NEW id \in Ids, NEW r, NEW t, NEW s \in Detail, s.linked => s.defect # NoDoc,
           NEW st \in [Keys -> MaybeDoc], NEW w, NEW n, NEW a \in Seq(Snapshot),
           a # <<>>, CatchesUp(id, r, t, s, st, w, n, a)
    PROVE  CatchesUp(id, [i \in Ids |-> Head(a)[Live(i)]], t, [s EXCEPT !.linked = FALSE],
                     st, w, n, Tail(a))
<1> DEFINE left == Tail(a)
           q == [s EXCEPT !.linked = FALSE]
           loaded == [i \in Ids |-> Head(a)[Live(i)]]
<1>1. /\ left = <<>> => a[Len(a)] = Head(a)
      /\ left # <<>> => left[Len(left)] = a[Len(a)]
  <2>1. /\ Len(a) \in Nat \ {0} /\ Len(left) = Len(a) - 1 /\ Head(a) = a[1]
        /\ left \in Seq(Snapshot) /\ \A i \in 1..Len(left) : left[i] = a[i + 1]
    BY HeadTailProperties, EmptySeq, LenProperties
  <2>2. Len(left) = 0 <=> left = <<>>
    BY <2>1, EmptySeq
  <2> HIDE DEF left
  <2> QED BY <2>1, <2>2
<1>2. q.linked = FALSE /\ q.alert = s.alert /\ q.defect = s.defect
  BY DEF Detail
<1>3. loaded[id] = Head(a)[Live(id)]
  OBVIOUS
<1> HIDE DEF left, q, loaded
<1>4. InTouchWith(t, q) => InTouchWith(t, s) /\ (t = "feed" \/ ~s.linked)
  BY <1>2 DEF InTouchWith
<1>5. ~NoLoad(w, n, a)
  BY DEF NoLoad
<1>6. ASSUME LastIsCurrent(id, st, w, n, a), NoLoad(w, n, left)
      PROVE  loaded[id] = Overlay(st, w)[Live(id)]
  <2>1. NoQuery(w) /\ n = 0 /\ left = <<>>
    BY <1>6 DEF NoLoad
  <2>2. w = <<>> /\ a[Len(a)][Live(id)] = st[Live(id)]
    BY <1>6, <2>1 DEF LastIsCurrent
  <2> QED BY <1>1, <1>3, <2>1, <2>2, OverlayNothing
<1>7. ASSUME LastIsCurrent(id, st, w, n, a), ~NoLoad(w, n, left)
      PROVE  LastIsCurrent(id, st, w, n, left)
  <2>1. NoQuery(w) /\ n = 0 => left # <<>>
    BY <1>7 DEF NoLoad
  <2> QED BY <1>1, <1>7, <2>1 DEF LastIsCurrent
<1> QED BY <1>4, <1>5, <1>6, <1>7 DEF CatchesUp, left, q, loaded

\* A load is asked for when the feed appears.
LEMMA CatchesAsk ==
    ASSUME NEW id \in Ids, NEW r, NEW s, NEW st, NEW w \in Seq(Mutation \cup {Query}),
           NEW n, NEW a
    PROVE  CatchesUp(id, r, "feed", s, st, Append(w, Query), n, a)
<1> DEFINE more == Append(w, Query)
<1>1. more[Len(more)] = Query /\ Len(more) \in 1..Len(more)
  OBVIOUS
<1> HIDE DEF more
<1>2. ~NoQuery(more)
  BY <1>1 DEF NoQuery
<1> QED BY <1>1, <1>2 DEF CatchesUp, NoLoad, LastIsCurrent, more

\* A screen writes its defect, and the list gets the same object.
LEMMA CatchesWrite ==
    ASSUME NEW k \in Ids, NEW r \in [Ids -> MaybeDoc], NEW t, NEW s, InTouchWith(t, s),
           NEW st \in [Keys -> MaybeDoc], NEW w \in Seq(Mutation \cup {Query}), NEW n, NEW a,
           NEW u \in {"home", "detail"}, NEW q, q.linked,
           NEW id \in Ids, NEW doc \in Docs, CatchesUp(k, r, t, s, st, w, n, a)
    PROVE  CatchesUp(k, [r EXCEPT ![id] = doc], u, q, st,
                     w \o <<Set(Live(id), doc)>>, n, a)
<1> DEFINE m == Set(Live(id), doc)
           more == w \o <<m>>
           z == [r EXCEPT ![id] = doc]
<1>1. m \in Mutation /\ m # Query /\ m.key = Live(id) /\ m.doc = doc
  BY PathAssumption, SyncAssumption DEF Set, Live, Mutation
<1> HIDE DEF m
<1>2. /\ Len(w) \in Nat /\ Len(more) = Len(w) + 1
      /\ \A i \in 1..Len(w) : more[i] = w[i]
      /\ more = Append(w, m)
  BY <1>1
<1>3. z[k] = IF k = id THEN doc ELSE r[k]
  OBVIOUS
<1> HIDE DEF more, z
<1>4. NoQuery(more) => NoQuery(w)
  BY <1>2 DEF NoQuery
<1>5. ASSUME NoLoad(more, n, a)
      PROVE  z[k] = Overlay(st, more)[Live(k)]
  <2>1. NoLoad(w, n, a) /\ NoQuery(w)
    BY <1>4, <1>5 DEF NoLoad
  <2>2. r[k] = Overlay(st, w)[Live(k)]
    BY <2>1 DEF CatchesUp
  <2>3. w \in Seq(Mutation)
    <3>1. \A i \in 1..Len(w) : w[i] \in Mutation
      BY <2>1 DEF NoQuery
    <3> QED BY <3>1
  <2>4. Overlay(st, more) = Write(Overlay(st, w), m)
    BY <1>1, <1>2, <2>3, OverlayAppend
  <2>5. Overlay(st, w) \in [Keys -> MaybeDoc] /\ Live(k) \in Keys
        /\ (Live(k) = Live(id) => k = id)
    BY <2>3, OverlayType, PathAssumption DEF Live
  <2> QED BY <1>1, <1>3, <2>2, <2>4, <2>5 DEF Write
<1>6. InTouchWith(u, q) => ~(u = "feed" \/ ~q.linked)
  OBVIOUS
<1> QED BY <1>5, <1>6 DEF CatchesUp, more, m, z

\* The store and the list stay as they are, on a screen that is in touch as before.
LEMMA CatchesSame ==
    ASSUME NEW id \in Ids, NEW r, NEW t, NEW s, NEW st, NEW w, NEW n, NEW a,
           NEW u, NEW q, CatchesUp(id, r, t, s, st, w, n, a),
           InTouchWith(u, q) => /\ InTouchWith(t, s)
                                /\ u = "feed" \/ ~q.linked => t = "feed" \/ ~s.linked
    PROVE  CatchesUp(id, r, u, q, st, w, n, a)
BY DEF CatchesUp

----------------------------------------------------------------------------
\* Another screen over the same list and the same store.
LEMMA ScreenCatches ==
    ASSUME NEW d \in Devices, NEW k \in Ids, Mine(d, k), UNCHANGED <<repository, syncVars>>,
           InTouchWith(top'[d], detail'[d]) =>
                /\ InTouchWith(top[d], detail[d])
                /\ top'[d] = "feed" \/ ~detail'[d].linked
                        => top[d] = "feed" \/ ~detail[d].linked
    PROVE  Mine(d, k)'
<1>1. /\ UNCHANGED <<repository, server, queue, calls, listens, snapshots>>
      /\ Local(d)' = Local(d)
  BY DEF syncVars, Local
<1> QED BY <1>1, CatchesSame DEF Mine

\* A screen that is out of touch.
LEMMA OutOfTouch ==
    ASSUME NEW d \in Devices, NEW k \in Ids, ~InTouchWith(top'[d], detail'[d])
    PROVE  Mine(d, k)'
BY DEF Mine, CatchesUp

\* The feed appears, and asks.
LEMMA FeedAppearsCatches ==
    ASSUME Inv, NEW d \in Devices, NEW k \in Ids, FeedAppears(d)
    PROVE  Mine(d, k)'
<1>1. /\ top'[d] = "feed" /\ calls'[d] = Append(calls[d], Query)
      /\ calls[d] \in Seq(Mutation \cup {Query})
  BY DEF FeedAppears, GetAllDefects, Ask, Inv, AppOK, SyncTypeOK
<1> QED BY <1>1, CatchesAsk DEF Mine

\* The completion of loadAllDefects.
LEMMA LoadCatches ==
    ASSUME Inv, NEW d \in Devices, NEW k \in Ids, Mine(d, k), LoadAllDefects(d)
    PROVE  Mine(d, k)'
<1> DEFINE a == snapshots[d]
           s == detail[d]
<1>1. /\ a # <<>> /\ a \in Seq(Snapshot) /\ snapshots'[d] = Tail(a)
      /\ UNCHANGED <<server, queue, calls, listens, top>>
  BY DEF LoadAllDefects, Deliver, writeVars, Inv, SyncTypeOK
<1>2. /\ s \in Detail /\ (s.linked => s.defect # NoDoc)
      /\ detail'[d] = [s EXCEPT !.linked = FALSE]
      /\ repository'[d] = [id \in Ids |-> Head(a)[Live(id)]]
  BY SameScreen DEF LoadAllDefects, Inv, AppOK, ScreenOK
<1>3. Local(d) \in [Keys -> MaybeDoc] /\ Local(d)' = Local(d)
  BY <1>1, OverlayType DEF Local, Inv, SyncTypeOK
<1> HIDE DEF a, s
<1>4. CatchesUp(k, repository[d], top[d], s, Local(d), calls[d], listens[d], a)
  BY DEF Mine, a, s
<1>5. CatchesUp(k, [i \in Ids |-> Head(a)[Live(i)]], top[d], [s EXCEPT !.linked = FALSE],
                Local(d), calls[d], listens[d], Tail(a))
  <2> DEFINE loc == Local(d)
  <2>1. loc \in [Keys -> MaybeDoc]
    BY <1>3
  <2>2. CatchesUp(k, repository[d], top[d], s, loc, calls[d], listens[d], a)
    BY <1>4
  <2> HIDE DEF loc
  <2>3. CatchesUp(k, [i \in Ids |-> Head(a)[Live(i)]], top[d], [s EXCEPT !.linked = FALSE],
                  loc, calls[d], listens[d], Tail(a))
    BY <1>1, <1>2, <2>1, <2>2, CatchesLoad
  <2> QED BY <2>3 DEF loc
<1> QED BY <1>1, <1>2, <1>3, <1>5 DEF Mine

\* A defect that the list shares is written, by a screen that stays.
LEMMA WriteCatches ==
    ASSUME Inv, NEW d \in Devices, NEW k \in Ids, Mine(d, k),
           InTouchWith(top[d], detail[d]), top[d] = "detail",
           NEW id \in Ids, NEW doc \in Docs, Submit(d, <<Set(Live(id), doc)>>),
           repository' = [repository EXCEPT ![d][id] = doc],
           UNCHANGED top, detail'[d].linked
    PROVE  Mine(d, k)'
<1>1. /\ calls[d] \in Seq(Mutation \cup {Query}) /\ calls'[d] = calls[d] \o <<Set(Live(id), doc)>>
      /\ UNCHANGED <<server, queue, listens, snapshots>>
      /\ repository[d] \in [Ids -> MaybeDoc]
      /\ repository'[d] = [repository[d] EXCEPT ![id] = doc]
  BY DEF Submit, queryVars, Inv, AppOK, SyncTypeOK
<1>2. Local(d) \in [Keys -> MaybeDoc] /\ Local(d)' = Local(d)
  BY <1>1, OverlayType DEF Local, Inv, SyncTypeOK
<1>3. CatchesUp(k, repository[d], top[d], detail[d],
                Local(d), calls[d], listens[d], snapshots[d])
  BY DEF Mine
<1>4. CatchesUp(k, [repository[d] EXCEPT ![id] = doc], "detail", detail'[d], Local(d),
                calls[d] \o <<Set(Live(id), doc)>>, listens[d], snapshots[d])
  BY <1>1, <1>2, <1>3, CatchesWrite
<1> QED BY <1>1, <1>2, <1>4 DEF Mine

\* updateDefect: of the object the list shares, or of one it does not.
LEMMA UpdateCatches ==
    ASSUME Inv, NEW d \in Devices, NEW k \in Ids, Mine(d, k),
           NEW isResolved \in BOOLEAN, Tappable(d), validInput(d), defectExists(d),
           updateDefect(d, isResolved)
    PROVE  Mine(d, k)'
<1> DEFINE s == detail[d]
           defect == [content |-> s.content, resolution |-> s.resolution,
                      isResolved |-> isResolved]
<1>1. defect \in Docs
  BY SameScreen, TrackerAssumption DEF validInput, Defect, Detail, Drafts
<1>2. s.id \in Ids /\ s \in Detail
  BY SameScreen DEF defectExists, ScreenOK
<1>3. /\ Submit(d, <<Set(Live(s.id), defect)>>) /\ InRepository(d, defect)
      /\ UNCHANGED top
      /\ detail' = [detail EXCEPT ![d] = [[s EXCEPT !.defect = defect, !.readOnly = TRUE]
                                                EXCEPT !.alert = "basic"]]
  BY DEF updateDefect, Put, PutCalls, Alert
<1>4. detail'[d].linked = s.linked /\ detail'[d].defect = defect
  BY <1>2, <1>3 DEF Inv, AppOK, Detail
<1> HIDE DEF defect
<1>5. CASE s.linked
  <2>1. repository' = [repository EXCEPT ![d][s.id] = defect]
    BY <1>3, <1>5 DEF InRepository
  <2>2. InTouchWith(top[d], s) /\ top[d] = "detail"
    BY <1>5 DEF Tappable, InTouchWith
  <2> QED BY <1>1, <1>2, <1>3, <1>4, <1>5, <2>1, <2>2, WriteCatches
<1>6. CASE ~s.linked
  <2>1. ~InTouchWith(top'[d], detail'[d])
    BY <1>1, <1>3, <1>4, <1>6, SyncAssumption DEF Tappable, InTouchWith
  <2> QED BY <2>1, OutOfTouch
<1> QED BY <1>5, <1>6

\* createDefect.
LEMMA CreateCatches ==
    ASSUME Inv, NEW d \in Devices, NEW k \in Ids, Mine(d, k), Tappable(d), ~defectExists(d),
           NEW id \in Ids, validInput(d), createDefect(d, id)
    PROVE  Mine(d, k)'
<1> DEFINE defect == [content |-> detail[d].content, resolution |-> NoResolution,
                      isResolved |-> FALSE]
           s == [ForDefect(detail[d], defect) EXCEPT
                    !.id = id, !.defect = defect, !.linked = TRUE, !.readOnly = TRUE]
<1>1. defect \in Docs
  BY SameScreen, TrackerAssumption DEF validInput, Defect, Detail, Drafts
<1>2. /\ Submit(d, <<Set(Live(id), defect)>>)
      /\ repository' = [repository EXCEPT ![d][id] = defect]
      /\ UNCHANGED top /\ detail' = [detail EXCEPT ![d] = [s EXCEPT !.alert = "basic"]]
  BY DEF createDefect, Post, PostCalls, Alert
<1>3. detail'[d].linked
  BY <1>2, SameScreen DEF Inv, AppOK, ForDefect, Detail
<1> HIDE DEF defect, s
<1>4. InTouchWith(top[d], detail[d]) /\ top[d] = "detail"
  BY DEF Tappable, defectExists, InTouchWith
<1> QED BY <1>1, <1>2, <1>3, <1>4, WriteCatches

\* The alert of a handler that throws.
LEMMA ReportCatches ==
    ASSUME Inv, NEW d \in Devices, NEW k \in Ids, Mine(d, k), Tappable(d), Reports(d)
    PROVE  Mine(d, k)'
<1>1. /\ UNCHANGED <<repository, syncVars, top>>
      /\ detail'[d] = [detail[d] EXCEPT !.alert = "basic"]
  BY DEF Reports, Alert, Inv, AppOK
<1>2. detail'[d].linked = detail[d].linked /\ detail'[d].defect = detail[d].defect
  BY <1>1, SameScreen DEF Detail
<1> QED BY <1>1, <1>2, ScreenCatches DEF Tappable, InTouchWith

\* Every handler of the device keeps it.
LEMMA HandlerCatches ==
    ASSUME Inv, NEW d \in Devices, NEW k \in Ids, Mine(d, k),
           \/ EnterFeed(d) \/ LeaveFeed(d) \/ LoadAllDefects(d)
           \/ \E id \in Ids : SelectRow(d, id)
           \/ NewDefect(d)
           \/ \E c \in Drafts : TypeContent(d, c)
           \/ \E r \in Resolutions \cup {NoResolution} : TypeResolution(d, r)
           \/ onEdit(d) \/ onCancel(d) \/ onSubmit(d) \/ onClose(d)
           \/ onArchive(d) \/ DismissAlert(d) \/ Back(d) \/ Relaunch(d)
    PROVE  Mine(d, k)'
<1> DEFINE s == detail[d]
<1>1. s \in Detail /\ (s.linked => s.defect # NoDoc)
  BY SameScreen DEF ScreenOK
<1>2. CASE EnterFeed(d) \/ Back(d)
  BY <1>2, FeedAppearsCatches DEF EnterFeed, Back
<1>3. CASE LeaveFeed(d) \/ Relaunch(d)
  BY <1>3, OutOfTouch DEF LeaveFeed, Relaunch, InTouchWith, Inv, AppOK
<1>4. CASE LoadAllDefects(d)
  BY <1>4, LoadCatches
<1>5. CASE NewDefect(d) \/ \E id \in Ids : SelectRow(d, id)
  <2>1. /\ top[d] = "feed" /\ top'[d] = "detail"
        /\ UNCHANGED <<repository, syncVars>>
    BY <1>5 DEF NewDefect, SelectRow, OpenDetail, Inv, AppOK
  <2>2. InTouchWith(top[d], s)
    BY <2>1 DEF InTouchWith
  <2> QED BY <2>1, <2>2, ScreenCatches
<1>6. CASE \/ \E c \in Drafts : TypeContent(d, c)
           \/ \E r \in Resolutions \cup {NoResolution} : TypeResolution(d, r)
           \/ onEdit(d)
           \/ onCancel(d) /\ defectExists(d)
  <2>1. /\ UNCHANGED <<repository, syncVars, top>>
        /\ detail'[d].linked = s.linked /\ detail'[d].defect = s.defect
        /\ detail'[d].alert = s.alert
    <3>1. CASE \E c \in Drafts : TypeContent(d, c)
      BY <1>1, <3>1 DEF TypeContent, Inv, AppOK, Detail
    <3>2. CASE \E r \in Resolutions \cup {NoResolution} : TypeResolution(d, r)
      BY <1>1, <3>2 DEF TypeResolution, Inv, AppOK, Detail
    <3>3. CASE onEdit(d)
      BY <1>1, <3>3 DEF onEdit, Inv, AppOK, Detail
    <3>4. CASE onCancel(d) /\ defectExists(d)
      <4>1. /\ UNCHANGED <<repository, syncVars, top>>
            /\ detail'[d] = [ForDefect(s, s.defect) EXCEPT !.readOnly = TRUE]
        BY <3>4 DEF onCancel, Inv, AppOK
      <4> QED BY <1>1, <4>1 DEF ForDefect, Detail
    <3> QED BY <1>6, <3>1, <3>2, <3>3, <3>4
  <2> QED BY <2>1, ScreenCatches DEF InTouchWith
<1>7. CASE onCancel(d) /\ ~defectExists(d)
  BY <1>7, FeedAppearsCatches DEF onCancel
<1>8. CASE onSubmit(d)
  <2>1. CASE ~validInput(d) /\ Reports(d)
    BY <1>8, <2>1, ReportCatches DEF onSubmit
  <2>2. CASE validInput(d) /\ defectExists(d) /\ updateDefect(d, detail[d].defect.isResolved)
    <3>1. detail[d].defect.isResolved \in BOOLEAN
      BY <2>2, SameScreen, TrackerAssumption DEF defectExists, Detail, Defect
    <3> QED BY <1>8, <2>2, <3>1, UpdateCatches DEF onSubmit
  <2>3. CASE validInput(d) /\ ~defectExists(d) /\ \E id \in Ids : createDefect(d, id)
    BY <1>8, <2>3, CreateCatches DEF onSubmit
  <2> QED BY <1>8, <2>1, <2>2, <2>3 DEF onSubmit
<1>9. CASE onClose(d)
  BY <1>3, <1>9, ReportCatches, UpdateCatches DEF onClose
<1>10. CASE onArchive(d)
  <2>1. detail'[d].alert = "returning" /\ top'[d] = "detail"
    BY <1>1, <1>10 DEF onArchive, Alert, Tappable, Inv, AppOK, Detail
  <2> QED BY <2>1, OutOfTouch DEF InTouchWith
<1>11. CASE DismissAlert(d)
  <2>1. CASE detail[d].alert = "returning"
    BY <1>11, <2>1, FeedAppearsCatches DEF DismissAlert
  <2>2. CASE detail[d].alert # "returning"
    <3>1. /\ UNCHANGED <<repository, syncVars, top>>
          /\ detail'[d] = [s EXCEPT !.alert = "none"]
      BY <1>11, <2>2 DEF DismissAlert, Alert, Inv, AppOK
    <3>2. detail'[d].linked = s.linked /\ detail'[d].defect = s.defect
      BY <1>1, <3>1 DEF Detail
    <3> QED BY <2>2, <3>1, <3>2, ScreenCatches DEF InTouchWith
  <2> QED BY <2>1, <2>2
<1> QED BY <1>2, <1>3, <1>4, <1>5, <1>6, <1>7, <1>8, <1>9, <1>10, <1>11, Zenon

\* Of the SDK the feed notices what an atomic store does, and three things besides.
LEMMA SDKCatches ==
    ASSUME Alone, Inv, Inv', QueueHidesDelay, NEW id \in Ids, Mine(Solo, id),
           SyncStep(Solo), UNCHANGED appVars
    PROVE  Mine(Solo, id)' \/ FallsBehindUntold(Solo, id)
<1> DEFINE d == Solo
           st == Local(d)
           w == calls[d]
           n == listens[d]
           a == snapshots[d]
<1>1. d \in Devices
  BY DEF Alone
<1> HIDE DEF d
<1>2. /\ w \in Seq(Mutation \cup {Query}) /\ n \in Nat /\ a \in Seq(Snapshot)
      /\ server \in [Keys -> MaybeDoc] /\ queue[d] \in Seq(Mutation)
      /\ server' \in [Keys -> MaybeDoc] /\ queue'[d] \in Seq(Mutation)
      /\ cache[d] \in Snapshot
  BY <1>1 DEF Inv, SyncTypeOK
<1>3. st \in [Keys -> MaybeDoc] /\ Local(d)' \in [Keys -> MaybeDoc]
  BY <1>2, OverlayType DEF Local
<1>4. UNCHANGED <<repository, top, detail>>
  BY DEF appVars
<1>5. CatchesUp(id, repository[d], top[d], detail[d], st, w, n, a)
  BY DEF Mine, d
<1>6. SUFFICES ASSUME ~FallsBehindUntold(d, id)
               PROVE  CatchesUp(id, repository[d], top[d], detail[d],
                                Local(d)', calls'[d], listens'[d], snapshots'[d])
  BY <1>4 DEF Mine, d
<1>7. /\ st = Overlay(server, queue[Solo]) /\ Local(d)' = Overlay(server', queue'[Solo])
      /\ d = Solo /\ Live(id) \in Queried /\ Live(id) \in Keys
  BY PathAssumption, TrackerAssumption DEF Local, Live, d
<1>8. CASE WriteLocally(d) \/ Commit(d) \/ Acknowledge(d) \/ LoseStream(d) \/ Listen(d)
  <2>1. CASE Seen!TakeEffect
    <3>1. /\ w # <<>> /\ Head(w) # Query /\ Local(d)' = Write(st, Head(w))
          /\ calls'[d] = Tail(w) /\ listens'[d] = n /\ snapshots'[d] = a
      BY <1>7, <2>1 DEF Seen!TakeEffect, Write
    <3> HIDE DEF st, w, n, a
    <3> QED BY <1>2, <1>3, <1>5, <3>1, CatchesTakeEffect
  <2>2. CASE Seen!StartReading
    <3>1. /\ w # <<>> /\ Head(w) = Query /\ Local(d)' = st
          /\ calls'[d] = Tail(w) /\ listens'[d] = n + 1 /\ snapshots'[d] = a
      BY <1>7, <2>2 DEF Seen!StartReading
    <3> HIDE DEF st, w, n, a
    <3> QED BY <1>2, <1>3, <1>5, <3>1, CatchesStart
  <2>3. CASE UNCHANGED Seen!vars
    <3>1. Local(d)' = st /\ calls'[d] = w /\ listens'[d] = n /\ snapshots'[d] = a
      BY <1>7, <2>3 DEF Seen!vars
    <3> QED BY <1>5, <3>1
  <2> QED BY <1>8, <2>1, <2>2, <2>3, QuietStep DEF Inv, d
<1>9. ASSUME NEW docs \in Snapshot, Raise(d, docs),
             \/ docs[Live(id)] = server[Live(id)]
             \/ \E i \in 1..Len(queue[d]) : queue[d][i].key = Live(id)
      PROVE  CatchesUp(id, repository[d], top[d], detail[d],
                       Local(d)', calls'[d], listens'[d], snapshots'[d])
  <2> DEFINE o == Overlay(docs, queue[d])
  <2>1. /\ n > 0 /\ Local(d)' = st /\ calls'[d] = w /\ listens'[d] = n - 1
        /\ snapshots'[d] = Append(a, o)
    BY <1>1, <1>9 DEF Raise, Local, Inv, SyncTypeOK
  <2>2. o \in Snapshot
    BY <1>2, SyncAssumption, OverlayType DEF Snapshot
  <2>3. o[Live(id)] = st[Live(id)]
    BY <1>1, <1>7, <1>9, AnswerShows DEF Inv
  <2> HIDE DEF st, w, n, a, o
  <2> QED BY <1>2, <1>5, <2>1, <2>2, <2>3, CatchesAnswer
<1>10. CASE RaiseFromServer(d)
  <2> DEFINE current == [k \in Queried |-> server[k]]
  <2>1. current \in Snapshot /\ Raise(d, current) /\ current[Live(id)] = server[Live(id)]
    BY <1>2, <1>7, <1>10, SyncAssumption DEF RaiseFromServer, Snapshot
  <2> HIDE DEF current
  <2> QED BY <1>9, <2>1
<1>11. CASE RaiseFromCache(d)
  <2>1. Raise(d, cache[d]) /\ Live(id) \notin Doubtful(d)
    BY <1>6, <1>11 DEF RaiseFromCache, FallsBehindUntold
  <2> QED BY <1>2, <1>7, <1>9, <2>1 DEF Doubtful
<1>12. CASE Refuse(d)
  <2>1. Head(queue[d]).key # Live(id)
    BY <1>6, <1>12 DEF FallsBehindUntold
  <2>2. Local(d)'[Live(id)] = st[Live(id)]
    BY <1>1, <1>7, <1>12, <2>1, RefusalShows DEF Inv
  <2>3. calls'[d] = w /\ listens'[d] = n /\ snapshots'[d] = a
    BY <1>12 DEF Refuse, queryVars
  <2> DEFINE after == Local(d)'
  <2>4. after \in [Keys -> MaybeDoc] /\ after[Live(id)] = st[Live(id)]
    BY <1>3, <2>2
  <2> HIDE DEF st, w, n, a, after
  <2>5. CatchesUp(id, repository[d], top[d], detail[d], after, w, n, a)
    BY <1>2, <1>3, <1>5, <2>4, CatchesElsewhere
  <2> QED BY <2>3, <2>5 DEF after
<1>13. ~FailQuery(d)
  BY <1>6 DEF FallsBehindUntold
<1> QED BY <1>8, <1>10, <1>11, <1>12, <1>13 DEF SyncStep, d

\* At the start nobody sees the list.
LEMMA CatchesInit ==
    ASSUME Init
    PROVE  FeedCatchesUp
BY DEF Init, FeedCatchesUp, KeepsUp, InTouch

\* Every step of a device alone keeps it, but for the three.
LEMMA KeepsUpStep ==
    ASSUME Alone, Inv, Inv', QueueHidesDelay, [Next]_vars,
           NEW d \in Devices, NEW id \in Ids, KeepsUp(d, id)
    PROVE  KeepsUp(d, id)' \/ FallsBehindUntold(d, id)
<1>1. d = Solo /\ \A e \in Devices : e = d
  BY DEF Alone
<1>2. Mine(d, id)
  BY KeepsUpIsMine DEF Inv
<1>3. SUFFICES Mine(d, id)' \/ FallsBehindUntold(d, id)
  BY KeepsUpIsMineNext DEF Inv
<1>4. CASE UNCHANGED vars
  BY <1>2, <1>4, ScreenCatches DEF vars, syncVars
<1>5. CASE Next
  <2>1. PICK e \in Devices :
            \/ \/ EnterFeed(e) \/ LeaveFeed(e) \/ LoadAllDefects(e)
               \/ \E i \in Ids : SelectRow(e, i)
               \/ NewDefect(e)
               \/ \E c \in Drafts : TypeContent(e, c)
               \/ \E r \in Resolutions \cup {NoResolution} : TypeResolution(e, r)
               \/ onEdit(e) \/ onCancel(e) \/ onSubmit(e) \/ onClose(e)
               \/ onArchive(e) \/ DismissAlert(e) \/ Back(e) \/ Relaunch(e)
            \/ SyncStep(e) /\ UNCHANGED appVars
    BY <1>5, Zenon DEF Next
  <2>2. e = d
    BY <1>1
  <2>3. CASE SyncStep(e) /\ UNCHANGED appVars
    BY <1>1, <1>2, <2>2, <2>3, SDKCatches
  <2> QED BY <1>2, <2>1, <2>2, <2>3, HandlerCatches, Zenon
<1> QED BY <1>4, <1>5

\* The feed comes on screen by its own appearing, and has asked.
LEMMA AppearingCatches ==
    ASSUME Inv, Inv', [Next]_vars, NEW d \in Devices, NEW id \in Ids,
           top[d] # "feed", top'[d] = "feed"
    PROVE  KeepsUp(d, id)'
<1>1. SUFFICES FeedAppears(d)
  BY FeedAppearsCatches, KeepsUpIsMineNext DEF Inv
<1>2. ASSUME NEW e \in Devices,
             \/ FeedAppears(e)
             \/ \E screen \in {"home", "detail"} : top' = [top EXCEPT ![e] = screen]
             \/ top' = top
      PROVE  FeedAppears(d)
  <2>1. top \in [Devices -> {"home", "feed", "detail"}]
    BY DEF Inv, AppOK
  <2> QED BY <1>2, <2>1 DEF FeedAppears
<1>3. ASSUME NEW e \in Devices, EnterFeed(e) \/ Back(e) \/ onCancel(e) \/ DismissAlert(e)
      PROVE  FeedAppears(e) \/ top' = top
  BY <1>3 DEF EnterFeed, Back, onCancel, DismissAlert, Alert
<1>4. ASSUME NEW e \in Devices,
             \/ LeaveFeed(e) \/ Relaunch(e) \/ NewDefect(e)
             \/ \E i \in Ids : SelectRow(e, i)
      PROVE  \E screen \in {"home", "detail"} : top' = [top EXCEPT ![e] = screen]
  BY <1>4 DEF LeaveFeed, Relaunch, NewDefect, SelectRow, OpenDetail
<1>5. ASSUME NEW e \in Devices,
             \/ LoadAllDefects(e) \/ onEdit(e)
             \/ \E c \in Drafts : TypeContent(e, c)
             \/ \E r \in Resolutions \cup {NoResolution} : TypeResolution(e, r)
      PROVE  top' = top
  BY <1>5 DEF LoadAllDefects, onEdit, TypeContent, TypeResolution
<1>6. ASSUME NEW e \in Devices, onSubmit(e) \/ onArchive(e)
      PROVE  top' = top
  BY <1>6 DEF onSubmit, onArchive, Reports, updateDefect, createDefect, Alert
<1>7. ASSUME NEW e \in Devices, onClose(e)
      PROVE  top' = top \/ \E screen \in {"home", "detail"} : top' = [top EXCEPT ![e] = screen]
  BY <1>7 DEF onClose, Reports, updateDefect, Relaunch, Alert
<1>8. CASE UNCHANGED vars \/ UNCHANGED appVars
  BY <1>8 DEF vars, appVars
<1> QED BY <1>2, <1>3, <1>4, <1>5, <1>6, <1>7, <1>8, Zenon DEF Next

\* What a device alone is not told of is all that makes its feed fall behind: no crash,
\* lost acknowledgement, repeated commit or answer that comes late does (viewWillAppear,
\* Repository.loadAllDefects, updateDefect), and the feed that appears has asked again.
THEOREM FallingBehindIsUntold ==
    ASSUME Alone
    PROVE  Spec => FeedFallsBehindUntoldOnly
<1> DEFINE Step == \A d \in Devices, id \in Ids :
        \/ KeepsUp(d, id)'
        \/ FallsBehindUntold(d, id)
        \/ ~KeepsUp(d, id) /\ ~(top[d] # "feed" /\ top'[d] = "feed")
<1>1. Inv /\ Inv' /\ QueueHidesDelay /\ [Next]_vars => Step
  BY KeepsUpStep, AppearingCatches
<1>2. ApiSpec => []QueueHidesDelay
  BY DelayIsHidden
<1>3. Spec => ApiSpec
  BY TrackerImplementsApi DEF ImplementsApi
<1>4. Inv /\ Inv' /\ QueueHidesDelay /\ [Next]_vars => [Step]_vars
  BY <1>1
<1> HIDE DEF Step
<1>5. Spec => [][Step]_vars
  BY <1>2, <1>3, <1>4, TrackerInvariant, PTL DEF Spec
<1> QED BY <1>5 DEF FeedFallsBehindUntoldOnly, Step

\* What was refused stays so.
LEMMA RefusedForGood ==
    ASSUME [ApiNext]_syncVars
    PROVE  refused \subseteq refused'
<1>1. ASSUME NEW d \in Devices, NEW id \in Ids, NEW doc \in Docs,
             Post(d, id, doc) \/ Put(d, id, doc) \/ Archive(d, id, doc)
      PROVE  refused' = refused
  BY <1>1 DEF Post, Put, Archive, Submit
<1>2. ASSUME NEW d \in Devices, GetAllDefects(d) \/ Deliver(d) \/ Crash(d)
      PROVE  refused' = refused
  BY <1>2 DEF GetAllDefects, Ask, Deliver, Crash, writeVars
<1>3. ASSUME NEW d \in Devices, SyncStep(d)
      PROVE  refused \subseteq refused'
  BY <1>3 DEF SyncStep, WriteLocally, Commit, Acknowledge, LoseStream, Refuse, Listen,
              RaiseFromServer, RaiseFromCache, Raise, FailQuery, writeVars
<1>4. CASE UNCHANGED syncVars
  BY <1>4 DEF syncVars
<1> QED BY <1>1, <1>2, <1>3, <1>4 DEF ApiNext

\* FeedCatchesUp holds on: what is refused stays refused, and so does what is in doubt.
LEMMA CatchesStep ==
    ASSUME Alone, ~QueriesMayFail, Inv, Inv', QueueHidesDelay, FeedCatchesUp, [Next]_vars
    PROVE  FeedCatchesUp'
<1>1. SUFFICES ASSUME NEW d \in Devices, NEW id \in Ids, Live(id) \notin refused'
               PROVE  KeepsUp(d, id)'
  BY DEF FeedCatchesUp, Live
<1>2. [ApiNext]_syncVars
  BY TrackerStep
<1>3. refused \subseteq refused'
  BY <1>2, RefusedForGood
<1>4. KeepsUp(d, id)
  BY <1>1, <1>3 DEF FeedCatchesUp
<1>5. ~(Refuse(d) /\ Head(queue[d]).key = Live(id))
  BY <1>1 DEF Refuse
<1>6. Live(id) \notin Doubtful(d)
  BY <1>1, <1>3 DEF QueueHidesDelay, DoubtNeedsRefusal
<1>7. ~FailQuery(d)
  BY DEF FailQuery
<1> QED BY <1>4, <1>5, <1>6, <1>7, KeepsUpStep DEF FallsBehindUntold

\* The inductive invariant of the next theorem: alone with the backend, and when no
\* query fails, the list is current or the answer that will make it so is on its way,
\* with no write behind it, for every defect but those of which a write was refused.
THEOREM TrackerFeedCatchesUp ==
    ASSUME Alone, ~QueriesMayFail
    PROVE  Spec => []FeedCatchesUp
<1>1. Init => FeedCatchesUp
  BY CatchesInit
<1>2. Inv /\ Inv' /\ QueueHidesDelay /\ FeedCatchesUp /\ [Next]_vars => FeedCatchesUp'
  BY CatchesStep
<1>3. ApiSpec => []QueueHidesDelay
  BY DelayIsHidden
<1>4. Spec => ApiSpec
  BY TrackerImplementsApi DEF ImplementsApi
<1> QED BY <1>1, <1>2, <1>3, <1>4, TrackerInvariant, PTL DEF Spec

\* Once a device alone has no load outstanding, its feed shows what Firestore has,
\* its own writes included, whatever broke or restarted on the way; only a defect of
\* which a write was refused may be shown as it was.
THEOREM SettledFeedsAreCurrent ==
    ASSUME Alone, ~QueriesMayFail
    PROVE  Spec => []SettledFeedIsCurrent
<1>1. FeedCatchesUp => SettledFeedIsCurrent
  BY DEF FeedCatchesUp, KeepsUp, SettledFeedIsCurrent, InTouch
<1> QED BY <1>1, TrackerFeedCatchesUp, PTL
============================================================================
