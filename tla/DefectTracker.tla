--------------------------- MODULE DefectTracker ---------------------------
(***************************************************************************)
(* The defect tracker on every device: the repository shared by the feed   *)
(* and the detail screen, the detail screen itself (DetailViewController   *)
(* and its DetailViewModel), and the writes and queries they make through  *)
(* ApiClient.                                                              *)
(*                                                                         *)
(* Defect is a class.  The detail screen holds a reference to the very     *)
(* object the repository holds until a finished load replaces the          *)
(* repository's objects; linked says whether the two are still the same.   *)
(*                                                                         *)
(* The four required fields of a defect are one value, its content; Blank  *)
(* stands for inputs at least one of which is missing or empty.            *)
(***************************************************************************)
EXTENDS DefectApi

CONSTANTS
    Contents,       \* the values of station, aircraft, subchapter, description
    Blank,          \* required inputs of which at least one is empty
    Resolutions,    \* the resolution texts
    NoResolution,   \* a missing or empty resolution
    NoId            \* the id of a defect that has not been created

Defect == [content : Contents, resolution : Resolutions \cup {NoResolution},
           isResolved : BOOLEAN]

ASSUME TrackerAssumption ==
    /\ Docs = Defect
    /\ Queried = {"Defects"} \X Ids
    /\ Blank \notin Contents
    /\ NoResolution \notin Resolutions
    /\ NoId \notin Ids

VARIABLES
    repository, \* per device: Repository.shared.defects, by id
    top,        \* per device: the screen on top of the navigation stack
    detail      \* per device: the detail screen, while it is the top

appVars == <<repository, top, detail>>
vars    == <<syncVars, repository, top, detail>>

Drafts == Contents \cup {Blank}

\* A detail screen: the view model's defect (NoDoc: none yet), whether the
\* repository holds the same object, its inputs, the mode and the alert.
Detail == [id : Ids \cup {NoId}, defect : Docs \cup {NoDoc}, linked : BOOLEAN,
           content : Drafts, resolution : Resolutions \cup {NoResolution},
           readOnly : BOOLEAN, alert : {"none", "basic", "returning"}]

TypeOK ==
    /\ SyncTypeOK
    /\ repository \in [Devices -> [Ids -> MaybeDoc]]
    /\ top \in [Devices -> {"home", "feed", "detail"}]
    /\ detail \in [Devices -> Detail]

EmptyRepository == [id \in Ids |-> NoDoc]

\* A detail screen opened without a defect; also what detail is elsewhere.
EmptyDetail == [id |-> NoId, defect |-> NoDoc, linked |-> FALSE,
                content |-> Blank, resolution |-> NoResolution,
                readOnly |-> FALSE, alert |-> "none"]

Init ==
    /\ ApiInit
    /\ repository = [d \in Devices |-> EmptyRepository]
    /\ top = [d \in Devices |-> "home"]
    /\ detail = [d \in Devices |-> EmptyDetail]

----------------------------------------------------------------------------
\* HELPERS

\* The screen takes taps: an alert is modal.
Tappable(d)     == top[d] = "detail" /\ detail[d].alert = "none"
defectExists(d) == detail[d].defect # NoDoc

validInput(d) == detail[d].content # Blank

\* configureForDefect: the inputs show the defect.
ForDefect(s, defect) ==
    [s EXCEPT !.content = defect.content, !.resolution = defect.resolution]

\* The shared object gets a new value, in place.
InRepository(d, defect) ==
    repository' = IF detail[d].linked
                  THEN [repository EXCEPT ![d][detail[d].id] = defect]
                  ELSE repository

\* The screen becomes s, under an alert.
Alert(d, s, kind) ==
    /\ detail' = [detail EXCEPT ![d] = [s EXCEPT !.alert = kind]]
    /\ UNCHANGED top

----------------------------------------------------------------------------
\* FEED

\* Mutant of FeedAppears: the feed loads once and not each time it appears.
FeedAppearsAsItWas(d) ==
    /\ top' = [top EXCEPT ![d] = "feed"]
    /\ detail' = [detail EXCEPT ![d] = EmptyDetail]
    /\ UNCHANGED <<repository, syncVars>>

\* The feed comes on screen: viewWillAppear asks for all defects.
FeedAppears(d) ==
    /\ top' = [top EXCEPT ![d] = "feed"]
    /\ detail' = [detail EXCEPT ![d] = EmptyDetail]
    /\ GetAllDefects(d)
    /\ UNCHANGED repository

EnterFeed(d) == top[d] = "home" /\ FeedAppears(d)

LeaveFeed(d) ==
    /\ top[d] = "feed"
    /\ top' = [top EXCEPT ![d] = "home"]
    /\ UNCHANGED <<repository, detail, syncVars>>

\* The completion of getAllDefects, on whatever screen it finds the user: the
\* repository's objects are replaced, a detail screen keeps its own.
LoadAllDefects(d) ==
    /\ Deliver(d)
    /\ repository' = [repository EXCEPT
                        ![d] = [id \in Ids |-> Head(snapshots[d])[Live(id)]]]
    /\ detail' = [detail EXCEPT ![d].linked = FALSE]
    /\ UNCHANGED top

OpenDetail(d, screen) ==
    /\ top[d] = "feed"
    /\ top' = [top EXCEPT ![d] = "detail"]
    /\ detail' = [detail EXCEPT ![d] = screen]
    /\ UNCHANGED <<repository, syncVars>>

\* prepare(for:) with a selected row, and without one.
SelectRow(d, id) ==
    /\ repository[d][id] # NoDoc
    /\ OpenDetail(d, [ForDefect(EmptyDetail, repository[d][id]) EXCEPT
                        !.id = id, !.defect = repository[d][id],
                        !.linked = TRUE, !.readOnly = TRUE])

NewDefect(d) == OpenDetail(d, EmptyDetail)

----------------------------------------------------------------------------
\* DETAIL SCREEN

\* Typing and choosing from a drop-down, possible in the edit views only.
TypeContent(d, c) ==
    /\ Tappable(d) /\ ~detail[d].readOnly
    /\ detail' = [detail EXCEPT ![d].content = c]
    /\ UNCHANGED <<repository, top, syncVars>>

TypeResolution(d, r) ==
    /\ Tappable(d) /\ ~detail[d].readOnly
    /\ detail' = [detail EXCEPT ![d].resolution = r]
    /\ UNCHANGED <<repository, top, syncVars>>

onEdit(d) ==
    /\ Tappable(d)
    /\ detail' = [detail EXCEPT ![d].readOnly = FALSE]
    /\ UNCHANGED <<repository, top, syncVars>>

\* Mutant of onCancel: the inputs keep the draft.
onCancelKeepingDraft(d) ==
    /\ Tappable(d)
    /\ \/ /\ defectExists(d)
          /\ detail' = [detail EXCEPT ![d].readOnly = TRUE]
          /\ UNCHANGED <<repository, top, syncVars>>
       \/ ~defectExists(d) /\ FeedAppears(d)

onCancel(d) ==
    /\ Tappable(d)
    /\ \/ /\ defectExists(d)
          /\ detail' = [detail EXCEPT ![d] =
                [ForDefect(@, detail[d].defect) EXCEPT !.readOnly = TRUE]]
          /\ UNCHANGED <<repository, top, syncVars>>
       \/ ~defectExists(d) /\ FeedAppears(d)

\* createDefect: a new object with a fresh id, posted and appended to the
\* repository; the resolution typed so far is not part of it.
createDefect(d, id) ==
    LET defect == [content |-> detail[d].content, resolution |-> NoResolution,
                   isResolved |-> FALSE]
        s == [ForDefect(detail[d], defect) EXCEPT
                !.id = id, !.defect = defect, !.linked = TRUE, !.readOnly = TRUE]
    IN  /\ Post(d, id, defect)
        /\ repository' = [repository EXCEPT ![d][id] = defect]
        /\ Alert(d, s, "basic")

\* updateDefect: the inputs are copied into the object, which is then put.
updateDefect(d, isResolved) ==
    LET defect == [content |-> detail[d].content,
                   resolution |-> detail[d].resolution,
                   isResolved |-> isResolved]
        s == [detail[d] EXCEPT !.defect = defect, !.readOnly = TRUE]
    IN  /\ Put(d, detail[d].id, defect)
        /\ InRepository(d, defect)
        /\ Alert(d, s, "basic")

Reports(d) ==
    /\ Alert(d, detail[d], "basic")
    /\ UNCHANGED <<repository, syncVars>>

\* UUIDs are fresh: no document, write, answer or object has the id.
Fresh(id) ==
    /\ server[Live(id)] = NoDoc /\ server[Archived(id)] = NoDoc
    /\ \A d \in Devices :
        /\ \A i \in DOMAIN calls[d] :
            calls[d][i] # Query => calls[d][i].key[2] # id
        /\ \A i \in DOMAIN queue[d] : queue[d][i].key[2] # id
        /\ \A i \in DOMAIN snapshots[d] : snapshots[d][i][Live(id)] = NoDoc
        /\ cache[d][Live(id)] = NoDoc
        /\ repository[d][id] = NoDoc
        /\ detail[d].id # id

\* Mutant of onSubmit: an existing defect is updated without validation.
onSubmitUnvalidated(d) ==
    /\ Tappable(d)
    /\ \/ ~validInput(d) /\ ~defectExists(d) /\ Reports(d)
       \/ defectExists(d) /\ updateDefect(d, detail[d].defect.isResolved)
       \/ /\ validInput(d) /\ ~defectExists(d)
          /\ \E id \in Ids : Fresh(id) /\ createDefect(d, id)

onSubmit(d) ==
    /\ Tappable(d)
    /\ \/ ~validInput(d) /\ Reports(d)
       \/ validInput(d) /\ defectExists(d) /\ updateDefect(d, detail[d].defect.isResolved)
       \/ /\ validInput(d) /\ ~defectExists(d)
          /\ \E id \in Ids : Fresh(id) /\ createDefect(d, id)

\* The process starts again, at the home screen once the user has logged in.
Relaunch(d) ==
    /\ Crash(d)
    /\ repository' = [repository EXCEPT ![d] = EmptyRepository]
    /\ top' = [top EXCEPT ![d] = "home"]
    /\ detail' = [detail EXCEPT ![d] = EmptyDetail]

\* Mutant of onClose: the shared object is resolved before the inputs are
\* validated.
onCloseResolvingFirst(d) ==
    LET resolvable == detail[d].resolution # NoResolution /\ validInput(d)
        resolved == [detail[d].defect EXCEPT !.isResolved = TRUE]
    IN  /\ Tappable(d)
        /\ \/ /\ ~resolvable /\ defectExists(d)
              /\ InRepository(d, resolved)
              /\ Alert(d, [detail[d] EXCEPT !.defect = resolved], "basic")
              /\ UNCHANGED syncVars
           \/ ~resolvable /\ ~defectExists(d) /\ Reports(d)
           \/ resolvable /\ defectExists(d) /\ updateDefect(d, TRUE)
           \/ resolvable /\ ~defectExists(d) /\ Relaunch(d)

\* resolveDefect and, if it does not throw, updateDefect.  On a screen without a
\* defect the latter unwraps nil and the process traps.
onClose(d) ==
    LET resolvable == detail[d].resolution # NoResolution /\ validInput(d)
    IN  /\ Tappable(d)
        /\ \/ ~resolvable /\ Reports(d)
           \/ resolvable /\ defectExists(d) /\ updateDefect(d, TRUE)
           \/ resolvable /\ ~defectExists(d) /\ Relaunch(d)

\* Mutant of onArchive: the button deletes the defect.
onArchiveDeleting(d) ==
    /\ Tappable(d)
    /\ \/ defectExists(d) /\ Submit(d, DeleteCalls(detail[d].id))
       \/ ~defectExists(d) /\ UNCHANGED syncVars
    /\ Alert(d, detail[d], "returning")
    /\ UNCHANGED repository

\* The object is archived as it is, inputs that were not submitted are dropped,
\* and the alert says "Defect archived" even where there was no defect.
onArchive(d) ==
    /\ Tappable(d)
    /\ \/ /\ defectExists(d)
          /\ Archive(d, detail[d].id, detail[d].defect)
       \/ ~defectExists(d) /\ UNCHANGED syncVars
    /\ Alert(d, detail[d], "returning")
    /\ UNCHANGED repository

\* OK on an alert: a returning alert pops the screen.
DismissAlert(d) ==
    /\ \/ /\ detail[d].alert = "basic"
          /\ Alert(d, detail[d], "none")
          /\ UNCHANGED <<repository, syncVars>>
       \/ detail[d].alert = "returning" /\ FeedAppears(d)

\* The navigation bar's back button.
Back(d) == Tappable(d) /\ FeedAppears(d)

----------------------------------------------------------------------------
Next == \E d \in Devices :
    \/ EnterFeed(d)
    \/ LeaveFeed(d)
    \/ LoadAllDefects(d)
    \/ \E id \in Ids : SelectRow(d, id)
    \/ NewDefect(d)
    \/ \E c \in Drafts : TypeContent(d, c)
    \/ \E r \in Resolutions \cup {NoResolution} : TypeResolution(d, r)
    \/ onEdit(d)
    \/ onCancel(d)
    \/ onSubmit(d)
    \/ onClose(d)
    \/ onArchive(d)
    \/ DismissAlert(d)
    \/ Back(d)
    \/ Relaunch(d)
    \/ SyncStep(d) /\ UNCHANGED appVars

Spec == Init /\ [][Next]_vars

----------------------------------------------------------------------------
\* PROPERTIES

\* The screens reach Firestore through ApiClient only, with documents that passed
\* validateInput: what is proved of ApiClient's clients holds of this one.
ImplementsApi == ApiSpec

\* In read mode the labels show the defect object the screen holds: neither a
\* cancelled edit, a refused one nor a failed close leaves a draft behind.
ReadModeShowsDefect == \A d \in Devices :
    top[d] = "detail" /\ detail[d].readOnly =>
        /\ detail[d].defect # NoDoc
        /\ detail[d].content = detail[d].defect.content
        /\ detail[d].resolution = detail[d].defect.resolution

\* A Defect object shared with the feed never changes behind the backend's back:
\* whenever a handler changes a repository's object, the same handler has put
\* the object's new value on its way, as the last call it made.
EditsAreSubmitted == [][\A d \in Devices, id \in Ids :
    repository'[d][id] \notin {repository[d][id], NoDoc}
        => \/ snapshots'[d] # snapshots[d]
           \/ /\ calls'[d] # calls[d]
              /\ calls'[d][Len(calls'[d])] = Set(Live(id), repository'[d][id])]_vars

\* What a query on the device reads, and what it will read once the calls that wait
\* have run (there are only writes among them when no load is outstanding).
Local(d)  == Overlay(server, queue[d])
Coming(d) == Overlay(Local(d), calls[d])

\* A device that works alone: once no load is outstanding its list is exactly the
\* defects of the backend with every write of the device on top, those still waiting
\* included, but for the documents of which a write was refused.  So it is for the
\* feed, and for a detail screen whose object is still the list's, until its defect
\* is archived.
SettledFeedIsCurrent == \A d \in Devices :
    /\ Loads(d) = 0
    /\ \/ top[d] = "feed"
       \/ top[d] = "detail" /\ detail[d].linked /\ detail[d].alert # "returning"
    => \A id \in Ids :
            Live(id) \in refused \/ repository[d][id] = Coming(d)[Live(id)]

\* Why that holds.  A screen keeps in touch with the list until it writes to an object
\* of its own.  Whoever sees the list, or may still add to it, sees it current, or has
\* a load outstanding behind which nothing was written: its answer will be current.
\* A shared object that is edited while a load is outstanding ceases to be shared.
InTouch(d) ==
    \/ top[d] = "feed"
    \/ /\ top[d] = "detail" /\ detail[d].alert # "returning"
       /\ detail[d].linked \/ ~defectExists(d)

LastLoadIsCurrent(d, id) ==
    IF \E i \in DOMAIN calls[d] : IsQuery(calls[d][i])
    THEN IsQuery(calls[d][Len(calls[d])])
    ELSE /\ calls[d] = <<>>
         /\ listens[d] = 0 =>
                snapshots[d][Len(snapshots[d])][Live(id)] = Local(d)[Live(id)]

KeepsUp(d, id) == InTouch(d) =>
    IF Loads(d) = 0
    THEN repository[d][id] = Coming(d)[Live(id)]
    ELSE top[d] = "feed" \/ ~detail[d].linked => LastLoadIsCurrent(d, id)

FeedCatchesUp == \A d \in Devices, id \in Ids :
    Live(id) \in refused \/ KeepsUp(d, id)

\* What makes a list fall behind, on a device alone, are three things, of none of which
\* the app is told: a query that fails (getAllDefects prints the error), a write of the
\* document that is refused, and an answer without the backend about a document in
\* doubt.  The next time the feed appears it catches up, or has asked.
FallsBehindUntold(d, id) ==
    \/ FailQuery(d)
    \/ Refuse(d) /\ Head(queue[d]).key = Live(id)
    \/ RaiseFromCache(d) /\ Live(id) \in Doubtful(d)

FeedFallsBehindUntoldOnly == [][\A d \in Devices, id \in Ids :
    \/ KeepsUp(d, id)'
    \/ FallsBehindUntold(d, id)
    \/ ~KeepsUp(d, id) /\ ~(top[d] # "feed" /\ top'[d] = "feed")]_vars

\* "A resolution description is required to close": a closed defect that has
\* reached the backend says how it was resolved.
ClosedDefectsAreExplained == \A id \in Ids :
    LET doc == server[Live(id)]
    IN  doc # NoDoc /\ doc.isResolved => doc.resolution # NoResolution
============================================================================
