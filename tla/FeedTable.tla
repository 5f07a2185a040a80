------------------------------ MODULE FeedTable ------------------------------
(***************************************************************************)
(* The feed of one phone as a table: its rows, by position, against the    *)
(* list of defects the phone's screens share, and the dates by which that  *)
(* list is sorted.                                                         *)
(*                                                                         *)
(* A defect says when it was created as a text: the local time of the      *)
(* phone that created it, without a zone.  The reader takes it for a local *)
(* time of its own, where it may stand for another moment, for two moments *)
(* (clocks were put back) or for none (they were put forward).             *)
(*                                                                         *)
(* Where the code traps the process is gone until it is launched again.    *)
(***************************************************************************)
EXTENDS Integers, Sequences, FiniteSets

CONSTANTS
    Ids,        \* the defects
    None,       \* a defect nobody has created
    Phones,     \* the phones that create defects
    Here,       \* the phone whose feed it is
    Moments,    \* the moments a text may stand for
    Offset,     \* by phone and moment: how much the phone's clock is ahead, be it
                \* for its zone, its season or its error
    MaxTime,    \* bound: the last moment
    MaxLoads    \* bound: loads under way

Defects == [at : 0..MaxTime, by : Phones]

ASSUME FeedAssumption ==
    /\ IsFiniteSet(Ids)
    /\ None \notin Defects
    /\ Here \in Phones
    /\ MaxTime \in Nat /\ MaxLoads \in Nat
    /\ Moments \subseteq Int /\ 0..MaxTime \subseteq Moments
    /\ Offset \in [Phones -> [Moments -> Int]]

VARIABLES
    now,        \* the time
    posted,     \* by id: when and on which phone it was created
    repository, \* Repository.shared.defects
    loaded,     \* how many of them the last load has brought, before the appended
    screen,     \* the screen on top, new being a detail screen without a defect
    own,        \* loads under way that the feed on the stack has asked for
    stray,      \* loads under way that an earlier feed has asked for
    rows,       \* the rows of the table, as their cells show them
    dirty,      \* the table has been told to reload, or is new
    replaced,   \* a stray load has replaced the list since the table was laid out
    trap        \* why the process has trapped

loads == <<own, stray>>
table == <<rows, dirty, replaced>>
vars  == <<now, posted, repository, loaded, screen, loads, table, trap>>

TypeOK ==
    /\ now \in 0..MaxTime
    /\ posted \in [Ids -> Defects \cup {None}]
    /\ repository \in Seq(Ids)
    /\ loaded \in 0..Len(repository)
    /\ screen \in {"home", "feed", "detail", "new"}
    /\ own \in Nat /\ stray \in Nat
    /\ rows \in Seq(Ids)
    /\ dirty \in BOOLEAN /\ replaced \in BOOLEAN
    /\ trap \in {"none", "date", "future", "row"}
    /\ \A i \in DOMAIN repository : posted[repository[i]] # None

----------------------------------------------------------------------------
\* DATES

\* getString, when the defect is created.
Text(id) == posted[id].at + Offset[posted[id].by][posted[id].at]

\* getDate on this phone: one of these moments, or nil where there is none.
Readings(id) == {t \in Moments : t + Offset[Here][t] = Text(id)}

\* The text stands here for the moment it was written at, and for no other.
Plain(id) == Readings(id) = {posted[id].at}

\* Mutant of MayTrap: on the present too.
MayTrapNow(id) == \E t \in Readings(id) : t >= now

\* timeSymbol traps on a date after the present: a DateInterval cannot start after
\* its end.
MayTrap(id) == \E t \in Readings(id) : t > now
MayShow(id) == Readings(id) = {} \/ \E t \in Readings(id) : t <= now

\* Mutant of Later: the list is sorted upwards.
Earlier(id1, id2) == \E t \in Readings(id1), u \in Readings(id2) : t <= u

\* id1 may stand above id2 in the sorted list.
Later(id1, id2) == \E t \in Readings(id1), u \in Readings(id2) : t >= u

Sorted(ids) ==
    {s \in [1..Cardinality(ids) -> ids] : \A i, j \in DOMAIN s :
        i < j => s[i] # s[j] /\ Later(s[i], s[j])}

----------------------------------------------------------------------------
Init ==
    /\ now = 0
    /\ posted = [id \in Ids |-> None]
    /\ repository = <<>> /\ loaded = 0
    /\ screen = "home"
    /\ own = 0 /\ stray = 0
    /\ rows = <<>> /\ dirty = FALSE /\ replaced = FALSE
    /\ trap = "none"

Tick ==
    /\ now < MaxTime
    /\ now' = now + 1
    /\ UNCHANGED <<posted, repository, loaded, screen, loads, table, trap>>

\* Another phone posts a defect.
Post(id, phone) ==
    /\ posted[id] = None
    /\ posted' = [posted EXCEPT ![id] = [at |-> now, by |-> phone]]
    /\ UNCHANGED <<now, repository, loaded, screen, loads, table, trap>>

\* FEED

\* viewWillAppear asks for all defects; a new screen's table is new.
FeedAppears(isNew) ==
    /\ own + stray < MaxLoads
    /\ screen' = "feed"
    /\ own' = own + 1
    /\ dirty' = (isNew \/ dirty)
    /\ UNCHANGED <<now, posted, repository, loaded, stray, rows, replaced, trap>>

EnterFeed == screen = "home" /\ FeedAppears(TRUE)

\* The screen is popped; the completions of its loads keep it alive.
LeaveFeed ==
    /\ screen = "feed" /\ ~dirty
    /\ screen' = "home"
    /\ own' = 0 /\ stray' = own + stray
    /\ rows' = <<>> /\ replaced' = FALSE
    /\ UNCHANGED <<now, posted, repository, loaded, dirty, trap>>

\* One of the loads under way ends.
Ends(mine) ==
    \/ mine /\ own > 0 /\ own' = own - 1 /\ UNCHANGED stray
    \/ ~mine /\ stray > 0 /\ stray' = stray - 1 /\ UNCHANGED own

\* Mutant of LoadAllDefects: the table is not told to reload.
LoadAllDefectsUnseen(ids, mine) ==
    /\ Ends(mine)
    /\ Cardinality(ids) > 1 => \A id \in ids : Readings(id) # {}
    /\ repository' \in Sorted(ids) /\ loaded' = Cardinality(ids)
    /\ replaced' = (replaced \/ ~mine)
    /\ UNCHANGED <<now, posted, screen, rows, dirty, trap>>

\* The completion of getAllDefects with these ids.  sorted traps on a date it cannot
\* read, if it compares any; the feed that has asked reloads its own table.
LoadAllDefects(ids, mine) ==
    /\ Ends(mine)
    /\ \/ /\ Cardinality(ids) > 1 /\ \E id \in ids : Readings(id) = {}
          /\ trap' = "date"
          /\ UNCHANGED <<repository, loaded, table>>
       \/ /\ Cardinality(ids) > 1 => \A id \in ids : Readings(id) # {}
          /\ repository' \in Sorted(ids) /\ loaded' = Cardinality(ids)
          /\ dirty' = (dirty \/ mine)
          /\ replaced' = (replaced \/ ~mine)
          /\ UNCHANGED <<rows, trap>>
    /\ UNCHANGED <<now, posted, screen>>

\* The completion of a load that fails is not called.
FailLoad(mine) ==
    /\ Ends(mine)
    /\ UNCHANGED <<now, posted, repository, loaded, screen, table, trap>>

\* The table asks anew for the number of its rows, and for their cells.
Layout ==
    /\ screen = "feed" /\ dirty
    /\ \/ /\ \E i \in DOMAIN repository : MayTrap(repository[i])
          /\ trap' = "future"
          /\ UNCHANGED table
       \/ /\ \A i \in DOMAIN repository : MayShow(repository[i])
          /\ rows' = repository /\ dirty' = FALSE /\ replaced' = FALSE
          /\ UNCHANGED trap
    /\ UNCHANGED <<now, posted, repository, loaded, screen, loads>>

\* A row is scrolled on screen: cellForRowAt looks it up again.
Scroll(i) ==
    /\ screen = "feed" /\ ~dirty
    /\ \/ i \notin DOMAIN repository /\ trap' = "row" /\ UNCHANGED rows
       \/ /\ i \in DOMAIN repository /\ MayTrap(repository[i])
          /\ trap' = "future" /\ UNCHANGED rows
       \/ /\ i \in DOMAIN repository /\ MayShow(repository[i])
          /\ rows' = [rows EXCEPT ![i] = repository[i]] /\ UNCHANGED trap
    /\ UNCHANGED <<now, posted, repository, loaded, screen, loads, dirty, replaced>>

\* prepare(for:) looks a tapped row up, and opens the defect it finds.
SelectRow(i) ==
    /\ screen = "feed" /\ ~dirty
    /\ \/ i \in DOMAIN repository /\ screen' = "detail" /\ UNCHANGED trap
       \/ i \notin DOMAIN repository /\ trap' = "row" /\ UNCHANGED screen
    /\ UNCHANGED <<now, posted, repository, loaded, loads, table>>

NewDefect ==
    /\ screen = "feed" /\ ~dirty
    /\ screen' = "new"
    /\ UNCHANGED <<now, posted, repository, loaded, loads, table, trap>>

\* DETAIL SCREEN

\* Mutant of createDefect: the new defect is not posted.
createDefectHere(id) ==
    /\ screen = "new" /\ posted[id] = None
    /\ repository' = Append(repository, id)
    /\ screen' = "detail"
    /\ UNCHANGED <<now, posted, loaded, loads, table, trap>>

\* The new defect is posted, and appended to the list.
createDefect(id) ==
    /\ screen = "new" /\ posted[id] = None
    /\ posted' = [posted EXCEPT ![id] = [at |-> now, by |-> Here]]
    /\ repository' = Append(repository, id)
    /\ screen' = "detail"
    /\ UNCHANGED <<now, loaded, loads, table, trap>>

Back == screen \in {"detail", "new"} /\ FeedAppears(FALSE)

\* After a trap.
Relaunch ==
    /\ repository' = <<>> /\ loaded' = 0
    /\ screen' = "home"
    /\ own' = 0 /\ stray' = 0
    /\ rows' = <<>> /\ dirty' = FALSE /\ replaced' = FALSE
    /\ trap' = "none"
    /\ UNCHANGED <<now, posted>>

\* A query may answer from the phone's cache: with any of the defects posted so far.
Running ==
    \/ EnterFeed \/ LeaveFeed \/ Layout \/ NewDefect \/ Back
    \/ \E mine \in BOOLEAN :
        \/ FailLoad(mine)
        \/ \E ids \in SUBSET {id \in Ids : posted[id] # None} : LoadAllDefects(ids, mine)
    \/ \E i \in DOMAIN rows : Scroll(i) \/ SelectRow(i)
    \/ \E id \in Ids : createDefect(id)

Next ==
    \/ Tick
    \/ \E id \in Ids, phone \in Phones : Post(id, phone)
    \/ trap = "none" /\ Running
    \/ trap # "none" /\ Relaunch

Spec == Init /\ [][Next]_vars

----------------------------------------------------------------------------
\* PROPERTIES

\* cellForRowAt and prepare(for:) look a row up in the list of the moment.  A row
\* opens the defect it shows, and does not trap, unless a stray load has replaced
\* the list since the table was laid out: no load of the feed's own, no creation
\* and no way back and forth between the screens does that.
RowsOpenWhatTheyShow ==
    /\ ~dirty /\ ~replaced => \A i \in DOMAIN rows :
            i \in DOMAIN repository /\ rows[i] = repository[i]
    /\ trap = "row" => replaced

\* The list is in the order of creation, the latest first, as far as the texts are
\* plain, whatever else is in it; below come the phone's own since the last load.
FeedInOrder == \A i, j \in 1..loaded :
    i < j /\ Plain(repository[i]) /\ Plain(repository[j])
        => posted[repository[i]].at >= posted[repository[j]].at

\* getDate()! and timeSymbol trap only over a text that is not plain here: of another
\* zone or another clock, or from the hour that comes twice.
TrapsNeedForeignTexts ==
    trap \in {"date", "future"} => \E id \in Ids : posted[id] # None /\ ~Plain(id)
==============================================================================
