-------------------------- MODULE FeedTable_proofs --------------------------
(***************************************************************************)
(* Proofs about FeedTable, for any number of defects and phones, any       *)
(* clocks and any number of loads under way: the rows open what they show, *)
(* the list is in order, and only texts that mean another moment here trap.*)
(***************************************************************************)
EXTENDS FeedTable, FiniteSetTheorems, TLAPS

----------------------------------------------------------------------------
\* THE INDUCTIVE INVARIANT

\* Nothing is created in the future.
CreatedBefore == \A id \in Ids : posted[id] # None => posted[id].at <= now

\* RowsOpenWhatTheyShow, by the lengths of the two lists.
RowsInStep ==
    /\ ~dirty /\ ~replaced =>
        /\ Len(rows) <= Len(repository)
        /\ \A i \in DOMAIN rows : rows[i] = repository[i]
    /\ trap = "row" => replaced

Inv == TypeOK /\ CreatedBefore /\ RowsInStep /\ FeedInOrder /\ TrapsNeedForeignTexts

----------------------------------------------------------------------------
\* THE LIST

\* A sorted list of these defects is a list of all of them.
LEMMA SortedIsList ==
    ASSUME NEW ids \in SUBSET Ids, NEW s \in Sorted(ids)
    PROVE  /\ Cardinality(ids) \in Nat
           /\ s \in Seq(Ids) /\ Len(s) = Cardinality(ids)
           /\ \A i \in DOMAIN s : s[i] \in ids
<1>1. Cardinality(ids) \in Nat
  BY FeedAssumption, FS_Subset, FS_CardinalityType
<1>2. s \in [1..Cardinality(ids) -> ids]
  BY DEF Sorted
<1>3. s \in Seq(Ids) /\ Len(s) = Cardinality(ids)
  BY <1>1, <1>2
<1> QED BY <1>1, <1>2, <1>3

\* What has been posted stays as it is.
Kept == \A id \in Ids : posted[id] # None => posted'[id] = posted[id]

\* The texts of what has been posted keep their meaning.
LEMMA MeaningKept ==
    ASSUME Kept
    PROVE  /\ \A id \in Ids : posted[id] # None => (Plain(id)' <=> Plain(id))
           /\ TrapsNeedForeignTexts /\ trap' = trap => TrapsNeedForeignTexts'
<1>1. \A id \in Ids : posted[id] # None => (Plain(id)' <=> Plain(id))
  BY DEF Kept, Plain, Readings, Text
<1>2. ASSUME TrapsNeedForeignTexts, trap' = trap
      PROVE  TrapsNeedForeignTexts'
  BY <1>1, <1>2 DEF TrapsNeedForeignTexts, Kept, TypeOK
<1> QED BY <1>1, <1>2

\* So does the order of a list that keeps its loaded part.
LEMMA OrderKept ==
    ASSUME TypeOK, FeedInOrder, Kept, loaded' = loaded,
           \A i \in 1..loaded : repository'[i] = repository[i]
    PROVE  FeedInOrder'
<1>1. \A i \in 1..loaded : repository[i] \in Ids /\ posted[repository[i]] # None
  BY DEF TypeOK
<1>2. \A i \in 1..loaded : /\ posted'[repository[i]] = posted[repository[i]]
                           /\ Plain(repository[i])' <=> Plain(repository[i])
  BY <1>1, MeaningKept DEF Kept
<1> QED BY <1>2 DEF FeedInOrder, Plain, Readings, Text

----------------------------------------------------------------------------
LEMMA InvInit == Init => Inv
<1> SUFFICES ASSUME Init
             PROVE  Inv
  OBVIOUS
<1> USE DEF Init
<1>1. repository \in Seq(Ids) /\ rows \in Seq(Ids) /\ Len(repository) = 0
  OBVIOUS
<1>2. now \in 0..MaxTime /\ posted \in [Ids -> Defects \cup {None}]
  BY FeedAssumption
<1>3. TypeOK
  <2>1. DOMAIN repository = {} /\ loaded \in 0..Len(repository)
    BY <1>1
  <2> QED BY <1>1, <1>2, <2>1 DEF TypeOK
<1>4. CreatedBefore /\ RowsInStep /\ FeedInOrder /\ TrapsNeedForeignTexts
  BY <1>1 DEF CreatedBefore, RowsInStep, FeedInOrder, TrapsNeedForeignTexts
<1> QED BY <1>3, <1>4 DEF Inv

----------------------------------------------------------------------------
\* THE STEPS

\* A step that touches neither the posted defects nor the list, and does not trap
\* over a date.
LEMMA ScreenStep ==
    ASSUME Inv, UNCHANGED <<now, posted, repository, loaded>>, TypeOK', RowsInStep',
           trap' \in {"date", "future"} => trap' = trap
    PROVE  Inv'
<1>1. CreatedBefore'
  BY DEF Inv, CreatedBefore
<1>2. FeedInOrder' /\ TrapsNeedForeignTexts'
  BY OrderKept, MeaningKept DEF Inv, Kept, TrapsNeedForeignTexts
<1> QED BY <1>1, <1>2 DEF Inv

\* A step that traps over a date that is not plain, and does nothing else.
LEMMA TrapStep ==
    ASSUME Inv, UNCHANGED <<now, posted, repository, loaded, screen, table>>,
           own' \in Nat, stray' \in Nat, trap' \in {"date", "future"},
           NEW id \in Ids, posted[id] # None, ~Plain(id)
    PROVE  Inv'
<1>1. TypeOK' /\ CreatedBefore' /\ RowsInStep'
  BY DEF Inv, TypeOK, CreatedBefore, RowsInStep, table
<1>2. FeedInOrder'
  BY OrderKept DEF Inv, Kept
<1>3. TrapsNeedForeignTexts'
  BY MeaningKept DEF Kept, TrapsNeedForeignTexts
<1> QED BY <1>1, <1>2, <1>3 DEF Inv

\* A defect of the list that traps as the future is not plain.
LEMMA FutureIsForeign ==
    ASSUME Inv, NEW i \in DOMAIN repository, MayTrap(repository[i])
    PROVE  /\ repository[i] \in Ids /\ posted[repository[i]] # None
           /\ ~Plain(repository[i])
<1>1. repository[i] \in Ids /\ posted[repository[i]] \in Defects
  BY DEF Inv, TypeOK
<1>2. posted[repository[i]] # None /\ posted[repository[i]].at <= now
  BY <1>1, FeedAssumption DEF Inv, CreatedBefore
<1>3. posted[repository[i]].at \in Int /\ now \in Int
  BY <1>1 DEF Defects, Inv, TypeOK
<1>4. PICK t \in Readings(repository[i]) : t > now
  BY DEF MayTrap
<1>5. t # posted[repository[i]].at
  BY <1>2, <1>3, <1>4
<1> QED BY <1>1, <1>2, <1>4, <1>5 DEF Plain

\* A new defect keeps what is known of the others.
LEMMA PostStep ==
    ASSUME Inv, NEW id \in Ids, NEW phone \in Phones, posted[id] = None,
           posted' = [posted EXCEPT ![id] = [at |-> now, by |-> phone]], now' = now
    PROVE  /\ Kept
           /\ posted' \in [Ids -> Defects \cup {None}]
           /\ posted'[id] # None
           /\ CreatedBefore'
<1>1. [at |-> now, by |-> phone] \in Defects
  BY DEF Inv, TypeOK, Defects
<1>2. [at |-> now, by |-> phone] # None
  BY <1>1, FeedAssumption
<1>3. /\ posted \in [Ids -> Defects \cup {None}]
      /\ posted' \in [Ids -> Defects \cup {None}]
  BY <1>1 DEF Inv, TypeOK
<1>4. \A i \in Ids : posted'[i] = IF i = id THEN [at |-> now, by |-> phone] ELSE posted[i]
  BY <1>3
<1>5. now \in Int
  BY DEF Inv, TypeOK
<1>6. CreatedBefore'
  BY <1>4, <1>5 DEF Inv, CreatedBefore
<1> QED BY <1>2, <1>3, <1>4, <1>6 DEF Kept
----------------------------------------------------------------------------
\* THE INVARIANT HOLDS

LEMMA InvNext == Inv /\ [Next]_vars => Inv'
<1> SUFFICES ASSUME Inv, [Next]_vars
             PROVE  Inv'
  OBVIOUS
<1> USE DEF loads, table
<1>1. CASE UNCHANGED vars
  <2>1. TypeOK' /\ RowsInStep'
    BY <1>1 DEF vars, Inv, TypeOK, RowsInStep
  <2> QED BY <1>1, <2>1, ScreenStep DEF vars
<1>2. CASE Tick
  <2>1. TypeOK' /\ RowsInStep'
    BY <1>2, FeedAssumption DEF Tick, Inv, TypeOK, RowsInStep
  <2>2. CreatedBefore'
    <3>1. \A id \in Ids : posted[id] # None => posted[id].at \in Int
      BY DEF Inv, TypeOK, Defects
    <3>2. now \in Int /\ now' = now + 1
      BY <1>2 DEF Tick, Inv, TypeOK
    <3> QED BY <1>2, <3>1, <3>2 DEF Tick, Inv, CreatedBefore
  <2>3. FeedInOrder' /\ TrapsNeedForeignTexts'
    BY <1>2, OrderKept, MeaningKept DEF Tick, Inv, Kept
  <2> QED BY <2>1, <2>2, <2>3 DEF Inv
<1>3. ASSUME NEW id \in Ids, NEW phone \in Phones, Post(id, phone)
      PROVE  Inv'
  <2>1. Kept /\ CreatedBefore' /\ posted' \in [Ids -> Defects \cup {None}]
    BY <1>3, PostStep DEF Post
  <2>2. TypeOK' /\ RowsInStep'
    BY <1>3, <2>1 DEF Post, Inv, TypeOK, RowsInStep, Kept
  <2>3. FeedInOrder' /\ TrapsNeedForeignTexts'
    BY <1>3, <2>1, OrderKept, MeaningKept DEF Post, Inv
  <2> QED BY <2>1, <2>2, <2>3 DEF Inv
<1>4. ASSUME NEW isNew \in BOOLEAN, FeedAppears(isNew), trap = "none"
      PROVE  Inv'
  <2>1. TypeOK' /\ RowsInStep'
    BY <1>4 DEF FeedAppears, Inv, TypeOK, RowsInStep
  <2> QED BY <1>4, <2>1, ScreenStep DEF FeedAppears
<1>5. ASSUME LeaveFeed, trap = "none"
      PROVE  Inv'
  <2>1. rows' \in Seq(Ids) /\ Len(rows') = 0 /\ DOMAIN rows' = {}
    BY <1>5 DEF LeaveFeed
  <2>2. /\ UNCHANGED <<now, posted, repository, loaded, dirty, trap>>
        /\ screen' = "home" /\ replaced' = FALSE /\ trap = "none"
        /\ own' = 0 /\ stray' = own + stray
    BY <1>5 DEF LeaveFeed
  <2>3. TypeOK'
    <3>1. own' \in Nat /\ stray' \in Nat
      BY <2>2 DEF Inv, TypeOK
    <3>2. /\ now' \in 0..MaxTime /\ posted' \in [Ids -> Defects \cup {None}]
          /\ repository' \in Seq(Ids) /\ loaded' \in 0..Len(repository')
          /\ \A i \in DOMAIN repository' : posted'[repository'[i]] # None
      BY <2>2 DEF Inv, TypeOK
    <3>3. dirty' \in BOOLEAN /\ replaced' \in BOOLEAN
      BY <2>2 DEF Inv, TypeOK
    <3> QED BY <2>1, <2>2, <3>1, <3>2, <3>3 DEF TypeOK
  <2>4. RowsInStep'
    <3>1. Len(repository) \in Nat
      BY DEF Inv, TypeOK
    <3> QED BY <2>1, <2>2, <3>1 DEF RowsInStep
  <2> QED BY <2>2, <2>3, <2>4, ScreenStep
<1>6. ASSUME Layout, trap = "none"
      PROVE  Inv'
  <2>1. CASE trap' = "future" /\ UNCHANGED table
    <3>1. PICK i \in DOMAIN repository : MayTrap(repository[i])
      BY <1>6, <2>1 DEF Layout, Inv, TypeOK
    <3> QED BY <1>6, <2>1, <3>1, FutureIsForeign, TrapStep DEF Layout, Inv, TypeOK
  <2>2. CASE rows' = repository /\ dirty' = FALSE /\ replaced' = FALSE /\ UNCHANGED trap
    <3>1. /\ UNCHANGED <<now, posted, repository, loaded, screen, own, stray, trap>>
          /\ rows' = repository /\ dirty' = FALSE /\ replaced' = FALSE /\ trap = "none"
      BY <1>6, <2>2 DEF Layout
    <3>2. TypeOK'
      BY <3>1 DEF Inv, TypeOK
    <3>3. RowsInStep'
      BY <3>1 DEF Inv, TypeOK, RowsInStep
    <3> QED BY <3>1, <3>2, <3>3, ScreenStep
  <2> QED BY <1>6, <2>1, <2>2 DEF Layout
<1>7. ASSUME NEW i \in DOMAIN rows, Scroll(i), trap = "none"
      PROVE  Inv'
  <2>1. CASE i \notin DOMAIN repository /\ trap' = "row" /\ UNCHANGED rows
    <3>1. replaced
      BY <1>7, <2>1 DEF Scroll, Inv, TypeOK, RowsInStep
    <3>2. TypeOK' /\ RowsInStep'
      BY <1>7, <2>1, <3>1 DEF Scroll, Inv, TypeOK, RowsInStep
    <3> QED BY <1>7, <2>1, <3>2, ScreenStep DEF Scroll
  <2>2. CASE /\ i \in DOMAIN repository /\ MayTrap(repository[i])
             /\ trap' = "future" /\ UNCHANGED rows
    BY <1>7, <2>2, FutureIsForeign, TrapStep DEF Scroll, Inv, TypeOK
  <2>3. CASE /\ i \in DOMAIN repository /\ UNCHANGED trap
             /\ rows' = [rows EXCEPT ![i] = repository[i]]
    <3>1. /\ rows' \in Seq(Ids) /\ Len(rows') = Len(rows) /\ DOMAIN rows' = DOMAIN rows
          /\ \A j \in DOMAIN rows : rows'[j] = IF j = i THEN repository[i] ELSE rows[j]
      BY <2>3 DEF Inv, TypeOK
    <3>2. TypeOK' /\ RowsInStep'
      BY <1>7, <2>3, <3>1 DEF Scroll, Inv, TypeOK, RowsInStep
    <3> QED BY <1>7, <2>3, <3>2, ScreenStep DEF Scroll
  <2> QED BY <1>7, <2>1, <2>2, <2>3 DEF Scroll
<1>8. ASSUME NEW i \in DOMAIN rows, SelectRow(i), trap = "none"
      PROVE  Inv'
  <2>1. i \notin DOMAIN repository => replaced
    BY <1>8 DEF SelectRow, Inv, TypeOK, RowsInStep
  <2>2. TypeOK' /\ RowsInStep'
    BY <1>8, <2>1 DEF SelectRow, Inv, TypeOK, RowsInStep
  <2> QED BY <1>8, <2>2, ScreenStep DEF SelectRow
<1>9. CASE NewDefect
  <2>1. TypeOK' /\ RowsInStep'
    BY <1>9 DEF NewDefect, Inv, TypeOK, RowsInStep
  <2> QED BY <1>9, <2>1, ScreenStep DEF NewDefect
<1>10. ASSUME NEW id \in Ids, createDefect(id)
       PROVE  Inv'
  <2>1. /\ Kept /\ CreatedBefore' /\ posted' \in [Ids -> Defects \cup {None}]
        /\ posted'[id] # None
    BY <1>10, PostStep, FeedAssumption DEF createDefect
  <2>2. /\ repository' \in Seq(Ids) /\ Len(repository') = Len(repository) + 1
        /\ \A i \in DOMAIN repository : repository'[i] = repository[i]
        /\ \A i \in DOMAIN repository' :
              i \in DOMAIN repository \/ repository'[i] = id
        /\ DOMAIN repository = 1..Len(repository) /\ Len(repository) \in Nat
    BY <1>10 DEF createDefect, Inv, TypeOK
  <2>3. \A i \in DOMAIN repository' : posted'[repository'[i]] # None
    BY <2>1, <2>2 DEF Inv, TypeOK, Kept
  <2>4. TypeOK'
    BY <1>10, <2>1, <2>2, <2>3 DEF createDefect, Inv, TypeOK
  <2>5. RowsInStep'
    BY <1>10, <2>2 DEF createDefect, Inv, TypeOK, RowsInStep
  <2>6. FeedInOrder' /\ TrapsNeedForeignTexts'
    BY <1>10, <2>1, <2>2, OrderKept, MeaningKept DEF createDefect, Inv, TypeOK
  <2> QED BY <2>1, <2>4, <2>5, <2>6 DEF Inv
<1>11. ASSUME NEW mine \in BOOLEAN, FailLoad(mine)
       PROVE  Inv'
  <2>1. TypeOK' /\ RowsInStep'
    BY <1>11 DEF FailLoad, Ends, Inv, TypeOK, RowsInStep
  <2> QED BY <1>11, <2>1, ScreenStep DEF FailLoad
<1>12. ASSUME NEW mine \in BOOLEAN, NEW ids \in SUBSET {id \in Ids : posted[id] # None},
              LoadAllDefects(ids, mine), trap = "none"
       PROVE  Inv'
  <2>1. own' \in Nat /\ stray' \in Nat
    BY <1>12 DEF LoadAllDefects, Ends, Inv, TypeOK
  <2>2. CASE /\ \E id \in ids : Readings(id) = {}
             /\ trap' = "date" /\ UNCHANGED <<repository, loaded, table>>
    <3>1. PICK id \in ids : Readings(id) = {}
      BY <2>2
    <3>2. id \in Ids /\ posted[id] # None /\ ~Plain(id)
      BY <3>1 DEF Plain
    <3> QED BY <1>12, <2>1, <2>2, <3>2, TrapStep DEF LoadAllDefects
  <2>3. CASE /\ repository' \in Sorted(ids) /\ loaded' = Cardinality(ids)
             /\ dirty' = (dirty \/ mine)
             /\ replaced' = (replaced \/ ~mine)
             /\ UNCHANGED <<rows, trap>>
    <3>1. /\ loaded' \in Nat
          /\ repository' \in Seq(Ids) /\ Len(repository') = loaded'
          /\ \A i \in DOMAIN repository' : repository'[i] \in ids
      BY <2>3, SortedIsList
    <3>2. UNCHANGED <<now, posted, screen, trap>>
      BY <1>12, <2>3 DEF LoadAllDefects
    <3>3. TypeOK'
      BY <2>1, <2>3, <3>1, <3>2 DEF Inv, TypeOK
    <3>4. CreatedBefore' /\ RowsInStep'
      BY <1>12, <2>3, <3>2 DEF Inv, TypeOK, CreatedBefore, RowsInStep
    <3>5. FeedInOrder'
      <4> SUFFICES ASSUME NEW i \in (1..loaded)', NEW j \in (1..loaded)', i < j,
                          Plain(repository[i])', Plain(repository[j])'
                   PROVE  (posted[repository[i]].at >= posted[repository[j]].at)'
        BY DEF FeedInOrder
      <4> DEFINE a == repository'[i]
                 b == repository'[j]
      <4>1. i \in 1..Cardinality(ids) /\ j \in 1..Cardinality(ids)
        BY <2>3
      <4>2. Later(a, b)
        BY <2>3, <3>1, <4>1 DEF Sorted
      <4>3. Readings(a) = {posted[a].at} /\ Readings(b) = {posted[b].at}
        BY <3>2 DEF Plain, Readings, Text
      <4>4. posted[a].at >= posted[b].at
        BY <4>2, <4>3 DEF Later
      <4> QED BY <3>2, <4>4
    <3>6. TrapsNeedForeignTexts'
      BY <1>12, <3>2 DEF TrapsNeedForeignTexts
    <3> QED BY <3>3, <3>4, <3>5, <3>6 DEF Inv
  <2> QED BY <1>12, <2>2, <2>3 DEF LoadAllDefects
<1>13. CASE Relaunch
  <2>1. /\ repository' \in Seq(Ids) /\ Len(repository') = 0 /\ DOMAIN repository' = {}
        /\ rows' \in Seq(Ids) /\ Len(rows') = 0 /\ DOMAIN rows' = {}
    BY <1>13 DEF Relaunch
  <2>2. TypeOK'
    <3>1. /\ UNCHANGED <<now, posted>> /\ loaded' = 0 /\ screen' = "home"
          /\ own' = 0 /\ stray' = 0 /\ trap' = "none"
          /\ dirty' = FALSE /\ replaced' = FALSE
      BY <1>13 DEF Relaunch
    <3>2. now' \in 0..MaxTime /\ posted' \in [Ids -> Defects \cup {None}]
      BY <3>1 DEF Inv, TypeOK
    <3>3. loaded' \in 0..Len(repository')
      BY <2>1, <3>1
    <3> QED BY <2>1, <3>1, <3>2, <3>3 DEF TypeOK
  <2>3. CreatedBefore' /\ RowsInStep' /\ FeedInOrder' /\ TrapsNeedForeignTexts'
    BY <1>13, <2>1 DEF Relaunch, Inv, CreatedBefore, RowsInStep, FeedInOrder,
                       TrapsNeedForeignTexts
  <2> QED BY <2>2, <2>3 DEF Inv
<1>14. CASE trap = "none" /\ Running
  BY <1>4, <1>5, <1>6, <1>7, <1>8, <1>9, <1>10, <1>11, <1>12, <1>14
     DEF Running, EnterFeed, Back
<1> QED BY <1>1, <1>2, <1>3, <1>13, <1>14 DEF Next

LEMMA Invariant == Spec => []Inv
BY InvInit, InvNext, PTL DEF Spec

----------------------------------------------------------------------------
\* THEOREMS

\* Every reachable state is well typed: above all, every row of the list of
\* Repository.shared is a defect that somebody has posted.
THEOREM TypeCorrect == Spec => []TypeOK
<1>1. Inv => TypeOK
  BY DEF Inv
<1> QED BY <1>1, Invariant, PTL

\* cellForRowAt and prepare(for:) find the row they are asked for, unless a load of
\* an earlier feed has come in between.
THEOREM RowsAreRight == Spec => []RowsOpenWhatTheyShow
<1>1. Inv => RowsOpenWhatTheyShow
  BY DEF Inv, TypeOK, RowsInStep, RowsOpenWhatTheyShow
<1> QED BY <1>1, Invariant, PTL

\* loadAllDefects leaves the latest defect on top, whatever the clocks of the phones
\* that wrote the others.
THEOREM FeedIsInOrder == Spec => []FeedInOrder
<1>1. Inv => FeedInOrder
  BY DEF Inv
<1> QED BY <1>1, Invariant, PTL

\* A feed whose texts all mean here what they meant where they were written does not
\* trap, neither in getDate()! nor in timeSymbol.
THEOREM OnlyForeignTextsTrap == Spec => []TrapsNeedForeignTexts
<1>1. Inv => TrapsNeedForeignTexts
  BY DEF Inv
<1> QED BY <1>1, Invariant, PTL
=============================================================================
