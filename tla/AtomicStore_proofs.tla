------------------------- MODULE AtomicStore_proofs -------------------------
(***************************************************************************)
(* A device that is alone with the backend sees an atomic store, but for   *)
(* the writes the backend refuses: DefectApi implements AtomicStore, for   *)
(* any defects, documents and bounds.                                      *)
(***************************************************************************)
EXTENDS DefectApi_proofs

\* The hypothesis of every theorem of this module.
Alone == Devices = {Solo}

----------------------------------------------------------------------------
\* LEMMAS

\* Of the writes to a document one is the last.
LEMMA LastWrite ==
    ASSUME NEW muts \in Seq(Mutation), NEW k,
           ~ \A i \in 1..Len(muts) : muts[i].key # k
    PROVE  \E i \in 1..Len(muts) :
                muts[i].key = k /\ \A j \in (i + 1)..Len(muts) : muts[j].key # k
<1> DEFINE n == Len(muts)
           writes == {i \in 1..n : muts[i].key = k}
           top == Max(writes)
<1>1. n \in Nat /\ writes \in SUBSET (1..n) /\ writes # {}
  OBVIOUS
<1>2. \A i \in 1..n : i \in writes <=> muts[i].key = k
  OBVIOUS
<1> HIDE DEF writes, n
<1>3. top \in writes /\ \A i \in writes : i <= top
  BY <1>1, MaxOfPositions
<1> HIDE DEF top
<1>4. top \in 1..n /\ muts[top].key = k
  BY <1>1, <1>2, <1>3
<1>5. \A j \in (top + 1)..n : j \in 1..n /\ ~(j <= top)
  BY <1>1, <1>4
<1>6. \A j \in (top + 1)..n : muts[j].key # k
  BY <1>2, <1>3, <1>5
<1> QED BY <1>4, <1>6 DEF n

\* What lies over a document is the last write to it, if there is one.
LEMMA OverlayNone ==
    ASSUME NEW docs, NEW muts \in Seq(Mutation), NEW k \in DOMAIN docs,
           \A i \in 1..Len(muts) : muts[i].key # k
    PROVE  Overlay(docs, muts)[k] = docs[k]
<1>1. DOMAIN muts = 1..Len(muts)
  OBVIOUS
<1> QED BY <1>1 DEF Overlay

\* A document is what the last write to it says.
LEMMA OverlayLast ==
    ASSUME NEW docs, NEW muts \in Seq(Mutation), NEW k \in DOMAIN docs,
           NEW i \in 1..Len(muts), muts[i].key = k,
           \A j \in (i + 1)..Len(muts) : muts[j].key # k
    PROVE  Overlay(docs, muts)[k] = muts[i].doc
<1> DEFINE writes == {j \in DOMAIN muts : muts[j].key = k}
           n == Len(muts)
           top == Max(writes)
<1>1. DOMAIN muts = 1..n /\ n \in Nat
  OBVIOUS
<1>2. Overlay(docs, muts)[k] = IF writes = {} THEN docs[k] ELSE muts[top].doc
  BY <1>1 DEF Overlay
<1>3. writes \in SUBSET (1..n) /\ i \in writes
  BY <1>1
<1>4. \A j \in writes : j \in 1..n /\ muts[j].key = k
  BY <1>1
<1> HIDE DEF writes
<1>5. top \in writes /\ \A j \in writes : j <= top
  BY <1>1, <1>3, MaxOfPositions
<1> HIDE DEF top
<1>6. i = top
  <2>1. top \notin (i + 1)..n
    BY <1>4, <1>5
  <2>2. top \in 1..n /\ i \in 1..n /\ i <= top
    BY <1>3, <1>4, <1>5
  <2> HIDE DEF n
  <2> QED BY <1>1, <2>1, <2>2
<1> QED BY <1>2, <1>3, <1>6

\* Documents that differ only under a write look the same.
LEMMA OverlayHides ==
    ASSUME NEW docs, NEW other, NEW muts \in Seq(Mutation),
           NEW k \in DOMAIN docs, k \in DOMAIN other,
           docs[k] = other[k] \/ \E i \in 1..Len(muts) : muts[i].key = k
    PROVE  Overlay(docs, muts)[k] = Overlay(other, muts)[k]
<1>1. CASE \A i \in 1..Len(muts) : muts[i].key # k
  <2>1. Overlay(docs, muts)[k] = docs[k]
    BY <1>1, OverlayNone
  <2>2. Overlay(other, muts)[k] = other[k]
    BY <1>1, OverlayNone
  <2> QED BY <1>1, <2>1, <2>2
<1>2. ASSUME NEW i \in 1..Len(muts), muts[i].key = k,
             \A j \in (i + 1)..Len(muts) : muts[j].key # k
      PROVE  Overlay(docs, muts)[k] = Overlay(other, muts)[k]
  <2>1. Overlay(docs, muts)[k] = muts[i].doc
    BY <1>2, OverlayLast
  <2>2. Overlay(other, muts)[k] = muts[i].doc
    BY <1>2, OverlayLast
  <2> QED BY <2>1, <2>2
<1>3. CASE ~ \A i \in 1..Len(muts) : muts[i].key # k
  <2>1. \E i \in 1..Len(muts) :
            muts[i].key = k /\ \A j \in (i + 1)..Len(muts) : muts[j].key # k
    BY <1>3, LastWrite
  <2> QED BY <1>2, <2>1
<1> QED BY <1>1, <1>3

\* A write that joins the queue takes effect.
LEMMA OverlayAppend ==
    ASSUME NEW docs \in [Keys -> MaybeDoc], NEW muts \in Seq(Mutation), NEW m \in Mutation
    PROVE  Overlay(docs, Append(muts, m)) = Write(Overlay(docs, muts), m)
<1> DEFINE n == Len(muts)
           longer == Append(muts, m)
           under == Overlay(docs, muts)
           over == Overlay(docs, longer)
<1>1. /\ longer \in Seq(Mutation) /\ n \in Nat /\ Len(longer) = n + 1
      /\ longer[n + 1] = m /\ \A i \in 1..n : longer[i] = muts[i]
  OBVIOUS
<1>2. over \in [Keys -> MaybeDoc] /\ under \in [Keys -> MaybeDoc]
  BY <1>1, OverlayType
<1>3. m.key \in Keys /\ DOMAIN docs = Keys
  BY DEF Mutation
<1>4. ASSUME NEW k \in Keys
      PROVE  over[k] = IF k = m.key THEN m.doc ELSE under[k]
  <2> HIDE DEF longer, n, over, under
  <2>1. CASE k = m.key
    <3>1. /\ n + 1 \in 1..Len(longer)
          /\ \A j \in ((n + 1) + 1)..Len(longer) : longer[j].key # k
      BY <1>1
    <3>2. over[k] = longer[n + 1].doc
      <4>1. longer \in Seq(Mutation) /\ longer[n + 1].key = k
        BY <1>1, <2>1
      <4> QED BY <1>3, <3>1, <4>1, OverlayLast DEF over
    <3> QED BY <1>1, <2>1, <3>2
  <2>2. CASE k # m.key
    <3>1. CASE \A i \in 1..n : muts[i].key # k
      <4>1. \A i \in 1..Len(longer) : i \in 1..n \/ i = n + 1
        BY <1>1
      <4>2. \A i \in 1..Len(longer) : longer[i].key # k
        BY <1>1, <2>2, <3>1, <4>1
      <4>3. over[k] = docs[k]
        BY <1>1, <1>3, <4>2, OverlayNone DEF over
      <4>4. under[k] = docs[k]
        BY <1>3, <3>1, OverlayNone DEF under, n
      <4> QED BY <2>2, <4>3, <4>4
    <3>2. ASSUME NEW i \in 1..n, muts[i].key = k, \A j \in (i + 1)..n : muts[j].key # k
          PROVE  over[k] = under[k]
      <4>1. /\ i \in 1..Len(longer)
            /\ \A j \in (i + 1)..Len(longer) : j = n + 1 \/ (j \in (i + 1)..n /\ j \in 1..n)
        BY <1>1
      <4>2. \A j \in (i + 1)..Len(longer) : longer[j].key # k
        BY <1>1, <2>2, <3>2, <4>1
      <4>3. over[k] = longer[i].doc
        BY <1>1, <1>3, <3>2, <4>1, <4>2, OverlayLast DEF over
      <4>4. under[k] = muts[i].doc
        BY <1>3, <3>2, OverlayLast DEF under, n
      <4> QED BY <1>1, <4>3, <4>4
    <3>3. CASE ~ \A i \in 1..n : muts[i].key # k
      <4>1. \E i \in 1..n : muts[i].key = k /\ \A j \in (i + 1)..n : muts[j].key # k
        BY <3>3, LastWrite DEF n
      <4> QED BY <2>2, <3>2, <4>1
    <3> QED BY <2>2, <3>1, <3>3
  <2> QED BY <2>1, <2>2
<1> HIDE DEF over, under
<1>5. Write(under, m) = [k \in Keys |-> IF k = m.key THEN m.doc ELSE under[k]]
  BY <1>2, <1>3 DEF Write
<1>6. over = [k \in Keys |-> over[k]]
  BY <1>2
<1> QED BY <1>4, <1>5, <1>6 DEF over, under

\* A write that leaves the queue is not missed if it is in the documents or another
\* lies over it.
LEMMA OverlayTail ==
    ASSUME NEW docs, NEW muts \in Seq(Mutation), muts # <<>>, NEW k \in DOMAIN docs,
           muts[1].key = k => \/ docs[k] = muts[1].doc
                              \/ \E j \in 2..Len(muts) : muts[j].key = k
    PROVE  Overlay(docs, Tail(muts))[k] = Overlay(docs, muts)[k]
<1> DEFINE n == Len(muts)
           rest == Tail(muts)
<1>1. /\ rest \in Seq(Mutation) /\ n \in Nat /\ n >= 1 /\ Len(rest) = n - 1
      /\ \A i \in 1..(n - 1) : rest[i] = muts[i + 1]
  OBVIOUS
<1> HIDE DEF rest, n
<1>2. /\ \A i \in 1..(n - 1) : i + 1 \in 2..n
      /\ \A i \in 2..n : i - 1 \in 1..(n - 1) /\ (i - 1) + 1 = i /\ i \in 1..n
      /\ \A i \in 1..n : i = 1 \/ i \in 2..n
      /\ 1 \in 1..n
  <2>1. n \in Nat /\ n >= 1
    BY <1>1
  <2> QED BY <2>1
<1>3. CASE \A i \in 2..n : muts[i].key # k
  <2>1. \A i \in 1..Len(rest) : rest[i].key # k
    BY <1>1, <1>2, <1>3
  <2>2. Overlay(docs, rest)[k] = docs[k]
    BY <1>1, <2>1, OverlayNone
  <2>3. CASE muts[1].key = k
    <3>1. Overlay(docs, muts)[k] = muts[1].doc
      <4>1. \A j \in (1 + 1)..n : j \in 2..n
        OBVIOUS
      <4> QED BY <1>2, <1>3, <2>3, <4>1, OverlayLast DEF n
    <3> QED BY <1>3, <2>2, <2>3, <3>1 DEF rest, n
  <2>4. CASE muts[1].key # k
    <3>1. \A i \in 1..n : muts[i].key # k
      BY <1>2, <1>3, <2>4
    <3>2. Overlay(docs, muts)[k] = docs[k]
      BY <3>1, OverlayNone DEF n
    <3> QED BY <2>2, <3>2 DEF rest
  <2> QED BY <2>3, <2>4
<1>4. ASSUME NEW h \in 2..n, muts[h].key = k PROVE Overlay(docs, rest)[k] = Overlay(docs, muts)[k]
  <2>1. PICK i \in 1..(n - 1) : /\ rest[i].key = k
                                /\ \A j \in (i + 1)..(n - 1) : rest[j].key # k
    <3>1. rest[h - 1].key = k /\ h - 1 \in 1..Len(rest)
      BY <1>1, <1>2, <1>4
    <3>2. ~ \A j \in 1..Len(rest) : rest[j].key # k
      BY <3>1
    <3>3. \E i \in 1..Len(rest) :
                rest[i].key = k /\ \A j \in (i + 1)..Len(rest) : rest[j].key # k
      BY <1>1, <3>2, LastWrite
    <3> QED BY <1>1, <3>3
  <2>2. /\ i + 1 \in 1..n /\ muts[i + 1] = rest[i]
        /\ \A j \in ((i + 1) + 1)..n : j - 1 \in (i + 1)..(n - 1) /\ j - 1 \in 1..(n - 1)
                                       /\ (j - 1) + 1 = j
    BY <1>1, <2>1
  <2>3. \A j \in ((i + 1) + 1)..n : muts[j] = rest[j - 1] /\ j - 1 \in (i + 1)..(n - 1)
    BY <1>1, <2>2
  <2>4. \A j \in ((i + 1) + 1)..n : muts[j].key # k
    BY <2>1, <2>3
  <2>5. Overlay(docs, muts)[k] = muts[i + 1].doc
    BY <2>1, <2>2, <2>4, OverlayLast DEF n
  <2>6. Overlay(docs, rest)[k] = rest[i].doc
    <3>1. i \in 1..Len(rest) /\ \A j \in (i + 1)..Len(rest) : rest[j].key # k
      BY <1>1, <2>1
    <3>2. rest[i].key = k /\ rest \in Seq(Mutation)
      BY <1>1, <2>1
    <3> QED BY <3>1, <3>2, OverlayLast
  <2> QED BY <2>2, <2>5, <2>6
<1> QED BY <1>3, <1>4 DEF rest

\* Over an empty queue the documents are as they are.
LEMMA OverlayNothing ==
    ASSUME NEW K, NEW docs \in [K -> MaybeDoc]
    PROVE  Overlay(docs, <<>>) = docs
BY DEF Overlay

----------------------------------------------------------------------------
\* WHAT HIDES THE DELAY

\* QueueHidesDelay of one device: its queue q, of which a writes are committed and s
\* of these are in the cache c, over the backend's documents b.
Over(q, i) == \E j \in (i + 1)..Len(q) : q[j].key = q[i].key

Doubts(b, q, c) ==
    {k \in Queried : c[k] # b[k] /\ \A i \in 1..Len(q) : q[i].key # k}

Hides(b, q, a, s, c) ==
    /\ \A i \in 1..a : b[q[i].key] = q[i].doc \/ Over(q, i)
    /\ \A i \in 1..s : q[i].key \in Queried => c[q[i].key] = q[i].doc \/ Over(q, i)

\* A write joins the queue.
LEMMA HidesAppend ==
    ASSUME NEW b, NEW q \in Seq(Mutation), NEW a \in Nat, NEW s \in Nat, NEW c,
           a <= Len(q), s <= a, Hides(b, q, a, s, c), NEW m \in Mutation
    PROVE  Hides(b, Append(q, m), a, s, c)
<1> DEFINE n == Len(q)
           longer == Append(q, m)
<1>1. n \in Nat /\ \A i \in 1..n : longer[i] = q[i]
  OBVIOUS
<1>2. Len(longer) = n + 1
  OBVIOUS
<1> HIDE DEF longer, n
<1>3. /\ \A i \in 1..a : i \in 1..n
      /\ \A i \in 1..s : i \in 1..n
      /\ \A i \in 1..n : \A j \in (i + 1)..n : j \in 1..n /\ j \in (i + 1)..(n + 1)
  BY <1>1 DEF n
<1>4. \A i \in 1..n : Over(q, i) => Over(longer, i)
  BY <1>1, <1>2, <1>3 DEF Over, n
<1>5. \A i \in 1..a : b[longer[i].key] = longer[i].doc \/ Over(longer, i)
  BY <1>1, <1>3, <1>4 DEF Hides
<1>6. \A i \in 1..s : longer[i].key \in Queried =>
            c[longer[i].key] = longer[i].doc \/ Over(longer, i)
  BY <1>1, <1>3, <1>4 DEF Hides
<1> QED BY <1>5, <1>6 DEF Hides, longer

LEMMA DoubtsAppend ==
    ASSUME NEW b, NEW q \in Seq(Mutation), NEW c, NEW m \in Mutation
    PROVE  Doubts(b, Append(q, m), c) = Doubts(b, q, c) \ {m.key}
<1> DEFINE n == Len(q)
           longer == Append(q, m)
<1>1. n \in Nat /\ Len(longer) = n + 1 /\ longer[n + 1] = m /\ \A i \in 1..n : longer[i] = q[i]
  OBVIOUS
<1> HIDE DEF longer, n
<1>2. \A k : (\A i \in 1..(n + 1) : longer[i].key # k)
                <=> k # m.key /\ \A i \in 1..n : q[i].key # k
  <2>1. /\ n + 1 \in 1..(n + 1) /\ \A i \in 1..(n + 1) : i = n + 1 \/ i \in 1..n
        /\ \A i \in 1..n : i \in 1..(n + 1)
    BY <1>1
  <2> QED BY <1>1, <2>1
<1> QED BY <1>1, <1>2 DEF Doubts, n, longer

\* The backend commits the next write: it is in the queue, and lies over what it
\* takes back.
LEMMA HidesCommit ==
    ASSUME NEW b \in [Keys -> MaybeDoc], NEW q \in Seq(Mutation),
           NEW a \in Nat, NEW s \in Nat, NEW c,
           a < Len(q), Hides(b, q, a, s, c)
    PROVE  /\ Hides(Write(b, q[a + 1]), q, a + 1, s, c)
           /\ Doubts(Write(b, q[a + 1]), q, c) = Doubts(b, q, c)
<1> DEFINE n == Len(q)
           m == q[a + 1]
           after == Write(b, m)
<1>1. n \in Nat /\ DOMAIN q = 1..n /\ \A i \in 1..n : q[i] \in Mutation
  OBVIOUS
<1> HIDE DEF n
<1>2. /\ a + 1 \in 1..n
      /\ \A i \in 1..(a + 1) : i \in 1..n /\ (i = a + 1 \/ (i \in 1..a /\ a + 1 \in (i + 1)..n))
  BY <1>1 DEF n
<1>3. \A i \in 1..n : q[i].key \in Keys /\ q[i].doc \in MaybeDoc
  BY <1>1 DEF Mutation, MaybeDoc
<1>4. \A k \in Keys : after[k] = IF k = m.key THEN m.doc ELSE b[k]
  BY DEF Write
<1> HIDE DEF after
<1>5. ASSUME NEW i \in 1..(a + 1)
      PROVE  after[q[i].key] = q[i].doc \/ Over(q, i)
  <2>1. CASE i = a + 1
    BY <1>2, <1>3, <1>4, <2>1
  <2>2. CASE i # a + 1 /\ q[i].key = m.key
    <3>1. a + 1 \in (i + 1)..n
      BY <1>2, <2>2
    <3> QED BY <2>2, <3>1 DEF Over, n
  <2>3. CASE i # a + 1 /\ q[i].key # m.key
    <3>1. i \in 1..a /\ i \in 1..n
      BY <1>2, <2>3
    <3>2. b[q[i].key] = q[i].doc \/ Over(q, i)
      BY <3>1 DEF Hides
    <3>3. after[q[i].key] = b[q[i].key]
      BY <1>3, <1>4, <2>3, <3>1
    <3> QED BY <3>2, <3>3
  <2> QED BY <2>1, <2>2, <2>3
<1>6. ASSUME NEW k \in Queried
      PROVE  (\A i \in 1..n : q[i].key # k) => after[k] = b[k]
  BY <1>2, <1>4, SyncAssumption
<1>7. \A i \in 1..s : q[i].key \in Queried => c[q[i].key] = q[i].doc \/ Over(q, i)
  BY DEF Hides
<1>8. Doubts(after, q, c) = Doubts(b, q, c)
  BY <1>6 DEF Doubts, n
<1> QED BY <1>5, <1>7, <1>8 DEF Hides, after

\* The first write leaves the queue: the cache has it, or a later one, or another
\* write still lies over it.
LEMMA HidesTail ==
    ASSUME NEW b \in [Keys -> MaybeDoc], NEW q \in Seq(Mutation),
           NEW a \in Nat, NEW s \in Nat, NEW c \in Snapshot,
           a > 0, a <= Len(q), s <= a, Hides(b, q, a, s, c)
    PROVE  LET after == IF s = 0 /\ Head(q).key \in Queried THEN Write(c, Head(q)) ELSE c
           IN  /\ Hides(b, Tail(q), a - 1, IF s = 0 THEN 0 ELSE s - 1, after)
               /\ Doubts(b, Tail(q), after) = Doubts(b, q, c)
<1> DEFINE n == Len(q)
           rest == Tail(q)
           h == q[1]
           left == IF s = 0 THEN 0 ELSE s - 1
           after == IF s = 0 /\ h.key \in Queried THEN Write(c, h) ELSE c
<1>1. /\ n \in Nat /\ Len(rest) = n - 1 /\ \A i \in 1..(n - 1) : rest[i] = q[i + 1]
      /\ Head(q) = h /\ h \in Mutation
  OBVIOUS
<1> HIDE DEF rest, n
<1>2. /\ \A i \in 1..(n - 1) : i + 1 \in 1..n /\ i \in Int
      /\ \A i \in 2..n : i - 1 \in 1..(n - 1) /\ (i - 1) + 1 = i
      /\ \A i \in 1..n : i = 1 \/ i \in 2..n
      /\ 1 \in 1..n /\ 1 \in 1..a /\ (s # 0 => 1 \in 1..s)
      /\ \A i \in 1..(a - 1) : i + 1 \in 1..a /\ i \in 1..(n - 1)
      /\ \A i \in 1..left : s # 0 /\ i + 1 \in 1..s /\ i \in 1..(n - 1)
      /\ \A i \in 1..(n - 1) : \A j \in ((i + 1) + 1)..n :
            j - 1 \in (i + 1)..(n - 1) /\ j - 1 \in 1..(n - 1) /\ (j - 1) + 1 = j
      /\ \A j \in (1 + 1)..n : j \in 2..n
  BY <1>1 DEF n
<1>3. \A i \in 1..(n - 1) : Over(q, i + 1) => Over(rest, i)
  <2> SUFFICES ASSUME NEW i \in 1..(n - 1), NEW j \in ((i + 1) + 1)..n,
                      q[j].key = q[i + 1].key
               PROVE  Over(rest, i)
    BY DEF Over, n
  <2>1. j - 1 \in (i + 1)..(n - 1) /\ j - 1 \in 1..(n - 1) /\ (j - 1) + 1 = j
    BY <1>2
  <2>2. rest[j - 1].key = rest[i].key
    BY <1>1, <2>1
  <2> QED BY <1>1, <2>1, <2>2 DEF Over
<1>4. Over(q, 1) => \E i \in 1..(n - 1) : rest[i].key = h.key
  <2> SUFFICES ASSUME NEW j \in (1 + 1)..n, q[j].key = h.key
               PROVE  \E i \in 1..(n - 1) : rest[i].key = h.key
    BY DEF Over, n
  <2>1. j - 1 \in 1..(n - 1) /\ (j - 1) + 1 = j
    BY <1>2
  <2> QED BY <1>1, <2>1
<1>5. \A i \in 1..(a - 1) : b[rest[i].key] = rest[i].doc \/ Over(rest, i)
  BY <1>1, <1>2, <1>3 DEF Hides
<1>6. \A i \in 1..left : rest[i].key \in Queried =>
            after[rest[i].key] = rest[i].doc \/ Over(rest, i)
  <2> HIDE DEF left, h
  <2>1. \A i \in 1..left : s # 0 /\ i + 1 \in 1..s /\ rest[i] = q[i + 1] /\ i \in 1..(n - 1)
    BY <1>1, <1>2
  <2> QED BY <1>3, <2>1 DEF Hides
<1>7. ASSUME NEW k \in Queried
      PROVE  after[k] # b[k] /\ (\A i \in 1..(n - 1) : rest[i].key # k)
                <=> c[k] # b[k] /\ \A i \in 1..n : q[i].key # k
  <2> HIDE DEF left
  <2>1. CASE h.key = k
    <3> HIDE DEF after
    <3>1. SUFFICES ASSUME \A i \in 1..(n - 1) : rest[i].key # k PROVE after[k] = b[k]
      BY <1>2, <2>1
    <3> USE DEF after
    <3>2. ~Over(q, 1)
      BY <1>4, <2>1, <3>1
    <3>3. b[k] = h.doc
      BY <1>2, <2>1, <3>2 DEF Hides
    <3>4. CASE s = 0
      <4>1. after = Write(c, h)
        BY <2>1, <3>4
      <4> QED BY <2>1, <3>3, <4>1 DEF Write, Snapshot
    <3>5. CASE s # 0
      <4>1. c[k] = h.doc
        BY <1>2, <2>1, <3>2, <3>5 DEF Hides
      <4> QED BY <3>3, <3>5, <4>1
    <3> QED BY <3>4, <3>5
  <2>2. CASE h.key # k
    <3>1. (\A i \in 1..(n - 1) : rest[i].key # k) <=> \A i \in 1..n : q[i].key # k
      <4>1. \A i \in 1..(n - 1) : i + 1 \in 1..n /\ rest[i] = q[i + 1]
        BY <1>1, <1>2
      <4>2. \A i \in 1..n : i = 1 \/ (i - 1 \in 1..(n - 1) /\ rest[i - 1] = q[i])
        BY <1>1, <1>2
      <4> QED BY <2>2, <4>1, <4>2
    <3>2. after[k] = c[k]
      BY <2>2 DEF Write, Snapshot
    <3> QED BY <3>1, <3>2
  <2> QED BY <2>1, <2>2
<1> HIDE DEF left, after, h
<1>8. Hides(b, rest, a - 1, left, after)
  BY <1>1, <1>5, <1>6 DEF Hides
<1>9. Doubts(b, rest, after) = Doubts(b, q, c)
  <2>1. \A k \in Queried :
            after[k] # b[k] /\ (\A i \in 1..Len(rest) : rest[i].key # k)
                <=> c[k] # b[k] /\ \A i \in 1..Len(q) : q[i].key # k
    BY <1>1, <1>7 DEF n
  <2> QED BY <2>1 DEF Doubts
<1> QED BY <1>1, <1>8, <1>9 DEF left, after, rest

\* The first write leaves the queue for another reason: the device may be left in doubt
\* about its document, and about no other.
LEMMA DoubtsTail ==
    ASSUME NEW b, NEW q \in Seq(Mutation), NEW c, q # <<>>
    PROVE  Doubts(b, Tail(q), c) \in {Doubts(b, q, c), Doubts(b, q, c) \cup {Head(q).key}}
<1> DEFINE n == Len(q)
           rest == Tail(q)
<1>1. /\ n \in Nat /\ 1 \in 1..n /\ Len(rest) = n - 1
      /\ \A i \in 1..(n - 1) : rest[i] = q[i + 1]
      /\ Head(q) = q[1]
  OBVIOUS
<1> HIDE DEF rest, n
<1>2. /\ \A i \in 1..(n - 1) : i + 1 \in 1..n
      /\ \A i \in 1..n : i = 1 \/ (i - 1 \in 1..(n - 1) /\ (i - 1) + 1 = i)
  BY <1>1
<1>3. \A k : (\A i \in 1..n : q[i].key # k)
                <=> k # q[1].key /\ \A i \in 1..(n - 1) : rest[i].key # k
  <2>1. \A i \in 1..(n - 1) : i + 1 \in 1..n /\ rest[i] = q[i + 1]
    BY <1>1, <1>2
  <2>2. \A i \in 1..n : i = 1 \/ (i - 1 \in 1..(n - 1) /\ rest[i - 1] = q[i])
    BY <1>1, <1>2
  <2> SUFFICES ASSUME NEW k
               PROVE  (\A i \in 1..n : q[i].key # k)
                            <=> k # q[1].key /\ \A i \in 1..(n - 1) : rest[i].key # k
    OBVIOUS
  <2>3. (\A i \in 1..n : q[i].key # k)
            => k # q[1].key /\ \A i \in 1..(n - 1) : rest[i].key # k
    BY <1>1, <2>1
  <2>4. k # q[1].key /\ (\A i \in 1..(n - 1) : rest[i].key # k)
            => \A i \in 1..n : q[i].key # k
    BY <2>2
  <2> QED BY <2>3, <2>4
<1> DEFINE D == Doubts(b, q, c)
           E == Doubts(b, rest, c)
           h == q[1].key
<1>4. \A k : k \in D <=> k \in Queried /\ c[k] # b[k] /\ k # h
                                /\ \A i \in 1..(n - 1) : rest[i].key # k
  BY <1>3 DEF Doubts, n
<1>5. \A k : k \in E <=> k \in Queried /\ c[k] # b[k]
                                /\ \A i \in 1..(n - 1) : rest[i].key # k
  BY <1>1 DEF Doubts
<1> HIDE DEF D, E, h
<1>6. E \in {D, D \cup {h}}
  <2>1. CASE h \in E
    BY <1>4, <1>5, <2>1
  <2>2. CASE h \notin E
    <3>1. D \subseteq E /\ E \subseteq D
      BY <1>4, <1>5, <2>2
    <3> QED BY <3>1
  <2> QED BY <2>1, <2>2
<1> QED BY <1>1, <1>6 DEF D, E, h, rest

\* QueueHidesDelay, device by device, before and after a step.
LEMMA HidesPerDevice ==
    /\ \A d \in Devices : /\ Doubtful(d) = Doubts(server, queue[d], cache[d])
                          /\ Doubtful(d)' = Doubts(server', queue'[d], cache'[d])
    /\ QueueHidesDelay <=> \A d \in Devices :
            /\ Hides(server, queue[d], applied[d], synced[d], cache[d])
            /\ Doubtful(d) \subseteq refused
    /\ QueueHidesDelay' <=> \A d \in Devices :
            /\ Hides(server', queue'[d], applied'[d], synced'[d], cache'[d])
            /\ Doubtful(d)' \subseteq refused'
<1>1. \A d \in Devices : /\ Doubtful(d) = Doubts(server, queue[d], cache[d])
                        /\ Doubtful(d)' = Doubts(server', queue'[d], cache'[d])
  BY DEF Doubtful, Doubts
<1>2. QueueHidesDelay <=> \A d \in Devices :
            /\ Hides(server, queue[d], applied[d], synced[d], cache[d])
            /\ Doubtful(d) \subseteq refused
  BY DEF QueueHidesDelay, CommittedIsThere, SyncedIsCached, DoubtNeedsRefusal,
         Rewritten, Hides, Over
<1>3. QueueHidesDelay' <=> \A d \in Devices :
            /\ Hides(server', queue'[d], applied'[d], synced'[d], cache'[d])
            /\ Doubtful(d)' \subseteq refused'
  BY DEF QueueHidesDelay, CommittedIsThere, SyncedIsCached, DoubtNeedsRefusal,
         Rewritten, Hides, Over
<1> QED BY <1>1, <1>2, <1>3

\* At the start there is nothing to hide.
LEMMA DelayInit == ApiInit => QueueHidesDelay
<1> SUFFICES ASSUME ApiInit, NEW d \in Devices
             PROVE  /\ Hides(server, queue[d], applied[d], synced[d], cache[d])
                    /\ Doubtful(d) \subseteq refused
  BY HidesPerDevice
<1>1. /\ queue[d] = <<>> /\ applied[d] = 0 /\ synced[d] = 0
      /\ \A k \in Queried : cache[d][k] = server[k]
  BY SyncAssumption DEF ApiInit, SyncInit
<1> QED BY <1>1 DEF Hides, Doubtful

\* The steps of the queue and the cache, and what they do to the doubts.  A refusal takes
\* a write from the queue, be it one that was committed and lost its acknowledgement,
\* before the cache has it.
LEMMA DoubtsStep ==
    ASSUME SyncTypeOK, NEW d \in Devices,
           Hides(server, queue[d], applied[d], synced[d], cache[d])
    PROVE  /\ WriteLocally(d) => Doubtful(d)' = Doubtful(d) \ {Head(calls[d]).key}
           /\ Commit(d) \/ Acknowledge(d) \/ LoseStream(d) \/ Crash(d)
                => Doubtful(d)' = Doubtful(d)
           /\ RaiseFromServer(d) => Doubtful(d)' = {}
           /\ Refuse(d) =>
                Doubtful(d)' \in {Doubtful(d), Doubtful(d) \cup {Head(queue[d]).key}}
           /\ WriteLocally(d) \/ Commit(d) \/ Acknowledge(d) \/ LoseStream(d) \/ Crash(d)
                \/ RaiseFromServer(d) \/ Refuse(d)
                => Hides(server', queue'[d], applied'[d], synced'[d], cache'[d])
<1>1. /\ server \in [Keys -> MaybeDoc]
      /\ calls[d] \in Seq(Mutation \cup {Query}) /\ queue[d] \in Seq(Mutation)
      /\ applied[d] \in Nat /\ synced[d] \in Nat /\ cache[d] \in Snapshot
      /\ synced[d] <= applied[d] /\ applied[d] <= Len(queue[d])
      /\ Hides(server, queue[d], applied[d], synced[d], cache[d])
      /\ Doubtful(d) = Doubts(server, queue[d], cache[d])
      /\ Doubtful(d)' = Doubts(server', queue'[d], cache'[d])
  BY HidesPerDevice DEF SyncTypeOK
<1>2. ASSUME WriteLocally(d)
      PROVE  /\ Doubtful(d)' = Doubtful(d) \ {Head(calls[d]).key}
             /\ Hides(server', queue'[d], applied'[d], synced'[d], cache'[d])
  <2>1. /\ queue'[d] = Append(queue[d], Head(calls[d])) /\ Head(calls[d]) \in Mutation
        /\ UNCHANGED <<server, applied, synced, cache>>
    <3>1. /\ calls[d] # <<>> /\ Head(calls[d]) # Query
          /\ queue' = [queue EXCEPT ![d] = Append(queue[d], Head(calls[d]))]
          /\ UNCHANGED <<server, applied, synced, cache>>
      BY <1>2 DEF WriteLocally
    <3>2. Head(calls[d]) \in Mutation
      BY <1>1, <3>1
    <3> QED BY <3>1, <3>2 DEF SyncTypeOK
  <2> DEFINE m == Head(calls[d])
             q == queue[d]
             a == applied[d]
             s == synced[d]
             c == cache[d]
  <2>2. /\ m \in Mutation /\ q \in Seq(Mutation) /\ a \in Nat /\ s \in Nat
        /\ a <= Len(q) /\ s <= a /\ Hides(server, q, a, s, c)
    BY <1>1, <2>1
  <2> HIDE DEF m, q, a, s, c
  <2>3. Hides(server, Append(q, m), a, s, c)
    BY <2>2, HidesAppend
  <2>4. Doubts(server, Append(q, m), c) = Doubts(server, q, c) \ {m.key}
    <3>1. \A b, x : \A muts \in Seq(Mutation) : \A w \in Mutation :
            Doubts(b, Append(muts, w), x) = Doubts(b, muts, x) \ {w.key}
      BY DoubtsAppend
    <3> QED BY <2>2, <3>1
  <2> QED BY <1>1, <2>1, <2>3, <2>4 DEF m, q, a, s, c
<1>3. ASSUME Commit(d)
      PROVE  /\ Doubtful(d)' = Doubtful(d)
             /\ Hides(server', queue'[d], applied'[d], synced'[d], cache'[d])
  <2>1. /\ server' = Write(server, queue[d][applied[d] + 1])
        /\ applied'[d] = applied[d] + 1 /\ applied[d] < Len(queue[d])
        /\ UNCHANGED <<queue, synced, cache>>
    BY <1>3 DEF Commit, SyncTypeOK
  <2> QED BY <1>1, <2>1, HidesCommit
<1>4. ASSUME Acknowledge(d)
      PROVE  /\ Doubtful(d)' = Doubtful(d)
             /\ Hides(server', queue'[d], applied'[d], synced'[d], cache'[d])
  <2> DEFINE h == Head(queue[d])
             left == IF synced[d] = 0 THEN 0 ELSE synced[d] - 1
             after == IF synced[d] = 0 /\ h.key \in Queried THEN Write(cache[d], h) ELSE cache[d]
  <2>1. /\ applied[d] > 0 /\ queue'[d] = Tail(queue[d])
        /\ applied'[d] = applied[d] - 1 /\ server' = server
    BY <1>4 DEF Acknowledge, SyncTypeOK
  <2>2. synced'[d] = left
    BY <1>4 DEF Acknowledge, SyncTypeOK
  <2>3. cache'[d] = after
    BY <1>4 DEF Acknowledge, SyncTypeOK
  <2>4. /\ Hides(server, Tail(queue[d]), applied[d] - 1, left, after)
        /\ Doubts(server, Tail(queue[d]), after) = Doubts(server, queue[d], cache[d])
    BY <1>1, <2>1, HidesTail
  <2> HIDE DEF left, after
  <2> QED BY <1>1, <2>1, <2>2, <2>3, <2>4
<1>5. ASSUME LoseStream(d) \/ Crash(d)
      PROVE  /\ Doubtful(d)' = Doubtful(d)
             /\ Hides(server', queue'[d], applied'[d], synced'[d], cache'[d])
  <2>1. applied'[d] = 0 /\ synced'[d] = 0 /\ UNCHANGED <<server, queue, cache>>
    BY <1>5 DEF LoseStream, Crash, SyncTypeOK
  <2> QED BY <1>1, <2>1, SyncAssumption DEF Hides, Doubts
<1>6. ASSUME RaiseFromServer(d)
      PROVE  /\ Doubtful(d)' = {}
             /\ Hides(server', queue'[d], applied'[d], synced'[d], cache'[d])
  <2>1. /\ cache'[d] = [k \in Queried |-> server[k]] /\ synced'[d] = applied[d]
        /\ UNCHANGED <<server, queue, applied>>
    BY <1>6 DEF RaiseFromServer, Raise, SyncTypeOK
  <2> QED BY <1>1, <2>1, SyncAssumption DEF Hides, Doubts
<1>7. ASSUME Refuse(d)
      PROVE  /\ Doubtful(d)' \in {Doubtful(d), Doubtful(d) \cup {Head(queue[d]).key}}
             /\ Hides(server', queue'[d], applied'[d], synced'[d], cache'[d])
  <2>1. /\ queue[d] # <<>> /\ queue'[d] = Tail(queue[d])
        /\ applied'[d] = 0 /\ synced'[d] = 0 /\ UNCHANGED <<server, cache>>
    BY <1>1, <1>7 DEF Refuse, SyncTypeOK
  <2>2. Hides(server', queue'[d], applied'[d], synced'[d], cache'[d])
    BY <2>1 DEF Hides
  <2> QED BY <1>1, <2>1, <2>2, DoubtsTail
<1> QED BY <1>2, <1>3, <1>4, <1>5, <1>6, <1>7

\* One step per action.  With other devices, which write to the backend behind this one's
\* back, the step fails.
LEMMA DelayStep ==
    ASSUME Alone, SyncTypeOK, QueueHidesDelay, [ApiNext]_syncVars
    PROVE  QueueHidesDelay'
<1>1. \A d \in Devices : /\ Hides(server, queue[d], applied[d], synced[d], cache[d])
                        /\ Doubtful(d) \subseteq refused
  BY HidesPerDevice
<1>2. \A d, e \in Devices : e = d
  BY DEF Alone
<1>3. SUFFICES ASSUME NEW d \in Devices
               PROVE  /\ Hides(server', queue'[d], applied'[d], synced'[d], cache'[d])
                      /\ Doubtful(d)' \subseteq refused'
  BY HidesPerDevice
<1>4. CASE UNCHANGED <<server, queue, applied, synced, cache, refused>>
  BY <1>1, <1>4 DEF Doubtful
<1>5. CASE WriteLocally(d) \/ Commit(d) \/ Acknowledge(d) \/ LoseStream(d) \/ Crash(d)
           \/ RaiseFromServer(d)
  <2>1. refused' = refused
    BY <1>5 DEF WriteLocally, Commit, Acknowledge, LoseStream, Crash, RaiseFromServer, Raise
  <2> QED BY <1>1, <1>5, <2>1, DoubtsStep
<1>6. CASE Refuse(d)
  <2>1. refused' = refused \cup {Head(queue[d]).key}
    BY <1>6 DEF Refuse
  <2> QED BY <1>1, <1>6, <2>1, DoubtsStep
<1>7. ASSUME NEW e \in Devices, NEW id \in Ids, NEW doc \in Docs,
              Post(e, id, doc) \/ Put(e, id, doc) \/ Archive(e, id, doc)
       PROVE  UNCHANGED <<server, queue, applied, synced, cache, refused>>
  BY <1>7 DEF Post, Put, Archive, Submit
<1>8. ASSUME NEW e \in Devices, GetAllDefects(e) \/ Deliver(e) \/ Listen(e)
              \/ RaiseFromCache(e) \/ FailQuery(e)
       PROVE  UNCHANGED <<server, queue, applied, synced, cache, refused>>
  BY <1>8 DEF GetAllDefects, Ask, Deliver, Listen, RaiseFromCache, Raise, FailQuery,
               writeVars
<1>9. CASE UNCHANGED syncVars
  BY <1>4, <1>9 DEF syncVars
<1> QED
  <2>1. CASE ApiNext
    <3>1. PICK e \in Devices :
            \/ \E id \in Ids, doc \in Docs :
                    Post(e, id, doc) \/ Put(e, id, doc) \/ Archive(e, id, doc)
            \/ GetAllDefects(e) \/ Deliver(e) \/ SyncStep(e) \/ Crash(e)
      BY <2>1, Zenon DEF ApiNext
    <3>2. e = d
      BY <1>2
    <3> QED BY <1>4, <1>5, <1>6, <1>7, <1>8, <3>1, <3>2, Zenon
            DEF SyncStep
  <2> QED BY <1>9, <2>1

\* What the queue is for: a device that is alone and whose cache and backend disagree
\* about a document has a write of it still queued, unless one was refused.
THEOREM DelayIsHidden ==
    ASSUME Alone
    PROVE  ApiSpec => []QueueHidesDelay
<1>1. SyncTypeOK /\ QueueHidesDelay /\ [ApiNext]_syncVars => QueueHidesDelay'
  BY DelayStep
<1>2. ApiSpec => []SyncTypeOK
  BY TypeCorrect
<1> QED BY <1>1, <1>2, DelayInit, PTL DEF ApiSpec

----------------------------------------------------------------------------
\* AN ATOMIC STORE

\* The SDK's own steps: a write takes effect when the worker queue runs it, and all that
\* happens to it on its way to the backend and back shows in nothing.
LEMMA QuietStep ==
    ASSUME Alone, SyncTypeOK, SyncTypeOK', QueueHidesDelay,
           \/ WriteLocally(Solo) \/ Commit(Solo) \/ Acknowledge(Solo)
           \/ LoseStream(Solo) \/ Listen(Solo)
    PROVE  Seen!TakeEffect \/ Seen!StartReading \/ UNCHANGED Seen!vars
<1> DEFINE d == Solo
           store == Overlay(server, queue[d])
<1>1. d \in Devices /\ \A e \in Devices : e = d
  BY DEF Alone
<1> HIDE DEF d
<1>2. /\ server \in [Keys -> MaybeDoc] /\ server' \in [Keys -> MaybeDoc]
      /\ calls[d] \in Seq(Mutation \cup {Query}) /\ queue[d] \in Seq(Mutation)
      /\ queue'[d] \in Seq(Mutation)
      /\ applied[d] \in Nat /\ synced[d] \in Nat /\ cache[d] \in Snapshot
      /\ synced[d] <= applied[d] /\ applied[d] <= Len(queue[d])
      /\ Hides(server, queue[d], applied[d], synced[d], cache[d])
  BY <1>1, HidesPerDevice DEF SyncTypeOK
<1>3. store \in [Keys -> MaybeDoc] /\ Overlay(server', queue'[d]) \in [Keys -> MaybeDoc]
  BY <1>2, OverlayType
<1>4. ASSUME UNCHANGED <<store, calls, listens, snapshots, refused>>, Doubtful(d)' = Doubtful(d)
      PROVE  UNCHANGED Seen!vars
  BY <1>4 DEF Seen!vars, d
<1>5. CASE WriteLocally(d)
  <2> DEFINE m == Head(calls[d])
  <2>1. /\ calls[d] # <<>> /\ m # Query /\ calls'[d] = Tail(calls[d])
        /\ queue'[d] = Append(queue[d], m) /\ UNCHANGED <<server, listens, snapshots, refused>>
    BY <1>1, <1>5 DEF WriteLocally, SyncTypeOK, queryVars
  <2>2. m \in Mutation
    BY <1>2, <2>1
  <2> HIDE DEF m
  <2>3. Overlay(server', queue'[d]) = Write(store, m)
    BY <1>2, <2>1, <2>2, OverlayAppend
  <2>4. Doubtful(d)' = Doubtful(d) \ {m.key}
    BY <1>1, <1>2, <1>5, DoubtsStep DEF m
  <2>5. Seen!TakeEffect
    BY <2>1, <2>3, <2>4 DEF Seen!TakeEffect, Write, m, d
  <2> QED BY <2>5
<1>6. CASE Commit(d)
  <2> DEFINE m == queue[d][applied[d] + 1]
  <2>1. /\ server' = Write(server, m) /\ applied[d] < Len(queue[d])
        /\ UNCHANGED <<queue, calls, listens, snapshots, refused>>
    BY <1>6 DEF Commit, queryVars
  <2>2. m \in Mutation /\ applied[d] + 1 \in 1..Len(queue[d])
    BY <1>2, <2>1
  <2>3. \A k \in Keys : server[k] = server'[k] \/ k = m.key
    BY <1>2, <2>1, <2>2 DEF Write
  <2>4. \A k \in Keys : store[k] = Overlay(server', queue[d])[k]
    <3> SUFFICES ASSUME NEW k \in Keys PROVE store[k] = Overlay(server', queue[d])[k]
      OBVIOUS
    <3>1. server[k] = server'[k] \/ \E i \in 1..Len(queue[d]) : queue[d][i].key = k
      BY <2>2, <2>3
    <3>2. /\ server \in [Keys -> MaybeDoc] /\ server' \in [Keys -> MaybeDoc]
          /\ queue[d] \in Seq(Mutation)
      BY <1>2
    <3> QED BY <3>1, <3>2, OverlayHides
  <2> HIDE DEF store
  <2>5. store = Overlay(server', queue'[d])
    BY <1>3, <2>1, <2>4
  <2>6. Doubtful(d)' = Doubtful(d)
    BY <1>1, <1>2, <1>6, DoubtsStep
  <2> QED BY <1>4, <2>1, <2>5, <2>6 DEF store
<1>7. CASE Acknowledge(d)
  <2> DEFINE q == queue[d]
  <2>1. /\ applied[d] > 0 /\ queue'[d] = Tail(q)
        /\ UNCHANGED <<server, calls, listens, snapshots, refused>>
    BY <1>1, <1>7 DEF Acknowledge, SyncTypeOK, queryVars
  <2>2. q # <<>> /\ 1 \in 1..applied[d]
    BY <1>2, <2>1
  <2>3. server[q[1].key] = q[1].doc \/ Over(q, 1)
    BY <1>2, <2>2 DEF Hides
  <2>4. Over(q, 1) => \E j \in 2..Len(q) : q[j].key = q[1].key
    BY DEF Over
  <2>5. ASSUME NEW k \in Keys PROVE Overlay(server, Tail(q))[k] = store[k]
    <3>1. q[1].key = k => \/ server[k] = q[1].doc
                          \/ \E j \in 2..Len(q) : q[j].key = k
      BY <2>3, <2>4
    <3>2. server \in [Keys -> MaybeDoc] /\ q \in Seq(Mutation) /\ q # <<>>
      BY <1>2, <2>2
    <3> HIDE DEF q
    <3>3. Overlay(server, Tail(q))[k] = Overlay(server, q)[k]
      BY <3>1, <3>2, OverlayTail
    <3> QED BY <3>3 DEF q
  <2> HIDE DEF store, q
  <2>6. store = Overlay(server', queue'[d])
    BY <1>3, <2>1, <2>5
  <2>7. Doubtful(d)' = Doubtful(d)
    BY <1>1, <1>2, <1>7, DoubtsStep
  <2> QED BY <1>4, <2>1, <2>6, <2>7 DEF store
<1>8. CASE LoseStream(d)
  <2>1. UNCHANGED <<server, queue, calls, listens, snapshots, refused>>
    BY <1>8 DEF LoseStream, queryVars
  <2>2. Doubtful(d)' = Doubtful(d)
    BY <1>1, <1>2, <1>8, DoubtsStep
  <2> QED BY <1>4, <2>1, <2>2
<1>9. CASE Listen(d)
  <2>1. /\ calls[d] # <<>> /\ Head(calls[d]) = Query /\ calls'[d] = Tail(calls[d])
        /\ listens'[d] = listens[d] + 1 /\ UNCHANGED <<server, queue, cache, snapshots, refused>>
    BY <1>1, <1>9 DEF Listen, SyncTypeOK
  <2>2. Doubtful(d)' = Doubtful(d)
    BY <2>1 DEF Doubtful
  <2>3. Seen!StartReading
    BY <2>1, <2>2 DEF Seen!StartReading, d
  <2> QED BY <2>3
<1> QED BY <1>5, <1>6, <1>7, <1>8, <1>9 DEF d

\* A query is answered with the documents docs: where they agree with the backend, or a
\* write of the device lies over them, the answer is what the store has.
LEMMA AnswerShows ==
    ASSUME SyncTypeOK, NEW d \in Devices, NEW docs \in Snapshot, NEW k \in Queried,
           docs[k] = server[k] \/ \E i \in 1..Len(queue[d]) : queue[d][i].key = k
    PROVE  Overlay(docs, queue[d])[k] = Overlay(server, queue[d])[k]
<1>1. k \in Keys /\ docs \in [Queried -> MaybeDoc]
  BY SyncAssumption DEF Snapshot
<1>2. server \in [Keys -> MaybeDoc] /\ queue[d] \in Seq(Mutation)
  BY DEF SyncTypeOK
<1> QED BY <1>1, <1>2, OverlayHides

\* A refusal shows in no other document than the one whose write is refused.
LEMMA RefusalShows ==
    ASSUME SyncTypeOK, NEW d \in Devices, Refuse(d),
           NEW k \in Keys, k # Head(queue[d]).key
    PROVE  Overlay(server', queue'[d])[k] = Overlay(server, queue[d])[k]
<1> DEFINE q == queue[d]
<1>1. /\ server \in [Keys -> MaybeDoc] /\ q \in Seq(Mutation) /\ q # <<>>
      /\ k # Head(q).key /\ server' = server /\ queue'[d] = Tail(q)
  BY DEF Refuse, SyncTypeOK
<1> HIDE DEF q
<1>2. q[1] = Head(q)
  BY <1>1
<1>3. Overlay(server, Tail(q))[k] = Overlay(server, q)[k]
  BY <1>1, <1>2, OverlayTail
<1> QED BY <1>1, <1>3 DEF q

\* What the device sees of each step of the SDK.
LEMMA SDKStep ==
    ASSUME Alone, SyncTypeOK, SyncTypeOK', QueueHidesDelay, SyncStep(Solo)
    PROVE  \/ Seen!TakeEffect
           \/ Seen!StartReading
           \/ \E docs \in [Queried -> Docs \cup {NoDoc}] : Seen!Answer(docs)
           \/ QueriesMayFail /\ Seen!Fail
           \/ \E k \in Keys, doc \in Docs \cup {NoDoc} : Seen!Refuse(k, doc)
           \/ UNCHANGED Seen!vars
<1> DEFINE d == Solo
           store == Overlay(server, queue[d])
<1>1. d \in Devices /\ \A e \in Devices : e = d
  BY DEF Alone
<1> HIDE DEF d
<1>2. /\ server \in [Keys -> MaybeDoc] /\ server' \in [Keys -> MaybeDoc]
      /\ calls[d] \in Seq(Mutation \cup {Query}) /\ queue[d] \in Seq(Mutation)
      /\ queue'[d] \in Seq(Mutation)
      /\ applied[d] \in Nat /\ synced[d] \in Nat /\ cache[d] \in Snapshot
      /\ synced[d] <= applied[d] /\ applied[d] <= Len(queue[d])
      /\ Hides(server, queue[d], applied[d], synced[d], cache[d])
  BY <1>1, HidesPerDevice DEF SyncTypeOK
<1>3. store \in [Keys -> MaybeDoc] /\ Overlay(server', queue'[d]) \in [Keys -> MaybeDoc]
  BY <1>2, OverlayType
<1>4. CASE WriteLocally(d) \/ Commit(d) \/ Acknowledge(d) \/ LoseStream(d) \/ Listen(d)
  BY <1>4, QuietStep DEF d
<1>5. ASSUME NEW docs \in Snapshot, Raise(d, docs), NEW wrong \in {{}, Doubtful(d)},
             Doubtful(d)' = wrong,
             \A k \in Queried \ wrong : docs[k] = server[k]
                    \/ \E i \in 1..Len(queue[d]) : queue[d][i].key = k
      PROVE  \E answer \in [Queried -> Docs \cup {NoDoc}] : Seen!Answer(answer)
  <2> DEFINE o == Overlay(docs, queue[d])
  <2>1. /\ listens[d] > 0 /\ listens'[d] = listens[d] - 1
        /\ snapshots'[d] = Append(snapshots[d], o)
        /\ UNCHANGED <<server, calls, queue, refused>>
    BY <1>1, <1>5 DEF Raise, SyncTypeOK
  <2>2. o \in [Queried -> Docs \cup {NoDoc}]
    BY <1>2, SyncAssumption, OverlayType DEF Snapshot, MaybeDoc
  <2>3. \A k \in Queried \ wrong : o[k] = store[k]
    BY <1>1, <1>5, AnswerShows
  <2> HIDE DEF o
  <2>4. Seen!Answer(o)
    BY <1>5, <2>1, <2>3 DEF Seen!Answer, d
  <2> QED BY <2>2, <2>4
<1>6. CASE RaiseFromServer(d)
  <2> DEFINE current == [k \in Queried |-> server[k]]
  <2>1. current \in Snapshot /\ Raise(d, current)
    BY <1>2, <1>6, SyncAssumption DEF RaiseFromServer, Snapshot
  <2>2. \A k \in Queried : current[k] = server[k]
    OBVIOUS
  <2>3. Doubtful(d)' = {}
    BY <1>1, <1>2, <1>6, DoubtsStep
  <2> HIDE DEF current
  <2> QED BY <1>5, <2>1, <2>2, <2>3
<1>7. CASE RaiseFromCache(d)
  <2>1. Raise(d, cache[d]) /\ UNCHANGED <<server, queue, cache>>
    BY <1>7 DEF RaiseFromCache, Raise
  <2>2. \A k \in Queried \ Doubtful(d) : cache[d][k] = server[k]
            \/ \E i \in 1..Len(queue[d]) : queue[d][i].key = k
    BY DEF Doubtful
  <2>3. Doubtful(d)' = Doubtful(d)
    BY <2>1 DEF Doubtful
  <2> QED BY <1>2, <1>5, <2>1, <2>2, <2>3
<1>8. CASE FailQuery(d)
  <2>1. /\ QueriesMayFail /\ listens[d] > 0 /\ listens'[d] = listens[d] - 1
        /\ UNCHANGED <<server, queue, cache, calls, snapshots, refused>>
    BY <1>1, <1>8 DEF FailQuery, SyncTypeOK, writeVars
  <2>2. Doubtful(d)' = Doubtful(d)
    BY <2>1 DEF Doubtful
  <2>3. Seen!Fail
    BY <2>1, <2>2 DEF Seen!Fail, d
  <2> QED BY <2>1, <2>3
<1>9. CASE Refuse(d)
  <2> DEFINE h == Head(queue[d]).key
             rest == Overlay(server', queue'[d])
  <2>1. /\ MayRefuse /\ queue[d] # <<>> /\ UNCHANGED <<calls, listens, snapshots>>
        /\ refused' = refused \cup {h}
    BY <1>9 DEF Refuse, queryVars
  <2>2. h \in Keys
    <3> DEFINE q == queue[d]
    <3>1. q \in Seq(Mutation) /\ q # <<>>
      BY <1>2, <2>1
    <3> HIDE DEF q
    <3>2. Head(q) \in Mutation
      BY <3>1
    <3> QED BY <3>2 DEF Mutation, q
  <2>3. Doubtful(d)' \in {Doubtful(d), Doubtful(d) \cup {h}}
    BY <1>1, <1>2, <1>9, DoubtsStep
  <2>4. \A k \in Keys : k # h => rest[k] = store[k]
    BY <1>1, <1>9, RefusalShows
  <2> HIDE DEF h, rest, store
  <2>5. rest = [store EXCEPT ![h] = rest[h]] /\ rest[h] \in Docs \cup {NoDoc}
    BY <1>3, <2>2, <2>4 DEF MaybeDoc, rest
  <2>6. Seen!Refuse(h, rest[h])
    BY <2>1, <2>3, <2>5 DEF Seen!Refuse, d, store, rest
  <2> QED BY <2>2, <2>5, <2>6
<1> QED BY <1>4, <1>6, <1>7, <1>8, <1>9, Zenon DEF SyncStep, d

\* One step per action.
LEMMA StoreStep ==
    ASSUME Alone, SyncTypeOK, SyncTypeOK', QueueHidesDelay, [ApiNext]_syncVars
    PROVE  [Seen!Next]_(Seen!vars)
<1> DEFINE d == Solo
<1>1. d \in Devices /\ \A e \in Devices : e = d
  BY DEF Alone
<1> HIDE DEF d
<1>2. /\ calls[d] \in Seq(Mutation \cup {Query})
      /\ UNCHANGED <<server, queue, cache>> => Doubtful(d)' = Doubtful(d)
  BY <1>1 DEF SyncTypeOK, Doubtful
<1>3. ASSUME NEW id \in Ids, NEW doc \in Docs,
             Post(d, id, doc) \/ Put(d, id, doc) \/ Archive(d, id, doc)
      PROVE  Seen!Next
  <2>1. CASE Post(d, id, doc) \/ Put(d, id, doc)
    <3> DEFINE m == Set(Live(id), doc)
    <3>1. m \in Mutation /\ calls'[d] = calls[d] \o <<m>>
          /\ UNCHANGED <<server, queue, cache, listens, snapshots, refused>>
      BY <1>1, <2>1, CallsType DEF Post, Put, Submit, SyncTypeOK, queryVars
    <3> HIDE DEF m
    <3>2. Seen!Call(<<m>>)
      BY <1>2, <3>1 DEF Seen!Call, d
    <3> QED BY <3>1, <3>2 DEF Seen!Next, Seen!Mutation, Mutation
  <2>2. CASE Archive(d, id, doc)
    <3> DEFINE m1 == Set(Archived(id), doc)
               m2 == Delete(Live(id))
    <3>1. m1 \in Mutation /\ m2 \in Mutation /\ calls'[d] = calls[d] \o <<m1, m2>>
          /\ UNCHANGED <<server, queue, cache, listens, snapshots, refused>>
      BY <1>1, <2>2, CallsType DEF Archive, Submit, SyncTypeOK, queryVars
    <3> HIDE DEF m1, m2
    <3>2. Seen!Call(<<m1, m2>>)
      BY <1>2, <3>1 DEF Seen!Call, d
    <3> QED BY <3>1, <3>2 DEF Seen!Next, Seen!Mutation, Mutation
  <2> QED BY <1>3, <2>1, <2>2
<1>4. CASE GetAllDefects(d)
  <2>1. calls'[d] = Append(calls[d], Query)
        /\ UNCHANGED <<server, queue, cache, listens, snapshots, refused>>
    BY <1>1, <1>4 DEF GetAllDefects, Ask, SyncTypeOK, queryVars
  <2>2. Append(calls[d], Query) = calls[d] \o <<Query>>
    BY <1>2
  <2>3. Seen!Call(<<Query>>)
    BY <1>2, <2>1, <2>2 DEF Seen!Call, d
  <2> QED BY <2>3 DEF Seen!Next
<1>5. CASE Deliver(d)
  <2>1. snapshots[d] # <<>> /\ snapshots'[d] = Tail(snapshots[d])
        /\ UNCHANGED <<server, queue, cache, calls, listens, refused>>
    BY <1>1, <1>5 DEF Deliver, SyncTypeOK, writeVars
  <2>2. Seen!Consume
    BY <1>2, <2>1 DEF Seen!Consume, d
  <2> QED BY <2>2 DEF Seen!Next
<1>6. CASE Crash(d)
  <2>1. /\ calls'[d] = <<>> /\ listens'[d] = 0 /\ snapshots'[d] = <<>>
        /\ UNCHANGED <<server, queue, cache, refused>>
    BY <1>1, <1>6 DEF Crash, SyncTypeOK
  <2>2. Seen!Crash
    BY <1>2, <2>1 DEF Seen!Crash, d
  <2> QED BY <2>2 DEF Seen!Next
<1>7. CASE SyncStep(d)
  BY <1>7, SDKStep DEF Seen!Next, d
<1>8. CASE UNCHANGED syncVars
  BY <1>2, <1>8 DEF syncVars, Seen!vars, d
<1> QED
  <2>1. CASE ApiNext
    <3>1. PICK e \in Devices :
            \/ \E id \in Ids, doc \in Docs :
                    Post(e, id, doc) \/ Put(e, id, doc) \/ Archive(e, id, doc)
            \/ GetAllDefects(e) \/ Deliver(e) \/ SyncStep(e) \/ Crash(e)
      BY <2>1, Zenon DEF ApiNext
    <3>2. e = d
      BY <1>1
    <3> QED BY <1>3, <1>4, <1>5, <1>6, <1>7, <3>1, <3>2, Zenon
  <2> QED BY <1>8, <2>1

\* A device that starts sees the initial state of the store.
LEMMA StoreInit ==
    ASSUME Alone, ApiInit
    PROVE  Seen!Init
<1>1. /\ server = [k \in Keys |-> NoDoc] /\ server \in [Keys -> MaybeDoc]
      /\ queue[Solo] = <<>> /\ calls[Solo] = <<>>
      /\ listens[Solo] = 0 /\ snapshots[Solo] = <<>> /\ refused = {}
  <2>1. Solo \in Devices
    BY DEF Alone
  <2> QED BY <2>1 DEF ApiInit, SyncInit, MaybeDoc
<1>2. Overlay(server, queue[Solo]) = server
  BY <1>1, OverlayNothing
<1>3. Doubtful(Solo) = {}
  <2>1. \A k \in Queried : cache[Solo][k] = server[k]
    BY SyncAssumption DEF Alone, ApiInit, SyncInit
  <2> QED BY <2>1 DEF Doubtful
<1> QED BY <1>1, <1>2, <1>3 DEF Seen!Init

\* Alone with the backend a device sees an atomic store: neither lost acknowledgements
\* nor commits repeated nor crashes nor the cache show in what a query answers, and a
\* refusal shows in the document that was refused and in no other.
THEOREM SoloSeesAnAtomicStore ==
    ASSUME Alone
    PROVE  ApiSpec => SoloSeesAtomicStore
<1>1. ApiInit => Seen!Init
  BY StoreInit
<1>2. SyncTypeOK /\ SyncTypeOK' /\ QueueHidesDelay /\ [ApiNext]_syncVars
            => [Seen!Next]_(Seen!vars)
  BY StoreStep
<1>3. ApiSpec => []SyncTypeOK
  BY TypeCorrect
<1>4. ApiSpec => []QueueHidesDelay
  BY DelayIsHidden
<1> QED BY <1>1, <1>2, <1>3, <1>4, PTL DEF ApiSpec, SoloSeesAtomicStore, Seen!Spec
============================================================================
