-------------------------- MODULE WriteStream_proofs --------------------------
(***************************************************************************)
(* Proofs about WriteStream, for any number of users and writes and any    *)
(* bounds: the SDK's assertions hold, results are matched with the writes  *)
(* they are about, what one user writes stays with that user, and no write *)
(* leaves its queue for nothing.                                           *)
(*                                                                         *)
(* The invariant says how a change of user is handed on (HopsOK), which    *)
(* tokens may be on their way and for which start of the stream (TokensOK, *)
(* OneRequest), that ids are unique (IdsOK), and what is under way on the  *)
(* stream in each of its states (FlowOK).                                  *)
(***************************************************************************)
EXTENDS WriteStream, SequenceTheorems, FiniteSetTheorems, TLAPS

----------------------------------------------------------------------------
\* NUMBERS AND SEQUENCES

\* A finite set misses one of so many numbers.
LEMMA UnusedIsUnused ==
    ASSUME NEW S, IsFiniteSet(S)
    PROVE  Unused(S) \in Nat /\ Unused(S) \notin S
<1> DEFINE c == Cardinality(S)
<1>1. c \in Nat
  BY FS_CardinalityType
<1>2. \E n \in 0..c : n \notin S
  <2> SUFFICES ASSUME 0..c \subseteq S PROVE FALSE
    OBVIOUS
  <2>1. Cardinality(0..c) <= c
    BY FS_Subset
  <2>2. Cardinality(0..c) = c + 1
    BY <1>1, FS_Interval
  <2> QED BY <1>1, <2>1, <2>2
<1> HIDE DEF c
<1>3. Unused(S) \in 0..c /\ Unused(S) \notin S
  BY <1>2 DEF Unused, c
<1> QED BY <1>1, <1>3

\* Two numbers in a row are missing from a finite set of numbers.
LEMMA TwoFreeNumbers ==
    ASSUME NEW used \in SUBSET Nat, IsFiniteSet(used)
    PROVE  \E n \in 0..(2 * Cardinality(used)) : n \notin used /\ n + 1 \notin used
<1> DEFINE before == {k - 1 : k \in used}
           f == [k \in used |-> k - 1]
           c == Cardinality(used)
<1>1. c \in Nat
  BY FS_CardinalityType
<1>2. IsFiniteSet(before) /\ Cardinality(before) <= c
  <2>1. f \in Surjection(used, before)
    BY DEF Surjection
  <2> QED BY <2>1, FS_Surjection
<1>3. IsFiniteSet(used \cup before) /\ Cardinality(used \cup before) <= 2 * c
  <2>1. Cardinality(before) \in Nat
    BY <1>2, FS_CardinalityType
  <2>2. /\ IsFiniteSet(used \cup before)
        /\ Cardinality(used \cup before)
               = c + Cardinality(before) - Cardinality(used \cap before)
    <3> HIDE DEF before
    <3> QED BY <1>2, FS_Union
  <2>3. Cardinality(used \cap before) \in Nat
    BY FS_Subset, FS_CardinalityType
  <2> QED BY <1>1, <1>2, <2>1, <2>2, <2>3
<1>4. ~(0..(2 * c) \subseteq used \cup before)
  <2> HIDE DEF before, c
  <2> SUFFICES ASSUME 0..(2 * c) \subseteq used \cup before PROVE FALSE
    OBVIOUS
  <2>1. Cardinality(0..(2 * c)) <= Cardinality(used \cup before)
    BY <1>3, FS_Subset
  <2>2. Cardinality(0..(2 * c)) = 2 * c + 1
    BY <1>1, FS_Interval
  <2>3. Cardinality(used \cup before) \in Nat
    BY <1>3, FS_CardinalityType
  <2> QED BY <1>1, <1>3, <2>1, <2>2, <2>3
<1>5. PICK n \in 0..(2 * c) : n \notin used \cup before
  BY <1>4
<1>6. n + 1 \notin used
  <2> SUFFICES ASSUME n + 1 \in used PROVE FALSE
    OBVIOUS
  <2>1. (n + 1) - 1 \in before
    OBVIOUS
  <2>2. (n + 1) - 1 = n
    BY <1>1, <1>5
  <2> QED BY <1>5, <2>1, <2>2
<1> QED BY <1>5, <1>6

\* The elements of a sequence are finitely many.
LEMMA ElementsFinite ==
    ASSUME NEW S, NEW s \in Seq(S)
    PROVE  IsFiniteSet(Elements(s)) /\ Elements(s) \subseteq S
<1> DEFINE f == [i \in 1..Len(s) |-> s[i]]
<1>1. IsFiniteSet(1..Len(s))
  BY FS_Interval
<1>2. f \in Surjection(1..Len(s), Elements(s))
  BY DEF Surjection, Elements
<1>3. IsFiniteSet(Elements(s))
  <2> HIDE DEF f
  <2> QED BY <1>1, <1>2, FS_Surjection
<1> QED BY <1>3 DEF Elements

\* The head of a queue in which every id is there once.
LEMMA WithoutHead ==
    ASSUME NEW S, NEW s \in Seq(S), s # <<>>,
           \A i, j \in DOMAIN s : s[i].id = s[j].id => i = j
    PROVE  /\ Len(Without(s, Head(s))) = Len(s) - 1
           /\ Without(s, Head(s)) \in Seq(S)
           /\ \A i \in 1..(Len(s) - 1) : Without(s, Head(s))[i] = s[i + 1]
<1> DEFINE n == CHOOSE i \in DOMAIN s : s[i].id = Head(s).id
           t == [i \in 1..(Len(s) - 1) |-> IF i < n THEN s[i] ELSE s[i + 1]]
<1>1. Without(s, Head(s)) = t
  BY DEF Without
<1>2. Len(s) \in Nat /\ Len(s) >= 1 /\ Head(s) = s[1] /\ DOMAIN s = 1..Len(s)
  OBVIOUS
<1>3. n = 1
  <2>1. n \in DOMAIN s /\ s[n].id = s[1].id
    BY <1>2
  <2> HIDE DEF n
  <2> QED BY <1>2, <2>1
<1> HIDE DEF n
<1>4. \A i \in 1..(Len(s) - 1) : t[i] = s[i + 1] /\ s[i + 1] \in S
  BY <1>2, <1>3
<1>5. t \in [1..(Len(s) - 1) -> S] /\ Len(s) - 1 \in Nat
  BY <1>2, <1>4
<1> HIDE DEF t
<1>6. t \in Seq(S) /\ Len(t) = Len(s) - 1
  BY <1>5
<1> QED BY <1>1, <1>4, <1>6

----------------------------------------------------------------------------
\* THE STREAM

StreamOK(s) ==
    /\ s \in Stream
    /\ s.state = "Open" <=> s.token # None
    /\ s.state # "Open" => s.requests = <<>> /\ s.responses = <<>>
    /\ Len(s.pipeline) <= MaxPipeline

\* Two streams that differ in their state at most.
Alike(s, t) ==
    /\ t.pipeline = s.pipeline /\ t.requests = s.requests /\ t.responses = s.responses
    /\ t.token = s.token /\ t.status = s.status /\ t.closes = s.closes
    /\ t.handshake <=> s.handshake
    /\ t.idle <=> s.idle

\* StartIfNeeded changes the state alone.
LEMMA StartIs ==
    ASSUME NEW s, StreamOK(s)
    PROVE  /\ StreamOK(StartIfNeeded(s))
           /\ Alike(s, StartIfNeeded(s))
           /\ \/ /\ StartIfNeeded(s).state = s.state
                 /\ IsStarted(s) \/ s.pipeline = <<>>
              \/ /\ s.state \in {"Initial", "Error"} /\ s.pipeline # <<>>
                 /\ StartIfNeeded(s).state \in {"Starting", "Backoff"}
<1>1. CASE IsStarted(s) \/ s.pipeline = <<>>
  BY <1>1 DEF StartIfNeeded, Alike
<1>2. CASE ~(IsStarted(s) \/ s.pipeline = <<>>)
  <2>1. PICK state \in {"Starting", "Backoff"} :
            StartIfNeeded(s) = [s EXCEPT !.state = state]
    BY <1>2 DEF StartIfNeeded
  <2>2. s \in Stream
    BY DEF StreamOK
  <2>3. s.state \in {"Initial", "Error"}
    BY <1>2, <2>2 DEF IsStarted, Stream
  <2>4. Alike(s, StartIfNeeded(s)) /\ StartIfNeeded(s).state = state
    BY <2>1, <2>2 DEF Alike, Stream
  <2>5. StartIfNeeded(s) \in Stream
    BY <2>1, <2>2 DEF Stream
  <2>6. StreamOK(StartIfNeeded(s))
    BY <2>3, <2>4, <2>5 DEF StreamOK, Alike
  <2> QED BY <1>2, <2>3, <2>4, <2>6
<1> QED BY <1>1, <1>2

\* What joins the pipeline, and is sent, place by place.
Filled(s, t, queue) ==
    LET old == Len(s.pipeline)
        new == Len(t.pipeline)
        sent == Len(s.requests)
    IN  /\ new = IF old <= Min2(Len(queue), MaxPipeline)
                 THEN Min2(Len(queue), MaxPipeline) ELSE old
        /\ \A i \in 1..old : t.pipeline[i] = s.pipeline[i]
        /\ \A i \in (old + 1)..new : t.pipeline[i] = queue[i]
        /\ ~Writable(s) => t.requests = s.requests
        /\ Writable(s) => /\ Len(t.requests) = sent + (new - old)
                          /\ \A i \in 1..sent : t.requests[i] = s.requests[i]
                          /\ \A i \in 1..(new - old) : t.requests[sent + i] = queue[old + i]
        /\ t.idle <=> \/ s.state = "Open" /\ new = 0
                      \/ s.idle /\ ~(Writable(s) /\ new > old)
        /\ t.responses = s.responses /\ t.token = s.token
        /\ t.status = s.status /\ t.closes = s.closes
        /\ t.handshake <=> s.handshake

\* FillWritePipeline is StartIfNeeded of the stream with what joins it.
LEMMA FillIs ==
    ASSUME NEW s, StreamOK(s), NEW queue \in Seq(Writes)
    PROVE  \E t : /\ Fill(s, queue) = StartIfNeeded(t)
                  /\ StreamOK(t) /\ t.state = s.state
                  /\ Filled(s, t, queue)
<1> DEFINE last == Min2(Len(queue), MaxPipeline)
           old == Len(s.pipeline)
           more == SubSeq(queue, old + 1, last)
           pipeline == s.pipeline \o more
           requests == IF Writable(s) THEN s.requests \o more ELSE s.requests
           idle == \/ s.state = "Open" /\ pipeline = <<>>
                   \/ s.idle /\ ~(Writable(s) /\ more # <<>>)
           t == [s EXCEPT !.pipeline = pipeline, !.requests = requests, !.idle = idle]
           n == IF old <= last THEN last - old ELSE 0
<1>1. Fill(s, queue) = StartIfNeeded(t)
  BY DEF Fill
<1>2. /\ s.pipeline \in Seq(Writes) /\ s.requests \in Seq(Writes \cup {Handshake})
      /\ old \in Nat /\ old <= MaxPipeline /\ Len(s.requests) \in Nat
  BY DEF StreamOK, Stream
<1>3. /\ last \in Nat /\ MaxPipeline \in Nat /\ Len(queue) \in Nat
      /\ last <= Len(queue) /\ last <= MaxPipeline
  BY StreamAssumption DEF Min2
<1>4. n \in Nat /\ old + n <= MaxPipeline
      /\ old + n = IF old <= last THEN last ELSE old
  <2> HIDE DEF old, last
  <2> QED BY <1>2, <1>3
<1>5. /\ more \in Seq(Writes) /\ Len(more) = n
      /\ \A i \in 1..n : more[i] = queue[old + i]
  <2> DEFINE a == old + 1
  <2>1. a \in Int /\ last \in Int /\ \A i \in a..last : queue[i] \in Writes
    BY <1>2, <1>3
  <2> HIDE DEF last, a
  <2>2. /\ SubSeq(queue, a, last) \in Seq(Writes)
        /\ Len(SubSeq(queue, a, last)) = IF a <= last THEN last - a + 1 ELSE 0
        /\ \A i \in 1..(last - a + 1) : SubSeq(queue, a, last)[i] = queue[a + i - 1]
    BY <2>1, SubSeqProperties
  <2>3. /\ (IF a <= last THEN last - a + 1 ELSE 0) = n
        /\ \A i \in 1..n : i \in 1..(last - a + 1) /\ a + i - 1 = old + i
    <3> HIDE DEF old
    <3> QED BY <1>2, <1>3 DEF a
  <2> HIDE DEF n
  <2>4. more = SubSeq(queue, a, last)
    BY DEF a
  <2> HIDE DEF more
  <2> QED BY <2>2, <2>3, <2>4
<1> HIDE DEF more, last, n
<1>6. /\ pipeline \in Seq(Writes) /\ Len(pipeline) = old + n
      /\ \A i \in 1..old : pipeline[i] = s.pipeline[i]
      /\ \A i \in (old + 1)..(old + n) : pipeline[i] = queue[i]
  <2>1. /\ pipeline \in Seq(Writes) /\ Len(pipeline) = old + n
        /\ \A i \in 1..(old + n) : pipeline[i] =
                IF i <= old THEN s.pipeline[i] ELSE more[i - old]
    BY <1>2, <1>5, ConcatProperties, ZenonT(30)
  <2> HIDE DEF pipeline, old
  <2>2. \A i \in (old + 1)..(old + n) : i - old \in 1..n /\ old + (i - old) = i /\ ~(i <= old)
    BY <1>2, <1>4
  <2>3. \A i \in 1..old : i \in 1..(old + n) /\ i <= old
    BY <1>2, <1>4
  <2>4. \A i \in (old + 1)..(old + n) : i \in 1..(old + n)
    BY <1>2, <1>4
  <2> QED BY <1>5, <2>1, <2>2, <2>3, <2>4
<1>7. /\ requests \in Seq(Writes \cup {Handshake})
      /\ ~Writable(s) => requests = s.requests
      /\ Writable(s) =>
            /\ Len(requests) = Len(s.requests) + n
            /\ \A i \in 1..Len(s.requests) : requests[i] = s.requests[i]
            /\ \A i \in 1..n : requests[Len(s.requests) + i] = queue[old + i]
  <2>1. CASE ~Writable(s)
    BY <1>2, <2>1
  <2>2. CASE Writable(s)
    <3> DEFINE sent == Len(s.requests)
    <3>1. requests = s.requests \o more /\ more \in Seq(Writes \cup {Handshake})
      BY <1>5, <2>2
    <3>2. /\ requests \in Seq(Writes \cup {Handshake})
          /\ Len(requests) = sent + n
          /\ \A i \in 1..(sent + n) :
              requests[i] = IF i <= sent THEN s.requests[i] ELSE more[i - sent]
      <4> DEFINE all == Writes \cup {Handshake}
      <4>1. s.requests \in Seq(all) /\ more \in Seq(all) /\ Len(more) = n
        BY <1>2, <1>5, <3>1
      <4>2. requests = s.requests \o more
        BY <3>1
      <4> HIDE DEF all, requests
      <4>3. /\ requests \in Seq(all) /\ Len(requests) = Len(s.requests) + Len(more)
            /\ \A i \in 1..(Len(s.requests) + Len(more)) :
                requests[i] = IF i <= Len(s.requests) THEN s.requests[i]
                              ELSE more[i - Len(s.requests)]
        BY <4>1, <4>2, ConcatProperties
      <4> QED BY <4>1, <4>3 DEF all
    <3>3. sent \in Nat
      BY <1>2
    <3> HIDE DEF requests, sent, old
    <3>4. \A i \in 1..sent : i \in 1..(sent + n) /\ i <= sent
      BY <1>4, <3>3
    <3>5. \A i \in 1..n : sent + i \in 1..(sent + n) /\ ~(sent + i <= sent)
                          /\ (sent + i) - sent = i
      BY <1>4, <3>3
    <3>6. \A i \in 1..n : requests[sent + i] = queue[old + i]
      BY <1>5, <3>2, <3>5
    <3>7. \A i \in 1..sent : requests[i] = s.requests[i]
      BY <3>2, <3>4
    <3> QED BY <2>2, <3>2, <3>6, <3>7 DEF sent
  <2> QED BY <2>1, <2>2
<1>8. /\ pipeline = <<>> <=> old + n = 0
      /\ more # <<>> <=> old + n > old
  <2> HIDE DEF pipeline, old
  <2> QED BY <1>2, <1>4, <1>5, <1>6
<1> HIDE DEF pipeline, requests
<1>9. idle <=> \/ s.state = "Open" /\ old + n = 0
               \/ s.idle /\ ~(Writable(s) /\ old + n > old)
  BY <1>8
<1> HIDE DEF idle
<1>10. /\ t.pipeline = pipeline /\ t.requests = requests /\ (t.idle <=> idle)
       /\ t.responses = s.responses /\ t.token = s.token /\ t.status = s.status
       /\ t.closes = s.closes /\ t.state = s.state
       /\ t.handshake <=> s.handshake
  BY DEF StreamOK, Stream
<1>11. t \in Stream
  <2>1. s \in Stream /\ idle \in BOOLEAN
    BY DEF StreamOK, idle
  <2> QED BY <1>6, <1>7, <2>1 DEF Stream
<1> HIDE DEF t
<1>12. StreamOK(t)
  <2>1. Len(t.pipeline) <= MaxPipeline
    BY <1>4, <1>6, <1>10
  <2>2. t.state # "Open" => t.requests = <<>> /\ t.responses = <<>>
    BY <1>7, <1>10 DEF StreamOK, Writable
  <2> QED BY <1>10, <1>11, <2>1, <2>2 DEF StreamOK
<1>13. Filled(s, t, queue)
  <2> DEFINE new == Len(t.pipeline)
  <2>1. new = old + n /\ new - old = n
    <3>1. new = old + n
      BY <1>6, <1>10
    <3> HIDE DEF new, old
    <3> QED BY <1>2, <1>4, <3>1
  <2>2. new = IF old <= last THEN last ELSE old
    BY <1>4, <2>1
  <2>3. \A i \in (old + 1)..new : t.pipeline[i] = queue[i]
    BY <1>6, <1>10, <2>1
  <2>4. \A i \in 1..old : t.pipeline[i] = s.pipeline[i]
    BY <1>6, <1>10
  <2>5. Writable(s) =>
            /\ Len(t.requests) = Len(s.requests) + (new - old)
            /\ \A i \in 1..Len(s.requests) : t.requests[i] = s.requests[i]
            /\ \A i \in 1..(new - old) : t.requests[Len(s.requests) + i] = queue[old + i]
    <3> HIDE DEF new, old
    <3> QED BY <1>7, <1>10, <2>1
  <2>6. ~Writable(s) => t.requests = s.requests
    BY <1>7, <1>10
  <2>7. t.idle <=> \/ s.state = "Open" /\ new = 0
                   \/ s.idle /\ ~(Writable(s) /\ new > old)
    <3> HIDE DEF new, old
    <3> QED BY <1>9, <1>10, <2>1
  <2> QED BY <1>10, <2>2, <2>3, <2>4, <2>5, <2>6, <2>7 DEF Filled, last
<1> QED BY <1>1, <1>10, <1>12, <1>13

\* Every write in the pipeline or on the wire is the user's, and so is the token.
Own(s, u) ==
    /\ \A i \in DOMAIN s.pipeline : s.pipeline[i].user = u
    /\ \A i \in DOMAIN s.requests : s.requests[i] # Handshake => s.requests[i].user = u
    /\ s.token \in {None, u}

AllOf(queue, u) == \A i \in DOMAIN queue : queue[i].user = u

\* The pipeline is the head of the queue.
Heads(s, queue) ==
    /\ Len(s.pipeline) <= Min2(Len(queue), MaxPipeline)
    /\ \A i \in 1..Len(s.pipeline) : s.pipeline[i] = queue[i]

Quiet(s) == s.state # "Open" => ~s.handshake /\ s.status = None /\ ~s.idle

\* Before the handshake is complete it is all that is under way.
Shaking(s) == s.state = "Open" /\ ~s.handshake =>
    \/ s.status = None /\ s.responses = <<Handshake>> /\ s.requests = <<>>
    \/ s.status = None /\ s.responses = <<>> /\ s.requests = <<Handshake>>
    \/ s.status # None /\ s.responses = <<>> /\ s.requests = <<>>

\* After it the pipeline is, first what was committed, then what was sent; a write
\* that was refused has only committed ones before it, the results under way among
\* them.
Talking(s, done) == s.handshake =>
    /\ Len(s.responses) <= Len(s.pipeline)
    /\ \A i \in 1..Len(s.responses) :
          s.responses[i] = s.pipeline[i] /\ s.pipeline[i].id \in done
    /\ s.status = None =>
        /\ Len(s.responses) + Len(s.requests) = Len(s.pipeline)
        /\ \A i \in 1..Len(s.requests) : s.requests[i] = s.pipeline[Len(s.responses) + i]
    /\ s.status # None => \E k \in (Len(s.responses) + 1)..Len(s.pipeline) :
        /\ s.status = s.pipeline[k]
        /\ \A i \in 1..(k - 1) : s.pipeline[i].id \in done

\* An idle stream has nothing to do, a stream on its way has.
Busy(s) ==
    /\ s.idle => s.handshake /\ Len(s.pipeline) = 0
    /\ IsStarted(s) /\ ~s.handshake => Len(s.pipeline) > 0

Flow(s, queue, done) ==
    Heads(s, queue) /\ Quiet(s) /\ Shaking(s) /\ Talking(s, done) /\ Busy(s)

\* There is no more to do, and somebody does it.
Full(s, queue) ==
    /\ Len(s.pipeline) = Min2(Len(queue), MaxPipeline)
    /\ Len(s.pipeline) > 0 => IsStarted(s)

\* Starting the stream leaves what is under way on it alone.
LEMMA StartFlows ==
    ASSUME NEW t, StreamOK(t), NEW queue, NEW done, NEW u,
           Flow(t, queue, done), Own(t, u),
           Len(t.pipeline) = Min2(Len(queue), MaxPipeline)
    PROVE  /\ StreamOK(StartIfNeeded(t))
           /\ Flow(StartIfNeeded(t), queue, done) /\ Full(StartIfNeeded(t), queue)
           /\ Own(StartIfNeeded(t), u)
           /\ StartIfNeeded(t).closes = t.closes
           /\ \/ StartIfNeeded(t).state = t.state
              \/ /\ t.state \in {"Initial", "Error"}
                 /\ StartIfNeeded(t).state \in {"Starting", "Backoff"}
<1> DEFINE f == StartIfNeeded(t)
           new == Len(t.pipeline)
<1>1. /\ StreamOK(f) /\ Alike(t, f)
      /\ \/ f.state = t.state /\ (IsStarted(t) \/ t.pipeline = <<>>)
         \/ /\ t.state \in {"Initial", "Error"} /\ t.pipeline # <<>>
            /\ f.state \in {"Starting", "Backoff"}
  BY StartIs
<1>2. new \in Nat /\ (t.pipeline = <<>> <=> new = 0)
  BY DEF StreamOK, Stream
<1>3. f.state = "Open" <=> t.state = "Open"
  BY <1>1
<1> HIDE DEF f
<1>4. Heads(f, queue)
  BY <1>1 DEF Alike, Heads, Flow
<1>5. Shaking(f) /\ Quiet(f)
  BY <1>1, <1>3, Zenon DEF Alike, Shaking, Quiet, Flow
<1>6. Talking(f, done)
  <2>1. /\ f.pipeline = t.pipeline /\ f.requests = t.requests
        /\ f.responses = t.responses /\ f.status = t.status
    BY <1>1 DEF Alike
  <2>2. f.handshake <=> t.handshake
    BY <1>1 DEF Alike
  <2>3. CASE ~t.handshake
    BY <2>2, <2>3, Zenon DEF Talking
  <2>4. CASE t.handshake
    <3>1. Talking(t, done)
      BY DEF Flow
    <3> QED BY <2>1, <2>4, <3>1, ZenonT(30) DEF Talking
  <2> QED BY <2>3, <2>4
<1>7. Own(f, u)
  BY <1>1 DEF Alike, Own
<1>8. Busy(f)
  <2>1. IsStarted(f) /\ ~IsStarted(t) => new > 0
    <3>1. IsStarted(f) /\ ~IsStarted(t) => new # 0
      BY <1>1, <1>2 DEF IsStarted
    <3> HIDE DEF new
    <3> QED BY <1>2, <3>1
  <2> QED BY <1>1, <2>1 DEF Busy, Alike, Flow
<1>9. Full(f, queue)
  <2>1. Len(f.pipeline) > 0 => IsStarted(f)
    <3>1. ASSUME ~IsStarted(f) PROVE new = 0
      BY <1>1, <1>2, <3>1 DEF IsStarted
    <3> QED BY <1>1, <3>1 DEF Alike
  <2> QED BY <1>1, <2>1 DEF Full, Alike
<1> QED BY <1>1, <1>4, <1>5, <1>6, <1>7, <1>8, <1>9 DEF f, Flow, Alike

\* FillWritePipeline keeps the pipeline and what is under way in step.
LEMMA FillFlows ==
    ASSUME NEW s, StreamOK(s), NEW queue \in Seq(Writes), NEW done, NEW u,
           Flow(s, queue, done), Own(s, u), AllOf(queue, u)
    PROVE  /\ StreamOK(Fill(s, queue))
           /\ Flow(Fill(s, queue), queue, done) /\ Full(Fill(s, queue), queue)
           /\ Own(Fill(s, queue), u)
           /\ Fill(s, queue).closes = s.closes
           /\ \/ Fill(s, queue).state = s.state
              \/ /\ s.state \in {"Initial", "Error"}
                 /\ Fill(s, queue).state \in {"Starting", "Backoff"}
<1>1. PICK t : /\ Fill(s, queue) = StartIfNeeded(t)
               /\ StreamOK(t) /\ t.state = s.state
               /\ Filled(s, t, queue)
  BY FillIs
<1> DEFINE old == Len(s.pipeline)
           new == Len(t.pipeline)
           last == Min2(Len(queue), MaxPipeline)
<1>2. /\ old \in Nat /\ new \in Nat /\ last \in Nat /\ Len(queue) \in Nat
      /\ last <= Len(queue) /\ old <= last
      /\ s.handshake => Writable(s)
      /\ Writable(s) <=> s.state = "Open" /\ s.handshake
  BY <1>1, StreamAssumption
     DEF StreamOK, Stream, Min2, Flow, Heads, Quiet, Writable
<1>3. new = last /\ old <= new
  BY <1>1, <1>2 DEF Filled
<1>4. /\ \A i \in 1..old : t.pipeline[i] = s.pipeline[i]
      /\ \A i \in 1..new : t.pipeline[i] = queue[i]
  <2> HIDE DEF last
  <2>1. \A i \in 1..new : i \in 1..old \/ i \in (old + 1)..new
    <3> HIDE DEF old, new
    <3> QED BY <1>2, <1>3
  <2> QED BY <1>1, <2>1 DEF Filled, Flow, Heads
<1>5. Heads(t, queue) /\ new = Min2(Len(queue), MaxPipeline)
  BY <1>3, <1>4 DEF Heads
<1>6. /\ t.handshake <=> s.handshake
      /\ t.responses = s.responses /\ t.status = s.status /\ t.token = s.token
      /\ t.closes = s.closes /\ t.state = s.state
  BY <1>1 DEF Filled
<1>7. Quiet(t) /\ Shaking(t) /\ Busy(t)
  <2>1. t.idle => s.idle \/ (s.state = "Open" /\ new = 0)
    <3>1. t.idle <=> \/ s.state = "Open" /\ new = 0
                     \/ s.idle /\ ~(Writable(s) /\ new > old)
      BY <1>1, Zenon DEF Filled
    <3> QED BY <3>1
  <2>2. Quiet(t)
    BY <1>6, <2>1 DEF Quiet, Flow
  <2>3. Shaking(t)
    <3>1. ~s.handshake => t.requests = s.requests
      BY <1>1, <1>2 DEF Filled
    <3> QED BY <1>6, <3>1 DEF Shaking, Flow
  <2>4. IsStarted(t) /\ ~t.handshake => new > 0
    <3>1. IsStarted(t) <=> IsStarted(s)
      BY <1>6 DEF IsStarted
    <3>2. old > 0 => new > 0
      <4> HIDE DEF old, new, last
      <4> QED BY <1>2, <1>3
    <3> QED BY <1>6, <3>1, <3>2 DEF Flow, Busy
  <2>5. t.idle => t.handshake /\ new = 0
    <3>1. ASSUME t.idle, s.idle, ~(s.state = "Open" /\ new = 0)
          PROVE  s.handshake /\ new = 0
      <4>1. s.handshake /\ old = 0
        BY <3>1 DEF Flow, Busy
      <4>2. ~(new > old)
        BY <1>1, <1>2, <3>1, <4>1 DEF Filled
      <4> HIDE DEF old, new, last
      <4> QED BY <1>2, <1>3, <4>1, <4>2
    <3>2. ASSUME s.state = "Open", new = 0
          PROVE  s.handshake
      <4>1. old = 0
        <5> HIDE DEF old, new, last
        <5> QED BY <1>2, <1>3, <3>2
      <4> QED BY <3>2, <4>1 DEF Flow, Busy, IsStarted
    <3> QED BY <1>6, <2>1, <3>1, <3>2
  <2> QED BY <2>2, <2>3, <2>4, <2>5 DEF Busy
<1>8. Talking(t, done)
  <2> SUFFICES ASSUME t.handshake PROVE Talking(t, done)
    BY DEF Talking
  <2> DEFINE got == Len(s.responses)
             sent == Len(s.requests)
  <2>1. got \in Nat /\ sent \in Nat /\ s.handshake /\ Writable(s)
    BY <1>2, <1>6 DEF StreamOK, Stream
  <2>2. got <= old
    BY <2>1 DEF Flow, Talking
  <2>3. \A i \in 1..got : t.responses[i] = t.pipeline[i] /\ t.pipeline[i].id \in done
    <3>1. \A i \in 1..got : i \in 1..old
      <4> HIDE DEF got, old
      <4> QED BY <1>2, <2>1, <2>2
    <3> QED BY <1>4, <1>6, <2>1, <3>1 DEF Flow, Talking
  <2>4. ASSUME s.status = None
        PROVE  /\ got + Len(t.requests) = new
               /\ \A i \in 1..Len(t.requests) : t.requests[i] = t.pipeline[got + i]
    <3>1. got + sent = old /\ \A i \in 1..sent : s.requests[i] = s.pipeline[got + i]
      BY <2>1, <2>4 DEF Flow, Talking
    <3>2. /\ Len(t.requests) = sent + (new - old)
          /\ \A i \in 1..sent : t.requests[i] = s.requests[i]
          /\ \A i \in 1..(new - old) : t.requests[sent + i] = queue[old + i]
      BY <1>1, <2>1 DEF Filled
    <3> DEFINE all == Len(t.requests)
    <3>3. got + all = new
      <4> HIDE DEF got, old, new, sent
      <4> QED BY <1>2, <2>1, <3>1, <3>2
    <3>4. all \in Nat
      BY <1>1 DEF StreamOK, Stream
    <3>5. ASSUME NEW i \in 1..all
          PROVE  t.requests[i] = t.pipeline[got + i]
      <4>1. CASE i <= sent
        <5>1. i \in 1..sent /\ got + i \in 1..old
          <6> HIDE DEF got, old, new, sent, all
          <6> QED BY <1>2, <2>1, <3>1, <3>3, <4>1
        <5> QED BY <1>4, <3>1, <3>2, <5>1
      <4>2. CASE ~(i <= sent)
        <5>1. /\ i - sent \in 1..(new - old) /\ sent + (i - sent) = i
              /\ old + (i - sent) = got + i /\ got + i \in 1..new
          <6> HIDE DEF got, old, new, sent, all
          <6> QED BY <1>2, <1>3, <2>1, <3>1, <3>3, <3>4, <4>2
        <5> QED BY <1>4, <3>2, <5>1, ZenonT(30)
      <4> QED BY <4>1, <4>2
    <3> QED BY <3>3, <3>5
  <2>5. ASSUME s.status # None
        PROVE  \E k \in (got + 1)..new :
                    /\ s.status = t.pipeline[k]
                    /\ \A i \in 1..(k - 1) : t.pipeline[i].id \in done
    <3>1. PICK k \in (got + 1)..old : /\ s.status = s.pipeline[k]
                                      /\ \A i \in 1..(k - 1) : s.pipeline[i].id \in done
      BY <2>1, <2>5 DEF Flow, Talking
    <3>2. /\ k \in (got + 1)..new /\ k \in 1..old
          /\ \A i \in 1..(k - 1) : i \in 1..old
      <4> HIDE DEF old, new, last, got
      <4> QED BY <1>2, <1>3, <2>1
    <3> QED BY <1>4, <3>1, <3>2
  <2>6. got <= new
    <3> HIDE DEF got, old, new, last
    <3> QED BY <1>2, <1>3, <2>1, <2>2
  <2> QED BY <1>6, <2>3, <2>4, <2>5, <2>6 DEF Talking
<1>9. Own(t, u)
  <2>1. \A i \in 1..new : t.pipeline[i].user = u
    <3>1. \A i \in 1..new : i \in DOMAIN queue
      <4>1. \A i \in 1..new : i \in 1..Len(queue)
        <5> HIDE DEF new, last
        <5> QED BY <1>2, <1>3
      <4> QED BY <4>1
    <3> QED BY <1>4, <3>1 DEF AllOf
  <2>2. \A i \in 1..Len(t.requests) :
            t.requests[i] # Handshake => t.requests[i].user = u
    <3>0. DOMAIN s.requests = 1..Len(s.requests) /\ Len(s.requests) \in Nat
      BY DEF StreamOK, Stream
    <3>1. CASE ~Writable(s)
      <4>1. t.requests = s.requests
        BY <1>1, <3>1 DEF Filled
      <4> QED BY <3>0, <4>1 DEF Own
    <3>2. CASE Writable(s)
      <4> DEFINE sent == Len(s.requests)
                 all == Len(t.requests)
      <4>0. all = sent + (new - old) /\ sent \in Nat
        BY <1>1, <3>0, <3>2 DEF Filled
      <4>1. /\ \A i \in 1..sent : t.requests[i] = s.requests[i]
            /\ \A i \in 1..(new - old) : t.requests[sent + i] = queue[old + i]
        BY <1>1, <3>2 DEF Filled
      <4>2. ASSUME NEW i \in 1..all, t.requests[i] # Handshake
            PROVE  t.requests[i].user = u
        <5>1. CASE i <= sent
          <6>1. i \in 1..sent
            <7> HIDE DEF sent, all
            <7> QED BY <5>1
          <6> QED BY <3>0, <4>1, <4>2, <6>1 DEF Own
        <5>2. CASE ~(i <= sent)
          <6>1. /\ i - sent \in 1..(new - old) /\ sent + (i - sent) = i
                /\ old + (i - sent) \in 1..Len(queue)
            <7> HIDE DEF sent, all, old, new, last
            <7> QED BY <1>2, <1>3, <4>0, <4>2, <5>2
          <6>2. t.requests[sent + (i - sent)] = queue[old + (i - sent)]
            BY <4>1, <6>1
          <6>3. queue[old + (i - sent)].user = u
            <7>1. \A k \in 1..Len(queue) : queue[k].user = u
              BY DEF AllOf
            <7> QED BY <6>1, <7>1
          <6> HIDE DEF sent, old
          <6> QED BY <6>1, <6>2, <6>3
        <5> QED BY <5>1, <5>2
      <4> QED BY <4>2
    <3> QED BY <3>1, <3>2
  <2>3. t.pipeline \in Seq(Writes) /\ t.requests \in Seq(Writes \cup {Handshake})
    BY <1>1 DEF StreamOK, Stream
  <2> QED BY <1>6, <2>1, <2>2, <2>3 DEF Own
<1> QED BY <1>1, <1>5, <1>6, <1>7, <1>8, <1>9, StartFlows DEF Flow

\* No token under way is for this start of the stream.
New(s) == \A r \in Outstanding : r.closes # s.closes

\* Close ends what was asked for before.
LEMMA ClosedIsNew ==
    ASSUME TypeOK, IsFiniteSet(asking), NEW s, StreamOK(s),
           NEW state \in {"Initial", "Error"}
    PROVE  /\ StreamOK(Closed(s, state))
           /\ Closed(s, state).pipeline = s.pipeline
           /\ Closed(s, state).requests = <<>> /\ Closed(s, state).token = None
           /\ Closed(s, state).state = state /\ Closed(s, state).status = None
           /\ ~Closed(s, state).handshake /\ ~Closed(s, state).idle
           /\ New(Closed(s, state))
<1> DEFINE numbers == {r.closes : r \in Outstanding}
           f == [r \in Outstanding |-> r.closes]
           old == {s.closes} \cup numbers
<1>1. IsFiniteSet(Outstanding)
  <2>1. IsFiniteSet(Elements(main)) /\ IsFiniteSet(Elements(worker))
    BY ElementsFinite DEF TypeOK
  <2>2. IsFiniteSet(OfType(main, "token")) /\ IsFiniteSet(OfType(worker, "token"))
    BY <2>1, FS_Subset DEF OfType
  <2> QED BY <2>2, FS_Union DEF Outstanding
<1>2. IsFiniteSet(numbers)
  <2>1. f \in Surjection(Outstanding, numbers)
    BY DEF Surjection
  <2> HIDE DEF f, numbers
  <2> QED BY <1>1, <2>1, FS_Surjection
<1>3. IsFiniteSet(old)
  <2> HIDE DEF numbers
  <2> QED BY <1>2, FS_Singleton, FS_Union
<1>4. Unused(old) \in Nat /\ Unused(old) \notin old
  <2> HIDE DEF old
  <2> QED BY <1>3, UnusedIsUnused
<1>5. Closed(s, state) =
        [s EXCEPT !.state = state, !.token = None, !.handshake = FALSE, !.idle = FALSE,
                  !.closes = Unused(old), !.requests = <<>>, !.responses = <<>>,
                  !.status = None]
  <2>1. old = {s.closes} \cup {r.closes : r \in Outstanding}
    OBVIOUS
  <2> QED BY <2>1 DEF Closed
<1> DEFINE n == Unused(old)
<1> HIDE DEF n
<1>6. n \in Nat
  BY <1>4 DEF n
<1> DEFINE t == [s EXCEPT !.state = state, !.token = None, !.handshake = FALSE,
                          !.idle = FALSE, !.closes = n, !.requests = <<>>,
                          !.responses = <<>>, !.status = None]
<1>7. Closed(s, state) = t
  BY <1>5 DEF n
<1>8. /\ StreamOK(t)
      /\ t.pipeline = s.pipeline /\ t.closes = n
      /\ t.requests = <<>> /\ t.token = None
      /\ t.state = state /\ t.status = None /\ ~t.handshake /\ ~t.idle
  <2>1. s \in Stream /\ Len(s.pipeline) <= MaxPipeline
    BY DEF StreamOK
  <2>2. /\ t.state = state /\ t.token = None /\ t.closes = n
        /\ t.requests = <<>> /\ t.responses = <<>> /\ t.pipeline = s.pipeline
        /\ t.status = None /\ ~t.handshake /\ ~t.idle
    BY <2>1 DEF Stream
  <2>3. t \in Stream
    <3>1. ASSUME NEW q \in Seq(Writes \cup {Handshake})
          PROVE  [s EXCEPT !.state = state, !.token = None, !.handshake = FALSE,
                           !.idle = FALSE, !.closes = n, !.requests = q,
                           !.responses = q, !.status = None] \in Stream
      BY <1>6, <2>1 DEF Stream
    <3>2. <<>> \in Seq(Writes \cup {Handshake})
      OBVIOUS
    <3> QED BY <3>1, <3>2
  <2> HIDE DEF t
  <2> QED BY <2>1, <2>2, <2>3 DEF StreamOK
<1>9. \A r \in Outstanding : r.closes # n
  BY <1>4 DEF n
<1> QED BY <1>7, <1>8, <1>9 DEF New

\* So does Stream::Close, for whatever queue the pipeline is the head of.
LEMMA ClosedFlows ==
    ASSUME TypeOK, IsFiniteSet(asking), NEW s, StreamOK(s),
           NEW state \in {"Initial", "Error"},
           NEW queue, NEW done, NEW u, Heads(s, queue), Own(s, u)
    PROVE  /\ StreamOK(Closed(s, state)) /\ New(Closed(s, state))
           /\ Flow(Closed(s, state), queue, done) /\ Own(Closed(s, state), u)
           /\ Closed(s, state).pipeline = s.pipeline
           /\ Closed(s, state).state = state
<1> DEFINE t == Closed(s, state)
<1>1. /\ StreamOK(t) /\ New(t) /\ t.pipeline = s.pipeline /\ t.state = state
      /\ t.requests = <<>> /\ t.token = None /\ t.status = None
      /\ ~t.handshake /\ ~t.idle
  BY ClosedIsNew
<1> HIDE DEF t
<1>2. Heads(t, queue)
  BY <1>1 DEF Heads
<1>3. Quiet(t) /\ Shaking(t) /\ Talking(t, done) /\ Busy(t)
  BY <1>1, Zenon DEF Quiet, Shaking, Talking, Busy, IsStarted
<1>4. Own(t, u)
  BY <1>1 DEF Own
<1> QED BY <1>1, <1>2, <1>3, <1>4 DEF t, Flow

----------------------------------------------------------------------------
\* CHANGES OF USER ON THEIR WAY

\* After the first i messages of s the user is v, if it was u before.
UserIs(s, i, u, v) ==
    \/ v = u /\ \A k \in 1..i : s[k].type # "user"
    \/ \E j \in 1..i : /\ s[j].type = "user" /\ s[j].user = v
                       /\ \A k \in (j + 1)..i : s[k].type # "user"

NoUser(s, i) == \A k \in 1..i : s[k].type # "user"

UserAfter(u, m) == IF m.type = "user" THEN m.user ELSE u

\* The first message has been handled.
LEMMA UserIsTail ==
    ASSUME NEW s, NEW n \in Nat, NEW i \in 1..n, NEW u, NEW v, UserIs(s, i, u, v),
           NEW t, \A k \in 1..(n - 1) :
                    /\ t[k].type = s[k + 1].type
                    /\ s[k + 1].type = "user" => t[k] = s[k + 1]
    PROVE  UserIs(t, i - 1, UserAfter(u, s[1]), v)
<1>1. CASE v = u /\ \A k \in 1..i : s[k].type # "user"
  <2>1. UserAfter(u, s[1]) = u
    BY <1>1 DEF UserAfter
  <2>2. \A k \in 1..(i - 1) : k \in 1..(n - 1) /\ k + 1 \in 1..i
    OBVIOUS
  <2>3. \A k \in 1..(i - 1) : t[k].type # "user"
    BY <1>1, <2>2
  <2>4. v = u
    BY <1>1
  <2>5. UserIs(t, i - 1, u, v)
    BY <2>3, <2>4 DEF UserIs
  <2> QED BY <2>1, <2>5
<1>2. ASSUME NEW j \in 1..i, s[j].type = "user", s[j].user = v,
             \A k \in (j + 1)..i : s[k].type # "user"
      PROVE  UserIs(t, i - 1, UserAfter(u, s[1]), v)
  <2>1. \A k \in j..(i - 1) : k \in 1..(n - 1) /\ k + 1 \in (j + 1)..i
    OBVIOUS
  <2>2. \A k \in j..(i - 1) : t[k].type # "user"
    BY <1>2, <2>1
  <2>3. CASE j = 1
    BY <1>2, <2>2, <2>3 DEF UserAfter, UserIs
  <2>4. CASE j # 1
    <3>1. j - 1 \in 1..(i - 1) /\ j - 1 \in 1..(n - 1) /\ (j - 1) + 1 = j
      BY <2>4
    <3>2. t[j - 1].type = "user" /\ t[j - 1].user = v
      BY <1>2, <3>1
    <3> QED BY <2>2, <3>1, <3>2 DEF UserIs
  <2> QED BY <2>3, <2>4
<1> QED BY <1>1, <1>2 DEF UserIs

\* Messages behind the first i do not matter.
LEMMA UserIsPrefix ==
    ASSUME NEW s, NEW t, NEW i \in Nat, NEW u, NEW v, UserIs(s, i, u, v),
           \A k \in 1..i : t[k] = s[k]
    PROVE  UserIs(t, i, u, v)
BY DEF UserIs

\* Nor do messages that name no user.
LEMMA UserIsMore ==
    ASSUME NEW s, NEW i \in Nat, NEW n \in Nat, i <= n, NEW u, NEW v, UserIs(s, i, u, v),
           \A k \in (i + 1)..n : s[k].type # "user"
    PROVE  UserIs(s, n, u, v)
<1>1. CASE v = u /\ \A k \in 1..i : s[k].type # "user"
  BY <1>1 DEF UserIs
<1>2. ASSUME NEW j \in 1..i, s[j].type = "user", s[j].user = v,
             \A k \in (j + 1)..i : s[k].type # "user"
      PROVE  UserIs(s, n, u, v)
  <2>1. j \in 1..n /\ \A k \in (j + 1)..n : s[k].type # "user"
    BY <1>2
  <2> QED BY <1>2, <2>1 DEF UserIs
<1> QED BY <1>1, <1>2 DEF UserIs

\* With no change of user on its way the user is the same at both ends.
LEMMA UserIsSame ==
    ASSUME NEW s, NEW i \in Nat, NEW u, NEW v, UserIs(s, i, u, v), NoUser(s, i)
    PROVE  v = u
BY DEF UserIs, NoUser

----------------------------------------------------------------------------
\* THE INDUCTIVE INVARIANT

\* Every hop is a step behind the one before it, and a write is queued behind the
\* login of its user.
HopsOK ==
    /\ UserIs(main, Len(main), credentials, auth)
    /\ UserIs(worker, Len(worker), user, credentials)
    /\ \A i \in DOMAIN worker :
        worker[i].type = "write" => UserIs(worker, i, user, worker[i].write.user)

\* A token for the n-th start of the stream.
Fits(m, n) == m.type = "token" /\ m.closes = n

\* A token that the stream will take is the user's.
TokensOK ==
    /\ \A i \in DOMAIN main :
        main[i].type = "token" /\ main[i].fresh /\ NoUser(main, i)
            => main[i].user \in {None, credentials}
    /\ \A i \in DOMAIN worker :
        Fits(worker[i], stream.closes) /\ NoUser(worker, i)
            => worker[i].user \in {None, user}

\* The stream has asked for one token at most, and waits for it.
OneRequest ==
    /\ stream.state # "Starting" => New(stream)
    /\ \A r, q \in asking : r.closes = stream.closes /\ q.closes = stream.closes => r = q
    /\ \A i, j \in DOMAIN main :
        Fits(main[i], stream.closes) /\ Fits(main[j], stream.closes) => i = j
    /\ \A i, j \in DOMAIN worker :
        Fits(worker[i], stream.closes) /\ Fits(worker[j], stream.closes) => i = j
    /\ \A i \in DOMAIN main, j \in DOMAIN worker :
        ~(Fits(main[i], stream.closes) /\ Fits(worker[j], stream.closes))
    /\ \A r \in asking : r.closes = stream.closes =>
        /\ \A i \in DOMAIN main : ~Fits(main[i], stream.closes)
        /\ \A i \in DOMAIN worker : ~Fits(worker[i], stream.closes)

\* No id is given twice.
IdsOK ==
    /\ \A u \in Users : \A i, j \in DOMAIN queues[u] :
        queues[u][i].id = queues[u][j].id => i = j
    /\ \A i, j \in DOMAIN worker :
        worker[i].type = "write" /\ worker[j].type = "write"
            /\ worker[i].write.id = worker[j].write.id => i = j
    /\ \A u \in Users : \A i \in DOMAIN queues[u], j \in DOMAIN worker :
        worker[j].type = "write" => queues[u][i].id # worker[j].write.id

FlowOK ==
    /\ Flow(stream, queues[user], committed) /\ Full(stream, queues[user])
    /\ Own(stream, user)
    /\ \A u \in Users : AllOf(queues[u], u)

Inv ==
    /\ TypeOK /\ IsFiniteSet(asking)
    /\ HopsOK /\ TokensOK /\ OneRequest /\ IdsOK /\ FlowOK

----------------------------------------------------------------------------
\* WHAT THE STREAM BECOMES

\* The stream of the state is one of those above.
LEMMA StreamIsOK == TypeOK => StreamOK(stream)
BY DEF TypeOK, StreamOK

\* Stream::Stop leaves a stream that nothing is under way for.
LEMMA StopIs ==
    ASSUME Inv
    PROVE  /\ StreamOK(Stop(stream)) /\ New(Stop(stream)) /\ Quiet(Stop(stream))
           /\ Stop(stream).state \in {"Initial", "Error"}
<1>1. CASE IsStarted(stream)
  <2>1. StreamOK(stream) /\ Stop(stream) = Closed(stream, "Initial")
    BY <1>1, StreamIsOK DEF Stop, Inv
  <2> QED BY <2>1, ClosedIsNew DEF Inv, Quiet
<1>2. CASE ~IsStarted(stream)
  <2>1. stream.state \in {"Initial", "Error"}
    BY <1>2, StreamIsOK DEF IsStarted, StreamOK, Stream, Inv
  <2>2. Stop(stream) = stream
    BY <1>2 DEF Stop
  <2>3. New(stream) /\ Quiet(stream)
    BY <2>1 DEF Inv, OneRequest, FlowOK, Flow
  <2> QED BY <2>1, <2>2, <2>3, StreamIsOK DEF Inv
<1> QED BY <1>1, <1>2

\* A stream that is not started, with its pipeline cleared.
LEMMA ClearedFlows ==
    ASSUME NEW s, StreamOK(s), Quiet(s), s.state \in {"Initial", "Error"},
           NEW t, t = [s EXCEPT !.state = "Initial", !.pipeline = <<>>],
           NEW queue \in Seq(Writes), NEW done, NEW u
    PROVE  /\ StreamOK(t) /\ t.closes = s.closes /\ t.state = "Initial"
           /\ Flow(t, queue, done) /\ Own(t, u)
<1>1. s \in Stream /\ s.requests = <<>> /\ s.responses = <<>> /\ s.token = None
  BY DEF StreamOK
<1>2. ~s.handshake /\ s.status = None /\ ~s.idle
  BY DEF Quiet
<1>3. ASSUME NEW q \in Seq(Writes), NEW r, r = [s EXCEPT !.state = "Initial", !.pipeline = q]
      PROVE  /\ r \in Stream /\ r.state = "Initial" /\ r.pipeline = q
             /\ r.requests = s.requests /\ r.responses = s.responses
             /\ r.token = s.token /\ r.status = s.status /\ r.closes = s.closes
  BY <1>1, <1>3 DEF Stream
<1>4. ASSUME NEW q \in Seq(Writes), NEW r, r = [s EXCEPT !.state = "Initial", !.pipeline = q]
      PROVE  ~r.handshake /\ ~r.idle
  BY <1>1, <1>2, <1>4 DEF Stream
<1>5. <<>> \in Seq(Writes)
  OBVIOUS
<1>6. /\ t \in Stream /\ t.state = "Initial" /\ t.pipeline = <<>>
      /\ t.requests = s.requests /\ t.responses = s.responses
      /\ t.token = s.token /\ t.status = s.status /\ t.closes = s.closes
  BY <1>3, <1>5
<1>7. ~t.handshake /\ ~t.idle
  BY <1>4, <1>5
<1>8. MaxPipeline \in Nat /\ Len(t.pipeline) = 0 /\ Len(queue) \in Nat
  BY <1>6, StreamAssumption
<1>9. StreamOK(t)
  BY <1>1, <1>6, <1>8 DEF StreamOK
<1>10. Heads(t, queue)
  BY <1>8 DEF Heads, Min2
<1>11. Quiet(t) /\ Shaking(t) /\ Talking(t, done)
  BY <1>1, <1>2, <1>6, <1>7, Zenon DEF Quiet, Shaking, Talking
<1>12. Busy(t)
  BY <1>6, <1>7 DEF Busy, IsStarted
<1>13. Own(t, u)
  BY <1>1, <1>6 DEF Own
<1> QED BY <1>6, <1>9, <1>10, <1>11, <1>12, <1>13 DEF Flow

\* RestartNetwork, for the queue of any user.
LEMMA RestartedFlows ==
    ASSUME Inv, NEW queue \in Seq(Writes), NEW u, AllOf(queue, u)
    PROVE  /\ StreamOK(Restarted(queue)) /\ New(Restarted(queue)) /\ Own(Restarted(queue), u)
           /\ Flow(Restarted(queue), queue, committed) /\ Full(Restarted(queue), queue)
<1> DEFINE s == Stop(stream)
           t == [s EXCEPT !.state = "Initial", !.pipeline = <<>>]
<1>1. StreamOK(s) /\ New(s) /\ Quiet(s) /\ s.state \in {"Initial", "Error"}
  BY StopIs
<1>2. Restarted(queue) = Fill(t, queue)
  BY DEF Restarted
<1> HIDE DEF s
<1>3. /\ StreamOK(t) /\ t.closes = s.closes /\ Flow(t, queue, committed) /\ Own(t, u)
  BY <1>1, ClearedFlows
<1> HIDE DEF t
<1>4. /\ StreamOK(Fill(t, queue)) /\ Own(Fill(t, queue), u)
      /\ Flow(Fill(t, queue), queue, committed) /\ Full(Fill(t, queue), queue)
      /\ Fill(t, queue).closes = t.closes
  BY <1>3, FillFlows
<1> QED BY <1>1, <1>2, <1>3, <1>4 DEF New

\* OnWriteStreamClose after an error that condemns no write.
LEMMA FailedFlows ==
    ASSUME Inv
    PROVE  /\ StreamOK(Failed) /\ New(Failed) /\ Own(Failed, user)
           /\ Flow(Failed, queues[user], committed) /\ Full(Failed, queues[user])
<1> DEFINE t == Closed(stream, "Error")
<1>1. /\ StreamOK(stream) /\ Heads(stream, queues[user]) /\ Own(stream, user)
      /\ Len(stream.pipeline) = Min2(Len(queues[user]), MaxPipeline)
  BY StreamIsOK DEF Inv, FlowOK, Flow, Full
<1>2. /\ StreamOK(t) /\ New(t) /\ Flow(t, queues[user], committed) /\ Own(t, user)
      /\ t.pipeline = stream.pipeline
  BY <1>1, ClosedFlows DEF Inv
<1>3. Failed = StartIfNeeded(t)
  BY DEF Failed
<1> HIDE DEF t
<1>4. /\ StreamOK(Failed) /\ Own(Failed, user) /\ Failed.closes = t.closes
      /\ Flow(Failed, queues[user], committed) /\ Full(Failed, queues[user])
  BY <1>1, <1>2, <1>3, StartFlows
<1> QED BY <1>2, <1>4 DEF New

\* The idle timer stops a stream with nothing to do.
LEMMA IdleFlows ==
    ASSUME Inv, stream.idle
    PROVE  /\ StreamOK(Stop(stream)) /\ New(Stop(stream)) /\ Own(Stop(stream), user)
           /\ Flow(Stop(stream), queues[user], committed)
           /\ Full(Stop(stream), queues[user])
<1>1. /\ StreamOK(stream) /\ Heads(stream, queues[user]) /\ Own(stream, user)
      /\ Len(stream.pipeline) = Min2(Len(queues[user]), MaxPipeline)
      /\ Len(stream.pipeline) = 0 /\ stream.state = "Open"
  BY StreamIsOK DEF Inv, FlowOK, Flow, Full, Busy, Quiet
<1>2. Stop(stream) = Closed(stream, "Initial")
  BY <1>1 DEF Stop, IsStarted
<1>3. /\ StreamOK(Stop(stream)) /\ New(Stop(stream)) /\ Own(Stop(stream), user)
      /\ Flow(Stop(stream), queues[user], committed)
      /\ Stop(stream).pipeline = stream.pipeline
  BY <1>1, <1>2, ClosedFlows DEF Inv
<1> QED BY <1>1, <1>3 DEF Full

\* The worker queue rests, or has done with its first message.
WorkerMoves ==
    \/ worker' = worker /\ user' = user
    \/ /\ worker # <<>> /\ worker' = Tail(worker)
       /\ user' = UserAfter(user, Head(worker))

\* Its messages are where they were, or one place further ahead.
LEMMA WorkerMoved ==
    ASSUME Inv, WorkerMoves
    PROVE  /\ worker' \in Seq(UserMsg \cup TokenMsg \cup WriteMsg)
           /\ user' \in Users
           /\ \E d \in {0, 1} :
                /\ Len(worker') = Len(worker) - d
                /\ d = 1 <=> worker' # worker
                /\ \A i \in 1..Len(worker') :
                    worker'[i] = worker[i + d] /\ i + d \in 1..Len(worker)
<1> DEFINE All == UserMsg \cup TokenMsg \cup WriteMsg
<1>1. worker \in Seq(All) /\ user \in Users
  BY DEF Inv, TypeOK
<1>2. CASE worker' = worker /\ user' = user
  <2>1. Len(worker) \in Nat
    BY <1>1
  <2>2. /\ Len(worker') = Len(worker) - 0
        /\ \A i \in 1..Len(worker') :
                worker'[i] = worker[i + 0] /\ i + 0 \in 1..Len(worker)
    BY <1>2, <2>1
  <2>3. 0 \in {0, 1} /\ (0 = 1 <=> worker' # worker)
    BY <1>2
  <2>4. worker' \in Seq(All) /\ user' \in Users
    BY <1>1, <1>2
  <2> QED BY <2>2, <2>3, <2>4
<1>3. CASE /\ worker # <<>> /\ worker' = Tail(worker)
           /\ user' = UserAfter(user, Head(worker))
  <2>1. /\ Len(worker) \in Nat /\ Len(worker') = Len(worker) - 1
        /\ \A i \in 1..Len(worker') : worker'[i] = worker[i + 1]
        /\ worker' \in Seq(All)
        /\ Head(worker) \in All /\ worker[1] \in All /\ Head(worker) = worker[1]
    <3> HIDE DEF All
    <3> QED BY <1>1, <1>3
  <2>2. \A i \in 1..Len(worker') : i + 1 \in 1..Len(worker)
    BY <2>1
  <2>3. worker' # worker
    BY <2>1
  <2>4. user' \in Users
    <3>1. Head(worker).type = "user" => Head(worker).user \in Users
      BY <2>1 DEF UserMsg, TokenMsg, WriteMsg
    <3> QED BY <1>1, <1>3, <3>1 DEF UserAfter
  <2> QED BY <2>1, <2>2, <2>3, <2>4
<1> QED BY <1>2, <1>3 DEF WorkerMoves

\* The hops of a change of user survive a step of the worker queue.
LEMMA WorkerKeepsHops ==
    ASSUME Inv, WorkerMoves, UNCHANGED <<auth, main, credentials>>
    PROVE  HopsOK'
<1>1. CASE worker' = worker /\ user' = user
  BY <1>1 DEF Inv, HopsOK, UserIs
<1>2. CASE /\ worker # <<>> /\ worker' = Tail(worker)
           /\ user' = UserAfter(user, Head(worker))
  <2> DEFINE n == Len(worker)
             All == UserMsg \cup TokenMsg \cup WriteMsg
  <2>1. /\ n \in Nat /\ n >= 1 /\ Len(worker') = n - 1 /\ Head(worker) = worker[1]
        /\ \A k \in 1..(n - 1) : worker'[k] = worker[k + 1]
        /\ worker' \in Seq(All)
    <3>1. worker \in Seq(All)
      BY DEF Inv, TypeOK
    <3> HIDE DEF All
    <3> QED BY <1>2, <3>1
  <2>2. ASSUME NEW i \in 1..n, NEW v, UserIs(worker, i, user, v)
        PROVE  UserIs(worker', i - 1, user', v)
    <3> HIDE DEF n
    <3>1. \A k \in 1..(n - 1) : /\ worker'[k].type = worker[k + 1].type
                                /\ worker[k + 1].type = "user" => worker'[k] = worker[k + 1]
      BY <2>1
    <3> QED BY <1>2, <2>1, <2>2, <3>1, UserIsTail
  <2>3. UserIs(worker', n - 1, user', credentials)
    <3>1. n \in 1..n
      <4> HIDE DEF n
      <4> QED BY <2>1
    <3> QED BY <2>2, <3>1 DEF Inv, HopsOK
  <2>4. ASSUME NEW i \in 1..(n - 1), worker'[i].type = "write"
        PROVE  UserIs(worker', i, user', worker'[i].write.user)
    <3>1. i + 1 \in 1..n /\ (i + 1) - 1 = i
      <4> HIDE DEF n
      <4> QED BY <2>1
    <3>2. worker'[i] = worker[i + 1] /\ worker[i + 1].type = "write"
      BY <2>1, <2>4
    <3>3. UserIs(worker, i + 1, user, worker[i + 1].write.user)
      <4>1. \A j \in 1..n : worker[j].type = "write"
                => UserIs(worker, j, user, worker[j].write.user)
        BY DEF Inv, HopsOK, TypeOK
      <4> QED BY <3>1, <3>2, <4>1
    <3>4. UserIs(worker', (i + 1) - 1, user', worker[i + 1].write.user)
      BY <2>2, <3>1, <3>3
    <3> QED BY <3>1, <3>2, <3>4
  <2>5. DOMAIN worker' = 1..(n - 1)
    BY <2>1
  <2>6. UserIs(worker', Len(worker'), user', credentials)
    BY <2>1, <2>3
  <2>7. UserIs(main, Len(main), credentials, auth)
    BY DEF Inv, HopsOK
  <2> HIDE DEF n
  <2> QED BY <2>4, <2>5, <2>6, <2>7 DEF HopsOK, UserIs
<1> QED BY <1>1, <1>2 DEF WorkerMoves

\* No token still under way after the step is for the stream s.
NewAfter(s) == \A r \in asking \cup OfType(main', "token") \cup OfType(worker', "token") :
                    r.closes # s.closes

\* The worker queue adds no token to those under way.
LEMMA NewIsNewAfter ==
    ASSUME Inv, WorkerMoves, UNCHANGED main, NEW s, New(s)
    PROVE  NewAfter(s)
<1>1. OfType(worker', "token") \subseteq OfType(worker, "token")
  <2>1. PICK d \in {0, 1} :
            \A i \in 1..Len(worker') : /\ worker'[i] = worker[i + d]
                                       /\ i + d \in 1..Len(worker)
    BY WorkerMoved
  <2>2. DOMAIN worker' = 1..Len(worker') /\ DOMAIN worker = 1..Len(worker)
    BY WorkerMoved DEF Inv, TypeOK
  <2> QED BY <2>1, <2>2 DEF OfType, Elements
<1> QED BY <1>1 DEF NewAfter, New, Outstanding

\* The stream goes on waiting for the token it has asked for.
Waits(s) ==
    /\ s.closes = stream.closes /\ s.state = "Starting" /\ stream.state = "Starting"
    /\ user' = user
    /\ worker' # worker => Head(worker).type # "user"

\* Tokens and requests carry the number of a start.
LEMMA TokenTypes ==
    ASSUME Inv
    PROVE  /\ \A m \in Elements(main) \cup Elements(worker) :
                m.type = "token" => m.closes \in Nat
           /\ \A r \in asking : r.closes \in Nat
           /\ DOMAIN main = 1..Len(main) /\ DOMAIN worker = 1..Len(worker)
           /\ Len(main) \in Nat /\ Len(worker) \in Nat
<1>1. /\ main \in Seq(UserMsg \cup TokenMsg)
      /\ worker \in Seq(UserMsg \cup TokenMsg \cup WriteMsg)
      /\ asking \subseteq Request
  BY DEF Inv, TypeOK
<1>2. \A m \in UserMsg \cup TokenMsg \cup WriteMsg : m.type = "token" => m.closes \in Nat
  BY DEF UserMsg, TokenMsg, WriteMsg
<1>3. /\ Elements(main) \subseteq UserMsg \cup TokenMsg \cup WriteMsg
      /\ Elements(worker) \subseteq UserMsg \cup TokenMsg \cup WriteMsg
  BY <1>1 DEF Elements
<1>4. \A r \in asking : r.closes \in Nat
  BY <1>1 DEF Request
<1> QED BY <1>1, <1>2, <1>3, <1>4

\* A step that puts another stream in its place keeps the tokens apart.
LEMMA BecomeTokens ==
    ASSUME Inv, WorkerMoves, UNCHANGED <<auth, main, credentials>>,
           NEW s, StreamOK(s), Become(s), NewAfter(s) \/ Waits(s)
    PROVE  /\ asking' \subseteq Request /\ IsFiniteSet(asking')
           /\ OneRequest' /\ TokensOK'
<1>1. stream' = s /\ s.closes \in Nat
  BY DEF Become, StreamOK, Stream
<1>2. /\ asking \subseteq Request /\ IsFiniteSet(asking)
      /\ [closes |-> s.closes, fresh |-> TRUE] \in Request
  BY <1>1 DEF Inv, TypeOK, Request
<1>3. asking' \subseteq Request /\ IsFiniteSet(asking')
  <2>1. IsFiniteSet({[closes |-> s.closes, fresh |-> TRUE]})
    BY FS_Singleton
  <2>2. IsFiniteSet(asking \cup {[closes |-> s.closes, fresh |-> TRUE]})
    BY <1>2, <2>1, FS_Union
  <2> QED BY <1>2, <2>2 DEF Become
<1>4. PICK d \in {0, 1} :
        /\ d = 1 <=> worker' # worker
        /\ \A i \in 1..Len(worker') : worker'[i] = worker[i + d] /\ i + d \in 1..Len(worker)
  BY WorkerMoved
<1>5. DOMAIN worker' = 1..Len(worker') /\ DOMAIN worker = 1..Len(worker)
      /\ DOMAIN main' = DOMAIN main /\ Len(worker') \in Nat
  BY WorkerMoved DEF Inv, TypeOK
<1>8. TokensOK' /\ OneRequest'
  <2>1. CASE NewAfter(s)
    <3>1. /\ \A i \in DOMAIN main' : ~Fits(main'[i], s.closes)
          /\ \A i \in DOMAIN worker' : ~Fits(worker'[i], s.closes)
          /\ \A r \in asking : r.closes # s.closes
      BY <2>1 DEF NewAfter, OfType, Elements, Fits
    <3>2. TokensOK'
      <4>1. \A i \in DOMAIN main' :
                main'[i].type = "token" /\ main'[i].fresh /\ NoUser(main', i)
                    => main'[i].user \in {None, credentials'}
        BY DEF Inv, TokensOK
      <4> QED BY <1>1, <3>1, <4>1 DEF TokensOK, NoUser
    <3>3. s.state # "Starting" => New(s)'
      <4>1. s.state # "Starting" => asking' = asking
        BY DEF Become
      <4> QED BY <2>1, <4>1 DEF NewAfter, New, Outstanding
    <3>4. \A r, q \in asking' : r.closes = s.closes /\ q.closes = s.closes => r = q
      BY <3>1 DEF Become
    <3> QED BY <1>1, <1>5, <3>1, <3>2, <3>3, <3>4 DEF OneRequest, New, Outstanding
  <2>2. CASE Waits(s)
    <3>1. asking' = asking /\ s.closes = stream.closes
      BY <2>2 DEF Become, Waits
    <3>3. \A i \in DOMAIN worker' : NoUser(worker', i) => NoUser(worker, i + d)
      <4>1. CASE d = 0
        <5>1. worker' = worker
          BY <1>4, <4>1
        <5> QED BY <1>5, <4>1, <5>1 DEF NoUser
      <4>2. CASE d = 1
        <5>1. Head(worker).type # "user" /\ worker[1].type # "user"
          BY <1>4, <2>2, <4>2 DEF Waits, Inv, TypeOK
        <5>2. ASSUME NEW i \in 1..Len(worker'), NoUser(worker', i), NEW k \in 1..(i + 1)
              PROVE  worker[k].type # "user"
          <6>1. CASE k = 1
            BY <5>1, <6>1
          <6>2. CASE k # 1
            <7>1. k - 1 \in 1..i /\ k - 1 \in 1..Len(worker') /\ (k - 1) + 1 = k
              BY <1>5, <6>2
            <7>2. worker'[k - 1] = worker[k]
              BY <1>4, <4>2, <7>1
            <7> QED BY <5>2, <7>1, <7>2 DEF NoUser
          <6> QED BY <6>1, <6>2
        <5> QED BY <1>5, <4>2, <5>2 DEF NoUser
      <4> QED BY <4>1, <4>2
    <3>4. TokensOK'
      <4>1. \A i \in DOMAIN main' :
                main'[i].type = "token" /\ main'[i].fresh /\ NoUser(main', i)
                    => main'[i].user \in {None, credentials'}
        BY DEF Inv, TokensOK
      <4>2. ASSUME NEW i \in DOMAIN worker', Fits(worker'[i], stream.closes), NoUser(worker', i)
            PROVE  worker'[i].user \in {None, user'}
        <5>1. worker'[i] = worker[i + d] /\ i + d \in DOMAIN worker
          BY <1>4, <1>5
        <5>2. NoUser(worker, i + d)
          BY <3>3, <4>2
        <5> QED BY <2>2, <4>2, <5>1, <5>2 DEF Inv, TokensOK, Waits
      <4> QED BY <1>1, <3>1, <4>1, <4>2 DEF TokensOK, NoUser
    <3>5. OneRequest'
      <4>1. \A i, j \in DOMAIN worker' :
                Fits(worker'[i], s.closes) /\ Fits(worker'[j], s.closes) => i = j
        <5> SUFFICES ASSUME NEW i \in DOMAIN worker', NEW j \in DOMAIN worker',
                            Fits(worker'[i], s.closes), Fits(worker'[j], s.closes)
                     PROVE  i = j
          OBVIOUS
        <5>1. i + d \in DOMAIN worker /\ j + d \in DOMAIN worker /\ i \in Int /\ j \in Int
          BY <1>4, <1>5
        <5>2. /\ Fits(worker[i + d], stream.closes)
              /\ Fits(worker[j + d], stream.closes)
          BY <1>4, <1>5, <3>1
        <5>3. \A m, n \in DOMAIN worker :
                  Fits(worker[m], stream.closes) /\ Fits(worker[n], stream.closes)
                      => m = n
          BY DEF Inv, OneRequest
        <5> DEFINE a == i + d
                   b == j + d
        <5>4. a = b
          <6> HIDE DEF a, b
          <6>1. /\ a \in DOMAIN worker /\ b \in DOMAIN worker
                /\ Fits(worker[a], stream.closes) /\ Fits(worker[b], stream.closes)
            BY <5>1, <5>2 DEF a, b
          <6> QED BY <5>3, <6>1
        <5>5. i + d = j + d
          BY <5>4
        <5>6. i \in Int /\ j \in Int /\ d \in Int
          BY <5>1
        <5>7. \A k, m, n \in Int : m + k = n + k => m = n
          OBVIOUS
        <5> HIDE DEF a, b
        <5> QED BY <5>5, <5>6, <5>7, Zenon
      <4>2. \A i \in DOMAIN worker' : \E j \in DOMAIN worker : worker'[i] = worker[j]
        BY <1>4, <1>5
      <4>3. s.state = "Starting"
        BY <2>2 DEF Waits
      <4> QED BY <1>1, <1>5, <3>1, <4>1, <4>2, <4>3 DEF Inv, OneRequest
    <3> QED BY <3>4, <3>5
  <2> QED BY <2>1, <2>2
<1> QED BY <1>3, <1>8

----------------------------------------------------------------------------
\* STEPS OF THE STREAM

\* A step in which the stream becomes s.
LEMMA BecomeStep ==
    ASSUME Inv, NEW s, StreamOK(s), Become(s), WorkerMoves,
           UNCHANGED <<auth, main, credentials>>,
           server' \in [Keys -> Docs \cup {NoDoc}], queues' \in [Users -> Seq(Writes)],
           committed' \subseteq Nat, refused' \subseteq Keys,
           NewAfter(s) \/ Waits(s),
           IdsOK', Flow(s, queues'[user'], committed'), Full(s, queues'[user']),
           Own(s, user'), \A u \in Users : AllOf(queues'[u], u)
    PROVE  Inv'
<1>1. stream' = s
  BY DEF Become
<1>2. /\ asking' \subseteq Request /\ IsFiniteSet(asking')
      /\ OneRequest' /\ TokensOK'
  BY BecomeTokens
<1>3. HopsOK'
  BY WorkerKeepsHops
<1>4. TypeOK'
  BY <1>1, <1>2, WorkerMoved DEF Inv, TypeOK, StreamOK
<1>5. FlowOK'
  BY <1>1 DEF FlowOK
<1> QED BY <1>2, <1>3, <1>4, <1>5 DEF Inv

\* The same, with nothing but the stream touched, and what follows it at once.
LEMMA StreamStep ==
    ASSUME Inv, NEW s, StreamOK(s), Become(s),
           UNCHANGED <<server, auth, main, credentials, worker, user, queues,
                       committed, refused>>,
           New(s), Flow(s, queues[user], committed), Full(s, queues[user]), Own(s, user)
    PROVE  Inv'
<1>1. WorkerMoves
  BY DEF WorkerMoves
<1>2. NewAfter(s)
  BY <1>1, NewIsNewAfter
<1>3. IdsOK'
  BY DEF Inv, IdsOK
<1>4. /\ server' \in [Keys -> Docs \cup {NoDoc}] /\ queues' \in [Users -> Seq(Writes)]
      /\ committed' \subseteq Nat /\ refused' \subseteq Keys
  BY DEF Inv, TypeOK
<1>5. \A u \in Users : AllOf(queues'[u], u)
  BY DEF Inv, FlowOK
<1> QED BY <1>1, <1>2, <1>3, <1>4, <1>5, BecomeStep

\* A stream that waits for no token has none on its way.
LEMMA OpenIsNew == Inv /\ stream.state # "Starting" => New(stream)
BY DEF Inv, OneRequest

\* What the invariant says of the current user.
LEMMA UserQueue ==
    ASSUME Inv
    PROVE  /\ user \in Users /\ queues[user] \in Seq(Writes) /\ AllOf(queues[user], user)
           /\ StreamOK(stream)
           /\ Flow(stream, queues[user], committed) /\ Full(stream, queues[user])
           /\ Own(stream, user)
BY StreamIsOK DEF Inv, TypeOK, FlowOK

\* The connectivity monitor restarts the network.
LEMMA ConnectivityStep == Inv /\ ConnectivityChanged => Inv'
BY UserQueue, RestartedFlows, StreamStep DEF ConnectivityChanged

\* The idle timer.
LEMMA IdleStep == Inv /\ IdleTimeout => Inv'
BY IdleFlows, StreamStep DEF IdleTimeout

\* The connection breaks.
LEMMA BreakStep == Inv /\ BreakStream => Inv'
BY FailedFlows, StreamStep DEF BreakStream

\* The back-off timer.
LEMMA BackoffStep == Inv /\ BackoffElapsed => Inv'
<1> SUFFICES ASSUME Inv, BackoffElapsed PROVE Inv'
  OBVIOUS
<1> DEFINE s == [stream EXCEPT !.state = "Starting"]
<1>1. /\ StreamOK(stream) /\ stream.state = "Backoff" /\ New(stream)
      /\ Flow(stream, queues[user], committed) /\ Full(stream, queues[user])
      /\ Own(stream, user)
  BY UserQueue, OpenIsNew DEF BackoffElapsed
<1>2. /\ s.state = "Starting" /\ s.token = stream.token /\ s.closes = stream.closes
      /\ s.pipeline = stream.pipeline /\ s.requests = stream.requests
      /\ s.responses = stream.responses /\ s.status = stream.status
      /\ s \in Stream
  BY <1>1 DEF StreamOK, Stream
<1>3. (s.handshake <=> stream.handshake) /\ (s.idle <=> stream.idle)
  BY <1>1 DEF StreamOK, Stream
<1>4. Become(s)
  BY DEF BackoffElapsed
<1> HIDE DEF s
<1>5. StreamOK(s) /\ New(s) /\ Own(s, user)
  BY <1>1, <1>2 DEF StreamOK, New, Own
<1>6. Heads(s, queues[user]) /\ Full(s, queues[user])
  BY <1>1, <1>2 DEF Flow, Heads, Full, IsStarted
<1>7. Quiet(s) /\ Shaking(s) /\ Talking(s, committed)
  BY <1>1, <1>2, <1>3, Zenon DEF Flow, Quiet, Shaking, Talking
<1>8. Busy(s)
  BY <1>1, <1>2, <1>3 DEF Flow, Busy, IsStarted, Quiet
<1> QED BY <1>4, <1>5, <1>6, <1>7, <1>8, StreamStep DEF BackoffElapsed, Flow

\* A write on a stream the backend has ended fails.
LEMMA WriteFailsStep == Inv /\ WriteFails => Inv'
<1> SUFFICES ASSUME Inv, WriteFails PROVE Inv'
  OBVIOUS
<1> DEFINE s == [stream EXCEPT !.requests = <<>>, !.responses = <<>>]
<1>1. /\ StreamOK(stream) /\ stream.status # None /\ stream.requests # <<>>
      /\ Flow(stream, queues[user], committed) /\ Full(stream, queues[user])
      /\ Own(stream, user)
  BY UserQueue DEF WriteFails
<1>2. stream.state = "Open" /\ New(stream)
  BY <1>1, OpenIsNew DEF StreamOK
<1>3. stream.handshake
  BY <1>1, <1>2 DEF Flow, Shaking
<1>4. Become(s)
  BY DEF WriteFails
<1>5. ASSUME NEW q \in Seq(Writes \cup {Handshake}),
             NEW t, t = [stream EXCEPT !.requests = q, !.responses = q]
      PROVE  /\ t \in Stream /\ t.state = "Open" /\ t.token = stream.token
             /\ t.closes = stream.closes /\ t.pipeline = stream.pipeline
             /\ t.requests = q /\ t.responses = q /\ t.status = stream.status
  BY <1>1, <1>2, <1>5 DEF StreamOK, Stream
<1>6. <<>> \in Seq(Writes \cup {Handshake})
  OBVIOUS
<1>7. /\ s \in Stream /\ s.state = "Open" /\ s.token = stream.token
      /\ s.closes = stream.closes /\ s.pipeline = stream.pipeline
      /\ s.requests = <<>> /\ s.responses = <<>> /\ s.status = stream.status
  BY <1>5, <1>6
<1>8. (s.handshake <=> stream.handshake) /\ (s.idle <=> stream.idle)
  BY <1>1 DEF StreamOK, Stream
<1> HIDE DEF s
<1>9. StreamOK(s) /\ New(s)
  BY <1>1, <1>2, <1>7 DEF StreamOK, New
<1>10. Own(s, user)
  BY <1>1, <1>7 DEF Own
<1>11. Heads(s, queues[user]) /\ Full(s, queues[user])
  BY <1>1, <1>7 DEF Flow, Heads, Full, IsStarted
<1>12. Quiet(s) /\ Shaking(s)
  BY <1>3, <1>7, <1>8 DEF Quiet, Shaking
<1>13. Busy(s)
  BY <1>1, <1>3, <1>7, <1>8 DEF Flow, Busy
<1>14. Talking(s, committed)
  <2> DEFINE old == Len(stream.pipeline)
             got == Len(stream.responses)
  <2>1. PICK k \in (got + 1)..old :
            /\ stream.status = stream.pipeline[k]
            /\ \A i \in 1..(k - 1) : stream.pipeline[i].id \in committed
    BY <1>1, <1>3 DEF Flow, Talking
  <2>2. got \in Nat /\ old \in Nat
    BY <1>1 DEF StreamOK, Stream
  <2> HIDE DEF old, got
  <2>3. k \in (0 + 1)..old /\ 0 <= old
    BY <2>2
  <2>4. Len(s.responses) = 0 /\ Len(s.pipeline) = old
    BY <1>7 DEF old
  <2> QED BY <1>1, <1>7, <2>1, <2>3, <2>4 DEF Talking
<1> QED BY <1>4, <1>9, <1>10, <1>11, <1>12, <1>13, <1>14, StreamStep DEF WriteFails, Flow

\* A step of the connection: messages move, the stream stays open.
LEMMA OpenStep ==
    ASSUME Inv, stream.state = "Open",
           NEW s \in Stream, stream' = s, s.state = "Open", s.token = stream.token,
           s.closes = stream.closes, s.pipeline = stream.pipeline,
           s.idle <=> stream.idle, stream.handshake => s.handshake,
           \A i \in DOMAIN s.requests : s.requests[i] # Handshake =>
                \/ \E j \in DOMAIN stream.requests : s.requests[i] = stream.requests[j]
                \/ \E j \in DOMAIN stream.pipeline : s.requests[i] = stream.pipeline[j],
           Shaking(s), Talking(s, committed'),
           UNCHANGED <<auth, asking, main, credentials, worker, user, queues, refused>>,
           server' \in [Keys -> Docs \cup {NoDoc}], committed' \subseteq Nat
    PROVE  Inv'
<1>1. /\ StreamOK(stream) /\ New(stream) /\ user \in Users
      /\ Flow(stream, queues[user], committed) /\ Full(stream, queues[user])
      /\ Own(stream, user)
  BY UserQueue, OpenIsNew
<1>2. StreamOK(s) /\ New(s) /\ Become(s)
  BY <1>1 DEF StreamOK, New, Become
<1>3. Heads(s, queues[user]) /\ Full(s, queues[user])
  BY <1>1 DEF Flow, Heads, Full, IsStarted
<1>4. Quiet(s)
  BY DEF Quiet
<1>5. Busy(s)
  BY <1>1 DEF Flow, Busy, IsStarted
<1>6. Own(s, user)
  BY <1>1 DEF Own
<1>7. WorkerMoves /\ NewAfter(s)
  BY <1>2, NewIsNewAfter DEF WorkerMoves
<1>8. IdsOK'
  BY DEF Inv, IdsOK
<1>9. /\ queues' \in [Users -> Seq(Writes)] /\ refused' \subseteq Keys
      /\ \A u \in Users : AllOf(queues'[u], u)
  BY DEF Inv, TypeOK, FlowOK
<1>10. Flow(s, queues'[user'], committed')
  BY <1>3, <1>4, <1>5 DEF Flow
<1> QED BY <1>2, <1>3, <1>6, <1>7, <1>8, <1>9, <1>10, BecomeStep

\* OnStreamRead, of the handshake.
LEMMA ReadHandshakeStep ==
    ASSUME Inv, OnStreamRead, ~stream.handshake
    PROVE  Inv'
<1> DEFINE read == [stream EXCEPT !.responses = Tail(@)]
           s == [read EXCEPT !.handshake = TRUE, !.requests = @ \o stream.pipeline]
           empty == <<>>
<1>1. StreamOK(stream) /\ stream.state = "Open" /\ stream.responses # <<>>
  BY UserQueue DEF OnStreamRead, StreamOK
<1>2. /\ stream.status = None /\ stream.responses = <<Handshake>>
      /\ stream.requests = <<>>
  BY <1>1, UserQueue DEF Flow, Shaking
<1>3. stream' = s
  BY DEF OnStreamRead, Become
<1>4. /\ stream.pipeline \in Seq(Writes) /\ Handshake \notin Writes
      /\ stream.pipeline \in Seq(Writes \cup {Handshake})
  BY <1>1, StreamAssumption DEF StreamOK, Stream
<1>5. s = [stream EXCEPT !.responses = empty, !.handshake = TRUE,
                         !.requests = stream.pipeline]
  <2>1. Tail(stream.responses) = <<>>
    BY <1>2
  <2>2. stream.requests \o stream.pipeline = stream.pipeline
    BY <1>2, <1>4
  <2>3. read.requests = stream.requests
    BY <1>1 DEF StreamOK, Stream
  <2> QED BY <1>1, <2>1, <2>2, <2>3 DEF StreamOK, Stream
<1> HIDE DEF s, empty
<1>6. empty \in Seq(Writes \cup {Handshake}) /\ empty = <<>>
  BY DEF empty
<1>7. /\ s \in Stream /\ s.state = "Open" /\ s.token = stream.token
      /\ s.closes = stream.closes /\ s.pipeline = stream.pipeline
      /\ s.requests = stream.pipeline /\ s.responses = <<>> /\ s.status = stream.status
      /\ s.handshake /\ (s.idle <=> stream.idle)
  <2>1. /\ s \in Stream /\ s.state = "Open" /\ s.token = stream.token
        /\ s.closes = stream.closes /\ s.pipeline = stream.pipeline
        /\ s.requests = stream.pipeline /\ s.responses = empty
        /\ s.status = stream.status
    BY <1>1, <1>4, <1>5, <1>6 DEF StreamOK, Stream
  <2>2. s.handshake /\ (s.idle <=> stream.idle)
    BY <1>1, <1>5 DEF StreamOK, Stream
  <2> QED BY <1>6, <2>1, <2>2
<1>8. Shaking(s) /\ Talking(s, committed)
  <2>1. /\ Len(s.responses) = 0 /\ Len(s.pipeline) \in Nat
       /\ \A i \in 1..Len(s.requests) : s.requests[i] = s.pipeline[0 + i]
    BY <1>4, <1>7
  <2>2. 0 <= Len(s.pipeline) /\ 0 + Len(s.requests) = Len(s.pipeline)
    BY <1>7, <2>1
  <2> QED BY <1>2, <1>7, <2>1, <2>2 DEF Shaking, Talking
<1>9. server' \in [Keys -> Docs \cup {NoDoc}] /\ committed' \subseteq Nat
      /\ committed' = committed
      /\ UNCHANGED <<auth, asking, main, credentials, worker, user, queues, refused>>
  BY <1>1, <1>3, <1>7 DEF Inv, TypeOK, OnStreamRead, Become
<1> QED BY <1>1, <1>3, <1>7, <1>8, <1>9, OpenStep

\* The first request leaves; what it becomes is up to the backend.
LEMMA FirstRequest ==
    ASSUME Inv, stream.requests # <<>>, stream.status = None
    PROVE  /\ stream.state = "Open" /\ stream \in Stream
           /\ stream.requests \in Seq(Writes \cup {Handshake})
           /\ stream.responses \in Seq(Writes \cup {Handshake})
           /\ stream.pipeline \in Seq(Writes)
           /\ Head(stream.requests) = stream.requests[1]
           /\ \/ /\ ~stream.handshake /\ stream.responses = <<>>
                 /\ stream.requests = <<Handshake>>
              \/ /\ stream.handshake
                 /\ Len(stream.responses) + 1 \in 1..Len(stream.pipeline)
                 /\ stream.requests[1] = stream.pipeline[Len(stream.responses) + 1]
                 /\ stream.requests[1] \in Writes /\ stream.requests[1] # Handshake
<1>1. /\ StreamOK(stream) /\ stream.state = "Open"
      /\ Flow(stream, queues[user], committed)
  BY UserQueue DEF StreamOK
<1>2. /\ stream.requests \in Seq(Writes \cup {Handshake})
      /\ stream.responses \in Seq(Writes \cup {Handshake})
      /\ stream.pipeline \in Seq(Writes) /\ stream \in Stream
  BY <1>1 DEF StreamOK, Stream
<1>3. Head(stream.requests) = stream.requests[1] /\ 1 \in 1..Len(stream.requests)
  BY <1>2
<1>4. CASE ~stream.handshake
  BY <1>1, <1>2, <1>3, <1>4 DEF Flow, Shaking
<1>5. CASE stream.handshake
  <2> DEFINE got == Len(stream.responses)
             sent == Len(stream.requests)
             all == Len(stream.pipeline)
  <2>1. /\ got \in Nat /\ sent \in Nat /\ all \in Nat /\ sent >= 1
        /\ got + sent = all /\ stream.requests[1] = stream.pipeline[got + 1]
    <3>1. got \in Nat /\ sent \in Nat /\ all \in Nat /\ 1 \in 1..sent /\ sent >= 1
      BY <1>2, <1>3
    <3>2. /\ got + sent = all
          /\ \A i \in 1..sent : stream.requests[i] = stream.pipeline[got + i]
      BY <1>1, <1>5 DEF Flow, Talking
    <3> QED BY <3>1, <3>2
  <2>2. got + 1 \in 1..all
    <3> HIDE DEF got, sent, all
    <3> QED BY <2>1
  <2>3. stream.pipeline[got + 1] \in Writes
    BY <1>2, <2>2
  <2> QED BY <1>1, <1>2, <1>3, <1>5, <2>1, <2>2, <2>3, StreamAssumption
<1> QED BY <1>4, <1>5

----------------------------------------------------------------------------
\* THE BACKEND

\* The backend serves what is first on the wire.
LEMMA ServeStep == Inv /\ Serve => Inv'
<1> SUFFICES ASSUME Inv, Serve PROVE Inv'
  OBVIOUS
<1> DEFINE r == Head(stream.requests)
           rest == Tail(stream.requests)
           served == Append(stream.responses, r)
           s == [stream EXCEPT !.requests = rest, !.responses = served]
           got == Len(stream.responses)
           sent == Len(stream.requests)
           all == Len(stream.pipeline)
<1>1. /\ stream.requests # <<>> /\ stream.status = None /\ stream' = s
      /\ \/ r = Handshake /\ UNCHANGED <<server, committed>>
         \/ /\ r # Handshake
            /\ server' = [server EXCEPT ![r.key] = r.doc]
            /\ committed' = committed \cup {r.id}
      /\ UNCHANGED <<auth, asking, main, credentials, worker, user, queues, refused>>
  BY DEF Serve
<1>2. /\ stream.state = "Open" /\ stream \in Stream
      /\ stream.requests \in Seq(Writes \cup {Handshake})
      /\ stream.responses \in Seq(Writes \cup {Handshake})
      /\ stream.pipeline \in Seq(Writes) /\ r = stream.requests[1]
      /\ \/ /\ ~stream.handshake /\ stream.responses = <<>>
            /\ stream.requests = <<Handshake>>
         \/ /\ stream.handshake /\ got + 1 \in 1..all
            /\ r = stream.pipeline[got + 1] /\ r \in Writes /\ r # Handshake
  BY <1>1, FirstRequest
<1>3. /\ rest \in Seq(Writes \cup {Handshake}) /\ served \in Seq(Writes \cup {Handshake})
      /\ Len(rest) = sent - 1 /\ \A i \in 1..(sent - 1) : rest[i] = stream.requests[i + 1]
      /\ Len(served) = got + 1 /\ \A i \in 1..got : served[i] = stream.responses[i]
      /\ served[got + 1] = r /\ sent \in Nat /\ sent >= 1 /\ got \in Nat /\ all \in Nat
  <2> DEFINE M == Writes \cup {Handshake}
  <2>1. stream.requests \in Seq(M) /\ stream.responses \in Seq(M) /\ stream.requests # <<>>
        /\ stream.pipeline \in Seq(Writes)
    BY <1>1, <1>2
  <2>2. r \in M
    <3> HIDE DEF M
    <3> QED BY <2>1
  <2> HIDE DEF M, r
  <2> QED BY <2>1, <2>2 DEF M
<1> HIDE DEF r, rest, served
<1>4. /\ s \in Stream /\ s.state = "Open" /\ s.token = stream.token
      /\ s.closes = stream.closes /\ s.pipeline = stream.pipeline
      /\ s.requests = rest /\ s.responses = served /\ s.status = stream.status
      /\ (s.idle <=> stream.idle) /\ (s.handshake <=> stream.handshake)
  <2>1. /\ s \in Stream /\ s.state = "Open" /\ s.token = stream.token
        /\ s.closes = stream.closes /\ s.pipeline = stream.pipeline
        /\ s.requests = rest /\ s.responses = served /\ s.status = stream.status
    BY <1>2, <1>3 DEF Stream
  <2>2. (s.idle <=> stream.idle) /\ (s.handshake <=> stream.handshake)
    BY <1>2 DEF Stream
  <2> QED BY <2>1, <2>2
<1> HIDE DEF s
<1>5. ASSUME NEW i \in DOMAIN s.requests
      PROVE  \E j \in DOMAIN stream.requests : s.requests[i] = stream.requests[j]
  <2>1. i \in 1..(sent - 1) /\ DOMAIN stream.requests = 1..sent
    BY <1>2, <1>3, <1>4
  <2>2. i + 1 \in 1..sent
    <3> HIDE DEF sent
    <3> QED BY <1>3, <2>1
  <2>3. s.requests[i] = stream.requests[i + 1]
    BY <1>3, <1>4, <2>1
  <2> QED BY <2>1, <2>2, <2>3
<1>6. server' \in [Keys -> Docs \cup {NoDoc}] /\ committed' \subseteq Nat
  <2>1. server \in [Keys -> Docs \cup {NoDoc}] /\ committed \subseteq Nat
    BY DEF Inv, TypeOK
  <2>2. r # Handshake => r.id \in Nat /\ r.key \in Keys /\ r.doc \in Docs \cup {NoDoc}
    <3>1. \A x \in Writes : x.id \in Nat /\ x.key \in Keys /\ x.doc \in Docs \cup {NoDoc}
      BY DEF Writes
    <3> QED BY <1>2, <3>1
  <2> QED BY <1>1, <2>1, <2>2
<1>7. committed \subseteq committed' /\ (r # Handshake => r.id \in committed')
  BY <1>1
<1>8. Shaking(s)
  <2> SUFFICES ASSUME ~stream.handshake PROVE Shaking(s)
    BY <1>4 DEF Shaking
  <2>1. stream.responses = <<>> /\ stream.requests = <<Handshake>>
    BY <1>2
  <2>2. r = Handshake
    BY <1>2, <2>1
  <2>3. rest = <<>> /\ served = <<Handshake>>
    BY <2>1, <2>2 DEF rest, served
  <2> QED BY <1>1, <1>4, <2>3 DEF Shaking
<1>9. Talking(s, committed')
  <2> SUFFICES ASSUME stream.handshake PROVE Talking(s, committed')
    BY <1>4 DEF Talking
  <2>1. /\ \A i \in 1..got : /\ stream.responses[i] = stream.pipeline[i]
                             /\ stream.pipeline[i].id \in committed
        /\ got + sent = all
        /\ \A i \in 1..sent : stream.requests[i] = stream.pipeline[got + i]
    BY <1>1, UserQueue DEF Flow, Talking
  <2>2. got + 1 \in 1..all /\ r = stream.pipeline[got + 1] /\ r # Handshake
    BY <1>2
  <2>3. \A i \in 1..(got + 1) : served[i] = stream.pipeline[i]
                                /\ stream.pipeline[i].id \in committed'
    <3>1. \A i \in 1..(got + 1) : i \in 1..got \/ i = got + 1
      <4> HIDE DEF got
      <4> QED BY <1>3
    <3> QED BY <1>3, <1>7, <2>1, <2>2, <3>1
  <2>4. \A i \in 1..(sent - 1) : rest[i] = stream.pipeline[(got + 1) + i]
    <3>1. \A i \in 1..(sent - 1) : i + 1 \in 1..sent /\ got + (i + 1) = (got + 1) + i
      <4> HIDE DEF got, sent
      <4> QED BY <1>3
    <3>2. \A i \in 1..(sent - 1) : rest[i] = stream.pipeline[got + (i + 1)]
      BY <1>3, <2>1, <3>1
    <3> QED BY <3>1, <3>2
  <2>5. (got + 1) + (sent - 1) = all /\ got + 1 <= all
    <3> HIDE DEF got, sent, all
    <3> QED BY <1>3, <2>1, <2>2
  <2>6. /\ Len(s.responses) = got + 1 /\ Len(s.requests) = sent - 1
        /\ Len(s.pipeline) = all /\ s.status = None
    BY <1>1, <1>3, <1>4
  <2> HIDE DEF got, sent, all
  <2> QED BY <1>4, <2>3, <2>4, <2>5, <2>6 DEF Talking
<1> QED BY <1>1, <1>2, <1>4, <1>5, <1>6, <1>8, <1>9, OpenStep

\* The backend ends the stream.
LEMMA RefuseStep == Inv /\ Refuse => Inv'
<1> SUFFICES ASSUME Inv, Refuse PROVE Inv'
  OBVIOUS
<1> DEFINE r == Head(stream.requests)
           rest == Tail(stream.requests)
           s == [stream EXCEPT !.requests = rest, !.status = r]
           got == Len(stream.responses)
           sent == Len(stream.requests)
           all == Len(stream.pipeline)
<1>1. /\ stream.requests # <<>> /\ stream.status = None /\ stream' = s
      /\ UNCHANGED <<server, auth, asking, main, credentials, worker, user, queues,
                     committed, refused>>
  BY DEF Refuse
<1>2. /\ stream.state = "Open" /\ stream \in Stream
      /\ stream.requests \in Seq(Writes \cup {Handshake})
      /\ stream.pipeline \in Seq(Writes) /\ r = stream.requests[1]
      /\ \/ /\ ~stream.handshake /\ stream.responses = <<>>
            /\ stream.requests = <<Handshake>>
         \/ /\ stream.handshake /\ got + 1 \in 1..all
            /\ r = stream.pipeline[got + 1] /\ r \in Writes /\ r # Handshake
  BY <1>1, FirstRequest
<1>3. /\ rest \in Seq(Writes \cup {Handshake})
      /\ Len(rest) = sent - 1 /\ \A i \in 1..(sent - 1) : rest[i] = stream.requests[i + 1]
      /\ r \in Writes \cup {Handshake} /\ sent \in Nat /\ sent >= 1
      /\ got \in Nat /\ all \in Nat
  <2> DEFINE M == Writes \cup {Handshake}
  <2>1. stream.requests \in Seq(M) /\ stream.requests # <<>>
        /\ stream.pipeline \in Seq(Writes) /\ stream.responses \in Seq(M)
    BY <1>1, <1>2 DEF Stream
  <2> HIDE DEF M
  <2>2. r \in M
    BY <2>1
  <2> HIDE DEF r
  <2> QED BY <2>1, <2>2 DEF M
<1>4. r # None
  BY <1>3, StreamAssumption
<1> HIDE DEF r, rest
<1>5. /\ s \in Stream /\ s.state = "Open" /\ s.token = stream.token
      /\ s.closes = stream.closes /\ s.pipeline = stream.pipeline
      /\ s.requests = rest /\ s.responses = stream.responses /\ s.status = r
      /\ (s.idle <=> stream.idle) /\ (s.handshake <=> stream.handshake)
  <2>1. /\ s \in Stream /\ s.state = "Open" /\ s.token = stream.token
        /\ s.closes = stream.closes /\ s.pipeline = stream.pipeline
        /\ s.requests = rest /\ s.responses = stream.responses /\ s.status = r
    BY <1>2, <1>3 DEF Stream
  <2>2. (s.idle <=> stream.idle) /\ (s.handshake <=> stream.handshake)
    BY <1>2 DEF Stream
  <2> QED BY <2>1, <2>2
<1> HIDE DEF s
<1>6. ASSUME NEW i \in DOMAIN s.requests
      PROVE  \E j \in DOMAIN stream.requests : s.requests[i] = stream.requests[j]
  <2>1. i \in 1..(sent - 1) /\ DOMAIN stream.requests = 1..sent
    BY <1>2, <1>3, <1>5
  <2>2. i + 1 \in 1..sent
    <3> HIDE DEF sent
    <3> QED BY <1>3, <2>1
  <2> QED BY <1>3, <1>5, <2>1, <2>2
<1>7. server' \in [Keys -> Docs \cup {NoDoc}] /\ committed' \subseteq Nat
  BY <1>1 DEF Inv, TypeOK
<1>8. Shaking(s)
  <2> SUFFICES ASSUME ~stream.handshake PROVE Shaking(s)
    BY <1>5 DEF Shaking
  <2>1. sent = 1 /\ stream.responses = <<>>
    BY <1>2
  <2>2. Len(rest) = 0
    <3> HIDE DEF sent
    <3> QED BY <1>3, <2>1
  <2>3. rest = <<>>
    BY <1>3, <2>2
  <2> QED BY <1>4, <1>5, <2>1, <2>3 DEF Shaking
<1>9. Talking(s, committed')
  <2> SUFFICES ASSUME stream.handshake PROVE Talking(s, committed')
    BY <1>5 DEF Talking
  <2>1. \A i \in 1..got : /\ stream.responses[i] = stream.pipeline[i]
                          /\ stream.pipeline[i].id \in committed
    BY UserQueue DEF Flow, Talking
  <2>2. got + 1 \in 1..all /\ r = stream.pipeline[got + 1]
    BY <1>2
  <2>3. got + 1 \in (got + 1)..all /\ got <= all
        /\ \A i \in 1..((got + 1) - 1) : i \in 1..got
    <3> HIDE DEF got, all
    <3> QED BY <1>3, <2>2
  <2>4. \E k \in (got + 1)..all : /\ r = stream.pipeline[k]
                                  /\ \A i \in 1..(k - 1) : stream.pipeline[i].id \in committed
    BY <2>1, <2>2, <2>3
  <2> QED BY <1>1, <1>4, <1>5, <2>1, <2>3, <2>4 DEF Talking
<1> QED BY <1>1, <1>2, <1>5, <1>6, <1>7, <1>8, <1>9, OpenStep

----------------------------------------------------------------------------
\* STEPS OF THE WORKER QUEUE

\* The first message of the worker queue.
LEMMA FirstMessage ==
    ASSUME Inv, worker # <<>>
    PROVE  /\ worker \in Seq(UserMsg \cup TokenMsg \cup WriteMsg)
           /\ Head(worker) = worker[1] /\ 1 \in DOMAIN worker
           /\ worker[1] \in UserMsg \cup TokenMsg \cup WriteMsg
           /\ worker[1].type = "user" => worker[1] \in UserMsg
           /\ worker[1].type = "token" => worker[1] \in TokenMsg
           /\ worker[1].type = "write" => worker[1] \in WriteMsg
<1> DEFINE M == UserMsg \cup TokenMsg \cup WriteMsg
<1>1. worker \in Seq(M)
  BY DEF Inv, TypeOK
<1>2. Head(worker) = worker[1] /\ 1 \in DOMAIN worker /\ worker[1] \in M
  <2> HIDE DEF M
  <2> QED BY <1>1
<1> QED BY <1>1, <1>2 DEF UserMsg, TokenMsg, WriteMsg

\* What the worker queue's first message leaves of the queues of ids, if nothing
\* joins a mutation queue.
LEMMA WorkerKeepsIds ==
    ASSUME Inv, WorkerMoves, UNCHANGED queues
    PROVE  IdsOK'
<1>1. PICK d \in {0, 1} :
        \A i \in 1..Len(worker') : worker'[i] = worker[i + d] /\ i + d \in 1..Len(worker)
  BY WorkerMoved
<1>2. /\ DOMAIN worker' = 1..Len(worker') /\ DOMAIN worker = 1..Len(worker)
      /\ Len(worker') \in Nat
  BY WorkerMoved DEF Inv, TypeOK
<1>3. ASSUME NEW i \in DOMAIN worker', NEW j \in DOMAIN worker',
             worker'[i].type = "write", worker'[j].type = "write",
             worker'[i].write.id = worker'[j].write.id
      PROVE  i = j
  <2>1. /\ worker'[i] = worker[i + d] /\ i + d \in DOMAIN worker
        /\ worker'[j] = worker[j + d] /\ j + d \in DOMAIN worker
    BY <1>1, <1>2
  <2>2. \A m, n \in DOMAIN worker :
            worker[m].type = "write" /\ worker[n].type = "write"
                /\ worker[m].write.id = worker[n].write.id => m = n
    BY DEF Inv, IdsOK
  <2>3. i + d = j + d
    BY <1>3, <2>1, <2>2, Zenon
  <2>4. i \in Int /\ j \in Int /\ d \in Int
    BY <1>2
  <2>5. \A k, m, n \in Int : m + k = n + k => m = n
    OBVIOUS
  <2> QED BY <2>3, <2>4, <2>5, Zenon
<1>4. \A i \in DOMAIN worker' : \E j \in DOMAIN worker : worker'[i] = worker[j]
  BY <1>1, <1>2
<1> QED BY <1>3, <1>4 DEF Inv, IdsOK

\* HandleCredentialChange.
LEMMA RunUserStep == Inv /\ RunUser => Inv'
<1> SUFFICES ASSUME Inv, RunUser PROVE Inv'
  OBVIOUS
<1> DEFINE s == Restarted(queues[user'])
<1>1. /\ worker # <<>> /\ Head(worker).type = "user" /\ worker' = Tail(worker)
      /\ user' = Head(worker).user /\ Become(s)
      /\ UNCHANGED <<server, auth, main, credentials, queues, committed, refused>>
  BY DEF RunUser
<1>2. WorkerMoves
  BY <1>1 DEF WorkerMoves, UserAfter
<1>3. user' \in Users /\ queues[user'] \in Seq(Writes) /\ AllOf(queues[user'], user')
  BY <1>2, WorkerMoved DEF Inv, TypeOK, FlowOK
<1>4. /\ StreamOK(s) /\ New(s) /\ Own(s, user')
      /\ Flow(s, queues[user'], committed) /\ Full(s, queues[user'])
  BY <1>3, RestartedFlows
<1> HIDE DEF s
<1>5. NewAfter(s) /\ IdsOK'
  BY <1>1, <1>2, <1>4, NewIsNewAfter, WorkerKeepsIds
<1>6. /\ server' \in [Keys -> Docs \cup {NoDoc}] /\ queues' \in [Users -> Seq(Writes)]
      /\ committed' \subseteq Nat /\ refused' \subseteq Keys
      /\ \A u \in Users : AllOf(queues'[u], u)
  BY <1>1 DEF Inv, TypeOK, FlowOK
<1> QED BY <1>1, <1>2, <1>4, <1>5, <1>6, BecomeStep

\* ResumeStartWithCredentials.
LEMMA RunTokenStep == Inv /\ RunToken => Inv'
<1> SUFFICES ASSUME Inv, RunToken PROVE Inv'
  OBVIOUS
<1> DEFINE t == Head(worker)
<1>1. /\ worker # <<>> /\ t.type = "token" /\ worker' = Tail(worker)
      /\ UNCHANGED <<server, auth, main, credentials, user, queues, committed, refused>>
  BY DEF RunToken
<1>2. /\ WorkerMoves /\ user' = UserAfter(user, t) /\ t = worker[1] /\ 1 \in DOMAIN worker
      /\ t \in TokenMsg
  BY <1>1, FirstMessage DEF WorkerMoves, UserAfter
<1>3. /\ server' \in [Keys -> Docs \cup {NoDoc}] /\ queues' \in [Users -> Seq(Writes)]
      /\ committed' \subseteq Nat /\ refused' \subseteq Keys
      /\ \A u \in Users : AllOf(queues'[u], u)
  BY <1>1 DEF Inv, TypeOK, FlowOK
<1>4. IdsOK'
  BY <1>1, <1>2, WorkerKeepsIds
<1> DEFINE Fine(s) == /\ StreamOK(s) /\ Flow(s, queues[user], committed)
                      /\ Full(s, queues[user]) /\ Own(s, user)
<1>5. ASSUME NEW s, Fine(s), Become(s), NewAfter(s) \/ Waits(s)
      PROVE  Inv'
  BY <1>1, <1>2, <1>3, <1>4, <1>5, BecomeStep
<1>6. Fine(stream)
  BY UserQueue
<1> HIDE DEF t
<1>7. CASE t.closes # stream.closes /\ UNCHANGED <<stream, asking>>
  <2>1. Become(stream)
    BY <1>7 DEF Become
  <2>2. CASE stream.state = "Starting"
    <3>1. Waits(stream)
      BY <1>1, <2>2 DEF Waits, t
    <3> QED BY <1>5, <1>6, <2>1, <3>1
  <2>3. CASE stream.state # "Starting"
    <3>1. NewAfter(stream)
      BY <1>1, <1>2, <2>3, OpenIsNew, NewIsNewAfter
    <3> QED BY <1>5, <1>6, <2>1, <3>1
  <2> QED BY <2>2, <2>3
<1>8. CASE t.closes = stream.closes /\ t.user = None /\ Become(Failed)
  <2>1. Fine(Failed) /\ New(Failed)
    BY FailedFlows
  <2>2. NewAfter(Failed)
    BY <1>1, <1>2, <2>1, NewIsNewAfter
  <2> QED BY <1>5, <1>8, <2>1, <2>2
<1> DEFINE s == [stream EXCEPT !.state = "Open", !.token = t.user, !.requests = <<Handshake>>]
<1>9. CASE t.closes = stream.closes /\ t.user # None /\ Become(s)
  <2>1. stream.state = "Starting"
    <3>1. t \in Outstanding
      BY <1>1, <1>2 DEF Outstanding, OfType, Elements, t
    <3>2. ~New(stream)
      BY <1>9, <3>1 DEF New
    <3> QED BY <3>2, OpenIsNew
  <2>2. t.user = user
    <3>1. Fits(worker[1], stream.closes)
      BY <1>1, <1>2, <1>9 DEF Fits, t
    <3>2. NoUser(worker, 1)
      BY <1>1, <1>2 DEF NoUser, t
    <3>3. worker[1].user \in {None, user}
      BY <1>2, <3>1, <3>2 DEF Inv, TokensOK
    <3> QED BY <1>2, <1>9, <3>3
  <2>3. /\ stream \in Stream /\ stream.responses = <<>> /\ stream.status = None
        /\ ~stream.handshake /\ ~stream.idle /\ user \in Users
        /\ Len(stream.pipeline) > 0
    BY <1>6, <2>1, UserQueue DEF StreamOK, Flow, Quiet, Busy, IsStarted
  <2>4. /\ s \in Stream /\ s.state = "Open" /\ s.token = user
        /\ s.requests = <<Handshake>> /\ s.responses = stream.responses
        /\ s.pipeline = stream.pipeline /\ s.status = stream.status
        /\ s.closes = stream.closes
    <3> DEFINE q == <<Handshake>>
    <3>1. q \in Seq(Writes \cup {Handshake})
      OBVIOUS
    <3>2. s = [stream EXCEPT !.state = "Open", !.token = user, !.requests = q]
      BY <2>2
    <3> HIDE DEF q, s
    <3>3. /\ s \in Stream /\ s.state = "Open" /\ s.token = user
          /\ s.requests = q /\ s.responses = stream.responses
          /\ s.pipeline = stream.pipeline /\ s.status = stream.status
          /\ s.closes = stream.closes
      BY <2>3, <3>1, <3>2 DEF Stream
    <3> QED BY <3>3 DEF q
  <2>5. ~s.handshake /\ ~s.idle
    BY <2>3 DEF Stream
  <2> HIDE DEF s
  <2>6. StreamOK(s)
    BY <1>6, <2>3, <2>4, StreamAssumption DEF StreamOK
  <2>7. Heads(s, queues[user]) /\ Full(s, queues[user])
    BY <1>6, <2>4 DEF Flow, Heads, Full, IsStarted
  <2>8. Quiet(s) /\ Shaking(s) /\ Talking(s, committed)
    BY <2>3, <2>4, <2>5 DEF Quiet, Shaking, Talking
  <2>9. Busy(s)
    BY <2>3, <2>4, <2>5 DEF Busy
  <2>10. Own(s, user)
    BY <1>6, <2>4 DEF Own
  <2>11. NewAfter(s)
    <3>1. /\ \A r \in asking : r.closes # stream.closes
          /\ \A i \in DOMAIN main : ~Fits(main[i], stream.closes)
          /\ \A i \in DOMAIN worker : Fits(worker[i], stream.closes) => i = 1
      <4>1. Fits(worker[1], stream.closes)
        BY <1>1, <1>2, <1>9 DEF Fits, t
      <4> QED BY <1>2, <4>1 DEF Inv, OneRequest
    <3>2. \A i \in 1..Len(worker') :
              /\ worker'[i] = worker[i + 1] /\ i + 1 \in DOMAIN worker /\ i + 1 # 1
      <4>1. worker \in Seq(UserMsg \cup TokenMsg \cup WriteMsg)
        BY <1>1, FirstMessage
      <4> DEFINE M == UserMsg \cup TokenMsg \cup WriteMsg
      <4>2. worker \in Seq(M) /\ worker # <<>> /\ worker' = Tail(worker)
        BY <1>1, <4>1
      <4> HIDE DEF M
      <4> QED BY <4>2
    <3>3. \A i \in DOMAIN worker' : ~Fits(worker'[i], stream.closes)
      BY <1>2, <3>1, <3>2, WorkerMoved
    <3> QED BY <1>1, <2>4, <3>1, <3>3 DEF NewAfter, OfType, Elements, Fits
  <2> QED BY <1>5, <1>9, <2>6, <2>7, <2>8, <2>9, <2>10, <2>11 DEF Flow
<1> QED BY <1>7, <1>8, <1>9 DEF RunToken, t

\* A queue with one write more.
LEMMA Appended ==
    ASSUME NEW queue \in Seq(Writes), NEW w \in Writes
    PROVE  /\ Append(queue, w) \in Seq(Writes) /\ Len(queue) \in Nat
           /\ Len(Append(queue, w)) = Len(queue) + 1
           /\ DOMAIN queue = 1..Len(queue)
           /\ DOMAIN Append(queue, w) = 1..(Len(queue) + 1)
           /\ \A i \in 1..Len(queue) : Append(queue, w)[i] = queue[i]
           /\ Append(queue, w)[Len(queue) + 1] = w
<1> DEFINE M == Writes
<1>1. queue \in Seq(M) /\ w \in M
  OBVIOUS
<1> HIDE DEF M
<1> QED BY <1>1 DEF M

\* A write joins the queue of the user who made it.
LEMMA RunWriteStep == Inv /\ RunWrite => Inv'
<1> SUFFICES ASSUME Inv, RunWrite PROVE Inv'
  OBVIOUS
<1> DEFINE w == Head(worker).write
           old == queues[user]
           queue == Append(old, w)
           s == Fill(stream, queue)
           n == Len(old)
<1>1. /\ worker # <<>> /\ Head(worker).type = "write" /\ worker' = Tail(worker)
      /\ queues' = [queues EXCEPT ![user] = queue] /\ Become(s)
      /\ UNCHANGED <<server, auth, main, credentials, user, committed, refused>>
  BY DEF RunWrite
<1>2. /\ WorkerMoves /\ Head(worker) = worker[1] /\ 1 \in DOMAIN worker
      /\ w \in Writes /\ w = worker[1].write
      /\ worker \in Seq(UserMsg \cup TokenMsg \cup WriteMsg)
  BY <1>1, FirstMessage DEF WorkerMoves, UserAfter, WriteMsg
<1>3. w.user = user
  <2>1. UserIs(worker, 1, user, w.user)
    BY <1>1, <1>2 DEF Inv, HopsOK
  <2>2. NoUser(worker, 1)
    BY <1>1, <1>2 DEF NoUser
  <2>3. 1 \in Nat
    OBVIOUS
  <2> QED BY <2>1, <2>2, <2>3, UserIsSame
<1>4. /\ user \in Users /\ old \in Seq(Writes) /\ AllOf(old, user) /\ StreamOK(stream)
      /\ Flow(stream, old, committed) /\ Full(stream, old) /\ Own(stream, user)
      /\ queues \in [Users -> Seq(Writes)]
  BY UserQueue DEF Inv, TypeOK
<1> HIDE DEF w, old
<1>5. /\ queue \in Seq(Writes) /\ n \in Nat /\ Len(queue) = n + 1
      /\ DOMAIN old = 1..n /\ DOMAIN queue = 1..(n + 1)
      /\ \A i \in 1..n : queue[i] = old[i]
      /\ queue[n + 1] = w
  BY <1>2, <1>4, Appended
<1> HIDE DEF queue
<1>6. AllOf(queue, user)
  <2>1. \A i \in 1..(n + 1) : i \in 1..n \/ i = n + 1
    <3> HIDE DEF n
    <3> QED BY <1>5
  <2> QED BY <1>3, <1>4, <1>5, <2>1 DEF AllOf
<1>7. Heads(stream, queue)
  <2> DEFINE k == Len(stream.pipeline)
  <2>1. /\ k \in Nat /\ k <= Min2(n, MaxPipeline)
        /\ \A i \in 1..k : stream.pipeline[i] = old[i]
    BY <1>4 DEF Flow, Heads, StreamOK, Stream
  <2>2. k <= Min2(n + 1, MaxPipeline) /\ \A i \in 1..k : i \in 1..n
    <3> HIDE DEF k, n
    <3> QED BY <1>5, <2>1, StreamAssumption DEF Min2
  <2> QED BY <1>5, <2>1, <2>2 DEF Heads
<1>8. /\ StreamOK(s) /\ Flow(s, queue, committed) /\ Full(s, queue) /\ Own(s, user)
      /\ s.closes = stream.closes
      /\ stream.state = "Starting" => s.state = "Starting"
  <2>1. Flow(stream, queue, committed)
    BY <1>4, <1>7 DEF Flow
  <2> QED BY <1>4, <1>5, <1>6, <2>1, FillFlows
<1> HIDE DEF s
<1>9. NewAfter(s) \/ Waits(s)
  <2>1. CASE stream.state = "Starting"
    BY <1>1, <1>8, <2>1 DEF Waits
  <2>2. CASE stream.state # "Starting"
    <3>1. New(s)
      BY <1>8, <2>2, OpenIsNew DEF New
    <3> QED BY <1>1, <1>2, <3>1, NewIsNewAfter
  <2> QED BY <2>1, <2>2
<1>10. queues'[user'] = queue /\ \A u \in Users : u # user => queues'[u] = queues[u]
  BY <1>1, <1>4
<1>11. IdsOK'
  <2>1. \A i \in 1..Len(worker') :
            /\ worker'[i] = worker[i + 1] /\ i + 1 \in DOMAIN worker /\ i + 1 # 1
            /\ i \in Int
    <3> DEFINE M == UserMsg \cup TokenMsg \cup WriteMsg
    <3>1. worker \in Seq(M) /\ worker # <<>> /\ worker' = Tail(worker)
      BY <1>1, <1>2
    <3> HIDE DEF M
    <3> QED BY <3>1
  <2>2. DOMAIN worker' = 1..Len(worker')
    BY <1>2, WorkerMoved
  <2>3. \A i \in 1..n : old[i].id # w.id
    BY <1>1, <1>2, <1>4, <1>5 DEF Inv, IdsOK, old
  <2>4. \A j \in DOMAIN worker' : worker'[j].type = "write" => worker'[j].write.id # w.id
    <3>1. \A j \in DOMAIN worker : worker[j].type = "write" /\ worker[j].write.id = w.id
                => j = 1
      BY <1>1, <1>2 DEF Inv, IdsOK
    <3> QED BY <2>1, <2>2, <3>1
  <2>5. \A i, j \in DOMAIN queue : queue[i].id = queue[j].id => i = j
    <3>1. \A i \in 1..(n + 1) : i \in 1..n \/ i = n + 1
      <4> HIDE DEF n
      <4> QED BY <1>5
    <3>2. \A i, j \in 1..n : old[i].id = old[j].id => i = j
      BY <1>4, <1>5 DEF Inv, IdsOK, old
    <3> HIDE DEF n
    <3> QED BY <1>5, <2>3, <3>1, <3>2
  <2>6. \A i \in DOMAIN queue, j \in DOMAIN worker' :
            worker'[j].type = "write" => queue[i].id # worker'[j].write.id
    <3>1. \A i \in 1..(n + 1) : i \in 1..n \/ i = n + 1
      <4> HIDE DEF n
      <4> QED BY <1>5
    <3>2. \A i \in 1..n, j \in DOMAIN worker :
            worker[j].type = "write" => old[i].id # worker[j].write.id
      BY <1>4, <1>5 DEF Inv, IdsOK, old
    <3> HIDE DEF n
    <3> QED BY <1>5, <2>1, <2>2, <2>4, <3>1, <3>2
  <2>7. \A i, j \in DOMAIN worker' :
            worker'[i].type = "write" /\ worker'[j].type = "write"
                /\ worker'[i].write.id = worker'[j].write.id => i = j
    <3> SUFFICES ASSUME NEW i \in DOMAIN worker', NEW j \in DOMAIN worker',
                        worker'[i].type = "write", worker'[j].type = "write",
                        worker'[i].write.id = worker'[j].write.id
                 PROVE  i = j
      OBVIOUS
    <3>1. \A a, b \in DOMAIN worker :
            worker[a].type = "write" /\ worker[b].type = "write"
                /\ worker[a].write.id = worker[b].write.id => a = b
      BY DEF Inv, IdsOK
    <3>2. i + 1 = j + 1
      BY <2>1, <2>2, <3>1, Zenon
    <3>3. i \in Int /\ j \in Int
      BY <2>1, <2>2
    <3>4. \A a, b \in Int : a + 1 = b + 1 => a = b
      OBVIOUS
    <3> QED BY <3>2, <3>3, <3>4, Zenon
  <2>8. \A u \in Users : u # user =>
            /\ \A i, j \in DOMAIN queues'[u] :
                    queues'[u][i].id = queues'[u][j].id => i = j
            /\ \A i \in DOMAIN queues'[u], j \in DOMAIN worker' :
                    worker'[j].type = "write" => queues'[u][i].id # worker'[j].write.id
    BY <1>10, <2>1, <2>2 DEF Inv, IdsOK
  <2> QED BY <1>1, <1>10, <2>5, <2>6, <2>7, <2>8 DEF IdsOK
<1>12. /\ server' \in [Keys -> Docs \cup {NoDoc}] /\ committed' \subseteq Nat
       /\ refused' \subseteq Keys /\ queues' \in [Users -> Seq(Writes)]
  BY <1>1, <1>4, <1>5 DEF Inv, TypeOK
<1>13. \A u \in Users : AllOf(queues'[u], u)
  BY <1>1, <1>6, <1>10 DEF Inv, FlowOK
<1>14. /\ Flow(s, queues'[user'], committed') /\ Full(s, queues'[user'])
       /\ Own(s, user') /\ UNCHANGED <<auth, main, credentials>>
  BY <1>1, <1>8, <1>10
<1> QED BY <1>1, <1>2, <1>8, <1>9, <1>11, <1>12, <1>13, <1>14, BecomeStep

----------------------------------------------------------------------------
\* A WRITE LEAVES ITS QUEUE

\* What goes is the first write of the user's queue.
LEMMA FirstWrite ==
    ASSUME Inv, stream.pipeline # <<>>
    PROVE  LET w == Head(stream.pipeline)
               old == queues[user]
               rest == Without(old, w)
           IN  /\ w \in Writes /\ w = stream.pipeline[1] /\ w = old[1]
               /\ Len(old) \in Nat /\ Len(old) >= 1 /\ DOMAIN old = 1..Len(old)
               /\ rest \in Seq(Writes) /\ Len(rest) = Len(old) - 1
               /\ \A i \in 1..(Len(old) - 1) : rest[i] = old[i + 1]
               /\ AllOf(rest, user)
               /\ \A i \in 2..Len(old) : old[i].id # w.id
<1> DEFINE w == Head(stream.pipeline)
           old == queues[user]
           rest == Without(old, w)
           k == Len(stream.pipeline)
           n == Len(old)
<1>1. /\ user \in Users /\ old \in Seq(Writes) /\ AllOf(old, user)
      /\ stream.pipeline \in Seq(Writes) /\ Heads(stream, old)
  BY UserQueue DEF StreamOK, Stream, Flow
<1>2. /\ w = stream.pipeline[1] /\ w \in Writes /\ k \in Nat /\ k >= 1
      /\ n \in Nat /\ DOMAIN old = 1..n
  BY <1>1
<1>3. n >= 1 /\ stream.pipeline[1] = old[1] /\ old # <<>>
  <2>1. k <= Min2(n, MaxPipeline) /\ \A i \in 1..k : stream.pipeline[i] = old[i]
    BY <1>1 DEF Heads
  <2>2. 1 \in 1..k
    <3> HIDE DEF k
    <3> QED BY <1>2
  <2>3. n >= 1
    <3> HIDE DEF k, n
    <3> QED BY <1>2, <2>1, StreamAssumption DEF Min2
  <2>4. old # <<>>
    BY <2>3
  <2> QED BY <2>1, <2>2, <2>3, <2>4
<1>4. \A i, j \in DOMAIN old : old[i].id = old[j].id => i = j
  BY <1>1 DEF Inv, IdsOK
<1>5. w = Head(old) /\ w = old[1]
  BY <1>1, <1>2, <1>3
<1> HIDE DEF w, old
<1>6. /\ rest \in Seq(Writes) /\ Len(rest) = n - 1
      /\ \A i \in 1..(n - 1) : rest[i] = old[i + 1]
  BY <1>1, <1>3, <1>4, <1>5, WithoutHead
<1> HIDE DEF rest
<1>7. AllOf(rest, user)
  <2>1. \A i \in 1..(n - 1) : i + 1 \in 1..n
    <3> HIDE DEF n
    <3> QED BY <1>2
  <2>2. \A i \in 1..n : old[i].user = user
    BY <1>1, <1>2 DEF AllOf
  <2>3. DOMAIN rest = 1..(n - 1)
    BY <1>6
  <2> QED BY <1>6, <2>1, <2>2, <2>3 DEF AllOf
<1>8. \A i \in 2..n : old[i].id # w.id
  <2>1. \A i \in 2..n : i \in 1..n /\ i # 1 /\ 1 \in 1..n
    <3> HIDE DEF n
    <3> QED BY <1>2
  <2> QED BY <1>2, <1>4, <1>5, <2>1
<1> QED BY <1>2, <1>3, <1>5, <1>6, <1>7, <1>8 DEF w, old, rest

\* The rest of a pipeline.
LEMMA DropFields ==
    ASSUME NEW s, StreamOK(s), s.pipeline # <<>>,
           NEW t, t = [s EXCEPT !.pipeline = Tail(@)]
    PROVE  /\ StreamOK(t) /\ t.state = s.state /\ t.token = s.token
           /\ t.closes = s.closes /\ t.requests = s.requests
           /\ t.responses = s.responses /\ t.status = s.status
           /\ (t.handshake <=> s.handshake) /\ (t.idle <=> s.idle)
           /\ Len(s.pipeline) \in Nat /\ Len(s.pipeline) >= 1
           /\ Len(t.pipeline) = Len(s.pipeline) - 1
           /\ \A i \in 1..(Len(s.pipeline) - 1) : t.pipeline[i] = s.pipeline[i + 1]
<1> DEFINE M == Writes
           q == Tail(s.pipeline)
<1>1. s \in Stream /\ s.pipeline \in Seq(M) /\ Len(s.pipeline) <= MaxPipeline
  BY DEF StreamOK, Stream
<1>2. /\ q \in Seq(M) /\ Len(s.pipeline) \in Nat /\ Len(s.pipeline) >= 1
      /\ Len(q) = Len(s.pipeline) - 1
      /\ \A i \in 1..(Len(s.pipeline) - 1) : q[i] = s.pipeline[i + 1]
  <2> HIDE DEF M
  <2> QED BY <1>1
<1>3. t = [s EXCEPT !.pipeline = q]
  OBVIOUS
<1> HIDE DEF q
<1>4. /\ t \in Stream /\ t.state = s.state /\ t.token = s.token
      /\ t.closes = s.closes /\ t.requests = s.requests
      /\ t.responses = s.responses /\ t.status = s.status /\ t.pipeline = q
  BY <1>1, <1>2, <1>3 DEF Stream
<1>5. (t.handshake <=> s.handshake) /\ (t.idle <=> s.idle)
  BY <1>1, <1>3 DEF Stream
<1>6. Len(t.pipeline) <= MaxPipeline
  BY <1>1, <1>2, <1>4, StreamAssumption
<1> QED BY <1>2, <1>4, <1>5, <1>6 DEF StreamOK

\* Drop, whatever has closed or read the stream before.
LEMMA DropStep ==
    ASSUME Inv, stream.pipeline # <<>>,
           NEW s, StreamOK(s), New(s), s.pipeline = stream.pipeline, Own(s, user), Drop(s),
           NEW t, t = [s EXCEPT !.pipeline = Tail(@)],
           Quiet(t), Shaking(t), Busy(t),
           Talking(t, committed \ {Head(stream.pipeline).id}),
           UNCHANGED <<server, auth, main, credentials, worker, user>>,
           refused' \subseteq Keys
    PROVE  Inv'
<1> DEFINE w == Head(stream.pipeline)
           old == queues[user]
           rest == Without(old, w)
           done == committed \ {w.id}
           f == Fill(t, rest)
           n == Len(old)
           k == Len(stream.pipeline)
<1>1. queues' = [queues EXCEPT ![user] = rest] /\ committed' = done /\ Become(f)
  BY DEF Drop
<1>2. /\ w \in Writes /\ w = stream.pipeline[1] /\ w = old[1]
      /\ n \in Nat /\ n >= 1 /\ DOMAIN old = 1..n
      /\ rest \in Seq(Writes) /\ Len(rest) = n - 1
      /\ \A i \in 1..(n - 1) : rest[i] = old[i + 1]
      /\ AllOf(rest, user)
  BY FirstWrite
<1>3. /\ StreamOK(t) /\ t.token = s.token /\ t.closes = s.closes
      /\ t.requests = s.requests
      /\ k \in Nat /\ k >= 1 /\ Len(t.pipeline) = k - 1
      /\ \A i \in 1..(k - 1) : t.pipeline[i] = stream.pipeline[i + 1]
  BY DropFields
<1>4. /\ user \in Users /\ Heads(stream, old) /\ queues \in [Users -> Seq(Writes)]
      /\ stream.pipeline \in Seq(Writes)
  BY UserQueue DEF Flow, Inv, TypeOK, StreamOK, Stream
<1> HIDE DEF w, old, rest, done
<1>5. Heads(t, rest)
  <2>1. k <= Min2(n, MaxPipeline) /\ \A i \in 1..k : stream.pipeline[i] = old[i]
    BY <1>4 DEF Heads
  <2>2. /\ k - 1 <= Min2(n - 1, MaxPipeline)
        /\ \A i \in 1..(k - 1) : i + 1 \in 1..k /\ i \in 1..(n - 1)
    <3> HIDE DEF k, n
    <3> QED BY <1>2, <1>3, <2>1, StreamAssumption DEF Min2
  <2> HIDE DEF k, n
  <2> QED BY <1>2, <1>3, <2>1, <2>2 DEF Heads
<1>6. Own(t, user)
  <2>1. \A i \in DOMAIN t.pipeline : t.pipeline[i].user = user
    <3>1. DOMAIN t.pipeline = 1..(k - 1) /\ DOMAIN s.pipeline = 1..k
      BY <1>3, <1>4 DEF StreamOK, Stream
    <3>2. \A i \in 1..(k - 1) : i + 1 \in 1..k
      <4> HIDE DEF k
      <4> QED BY <1>3
    <3> QED BY <1>3, <3>1, <3>2 DEF Own
  <2> QED BY <1>3, <2>1 DEF Own
<1>7. Flow(t, rest, done)
  BY <1>5 DEF Flow, done, w
<1>8. /\ StreamOK(f) /\ Flow(f, rest, done) /\ Full(f, rest) /\ Own(f, user)
      /\ f.closes = t.closes
  BY <1>2, <1>3, <1>6, <1>7, FillFlows
<1> HIDE DEF f
<1>9. WorkerMoves
  BY DEF WorkerMoves
<1>10. NewAfter(f)
  BY <1>3, <1>8, <1>9, NewIsNewAfter DEF New
<1>11. queues'[user'] = rest /\ \A u \in Users : u # user => queues'[u] = queues[u]
  BY <1>1, <1>4
<1>12. IdsOK'
  <2>1. \A i \in 1..(n - 1) : i + 1 \in 1..n /\ i \in Int
    <3> HIDE DEF n
    <3> QED BY <1>2
  <2>2. DOMAIN rest = 1..(n - 1)
    BY <1>2
  <2>3. \A i, j \in DOMAIN rest : rest[i].id = rest[j].id => i = j
    <3> SUFFICES ASSUME NEW i \in DOMAIN rest, NEW j \in DOMAIN rest,
                        rest[i].id = rest[j].id
                 PROVE  i = j
      OBVIOUS
    <3>1. \A a, b \in 1..n : old[a].id = old[b].id => a = b
      BY <1>2, <1>4 DEF Inv, IdsOK, old
    <3>2. /\ rest[i] = old[i + 1] /\ i + 1 \in 1..n /\ i \in Int
          /\ rest[j] = old[j + 1] /\ j + 1 \in 1..n /\ j \in Int
      BY <1>2, <2>1, <2>2
    <3>3. i + 1 = j + 1
      BY <3>1, <3>2, Zenon
    <3>4. \A a, b \in Int : a + 1 = b + 1 => a = b
      OBVIOUS
    <3> QED BY <3>2, <3>3, <3>4, Zenon
  <2>4. \A i \in DOMAIN rest, j \in DOMAIN worker :
            worker[j].type = "write" => rest[i].id # worker[j].write.id
    <3>1. IdsOK
      BY DEF Inv
    <3>2. user \in Users
      BY DEF Inv, TypeOK
    <3>3. \A i \in DOMAIN old, j \in DOMAIN worker :
            worker[j].type = "write" => old[i].id # worker[j].write.id
      <4>1. \A u \in Users : \A i \in DOMAIN queues[u], j \in DOMAIN worker :
                worker[j].type = "write" => queues[u][i].id # worker[j].write.id
        BY <3>1 DEF IdsOK
      <4> QED BY <3>2, <4>1, Zenon DEF old
    <3>4. \A i \in DOMAIN rest : i + 1 \in DOMAIN old /\ rest[i] = old[i + 1]
      BY <1>2, <2>1, <2>2
    <3> QED BY <3>3, <3>4, Zenon
  <2> QED BY <1>11, <2>3, <2>4 DEF Inv, IdsOK
<1>13. /\ server' \in [Keys -> Docs \cup {NoDoc}] /\ committed' \subseteq Nat
       /\ queues' \in [Users -> Seq(Writes)]
  BY <1>1, <1>2, <1>4 DEF Inv, TypeOK, done
<1>14. \A u \in Users : AllOf(queues'[u], u)
  BY <1>2, <1>11 DEF Inv, FlowOK
<1>15. /\ Flow(f, queues'[user'], committed') /\ Full(f, queues'[user']) /\ Own(f, user')
  BY <1>1, <1>8, <1>11
<1> QED BY <1>1, <1>8, <1>9, <1>10, <1>12, <1>13, <1>14, <1>15, BecomeStep

\* OnStreamRead, of the result of a write.
LEMMA ReadResultStep == Inv /\ OnStreamRead /\ stream.handshake => Inv'
<1> SUFFICES ASSUME Inv, OnStreamRead, stream.handshake PROVE Inv'
  OBVIOUS
<1> DEFINE M == Writes \cup {Handshake}
           q == Tail(stream.responses)
           s == [stream EXCEPT !.responses = q]
           t == [s EXCEPT !.pipeline = Tail(@)]
           w == Head(stream.pipeline)
           done == committed \ {w.id}
           got == Len(stream.responses)
           sent == Len(stream.requests)
           old == Len(stream.pipeline)
           n == Len(queues[user])
<1>1. /\ stream.responses # <<>> /\ Drop(s)
      /\ UNCHANGED <<server, auth, main, credentials, worker, user, refused>>
  BY DEF OnStreamRead
<1>2. /\ StreamOK(stream) /\ Own(stream, user)
      /\ Heads(stream, queues[user]) /\ Quiet(stream) /\ Talking(stream, committed)
      /\ Busy(stream)
  BY UserQueue DEF Flow
<1>3. /\ stream \in Stream /\ stream.responses \in Seq(M) /\ stream.state = "Open"
      /\ stream.pipeline \in Seq(Writes)
      /\ got \in Nat /\ sent \in Nat /\ old \in Nat
  BY <1>1, <1>2 DEF StreamOK, Stream
<1>4. /\ q \in Seq(M) /\ got >= 1 /\ Len(q) = got - 1
      /\ \A i \in 1..(got - 1) : q[i] = stream.responses[i + 1]
  <2> HIDE DEF M
  <2> QED BY <1>1, <1>3
<1>5. got <= old /\ old >= 1 /\ stream.pipeline # <<>>
  <2>1. got <= old
    BY <1>2 DEF Talking
  <2>2. old >= 1
    <3> HIDE DEF got, old
    <3> QED BY <1>3, <1>4, <2>1
  <2> QED BY <2>1, <2>2
<1> HIDE DEF q
<1>6. /\ s \in Stream /\ s.state = "Open" /\ s.token = stream.token
      /\ s.closes = stream.closes /\ s.pipeline = stream.pipeline
      /\ s.requests = stream.requests /\ s.responses = q /\ s.status = stream.status
  BY <1>3, <1>4 DEF Stream
<1>7. s.handshake /\ (s.idle <=> stream.idle)
  BY <1>3 DEF Stream
<1> HIDE DEF s
<1>8. StreamOK(s) /\ New(s) /\ Own(s, user)
  <2>1. New(s)
    BY <1>3, <1>6, OpenIsNew DEF New
  <2>2. StreamOK(s)
    BY <1>2, <1>3, <1>6 DEF StreamOK
  <2>3. Own(s, user)
    BY <1>2, <1>6 DEF Own
  <2> QED BY <2>1, <2>2, <2>3
<1>9. /\ t.state = "Open" /\ t.handshake /\ (t.idle <=> stream.idle)
      /\ t.requests = stream.requests /\ t.responses = q /\ t.status = stream.status
      /\ Len(t.pipeline) = old - 1
      /\ \A i \in 1..(old - 1) : t.pipeline[i] = stream.pipeline[i + 1]
  BY <1>5, <1>6, <1>7, <1>8, DropFields
<1> HIDE DEF t
<1>10. Quiet(t) /\ Shaking(t)
  BY <1>9 DEF Quiet, Shaking
<1>11. Busy(t)
  <2>1. ~stream.idle
    <3>1. stream.idle => old = 0
      BY <1>2 DEF Busy
    <3> HIDE DEF old
    <3> QED BY <1>5, <3>1
  <2> QED BY <1>9, <2>1 DEF Busy
<1>12. \A i \in 2..old : stream.pipeline[i].id # w.id
  <2>1. /\ n \in Nat /\ \A i \in 2..n : queues[user][i].id # w.id
    BY <1>5, FirstWrite
  <2>2. /\ old <= Min2(n, MaxPipeline)
        /\ \A i \in 1..old : stream.pipeline[i] = queues[user][i]
    BY <1>2 DEF Heads
  <2>3. \A i \in 2..old : i \in 2..n /\ i \in 1..old
    <3> HIDE DEF old, n
    <3> QED BY <1>3, <2>1, <2>2, StreamAssumption DEF Min2
  <2> QED BY <2>1, <2>2, <2>3
<1> HIDE DEF w
<1>13. \A i \in 1..(old - 1) :
            stream.pipeline[i + 1].id \in committed => t.pipeline[i].id \in done
  <2>1. \A i \in 1..(old - 1) : i + 1 \in 2..old
    <3> HIDE DEF old
    <3> QED BY <1>3
  <2> HIDE DEF old
  <2> QED BY <1>9, <1>12, <2>1
<1> HIDE DEF done
<1>14. Talking(t, done)
  <2>1. \A i \in 1..(got - 1) : q[i] = t.pipeline[i] /\ t.pipeline[i].id \in done
    <3>1. \A i \in 1..(got - 1) : i + 1 \in 1..got /\ i \in 1..(old - 1)
      <4> HIDE DEF got, old
      <4> QED BY <1>3, <1>4, <1>5
    <3>2. \A i \in 1..got : stream.responses[i] = stream.pipeline[i]
                            /\ stream.pipeline[i].id \in committed
      BY <1>2 DEF Talking
    <3> HIDE DEF got, old
    <3> QED BY <1>4, <1>9, <1>13, <3>1, <3>2
  <2>2. ASSUME stream.status = None
        PROVE  /\ (got - 1) + sent = old - 1
               /\ \A i \in 1..sent : stream.requests[i] = t.pipeline[(got - 1) + i]
    <3>1. /\ got + sent = old
          /\ \A i \in 1..sent : stream.requests[i] = stream.pipeline[got + i]
      BY <1>2, <2>2 DEF Talking
    <3>2. /\ (got - 1) + sent = old - 1
          /\ \A i \in 1..sent : /\ (got - 1) + i \in 1..(old - 1)
                                /\ ((got - 1) + i) + 1 = got + i
      <4> HIDE DEF got, old, sent
      <4> QED BY <1>3, <1>4, <3>1
    <3>3. \A i \in 1..sent : t.pipeline[(got - 1) + i] = stream.pipeline[got + i]
      <4> SUFFICES ASSUME NEW i \in 1..sent
                   PROVE  t.pipeline[(got - 1) + i] = stream.pipeline[got + i]
        OBVIOUS
      <4> DEFINE m == (got - 1) + i
      <4>1. m \in 1..(old - 1) /\ m + 1 = got + i
        BY <3>2
      <4> HIDE DEF m, got, old
      <4>2. t.pipeline[m] = stream.pipeline[m + 1]
        BY <1>9, <4>1
      <4>3. t.pipeline[m] = stream.pipeline[got + i]
        BY <4>1, <4>2
      <4> QED BY <4>3 DEF m
    <3> QED BY <3>1, <3>2, <3>3
  <2>3. ASSUME stream.status # None
        PROVE  \E k \in ((got - 1) + 1)..(old - 1) :
                    /\ stream.status = t.pipeline[k]
                    /\ \A i \in 1..(k - 1) : t.pipeline[i].id \in done
    <3>1. PICK k \in (got + 1)..old :
                    /\ stream.status = stream.pipeline[k]
                    /\ \A i \in 1..(k - 1) : stream.pipeline[i].id \in committed
      BY <1>2, <2>3 DEF Talking
    <3>2. /\ k - 1 \in ((got - 1) + 1)..(old - 1) /\ k - 1 \in 1..(old - 1)
          /\ (k - 1) + 1 = k
          /\ \A i \in 1..((k - 1) - 1) : i + 1 \in 1..(k - 1) /\ i \in 1..(old - 1)
      <4> HIDE DEF got, old
      <4> QED BY <1>3, <1>4
    <3>3. stream.status = t.pipeline[k - 1]
      <4> HIDE DEF old
      <4> QED BY <1>9, <3>1, <3>2
    <3>4. \A i \in 1..((k - 1) - 1) : t.pipeline[i].id \in done
      BY <1>13, <3>1, <3>2
    <3> QED BY <3>2, <3>3, <3>4
  <2>4. got - 1 <= old - 1
    <3> HIDE DEF got, old
    <3> QED BY <1>3, <1>5
  <2>5. Len(t.responses) = got - 1 /\ Len(t.requests) = sent
    BY <1>4, <1>9
  <2> HIDE DEF got, sent, old
  <2> QED BY <1>9, <2>1, <2>2, <2>3, <2>4, <2>5 DEF Talking
<1>15. refused' \subseteq Keys
  BY <1>1 DEF Inv, TypeOK
<1>16. t = [s EXCEPT !.pipeline = Tail(@)]
  BY DEF t
<1>17. Talking(t, committed \ {Head(stream.pipeline).id})
  BY <1>14 DEF done, w
<1> QED BY <1>1, <1>5, <1>6, <1>8, <1>10, <1>11, <1>15, <1>16, <1>17, DropStep

\* OnStreamFinish, whether it drops a write or not.
LEMMA FinishStep == Inv /\ OnStreamFinish => Inv'
<1> SUFFICES ASSUME Inv, OnStreamFinish PROVE Inv'
  OBVIOUS
<1>1. CASE stream.handshake /\ stream.pipeline # <<>>
  <2> DEFINE s == Closed(stream, "Initial")
             t == [s EXCEPT !.pipeline = Tail(@)]
  <2>1. /\ Drop(s) /\ refused' = refused \cup {Head(stream.pipeline).key}
        /\ UNCHANGED <<server, auth, main, credentials, worker, user>>
    BY <1>1 DEF OnStreamFinish
  <2>2. StreamOK(stream) /\ Own(stream, user) /\ IsFiniteSet(asking) /\ TypeOK
    BY UserQueue DEF Inv
  <2>3. /\ StreamOK(s) /\ New(s) /\ s.pipeline = stream.pipeline
        /\ s.requests = <<>> /\ s.token = None /\ s.state = "Initial" /\ s.status = None
        /\ ~s.handshake /\ ~s.idle
    BY <2>2, ClosedIsNew
  <2> HIDE DEF s
  <2>4. Own(s, user)
    BY <2>2, <2>3 DEF Own
  <2>5. /\ t.state = "Initial" /\ t.status = None /\ ~t.handshake /\ ~t.idle
    BY <1>1, <2>3, DropFields
  <2>6. /\ Quiet(t) /\ Shaking(t) /\ Busy(t)
        /\ Talking(t, committed \ {Head(stream.pipeline).id})
    <3> HIDE DEF t
    <3> QED BY <2>5 DEF Quiet, Shaking, Busy, Talking, IsStarted
  <2>7. refused' \subseteq Keys
    <3>1. Head(stream.pipeline) \in Writes
      BY <1>1, FirstWrite
    <3>2. Head(stream.pipeline).key \in Keys
      BY <3>1 DEF Writes
    <3> QED BY <2>1, <3>2 DEF Inv, TypeOK
  <2> QED BY <1>1, <2>1, <2>3, <2>4, <2>6, <2>7, DropStep
<1>2. CASE ~(stream.handshake /\ stream.pipeline # <<>>)
  BY <1>2, FailedFlows, StreamStep DEF OnStreamFinish
<1> QED BY <1>1, <1>2

----------------------------------------------------------------------------
\* THE MAIN QUEUE AND FIREBASE AUTH

\* A step of the main queue, or of Firebase Auth: the write stream is as it was.
LEMMA MainStep ==
    ASSUME Inv, UNCHANGED <<server, user, queues, stream, committed, refused>>,
           auth' \in Users, credentials' \in Users,
           asking' \subseteq Request, IsFiniteSet(asking'),
           main' \in Seq(UserMsg \cup TokenMsg),
           worker' \in Seq(UserMsg \cup TokenMsg \cup WriteMsg),
           HopsOK', TokensOK', OneRequest', IdsOK'
    PROVE  Inv'
<1>1. TypeOK'
  BY DEF Inv, TypeOK
<1>2. FlowOK'
  BY DEF Inv, FlowOK
<1> QED BY <1>1, <1>2 DEF Inv

Muts == [key : Keys, doc : Docs \cup {NoDoc}]

\* The calls of ApiClient's methods on Firestore are one write or two.
LEMMA CallsAre ==
    ASSUME NEW id \in Ids, NEW doc \in Docs
    PROVE  /\ Api!PutCalls(id, doc) \in Seq(Muts) /\ Len(Api!PutCalls(id, doc)) = 1
           /\ Api!ArchiveCalls(id, doc) \in Seq(Muts)
           /\ Len(Api!ArchiveCalls(id, doc)) = 2
<1> DEFINE a == [key |-> <<"Defects", id>>, doc |-> doc]
           b == [key |-> <<"Archive", id>>, doc |-> doc]
           c == [key |-> <<"Defects", id>>, doc |-> NoDoc]
<1>1. a \in Muts /\ b \in Muts /\ c \in Muts
  BY DEF Muts, Keys
<1>2. Api!PutCalls(id, doc) = <<a>> /\ Api!ArchiveCalls(id, doc) = <<b>> \o <<c>>
  BY DEF Api!PutCalls, Api!ArchiveCalls, Api!DeleteCalls, Api!Set, Api!Delete,
         Api!Live, Api!Archived
<1> HIDE DEF a, b, c
<1> DEFINE M == Muts
<1>3. a \in M /\ b \in M /\ c \in M
  BY <1>1
<1> HIDE DEF M
<1>4. <<a>> \in Seq(M) /\ Len(<<a>>) = 1 /\ <<b>> \o <<c>> \in Seq(M) /\ Len(<<b>> \o <<c>>) = 2
  BY <1>3
<1> QED BY <1>2, <1>4 DEF M

UsedIds == {w.id : w \in UNION {Elements(queues[v]) : v \in Users}}
           \cup {t.write.id : t \in OfType(worker, "write")}

\* They are finitely many numbers.
LEMMA UsedFinite ==
    ASSUME Inv
    PROVE  UsedIds \subseteq Nat /\ IsFiniteSet(UsedIds)
<1> DEFINE S == UNION {Elements(queues[v]) : v \in Users}
           T == OfType(worker, "write")
           f == [w \in S |-> w.id]
           g == [t \in T |-> t.write.id]
           sets == {Elements(queues[v]) : v \in Users}
           h == [v \in Users |-> Elements(queues[v])]
<1>1. \A v \in Users : IsFiniteSet(Elements(queues[v])) /\ Elements(queues[v]) \subseteq Writes
  <2>1. \A v \in Users : queues[v] \in Seq(Writes)
    BY DEF Inv, TypeOK
  <2> QED BY <2>1, ElementsFinite
<1>2. IsFiniteSet(S) /\ S \subseteq Writes
  <2>1. IsFiniteSet(Users)
    BY StreamAssumption
  <2>2. h \in Surjection(Users, sets)
    BY DEF Surjection
  <2>3. IsFiniteSet(sets)
    <3> HIDE DEF h, sets
    <3> QED BY <2>1, <2>2, FS_Surjection
  <2>4. \A x \in sets : IsFiniteSet(x)
    BY <1>1
  <2>5. IsFiniteSet(UNION sets)
    <3> HIDE DEF sets
    <3> QED BY <2>3, <2>4, FS_UNION
  <2> QED BY <1>1, <2>5
<1>3. IsFiniteSet(T) /\ T \subseteq WriteMsg
  <2>1. worker \in Seq(UserMsg \cup TokenMsg \cup WriteMsg)
    BY DEF Inv, TypeOK
  <2>2. /\ IsFiniteSet(Elements(worker))
        /\ Elements(worker) \subseteq UserMsg \cup TokenMsg \cup WriteMsg
    BY <2>1, ElementsFinite
  <2>3. IsFiniteSet(T)
    BY <2>2, FS_Subset DEF OfType
  <2> QED BY <2>2, <2>3 DEF OfType, UserMsg, TokenMsg
<1>4. IsFiniteSet({w.id : w \in S})
  <2>1. f \in Surjection(S, {w.id : w \in S})
    BY DEF Surjection
  <2> HIDE DEF S, f
  <2> QED BY <1>2, <2>1, FS_Surjection
<1>5. IsFiniteSet({t.write.id : t \in T})
  <2>1. g \in Surjection(T, {t.write.id : t \in T})
    BY DEF Surjection
  <2> HIDE DEF T, g
  <2> QED BY <1>3, <2>1, FS_Surjection
<1>6. IsFiniteSet(UsedIds)
  <2> HIDE DEF S, T
  <2>1. IsFiniteSet({w.id : w \in S} \cup {t.write.id : t \in T})
    BY <1>4, <1>5, FS_Union
  <2> QED BY <2>1 DEF UsedIds, S, T
<1>7. UsedIds \subseteq Nat
  BY <1>2, <1>3 DEF UsedIds, Writes, WriteMsg
<1> QED BY <1>6, <1>7

\* The ids a call gives are nobody else's.
LEMMA FreshIds ==
    ASSUME Inv, NEW m \in {1, 2},
           NEW first, first = CHOOSE n \in 0..(2 * Cardinality(UsedIds)) :
                                (n..(n + m - 1)) \cap UsedIds = {}
    PROVE  first \in Nat /\ \A i \in 1..m : first + i - 1 \in Nat \ UsedIds
<1> DEFINE c == Cardinality(UsedIds)
<1>1. PICK k \in 0..(2 * c) : k \notin UsedIds /\ k + 1 \notin UsedIds
  BY UsedFinite, TwoFreeNumbers
<1>2. c \in Nat
  BY UsedFinite, FS_CardinalityType
<1> HIDE DEF c
<1>3. \A i \in k..(k + m - 1) : i = k \/ i = k + 1
  BY <1>2
<1>4. (k..(k + m - 1)) \cap UsedIds = {}
  BY <1>1, <1>3
<1>5. first \in 0..(2 * c) /\ (first..(first + m - 1)) \cap UsedIds = {}
  BY <1>4 DEF c
<1>6. first \in Nat
  BY <1>2, <1>5
<1>7. \A i \in 1..m : first + i - 1 \in first..(first + m - 1) /\ first + i - 1 \in Nat
  BY <1>6
<1> QED BY <1>5, <1>6, <1>7

\* A call's writes come behind all that waits for the worker queue.
LEMMA CallStep ==
    ASSUME Inv, NEW muts \in Seq(Muts), Len(muts) \in {1, 2}, Call(muts)
    PROVE  Inv'
<1> DEFINE first == CHOOSE n \in 0..(2 * Cardinality(UsedIds)) :
                        (n..(n + Len(muts) - 1)) \cap UsedIds = {}
           new == [i \in DOMAIN muts |->
                [type |-> "write", write |-> [id |-> first + i - 1, user |-> credentials,
                 key |-> muts[i].key, doc |-> muts[i].doc]]]
           M == UserMsg \cup TokenMsg \cup WriteMsg
           n == Len(worker)
           m == Len(muts)
<1>1. /\ worker' = worker \o new
      /\ UNCHANGED <<server, auth, asking, main, credentials, user, queues, stream,
                     committed, refused>>
  BY DEF Call, UsedIds
<1>2. /\ worker \in Seq(M) /\ n \in Nat /\ DOMAIN worker = 1..n
      /\ auth \in Users /\ credentials \in Users /\ user \in Users
      /\ asking \subseteq Request /\ IsFiniteSet(asking)
      /\ main \in Seq(UserMsg \cup TokenMsg)
  BY DEF Inv, TypeOK
<1>3. first \in Nat /\ \A i \in 1..m : first + i - 1 \in Nat \ UsedIds
  BY FreshIds
<1> HIDE DEF first
<1>4. DOMAIN muts = 1..m /\ m \in Nat /\ \A i \in 1..m : muts[i] \in Muts
  OBVIOUS
<1>5. \A i \in 1..m :
          /\ new[i] \in WriteMsg /\ new[i].type = "write"
          /\ new[i].write.id = first + i - 1 /\ new[i].write.user = credentials
  BY <1>2, <1>3, <1>4 DEF WriteMsg, Writes, Muts
<1>6. new \in Seq(M) /\ Len(new) = m
  <2>1. DOMAIN new = 1..m
    BY <1>4
  <2>2. new \in [1..m -> M]
    <3> HIDE DEF m
    <3>1. new = [i \in 1..m |-> new[i]]
      BY <2>1
    <3>2. \A i \in 1..m : new[i] \in M
      BY <1>5
    <3> HIDE DEF new, M
    <3> QED BY <3>1, <3>2
  <2> HIDE DEF new, m, M
  <2> QED BY <1>4, <2>1, <2>2
<1> HIDE DEF new
<1>7. /\ worker' \in Seq(M) /\ Len(worker') = n + m
      /\ DOMAIN worker' = 1..(n + m)
      /\ \A i \in 1..n : worker'[i] = worker[i]
      /\ \A i \in (n + 1)..(n + m) : worker'[i] = new[i - n] /\ i - n \in 1..m
  <2> HIDE DEF M
  <2>1. /\ worker \o new \in Seq(M) /\ Len(worker \o new) = n + m
        /\ \A i \in 1..(n + m) : (worker \o new)[i] =
                IF i <= n THEN worker[i] ELSE new[i - n]
    <3>1. worker \in Seq(M) /\ new \in Seq(M) /\ Len(new) = m
      BY <1>2, <1>6
    <3>2. worker \o new \in Seq(M)
      BY <3>1, ConcatProperties
    <3>3. Len(worker \o new) = Len(worker) + Len(new)
      BY <3>1, ConcatProperties
    <3>4. \A i \in 1..(Len(worker) + Len(new)) : (worker \o new)[i] =
                IF i <= Len(worker) THEN worker[i] ELSE new[i - Len(worker)]
      BY <3>1, ConcatProperties
    <3> QED BY <3>1, <3>2, <3>3, <3>4
  <2>2. /\ \A i \in 1..n : i \in 1..(n + m) /\ i <= n
        /\ \A i \in (n + 1)..(n + m) : i \in 1..(n + m) /\ ~(i <= n) /\ i - n \in 1..m
    <3> HIDE DEF n, m
    <3> QED BY <1>2, <1>4
  <2>3. DOMAIN (worker \o new) = 1..(n + m)
    BY <2>1
  <2> HIDE DEF n, m
  <2> QED BY <1>1, <2>1, <2>2, <2>3
<1>8. \A i \in DOMAIN worker' :
        \/ i \in 1..n /\ worker'[i] = worker[i]
        \/ /\ i \in (n + 1)..(n + m) /\ i - n \in 1..m /\ worker'[i] = new[i - n]
           /\ worker'[i].type = "write" /\ worker'[i].write.user = credentials
           /\ worker'[i].write.id = first + (i - n) - 1
  <2>1. \A i \in 1..(n + m) : i \in 1..n \/ i \in (n + 1)..(n + m)
    <3> HIDE DEF n, m
    <3> QED BY <1>2, <1>4
  <2> HIDE DEF n, m
  <2> QED BY <1>5, <1>7, <2>1
<1> HIDE DEF n, m
<1>9. HopsOK'
  <2>1. UserIs(worker', n, user, credentials)
    <3>1. UserIs(worker, n, user, credentials)
      BY DEF Inv, HopsOK, n
    <3> QED BY <1>2, <1>7, <3>1, UserIsPrefix
  <2>2. ASSUME NEW i \in n..(n + m)
        PROVE  UserIs(worker', i, user, credentials)
    <3>1. i \in Nat /\ n <= i /\ \A k \in (n + 1)..i : k \in DOMAIN worker' /\ k \notin 1..n
      BY <1>2, <1>4, <1>7
    <3>2. \A k \in (n + 1)..i : worker'[k].type # "user"
      BY <1>8, <3>1
    <3> QED BY <1>2, <2>1, <3>1, <3>2, UserIsMore
  <2>3. ASSUME NEW i \in DOMAIN worker', worker'[i].type = "write"
        PROVE  UserIs(worker', i, user, worker'[i].write.user)
    <3>1. CASE i \in 1..n /\ worker'[i] = worker[i]
      <4>1. UserIs(worker, i, user, worker[i].write.user)
        BY <1>2, <2>3, <3>1 DEF Inv, HopsOK
      <4>2. i \in Nat /\ \A k \in 1..i : worker'[k] = worker[k]
        BY <1>2, <1>7, <3>1
      <4>3. UserIs(worker', i, user, worker[i].write.user)
        BY <4>1, <4>2, UserIsPrefix
      <4> QED BY <3>1, <4>3
    <3>2. CASE i \in (n + 1)..(n + m) /\ worker'[i].write.user = credentials
      <4>1. i \in n..(n + m)
        BY <1>2, <1>4, <3>2
      <4> QED BY <2>2, <3>2, <4>1
    <3> QED BY <1>8, <3>1, <3>2
  <2>4. UserIs(worker', Len(worker'), user, credentials)
    <3>1. n + m \in n..(n + m)
      BY <1>2, <1>4
    <3> QED BY <1>7, <2>2, <3>1
  <2>5. UserIs(main, Len(main), credentials, auth)
    BY DEF Inv, HopsOK
  <2> QED BY <1>1, <2>3, <2>4, <2>5 DEF HopsOK, UserIs
<1>10. \A i \in DOMAIN worker' :
            worker'[i].type = "token" => i \in DOMAIN worker /\ worker'[i] = worker[i]
  BY <1>2, <1>8
<1>11. TokensOK'
  <2>1. ASSUME NEW i \in DOMAIN worker', Fits(worker'[i], stream.closes), NoUser(worker', i)
        PROVE  worker'[i].user \in {None, user}
    <3>1. i \in DOMAIN worker /\ worker'[i] = worker[i]
      BY <1>10, <2>1 DEF Fits
    <3>2. \A k \in 1..i : k \in 1..n
      BY <1>2, <3>1
    <3>3. NoUser(worker, i)
      BY <1>7, <2>1, <3>2 DEF NoUser
    <3> QED BY <2>1, <3>1, <3>3 DEF Inv, TokensOK
  <2>2. \A i \in DOMAIN main :
            main[i].type = "token" /\ main[i].fresh /\ NoUser(main, i)
                => main[i].user \in {None, credentials}
    BY DEF Inv, TokensOK
  <2> QED BY <1>1, <2>1, <2>2 DEF TokensOK, NoUser
<1>12. OneRequest'
  <2>1. OfType(worker', "token") \subseteq OfType(worker, "token")
    BY <1>10 DEF OfType, Elements
  <2>2. New(stream) => New(stream)'
    BY <1>1, <2>1 DEF New, Outstanding
  <2>3. \A i \in DOMAIN worker' : Fits(worker'[i], stream.closes)
            => i \in DOMAIN worker /\ Fits(worker[i], stream.closes)
    BY <1>10 DEF Fits
  <2> QED BY <1>1, <2>2, <2>3 DEF Inv, OneRequest
<1>13. IdsOK'
  <2>1. ASSUME NEW i \in DOMAIN worker', NEW j \in DOMAIN worker',
               worker'[i].type = "write", worker'[j].type = "write",
               worker'[i].write.id = worker'[j].write.id
        PROVE  i = j
    <3>1. \A k \in 1..n : worker[k].type = "write" => worker[k].write.id \in UsedIds
      BY <1>2 DEF UsedIds, OfType, Elements
    <3>2. CASE i \in 1..n /\ j \in 1..n
      <4>1. worker'[i] = worker[i] /\ worker'[j] = worker[j]
        BY <1>7, <3>2
      <4> QED BY <1>2, <2>1, <3>2, <4>1 DEF Inv, IdsOK
    <3>3. CASE i \in 1..n /\ j \notin 1..n
      <4>1. worker'[i].write.id \in UsedIds
        BY <1>7, <2>1, <3>1, <3>3
      <4>2. worker'[j].write.id \notin UsedIds
        BY <1>3, <1>8, <3>3
      <4> QED BY <2>1, <4>1, <4>2
    <3>4. CASE i \notin 1..n /\ j \in 1..n
      <4>1. worker'[j].write.id \in UsedIds
        BY <1>7, <2>1, <3>1, <3>4
      <4>2. worker'[i].write.id \notin UsedIds
        BY <1>3, <1>8, <3>4
      <4> QED BY <2>1, <4>1, <4>2
    <3>5. CASE i \notin 1..n /\ j \notin 1..n
      <4>1. /\ worker'[i].write.id = first + (i - n) - 1 /\ i \in (n + 1)..(n + m)
            /\ worker'[j].write.id = first + (j - n) - 1 /\ j \in (n + 1)..(n + m)
        BY <1>8, <3>5
      <4>2. first + (i - n) - 1 = first + (j - n) - 1
        BY <2>1, <4>1
      <4>3. i \in Int /\ j \in Int
        BY <1>2, <1>4, <4>1
      <4> QED BY <1>2, <1>3, <4>2, <4>3
    <3> QED BY <3>2, <3>3, <3>4, <3>5
  <2>2. ASSUME NEW u \in Users, NEW i \in DOMAIN queues[u], NEW j \in DOMAIN worker',
               worker'[j].type = "write"
        PROVE  queues[u][i].id # worker'[j].write.id
    <3>1. queues[u][i].id \in UsedIds
      BY DEF UsedIds, Elements
    <3>2. CASE j \in 1..n /\ worker'[j] = worker[j]
      BY <1>2, <2>2, <3>2 DEF Inv, IdsOK
    <3>3. CASE j - n \in 1..m /\ worker'[j].write.id = first + (j - n) - 1
      BY <1>3, <3>1, <3>3
    <3> QED BY <1>8, <3>2, <3>3
  <2> QED BY <1>1, <2>1, <2>2 DEF Inv, IdsOK
<1> QED BY <1>1, <1>2, <1>7, <1>9, <1>11, <1>12, <1>13, MainStep DEF M

MainMsg   == UserMsg \cup TokenMsg
WorkerMsg == UserMsg \cup TokenMsg \cup WriteMsg

\* A sequence with one element more.
LEMMA Longer ==
    ASSUME NEW S, NEW s \in Seq(S), NEW x \in S, NEW t, t = Append(s, x)
    PROVE  /\ t \in Seq(S) /\ Len(s) \in Nat /\ Len(t) = Len(s) + 1
           /\ DOMAIN s = 1..Len(s) /\ DOMAIN t = 1..(Len(s) + 1)
           /\ \A i \in 1..Len(s) : t[i] = s[i]
           /\ t[Len(s) + 1] = x
           /\ \A i \in DOMAIN t : (i \in DOMAIN s /\ t[i] = s[i]) \/ i = Len(s) + 1
<1>1. /\ t \in Seq(S) /\ Len(s) \in Nat /\ Len(t) = Len(s) + 1
      /\ DOMAIN s = 1..Len(s)
      /\ \A i \in 1..Len(s) : t[i] = s[i]
      /\ t[Len(s) + 1] = x
  OBVIOUS
<1>2. DOMAIN t = 1..(Len(s) + 1)
  BY <1>1
<1>3. \A i \in 1..(Len(s) + 1) : i \in 1..Len(s) \/ i = Len(s) + 1
  BY <1>1
<1> QED BY <1>1, <1>2, <1>3

\* The first message of the main queue.
LEMMA FirstOfMain ==
    ASSUME Inv, main # <<>>
    PROVE  /\ main \in Seq(MainMsg) /\ Len(main) \in Nat /\ Len(main) >= 1
           /\ DOMAIN main = 1..Len(main) /\ 1 \in DOMAIN main
           /\ Head(main) = main[1] /\ main[1] \in MainMsg
           /\ main[1].type = "user" => main[1] \in UserMsg
           /\ main[1].type = "token" => main[1] \in TokenMsg
<1> DEFINE M == MainMsg
<1>1. main \in Seq(M)
  BY DEF Inv, TypeOK, MainMsg
<1> HIDE DEF M
<1>2. /\ Len(main) \in Nat /\ Len(main) >= 1 /\ DOMAIN main = 1..Len(main)
      /\ 1 \in DOMAIN main /\ Head(main) = main[1] /\ main[1] \in M
  BY <1>1
<1> QED BY <1>1, <1>2 DEF M, MainMsg, UserMsg, TokenMsg

\* A message joins the worker queue that is no write.
LEMMA HopsOfWorker ==
    ASSUME Inv, NEW m \in WorkerMsg, m.type # "write", worker' = Append(worker, m),
           UNCHANGED user
    PROVE  /\ \A i \in DOMAIN worker' : worker'[i].type = "write"
                => UserIs(worker', i, user', worker'[i].write.user)
           /\ m.type # "user" => UserIs(worker', Len(worker'), user', credentials)
           /\ m.type = "user" => UserIs(worker', Len(worker'), user', m.user)
<1> DEFINE n == Len(worker)
<1>1. worker \in Seq(WorkerMsg)
  BY DEF Inv, TypeOK, WorkerMsg
<1>2. /\ n \in Nat /\ Len(worker') = n + 1 /\ DOMAIN worker = 1..n
      /\ \A i \in 1..n : worker'[i] = worker[i]
      /\ worker'[n + 1] = m
      /\ \A i \in DOMAIN worker' : (i \in DOMAIN worker /\ worker'[i] = worker[i]) \/ i = n + 1
  BY <1>1, Longer
<1> HIDE DEF n
<1>3. ASSUME NEW i \in DOMAIN worker', worker'[i].type = "write"
      PROVE  UserIs(worker', i, user, worker'[i].write.user)
  <2>1. i \in DOMAIN worker /\ worker'[i] = worker[i]
    BY <1>2, <1>3
  <2>2. UserIs(worker, i, user, worker[i].write.user)
    BY <1>3, <2>1 DEF Inv, HopsOK
  <2>3. i \in Nat /\ \A k \in 1..i : worker'[k] = worker[k]
    BY <1>2, <2>1
  <2>4. UserIs(worker', i, user, worker[i].write.user)
    BY <2>2, <2>3, UserIsPrefix
  <2> QED BY <2>1, <2>4
<1>4. ASSUME m.type # "user"
      PROVE  UserIs(worker', n + 1, user, credentials)
  <2>1. UserIs(worker, n, user, credentials)
    BY DEF Inv, HopsOK, n
  <2>2. UserIs(worker', n, user, credentials)
    BY <1>2, <2>1, UserIsPrefix
  <2>3. \A k \in (n + 1)..(n + 1) : worker'[k].type # "user"
    BY <1>2, <1>4
  <2>4. n + 1 \in Nat /\ n <= n + 1
    BY <1>2
  <2> QED BY <1>2, <2>2, <2>3, <2>4, UserIsMore
<1>5. ASSUME m.type = "user"
      PROVE  UserIs(worker', n + 1, user, m.user)
  <2>1. /\ n + 1 \in 1..(n + 1) /\ worker'[n + 1].type = "user"
        /\ worker'[n + 1].user = m.user
        /\ \A k \in ((n + 1) + 1)..(n + 1) : worker'[k].type # "user"
    BY <1>2, <1>5
  <2> QED BY <2>1 DEF UserIs
<1>6. user' = user
  OBVIOUS
<1> QED BY <1>2, <1>3, <1>4, <1>5, <1>6 DEF UserIs

\* Where no write joins, no id does.
LEMMA IdsOfWorker ==
    ASSUME Inv, NEW m \in WorkerMsg, m.type # "write", worker' = Append(worker, m),
           UNCHANGED queues
    PROVE  IdsOK'
<1>1. worker \in Seq(WorkerMsg)
  BY DEF Inv, TypeOK, WorkerMsg
<1>2. \A i \in DOMAIN worker' : worker'[i].type = "write"
            => i \in DOMAIN worker /\ worker'[i] = worker[i]
  BY <1>1, Longer
<1> QED BY <1>2 DEF Inv, IdsOK

\* Firebase Auth changes its user.
LEMMA SwitchStep ==
    ASSUME Inv, NEW u \in Users, SwitchUser(u)
    PROVE  Inv'
<1> DEFINE m == [type |-> "user", user |-> u]
           n == Len(main)
<1>1. /\ auth' = u /\ main' = Append(main, m)
      /\ UNCHANGED <<server, asking, credentials, worker, user, queues, stream,
                     committed, refused>>
  BY DEF SwitchUser, sdkVars
<1>2. m \in MainMsg /\ m.type = "user" /\ m.user = u /\ main \in Seq(MainMsg)
  BY DEF Inv, TypeOK, MainMsg, UserMsg
<1> HIDE DEF m
<1>3. /\ main' \in Seq(MainMsg) /\ n \in Nat /\ Len(main') = n + 1 /\ DOMAIN main = 1..n
      /\ \A i \in 1..n : main'[i] = main[i]
      /\ main'[n + 1] = m
      /\ \A i \in DOMAIN main' : (i \in DOMAIN main /\ main'[i] = main[i]) \/ i = n + 1
  BY <1>1, <1>2, Longer
<1> HIDE DEF n
<1>4. HopsOK'
  <2>1. /\ n + 1 \in 1..(n + 1) /\ main'[n + 1].type = "user"
        /\ main'[n + 1].user = auth'
        /\ \A k \in ((n + 1) + 1)..(n + 1) : main'[k].type # "user"
    BY <1>1, <1>2, <1>3
  <2>2. UserIs(main', Len(main'), credentials', auth')
    BY <1>3, <2>1 DEF UserIs
  <2>3. HopsOK /\ UNCHANGED <<worker, user, credentials>>
    BY <1>1 DEF Inv
  <2> QED BY <2>2, <2>3, Zenon DEF HopsOK
<1>5. TokensOK'
  <2>1. ASSUME NEW i \in DOMAIN main', main'[i].type = "token", main'[i].fresh,
               NoUser(main', i)
        PROVE  main'[i].user \in {None, credentials}
    <3>1. i \in DOMAIN main /\ main'[i] = main[i]
      BY <1>2, <1>3, <2>1
    <3>2. NoUser(main, i)
      <4>1. \A k \in 1..i : k \in 1..n
        BY <1>3, <3>1
      <4> QED BY <1>3, <2>1, <4>1 DEF NoUser
    <3> QED BY <2>1, <3>1, <3>2 DEF Inv, TokensOK
  <2>2. \A i \in DOMAIN worker :
            Fits(worker[i], stream.closes) /\ NoUser(worker, i) => worker[i].user \in {None, user}
    BY DEF Inv, TokensOK
  <2> QED BY <1>1, <2>1, <2>2 DEF TokensOK, NoUser
<1>6. OneRequest'
  <2>1. \A i \in DOMAIN main' : main'[i].type = "token"
            => i \in DOMAIN main /\ main'[i] = main[i]
    BY <1>2, <1>3
  <2>2. OfType(main', "token") \subseteq OfType(main, "token")
    BY <2>1 DEF OfType, Elements
  <2>3. New(stream) => New(stream)'
    BY <1>1, <2>2 DEF New, Outstanding
  <2> QED BY <1>1, <2>1, <2>3 DEF Inv, OneRequest, Fits
<1>7. IdsOK'
  BY <1>1 DEF Inv, IdsOK
<1> QED BY <1>1, <1>3, <1>4, <1>5, <1>6, <1>7, MainStep DEF Inv, TypeOK, MainMsg

\* Firebase Auth answers a request for a token.
LEMMA AnswerStep ==
    ASSUME Inv, NEW r \in asking, NEW u \in {auth, None}, AnswerToken(r, u)
    PROVE  Inv'
<1> DEFINE m == [type |-> "token", closes |-> r.closes, fresh |-> r.fresh, user |-> u]
           n == Len(main)
<1>1. /\ asking' = asking \ {r} /\ main' = Append(main, m)
      /\ UNCHANGED <<server, auth, credentials, worker, user, queues, stream,
                     committed, refused>>
  BY DEF AnswerToken, sdkVars
<1>2. /\ m \in MainMsg /\ m.type = "token" /\ m.closes = r.closes /\ m.user = u
      /\ main \in Seq(MainMsg) /\ IsFiniteSet(asking) /\ asking \subseteq Request
  BY DEF Inv, TypeOK, MainMsg, TokenMsg, Request
<1> HIDE DEF m
<1>3. /\ main' \in Seq(MainMsg) /\ n \in Nat /\ Len(main') = n + 1 /\ DOMAIN main = 1..n
      /\ \A i \in 1..n : main'[i] = main[i]
      /\ main'[n + 1] = m
      /\ \A i \in DOMAIN main' : (i \in DOMAIN main /\ main'[i] = main[i]) \/ i = n + 1
  BY <1>1, <1>2, Longer
<1>4. UserIs(main, n, credentials, auth)
  BY DEF Inv, HopsOK
<1> HIDE DEF n
<1>5. HopsOK'
  <2>1. UserIs(main', n, credentials, auth)
    BY <1>3, <1>4, UserIsPrefix
  <2>2. n + 1 \in Nat /\ n <= n + 1 /\ \A k \in (n + 1)..(n + 1) : main'[k].type # "user"
    BY <1>2, <1>3
  <2>3. UserIs(main', n + 1, credentials, auth)
    BY <1>3, <2>1, <2>2, UserIsMore
  <2> QED BY <1>1, <1>3, <2>3 DEF Inv, HopsOK, UserIs
<1>6. TokensOK'
  <2>1. ASSUME NEW i \in DOMAIN main', main'[i].type = "token", main'[i].fresh,
               NoUser(main', i)
        PROVE  main'[i].user \in {None, credentials}
    <3>1. CASE i \in DOMAIN main /\ main'[i] = main[i]
      <4>1. NoUser(main, i)
        <5>1. \A k \in 1..i : k \in 1..n
          BY <1>3, <3>1
        <5> QED BY <1>3, <2>1, <5>1 DEF NoUser
      <4> QED BY <2>1, <3>1, <4>1 DEF Inv, TokensOK
    <3>2. CASE i = n + 1
      <4>1. \A k \in 1..n : k \in 1..i
        BY <1>3, <3>2
      <4>2. NoUser(main, n)
        BY <1>3, <2>1, <4>1 DEF NoUser
      <4>3. auth = credentials
        BY <1>3, <1>4, <4>2, UserIsSame
      <4> QED BY <1>2, <1>3, <3>2, <4>3
    <3> QED BY <1>3, <3>1, <3>2
  <2>2. \A i \in DOMAIN worker :
            Fits(worker[i], stream.closes) /\ NoUser(worker, i) => worker[i].user \in {None, user}
    BY DEF Inv, TokensOK
  <2> QED BY <1>1, <2>1, <2>2 DEF TokensOK, NoUser
<1>7. OneRequest'
  <2>1. \A i \in DOMAIN main' : (i \in DOMAIN main /\ main'[i] = main[i])
            \/ (i = n + 1 /\ main'[i] = m)
    BY <1>3
  <2>2. \A x \in OfType(main', "token") : x \in OfType(main, "token") \/ x = m
    BY <2>1 DEF OfType, Elements
  <2>3. New(stream) => New(stream)'
    BY <1>1, <1>2, <2>2 DEF New, Outstanding
  <2>4. Fits(m, stream.closes) <=> r.closes = stream.closes
    BY <1>2 DEF Fits
  <2>5. \A i, j \in DOMAIN main' :
            Fits(main'[i], stream.closes) /\ Fits(main'[j], stream.closes) => i = j
    BY <2>1, <2>4 DEF Inv, OneRequest
  <2>6. \A i \in DOMAIN main', j \in DOMAIN worker :
            ~(Fits(main'[i], stream.closes) /\ Fits(worker[j], stream.closes))
    BY <2>1, <2>4 DEF Inv, OneRequest
  <2>7. \A q \in asking' : q.closes = stream.closes =>
            /\ \A i \in DOMAIN main' : ~Fits(main'[i], stream.closes)
            /\ \A i \in DOMAIN worker : ~Fits(worker[i], stream.closes)
    BY <1>1, <2>1, <2>4 DEF Inv, OneRequest
  <2>8. \A p, q \in asking' : p.closes = stream.closes /\ q.closes = stream.closes => p = q
    BY <1>1 DEF Inv, OneRequest
  <2>9. \A i, j \in DOMAIN worker :
            Fits(worker[i], stream.closes) /\ Fits(worker[j], stream.closes) => i = j
    BY DEF Inv, OneRequest
  <2>10. stream.state # "Starting" => New(stream)'
    BY <2>3 DEF Inv, OneRequest
  <2> QED BY <1>1, <2>5, <2>6, <2>7, <2>8, <2>9, <2>10 DEF OneRequest, New, Outstanding
<1>8. IdsOK'
  BY <1>1 DEF Inv, IdsOK
<1>9. asking' \subseteq Request /\ IsFiniteSet(asking')
  BY <1>1, <1>2, FS_Subset
<1> QED BY <1>1, <1>3, <1>5, <1>6, <1>7, <1>8, <1>9, MainStep DEF Inv, TypeOK, MainMsg

\* The completion of getToken.
LEMMA TakeStep == Inv /\ TakeToken => Inv'
<1> SUFFICES ASSUME Inv, TakeToken PROVE Inv'
  OBVIOUS
<1> DEFINE m == Head(main)
           n == Len(main)
           l == Len(worker)
           again == [closes |-> m.closes, fresh |-> TRUE]
<1>1. /\ main # <<>> /\ m.type = "token" /\ main' = Tail(main)
      /\ \/ m.fresh /\ worker' = Append(worker, m) /\ asking' = asking
         \/ ~m.fresh /\ worker' = worker /\ asking' = asking \cup {again}
      /\ UNCHANGED <<server, auth, credentials, user, queues, stream, committed, refused>>
  BY DEF TakeToken
<1>2. /\ main \in Seq(MainMsg) /\ n \in Nat /\ n >= 1 /\ DOMAIN main = 1..n
      /\ m = main[1] /\ m \in TokenMsg /\ 1 \in DOMAIN main
  BY <1>1, FirstOfMain
<1>3. /\ main' \in Seq(MainMsg) /\ DOMAIN main' = 1..(n - 1) /\ Len(main') = n - 1
      /\ \A i \in 1..(n - 1) :
            main'[i] = main[i + 1] /\ i + 1 \in 1..n /\ i + 1 # 1 /\ i \in Nat
  <2>1. /\ main' \in Seq(MainMsg) /\ Len(main') = n - 1
        /\ \A i \in 1..(n - 1) : main'[i] = main[i + 1]
    BY <1>1, <1>2
  <2> HIDE DEF n
  <2> QED BY <1>2, <2>1
<1>4. /\ m \in WorkerMsg /\ m.closes \in Nat /\ (m.fresh => m.fresh = TRUE)
      /\ worker \in Seq(WorkerMsg) /\ asking \subseteq Request /\ IsFiniteSet(asking)
  BY <1>2 DEF WorkerMsg, TokenMsg, Inv, TypeOK
<1>5. again \in Request /\ again.closes = m.closes
  BY <1>4 DEF Request
<1> HIDE DEF m, again, n
<1>6. ASSUME m.fresh, worker' = Append(worker, m)
      PROVE  /\ worker' \in Seq(WorkerMsg) /\ l \in Nat /\ DOMAIN worker = 1..l
             /\ \A i \in 1..l : worker'[i] = worker[i]
             /\ \A i \in DOMAIN worker' : \/ i \in DOMAIN worker /\ worker'[i] = worker[i]
                                          \/ i = l + 1 /\ worker'[i] = m
  BY <1>4, <1>6, Longer
<1>7. HopsOK'
  <2>1. UserIs(main', n - 1, credentials, auth)
    <3>1. UserIs(main, n, credentials, auth) /\ n \in 1..n
      BY <1>2 DEF Inv, HopsOK, n
    <3>2. UserAfter(credentials, main[1]) = credentials
      BY <1>1, <1>2 DEF UserAfter
    <3>3. \A k \in 1..(n - 1) : /\ main'[k].type = main[k + 1].type
                                /\ main[k + 1].type = "user" => main'[k] = main[k + 1]
      BY <1>3
    <3>4. UserIs(main', n - 1, UserAfter(credentials, main[1]), auth)
      BY <1>2, <3>1, <3>3, UserIsTail
    <3> QED BY <3>2, <3>4
  <2>2. /\ UserIs(worker', Len(worker'), user, credentials)
        /\ \A i \in DOMAIN worker' : worker'[i].type = "write"
                => UserIs(worker', i, user, worker'[i].write.user)
    <3>1. CASE m.fresh /\ worker' = Append(worker, m)
      <4>1. m.type # "write" /\ m.type # "user" /\ user' = user
        BY <1>1
      <4> QED BY <1>4, <3>1, <4>1, HopsOfWorker DEF UserIs
    <3>2. CASE worker' = worker
      BY <3>2 DEF Inv, HopsOK, UserIs
    <3> QED BY <1>1, <3>1, <3>2
  <2> QED BY <1>1, <1>3, <2>1, <2>2 DEF HopsOK, UserIs
<1>8. TokensOK'
  <2>1. ASSUME NEW i \in DOMAIN main', main'[i].type = "token", main'[i].fresh,
               NoUser(main', i)
        PROVE  main'[i].user \in {None, credentials}
    <3>1. main'[i] = main[i + 1] /\ i + 1 \in DOMAIN main
      BY <1>2, <1>3
    <3>2. ASSUME NEW k \in 1..(i + 1)
          PROVE  main[k].type # "user"
      <4>1. CASE k = 1
        BY <1>1, <1>2, <4>1
      <4>2. CASE k # 1
        <5>1. k - 1 \in 1..i /\ k - 1 \in 1..(n - 1) /\ (k - 1) + 1 = k
          BY <1>2, <1>3, <4>2
        <5>2. main'[k - 1] = main[k]
          BY <1>3, <5>1
        <5> QED BY <2>1, <5>1, <5>2 DEF NoUser
      <4> QED BY <4>1, <4>2
    <3> QED BY <2>1, <3>1, <3>2 DEF Inv, TokensOK, NoUser
  <2>2. ASSUME NEW i \in DOMAIN worker', Fits(worker'[i], stream.closes), NoUser(worker', i)
        PROVE  worker'[i].user \in {None, user}
    <3>1. CASE m.fresh /\ worker' = Append(worker, m)
      <4>1. CASE i \in DOMAIN worker /\ worker'[i] = worker[i]
        <5>1. \A k \in 1..i : k \in 1..l
          BY <1>6, <3>1, <4>1
        <5>2. NoUser(worker, i)
          BY <1>6, <2>2, <3>1, <5>1 DEF NoUser
        <5> QED BY <2>2, <4>1, <5>2 DEF Inv, TokensOK
      <4>2. CASE i = l + 1 /\ worker'[i] = m
        <5>1. \A k \in 1..l : k \in 1..i
          BY <1>6, <3>1, <4>2
        <5>2. NoUser(worker, l)
          BY <1>6, <2>2, <3>1, <5>1 DEF NoUser
        <5>3. UserIs(worker, l, user, credentials) /\ l \in Nat
          BY <1>6, <3>1 DEF Inv, HopsOK
        <5>4. credentials = user
          BY <5>2, <5>3, UserIsSame
        <5>5. NoUser(main, 1)
          BY <1>1, <1>2 DEF NoUser
        <5>6. m.user \in {None, credentials}
          BY <1>1, <1>2, <3>1, <5>5 DEF Inv, TokensOK
        <5> QED BY <4>2, <5>4, <5>6
      <4> QED BY <1>6, <3>1, <4>1, <4>2
    <3>2. CASE worker' = worker
      BY <2>2, <3>2 DEF Inv, TokensOK, NoUser
    <3> QED BY <1>1, <3>1, <3>2
  <2> QED BY <1>1, <2>1, <2>2 DEF TokensOK, NoUser
<1>9. OneRequest'
  <2> DEFINE c == stream.closes
  <2>1. \A i \in DOMAIN main' : /\ main'[i] = main[i + 1] /\ i + 1 \in DOMAIN main
                                /\ i + 1 # 1 /\ i \in Int
    BY <1>2, <1>3
  <2>2. Fits(m, c) <=> m.closes = c
    BY <1>1 DEF Fits
  <2>3. Fits(m, c) => /\ \A i \in DOMAIN main' : ~Fits(main'[i], c)
                      /\ \A i \in DOMAIN worker : ~Fits(worker[i], c)
                      /\ \A r \in asking : r.closes # c
    BY <1>2, <2>1 DEF Inv, OneRequest
  <2>4. \A i, j \in DOMAIN main' : Fits(main'[i], c) /\ Fits(main'[j], c) => i = j
    <3> SUFFICES ASSUME NEW i \in DOMAIN main', NEW j \in DOMAIN main',
                        Fits(main'[i], c), Fits(main'[j], c)
                 PROVE  i = j
      OBVIOUS
    <3>1. \A a, b \in DOMAIN main : Fits(main[a], c) /\ Fits(main[b], c) => a = b
      BY DEF Inv, OneRequest
    <3>2. i + 1 = j + 1
      BY <2>1, <3>1, Zenon
    <3>3. \A a, b \in Int : a + 1 = b + 1 => a = b
      OBVIOUS
    <3> QED BY <2>1, <3>2, <3>3, Zenon
  <2>5. /\ \A i, j \in DOMAIN worker : Fits(worker[i], c) /\ Fits(worker[j], c) => i = j
        /\ \A i \in DOMAIN main', j \in DOMAIN worker :
                ~(Fits(main'[i], c) /\ Fits(worker[j], c))
        /\ \A r, q \in asking : r.closes = c /\ q.closes = c => r = q
        /\ \A r \in asking : r.closes = c => \A i \in DOMAIN main' : ~Fits(main'[i], c)
        /\ \A r \in asking : r.closes = c => \A i \in DOMAIN worker : ~Fits(worker[i], c)
    BY <2>1 DEF Inv, OneRequest
  <2>6. stream.state # "Starting" =>
            /\ m.closes # c /\ \A r \in asking : r.closes # c
            /\ \A i \in DOMAIN main' : main'[i].type = "token" => main'[i].closes # c
            /\ \A i \in DOMAIN worker : worker[i].type = "token" => worker[i].closes # c
    <3>1. m \in Outstanding
      BY <1>1, <1>2 DEF Outstanding, OfType, Elements
    <3>2. \A i \in DOMAIN main' : main'[i].type = "token" => main'[i] \in Outstanding
      BY <2>1 DEF Outstanding, OfType, Elements
    <3>3. \A i \in DOMAIN worker : worker[i].type = "token" => worker[i] \in Outstanding
      BY DEF Outstanding, OfType, Elements
    <3>4. \A r \in asking : r \in Outstanding
      BY DEF Outstanding
    <3> QED BY <3>1, <3>2, <3>3, <3>4 DEF Inv, OneRequest, New
  <2>7. CASE m.fresh /\ worker' = Append(worker, m) /\ asking' = asking
    <3>1. \A i \in DOMAIN worker' : \/ i \in DOMAIN worker /\ worker'[i] = worker[i]
                                    \/ i = l + 1 /\ worker'[i] = m
      BY <1>6, <2>7
    <3>2. \A i, j \in DOMAIN worker' : Fits(worker'[i], c) /\ Fits(worker'[j], c) => i = j
      BY <2>3, <2>5, <3>1
    <3>3. /\ \A i \in DOMAIN main', j \in DOMAIN worker' :
                ~(Fits(main'[i], c) /\ Fits(worker'[j], c))
          /\ \A r \in asking : r.closes = c => \A i \in DOMAIN worker' : ~Fits(worker'[i], c)
      BY <2>3, <2>5, <3>1
    <3>4. stream.state # "Starting" =>
            \A i \in DOMAIN worker' : worker'[i].type = "token" => worker'[i].closes # c
      BY <2>6, <3>1
    <3>5. stream.state # "Starting" => New(stream)'
      BY <1>1, <2>6, <2>7, <3>4 DEF New, Outstanding, OfType, Elements
    <3> QED BY <1>1, <2>4, <2>5, <2>7, <3>2, <3>3, <3>5
            DEF OneRequest, New, Outstanding
  <2>8. CASE worker' = worker /\ asking' = asking \cup {again}
    <3>1. stream.state # "Starting" => New(stream)'
      BY <1>1, <1>5, <2>6, <2>8 DEF New, Outstanding, OfType, Elements
    <3>2. /\ \A r, q \in asking' : r.closes = c /\ q.closes = c => r = q
          /\ \A r \in asking' : r.closes = c => \A i \in DOMAIN main' : ~Fits(main'[i], c)
          /\ \A r \in asking' : r.closes = c => \A i \in DOMAIN worker : ~Fits(worker[i], c)
      BY <1>5, <2>2, <2>3, <2>5, <2>8
    <3> QED BY <1>1, <2>4, <2>5, <2>8, <3>1, <3>2 DEF OneRequest, New, Outstanding
  <2> QED BY <1>1, <2>7, <2>8
<1>10. IdsOK'
  <2>1. CASE m.fresh /\ worker' = Append(worker, m)
    BY <1>1, <1>4, <2>1, IdsOfWorker
  <2>2. CASE worker' = worker
    BY <1>1, <2>2 DEF Inv, IdsOK
  <2> QED BY <1>1, <2>1, <2>2
<1>11. asking' \subseteq Request /\ IsFiniteSet(asking')
  <2>1. IsFiniteSet(asking \cup {again})
    BY <1>4, FS_Singleton, FS_Union
  <2> QED BY <1>1, <1>4, <1>5, <2>1
<1>12. worker' \in Seq(WorkerMsg)
  BY <1>1, <1>4, <1>6
<1> QED BY <1>1, <1>3, <1>7, <1>8, <1>9, <1>10, <1>11, <1>12, MainStep
        DEF Inv, TypeOK, MainMsg, WorkerMsg

\* The notification of another user.
LEMMA NoticeStep == Inv /\ Notice => Inv'
<1> SUFFICES ASSUME Inv, Notice PROVE Inv'
  OBVIOUS
<1> DEFINE stale(x) == IF x.type = "token" THEN [x EXCEPT !.fresh = FALSE] ELSE x
           m == Head(main)
           n == Len(main)
           l == Len(worker)
           c == stream.closes
<1>1. /\ main # <<>> /\ m.type = "user" /\ credentials' = m.user
      /\ worker' = Append(worker, m)
      /\ main' = [i \in 1..(n - 1) |-> stale(main[i + 1])]
      /\ asking' = {[r EXCEPT !.fresh = FALSE] : r \in asking}
      /\ UNCHANGED <<server, auth, user, queues, stream, committed, refused>>
  BY DEF Notice
<1>2. /\ main \in Seq(MainMsg) /\ n \in Nat /\ n >= 1 /\ DOMAIN main = 1..n
      /\ m = main[1] /\ m \in UserMsg /\ m \in WorkerMsg /\ m.user \in Users
      /\ \A i \in 1..n : main[i] \in MainMsg
  <2>1. \A i \in DOMAIN main : main[i] \in MainMsg
    BY <1>1, FirstOfMain
  <2> QED BY <1>1, <2>1, FirstOfMain DEF WorkerMsg, UserMsg
<1> HIDE DEF m
<1>3. \A x \in MainMsg : /\ stale(x) \in MainMsg /\ stale(x).type = x.type
                         /\ x.type = "user" => stale(x) = x
                         /\ x.type = "token" => stale(x).closes = x.closes
  BY DEF MainMsg, UserMsg, TokenMsg
<1>4. \A x \in MainMsg : x.type = "token" => ~stale(x).fresh
  BY DEF MainMsg, UserMsg, TokenMsg
<1> HIDE DEF stale, n
<1>5. /\ main' \in Seq(MainMsg) /\ DOMAIN main' = 1..(n - 1) /\ Len(main') = n - 1
      /\ \A i \in 1..(n - 1) :
            /\ main'[i] = stale(main[i + 1]) /\ i + 1 \in 1..n /\ i \in Int
            /\ main[i + 1] \in MainMsg
  <2>1. \A i \in 1..(n - 1) : i + 1 \in 1..n /\ i \in Int
    BY <1>2
  <2>2. DOMAIN main' = 1..(n - 1) /\ \A i \in 1..(n - 1) : main'[i] = stale(main[i + 1])
    BY <1>1
  <2>3. \A i \in 1..(n - 1) : main'[i] \in MainMsg
    BY <1>2, <1>3, <2>1, <2>2
  <2>4. main' \in [1..(n - 1) -> MainMsg] /\ n - 1 \in Nat
    BY <1>1, <1>2, <2>2, <2>3
  <2>5. main' \in Seq(MainMsg) /\ Len(main') = n - 1
    BY <2>2, <2>4
  <2> QED BY <1>2, <2>1, <2>2, <2>5
<1>6. worker \in Seq(WorkerMsg) /\ asking \subseteq Request /\ IsFiniteSet(asking)
  BY DEF WorkerMsg, Inv, TypeOK
<1>7. /\ worker' \in Seq(WorkerMsg) /\ l \in Nat /\ DOMAIN worker = 1..l
      /\ \A i \in 1..l : worker'[i] = worker[i]
      /\ \A i \in DOMAIN worker' : \/ i \in DOMAIN worker /\ worker'[i] = worker[i]
                                   \/ i = l + 1 /\ worker'[i] = m
  BY <1>1, <1>2, <1>6, Longer
<1> HIDE DEF l
<1>8. \A i \in DOMAIN worker' : worker'[i].type = "token"
            => i \in DOMAIN worker /\ worker'[i] = worker[i]
  BY <1>1, <1>7
<1>9. \A r \in asking : /\ [r EXCEPT !.fresh = FALSE] \in Request
                        /\ [r EXCEPT !.fresh = FALSE].closes = r.closes
  BY <1>6 DEF Request
<1>10. asking' \subseteq Request /\ IsFiniteSet(asking')
  <2> DEFINE f == [r \in asking |-> [r EXCEPT !.fresh = FALSE]]
  <2>1. f \in Surjection(asking, asking')
    BY <1>1 DEF Surjection
  <2> HIDE DEF f
  <2>2. IsFiniteSet(asking')
    BY <1>6, <2>1, FS_Surjection
  <2> QED BY <1>1, <1>9, <2>2
<1>11. HopsOK'
  <2>1. UserIs(main', n - 1, credentials', auth)
    <3>1. UserIs(main, n, credentials, auth) /\ n \in 1..n
      BY <1>2 DEF Inv, HopsOK, n
    <3>2. UserAfter(credentials, main[1]) = credentials'
      BY <1>1, <1>2 DEF UserAfter
    <3>3. \A k \in 1..(n - 1) : /\ main'[k].type = main[k + 1].type
                                /\ main[k + 1].type = "user" => main'[k] = main[k + 1]
      BY <1>3, <1>5
    <3>4. UserIs(main', n - 1, UserAfter(credentials, main[1]), auth)
      BY <1>2, <3>1, <3>3, UserIsTail
    <3> QED BY <3>2, <3>4
  <2>2. /\ UserIs(worker', Len(worker'), user', credentials')
        /\ \A i \in DOMAIN worker' : worker'[i].type = "write"
                => UserIs(worker', i, user', worker'[i].write.user)
    <3>1. m.type # "write" /\ user' = user
      BY <1>1
    <3> QED BY <1>1, <1>2, <3>1, HopsOfWorker
  <2>3. Len(main') = n - 1 /\ auth' = auth
    BY <1>1, <1>5
  <2> QED BY <2>1, <2>2, <2>3, Zenon DEF HopsOK
<1>12. TokensOK'
  <2>1. ASSUME NEW i \in DOMAIN main', main'[i].type = "token"
        PROVE  ~main'[i].fresh
    BY <1>3, <1>4, <1>5, <2>1
  <2>2. ASSUME NEW i \in DOMAIN worker', Fits(worker'[i], c), NoUser(worker', i)
        PROVE  worker'[i].user \in {None, user}
    <3>1. i \in DOMAIN worker /\ worker'[i] = worker[i]
      BY <1>8, <2>2 DEF Fits
    <3>2. \A k \in 1..i : k \in 1..l
      BY <1>7, <3>1
    <3>3. NoUser(worker, i)
      BY <1>7, <2>2, <3>2 DEF NoUser
    <3> QED BY <2>2, <3>1, <3>3 DEF Inv, TokensOK
  <2> QED BY <1>1, <2>1, <2>2 DEF TokensOK, NoUser
<1>13. OneRequest'
  <2>1. \A i \in DOMAIN main' : /\ i + 1 \in DOMAIN main /\ i \in Int
                                /\ main'[i].type = main[i + 1].type
                                /\ main'[i].type = "token" =>
                                        main'[i].closes = main[i + 1].closes
    BY <1>2, <1>3, <1>5
  <2>2. \A i \in DOMAIN main' : Fits(main'[i], c)
            => i + 1 \in DOMAIN main /\ Fits(main[i + 1], c)
    BY <2>1 DEF Fits
  <2>3. \A i \in DOMAIN worker' : Fits(worker'[i], c)
            => i \in DOMAIN worker /\ Fits(worker[i], c)
    BY <1>8 DEF Fits
  <2>4. \A i, j \in DOMAIN main' : Fits(main'[i], c) /\ Fits(main'[j], c) => i = j
    <3> SUFFICES ASSUME NEW i \in DOMAIN main', NEW j \in DOMAIN main',
                        Fits(main'[i], c), Fits(main'[j], c)
                 PROVE  i = j
      OBVIOUS
    <3>1. \A a, b \in DOMAIN main : Fits(main[a], c) /\ Fits(main[b], c) => a = b
      BY DEF Inv, OneRequest
    <3>2. i + 1 = j + 1
      BY <2>2, <3>1, Zenon
    <3>3. \A a, b \in Int : a + 1 = b + 1 => a = b
      OBVIOUS
    <3> QED BY <2>1, <3>2, <3>3, Zenon
  <2>5. \A i, j \in DOMAIN worker' : Fits(worker'[i], c) /\ Fits(worker'[j], c) => i = j
    BY <2>3 DEF Inv, OneRequest
  <2>6. \A i \in DOMAIN main', j \in DOMAIN worker' :
            ~(Fits(main'[i], c) /\ Fits(worker'[j], c))
    BY <2>2, <2>3 DEF Inv, OneRequest
  <2> DEFINE g(p) == [p EXCEPT !.fresh = FALSE]
  <2>0. \A r \in asking' : \E p \in asking : r = g(p) /\ p.closes = r.closes
    BY <1>1, <1>9
  <2> HIDE DEF g
  <2>7. \A r \in asking' : r.closes = c =>
            /\ \A i \in DOMAIN main' : ~Fits(main'[i], c)
            /\ \A i \in DOMAIN worker' : ~Fits(worker'[i], c)
    <3>1. \A p \in asking : p.closes = c =>
            /\ \A i \in DOMAIN main : ~Fits(main[i], c)
            /\ \A i \in DOMAIN worker : ~Fits(worker[i], c)
      BY DEF Inv, OneRequest
    <3> QED BY <2>2, <2>3, <2>0, <3>1, Zenon
  <2>8. \A r, q \in asking' : r.closes = c /\ q.closes = c => r = q
    <3>1. \A p, o \in asking : p.closes = c /\ o.closes = c => p = o
      BY DEF Inv, OneRequest
    <3> QED BY <2>0, <3>1, Zenon
  <2>9. New(stream) => New(stream)'
    <3>1. ASSUME New(stream), NEW i \in DOMAIN main', main'[i].type = "token"
          PROVE  main'[i].closes # c
      <4>1. main[i + 1] \in Outstanding /\ main'[i].closes = main[i + 1].closes
        BY <2>1, <3>1 DEF Outstanding, OfType, Elements
      <4> QED BY <3>1, <4>1 DEF New
    <3>2. ASSUME New(stream), NEW i \in DOMAIN worker', worker'[i].type = "token"
          PROVE  worker'[i].closes # c
      <4>1. worker'[i] \in Outstanding
        BY <1>8, <3>2 DEF Outstanding, OfType, Elements
      <4> QED BY <3>2, <4>1 DEF New
    <3>3. ASSUME New(stream), NEW r \in asking'
          PROVE  r.closes # c
      BY <1>1, <1>9, <3>3 DEF New, Outstanding
    <3> QED BY <1>1, <3>1, <3>2, <3>3 DEF New, Outstanding, OfType, Elements
  <2>10. stream.state # "Starting" => New(stream)'
    BY <2>9 DEF Inv, OneRequest
  <2>11. stream' = stream
    BY <1>1
  <2>12. stream'.state # "Starting" => New(stream)'
    BY <2>10, <2>11
  <2> QED BY <2>4, <2>5, <2>6, <2>7, <2>8, <2>11, <2>12, Zenon DEF OneRequest
<1>14. IdsOK'
  BY <1>1, <1>2, IdsOfWorker
<1> QED BY <1>1, <1>2, <1>5, <1>7, <1>10, <1>11, <1>12, <1>13, <1>14, MainStep
        DEF Inv, TypeOK, MainMsg, WorkerMsg

----------------------------------------------------------------------------
\* INVARIANCE

\* Nothing is under way at first.
LEMMA InvInit == Init => Inv
<1> SUFFICES ASSUME Init PROVE Inv
  OBVIOUS
<1> DEFINE empty == <<>>
<1>1. /\ auth \in Users /\ credentials = auth /\ user = auth
      /\ asking = {} /\ main = empty /\ worker = empty /\ committed = {} /\ refused = {}
      /\ server = [k \in Keys |-> NoDoc]
      /\ queues = [u \in Users |-> empty]
      /\ stream = [state |-> "Initial", token |-> None, handshake |-> FALSE,
                   idle |-> FALSE, closes |-> 0, pipeline |-> empty, requests |-> empty,
                   responses |-> empty, status |-> None]
  BY DEF Init
<1>2. /\ empty \in Seq(Writes) /\ empty \in Seq(Writes \cup {Handshake})
      /\ empty \in Seq(UserMsg \cup TokenMsg)
      /\ empty \in Seq(UserMsg \cup TokenMsg \cup WriteMsg)
      /\ Len(empty) = 0 /\ DOMAIN empty = {}
  OBVIOUS
<1>3. MaxPipeline \in Nat /\ Min2(0, MaxPipeline) = 0
  BY StreamAssumption DEF Min2
<1>4. \A i \in 1..0 : FALSE
  OBVIOUS
<1>5. queues[user] = empty /\ queues \in [Users -> Seq(Writes)]
  BY <1>1, <1>2
<1> HIDE DEF empty
<1>6. stream \in Stream
  BY <1>1, <1>2 DEF Stream
<1>7. /\ stream.state = "Initial" /\ stream.token = None /\ stream.status = None
      /\ ~stream.handshake /\ ~stream.idle
      /\ stream.pipeline = empty /\ stream.requests = empty /\ stream.responses = empty
  BY <1>1
<1>8. TypeOK
  BY <1>1, <1>2, <1>3, <1>5, <1>6, <1>7 DEF TypeOK, empty
<1>9. HopsOK
  BY <1>1, <1>2, <1>4 DEF HopsOK, UserIs
<1>10. TokensOK /\ OneRequest
  BY <1>1, <1>2 DEF TokensOK, OneRequest, New, Outstanding, OfType, Elements
<1>11. IdsOK
  BY <1>1, <1>2 DEF IdsOK
<1>12. FlowOK
  <2>1. Flow(stream, empty, committed)
    BY <1>2, <1>3, <1>4, <1>7 DEF Flow, Heads, Quiet, Shaking, Talking, Busy, IsStarted
  <2>2. Full(stream, empty) /\ Own(stream, user)
    BY <1>2, <1>3, <1>7 DEF Full, Own
  <2>3. \A u \in Users : AllOf(queues[u], u)
    BY <1>1, <1>2 DEF AllOf
  <2> QED BY <1>5, <2>1, <2>2, <2>3 DEF FlowOK
<1>13. IsFiniteSet(asking)
  BY <1>1, FS_EmptySet
<1> QED BY <1>8, <1>9, <1>10, <1>11, <1>12, <1>13 DEF Inv

\* A step of somebody else.
LEMMA Stutter == Inv /\ UNCHANGED vars => Inv'
<1> SUFFICES ASSUME Inv, UNCHANGED vars PROVE Inv'
  OBVIOUS
<1>1. /\ UNCHANGED <<server, user, queues, stream, committed, refused, auth, credentials,
                     asking, main, worker>>
  BY DEF vars, sdkVars
<1>2. HopsOK' /\ TokensOK' /\ IdsOK'
  BY <1>1 DEF Inv, HopsOK, TokensOK, IdsOK, UserIs, NoUser
<1>3. OneRequest'
  BY <1>1 DEF Inv, OneRequest, New, Outstanding
<1> QED BY <1>1, <1>2, <1>3, MainStep DEF Inv, TypeOK

\* Every step keeps the invariant.
LEMMA InvStep == Inv /\ [Next]_vars => Inv'
<1> SUFFICES ASSUME Inv, [Next]_vars PROVE Inv'
  OBVIOUS
<1>1. ASSUME NEW id \in Ids, NEW doc \in Docs,
             Call(Api!PutCalls(id, doc)) \/ Call(Api!ArchiveCalls(id, doc))
      PROVE  Inv'
  BY <1>1, CallsAre, CallStep
<1>2. ASSUME NEW u \in Users, SwitchUser(u) PROVE Inv'
  BY <1>2, SwitchStep
<1>3. ASSUME NEW r \in asking, NEW u \in {auth, None}, AnswerToken(r, u) PROVE Inv'
  BY <1>3, AnswerStep
<1>4. CASE Notice \/ TakeToken
  BY <1>4, NoticeStep, TakeStep
<1>5. CASE RunWrite \/ RunUser \/ RunToken
  BY <1>5, RunWriteStep, RunUserStep, RunTokenStep
<1>6. CASE BackoffElapsed \/ IdleTimeout \/ ConnectivityChanged
  BY <1>6, BackoffStep, IdleStep, ConnectivityStep
<1>7. CASE OnStreamRead
  BY <1>7, ReadHandshakeStep, ReadResultStep
<1>8. CASE WriteFails \/ OnStreamFinish \/ BreakStream
  BY <1>8, WriteFailsStep, FinishStep, BreakStep
<1>9. CASE Serve \/ Refuse
  BY <1>9, ServeStep, RefuseStep
<1>10. CASE UNCHANGED vars
  BY <1>10, Stutter
<1> QED BY <1>1, <1>2, <1>3, <1>4, <1>5, <1>6, <1>7, <1>8, <1>9, <1>10 DEF Next

\* What the invariant says of the stream.
LEMMA InvShows == Inv => AssertionsHold /\ PipelineInStep /\ UsersStayApart
<1> SUFFICES ASSUME Inv PROVE AssertionsHold /\ PipelineInStep /\ UsersStayApart
  OBVIOUS
<1> DEFINE old == Len(stream.pipeline)
           got == Len(stream.responses)
           sent == Len(stream.requests)
           queue == queues[user]
           last == Min2(Len(queue), MaxPipeline)
           M == Writes \cup {Handshake}
<1>1. /\ queue \in Seq(Writes) /\ stream.pipeline \in Seq(Writes)
      /\ stream.pipeline \in Seq(M)
      /\ stream.responses \in Seq(M) /\ stream.requests \in Seq(M)
      /\ old \in Nat /\ got \in Nat /\ sent \in Nat /\ Len(queue) \in Nat
      /\ \A u \in Users : queues[u] \in Seq(Writes)
  BY UserQueue DEF StreamOK, Stream, Inv, TypeOK
<1>2. /\ Heads(stream, queue) /\ Quiet(stream) /\ Talking(stream, committed)
      /\ Busy(stream) /\ old = last /\ (old > 0 => IsStarted(stream))
      /\ Own(stream, user) /\ StreamOK(stream)
  BY UserQueue DEF Flow, Full
<1>3. last \in Nat /\ last <= Len(queue)
  BY <1>1, StreamAssumption DEF Min2
<1>4. stream.pipeline = SubSeq(queue, 1, last)
  <2> DEFINE head == SubSeq(queue, 1, last)
  <2>1. /\ head \in Seq(Writes) /\ Len(head) = last
        /\ \A i \in 1..last : head[i] = queue[i]
    <3>1. 1 \in Int /\ last \in Int /\ \A i \in 1..last : queue[i] \in Writes
      BY <1>1, <1>3
    <3> HIDE DEF last, queue
    <3>2. /\ SubSeq(queue, 1, last) \in Seq(Writes)
          /\ Len(SubSeq(queue, 1, last)) = IF 1 <= last THEN last - 1 + 1 ELSE 0
          /\ \A i \in 1..(last - 1 + 1) : SubSeq(queue, 1, last)[i] = queue[1 + i - 1]
      BY <3>1, SubSeqProperties
    <3> QED BY <1>3, <3>2
  <2>2. \A i \in 1..last : stream.pipeline[i] = queue[i]
    BY <1>2 DEF Heads
  <2> HIDE DEF head, last, queue
  <2>3. stream.pipeline = head
    <3>1. Len(stream.pipeline) = last /\ Len(head) = last
      BY <1>2, <2>1
    <3>2. stream.pipeline \in Seq(Writes) /\ head \in Seq(Writes)
      BY <1>1, <2>1
    <3>3. \A i \in 1..Len(stream.pipeline) : stream.pipeline[i] = head[i]
      BY <2>1, <2>2, <3>1
    <3> QED BY <3>1, <3>2, <3>3, SeqEqual
  <2> QED BY <2>3 DEF head
<1>5. ASSUME stream.handshake
      PROVE  stream.responses = SubSeq(stream.pipeline, 1, got)
  <2>1. got <= old /\ \A i \in 1..got : stream.responses[i] = stream.pipeline[i]
    BY <1>2, <1>5 DEF Talking
  <2> DEFINE head == SubSeq(stream.pipeline, 1, got)
  <2>2. /\ head \in Seq(M) /\ Len(head) = got
        /\ \A i \in 1..got : head[i] = stream.pipeline[i]
    <3>1. 1 \in Int /\ got \in Int /\ \A i \in 1..got : stream.pipeline[i] \in M
      BY <1>1, <2>1
    <3> HIDE DEF got, M
    <3>2. /\ SubSeq(stream.pipeline, 1, got) \in Seq(M)
          /\ Len(SubSeq(stream.pipeline, 1, got)) = IF 1 <= got THEN got - 1 + 1 ELSE 0
          /\ \A i \in 1..(got - 1 + 1) :
                SubSeq(stream.pipeline, 1, got)[i] = stream.pipeline[1 + i - 1]
      BY <3>1, SubSeqProperties
    <3> QED BY <1>1, <3>2
  <2> HIDE DEF head, M
  <2> QED BY <1>1, <2>1, <2>2 DEF head
<1>6. ASSUME stream.handshake, stream.status = None
      PROVE  stream.responses \o stream.requests = stream.pipeline
  <2>1. /\ got <= old /\ got + sent = old
        /\ \A i \in 1..got : stream.responses[i] = stream.pipeline[i]
        /\ \A i \in 1..sent : stream.requests[i] = stream.pipeline[got + i]
    BY <1>2, <1>6 DEF Talking
  <2> DEFINE all == stream.responses \o stream.requests
  <2> HIDE DEF M
  <2>2. /\ all \in Seq(M) /\ Len(all) = got + sent
        /\ \A i \in 1..(got + sent) : all[i] =
              IF i <= got THEN stream.responses[i] ELSE stream.requests[i - got]
    BY <1>1, ConcatProperties
  <2> HIDE DEF all
  <2>3. ASSUME NEW i \in 1..old
        PROVE  all[i] = stream.pipeline[i]
    <3>1. CASE i <= got
      <4>1. i \in 1..got /\ i \in 1..(got + sent)
        <5> HIDE DEF old, got, sent
        <5> QED BY <1>1, <2>1, <3>1
      <4> QED BY <2>1, <2>2, <3>1, <4>1
    <3>2. CASE ~(i <= got)
      <4>1. i - got \in 1..sent /\ got + (i - got) = i /\ i \in 1..(got + sent)
        <5> HIDE DEF old, got, sent
        <5> QED BY <1>1, <2>1, <3>2
      <4> QED BY <2>1, <2>2, <3>2, <4>1
    <3> QED BY <3>1, <3>2
  <2>4. Len(all) = old
    BY <2>1, <2>2
  <2>5. all = stream.pipeline
    <3> HIDE DEF old
    <3> QED BY <1>1, <2>2, <2>3, <2>4, SeqEqual DEF old
  <2> QED BY <2>5 DEF all
<1>7. PipelineInStep
  BY <1>4, <1>5, <1>6 DEF PipelineInStep
<1>8. AssertionsHold
  <2>1. stream.pipeline = <<>> <=> old = 0
    BY <1>1
  <2>2. ASSUME stream.handshake, stream.responses # <<>>
        PROVE  stream.pipeline # <<>>
    <3>1. got # 0
      BY <1>1, <2>2
    <3>2. got <= old
      BY <1>2, <2>2 DEF Talking
    <3> HIDE DEF got, old
    <3> QED BY <1>1, <2>1, <3>1, <3>2
  <2>3. stream.idle => stream.pipeline = <<>>
    BY <1>2, <2>1 DEF Busy
  <2>4. ASSUME NEW t \in OfType(worker, "token"), t.closes = stream.closes
        PROVE  stream.state = "Starting"
    BY <2>4 DEF Inv, OneRequest, New, Outstanding
  <2>5. stream.pipeline # <<>> => IsStarted(stream)
    <3>1. stream.pipeline # <<>> => old > 0
      <4> HIDE DEF old
      <4> QED BY <1>1, <2>1
    <3> QED BY <1>2, <3>1
  <2> QED BY <2>2, <2>3, <2>4, <2>5 DEF AssertionsHold
<1>9. UsersStayApart
  <2>1. \A u \in Users : \A w \in Elements(queues[u]) : w.user = u
    BY DEF Inv, FlowOK, AllOf, Elements
  <2>2. stream.token # None => stream.token = user
    BY <1>2 DEF Own
  <2>3. \A w \in Elements(stream.requests) \ {Handshake} : w.user = user
    BY <1>2 DEF Own, Elements
  <2> QED BY <2>1, <2>2, <2>3 DEF UsersStayApart
<1> QED BY <1>7, <1>8, <1>9

----------------------------------------------------------------------------
\* NO WRITE IS LOST

\* What Drop takes out of the user's queue is the first write, and nothing else.
LEMMA DropTakesFirst ==
    ASSUME Inv, stream.pipeline # <<>>,
           NEW s, s.pipeline = stream.pipeline, Drop(s),
           NEW u \in Users, NEW w \in Elements(queues[u]) \ Elements(queues'[u])
    PROVE  w = stream.pipeline[1]
<1> DEFINE old == queues[user]
           rest == Without(old, Head(stream.pipeline))
           n == Len(old)
<1>1. /\ Head(stream.pipeline) = stream.pipeline[1] /\ Head(stream.pipeline) = old[1]
      /\ n \in Nat /\ DOMAIN old = 1..n
      /\ rest \in Seq(Writes) /\ Len(rest) = n - 1
      /\ \A i \in 1..(n - 1) : rest[i] = old[i + 1]
  BY FirstWrite
<1>2. queues \in [Users -> Seq(Writes)] /\ user \in Users
  BY DEF Inv, TypeOK
<1>3. queues' = [queues EXCEPT ![user] = rest]
  BY DEF Drop
<1> HIDE DEF rest
<1>4. u = user
  BY <1>2, <1>3
<1>5. queues'[user] = rest
  BY <1>2, <1>3
<1> HIDE DEF old
<1>6. PICK i \in 1..n : w = old[i]
  BY <1>1, <1>4 DEF Elements, old
<1>7. CASE i = 1
  BY <1>1, <1>6, <1>7
<1>8. CASE i # 1
  <2>1. i - 1 \in 1..(n - 1) /\ (i - 1) + 1 = i
    <3> HIDE DEF n
    <3> QED BY <1>1, <1>8
  <2>2. rest[i - 1] = old[i] /\ i - 1 \in DOMAIN rest
    BY <1>1, <2>1
  <2>3. w \in Elements(rest)
    BY <1>6, <2>2 DEF Elements
  <2> QED BY <1>4, <1>5, <2>3
<1> QED BY <1>7, <1>8

\* Steps that may shorten a queue.
LEMMA QueueSteps ==
    ASSUME Inv, [Next]_vars
    PROVE  \/ queues' = queues
           \/ RunWrite
           \/ OnStreamRead /\ stream.handshake
           \/ OnStreamFinish /\ stream.handshake /\ stream.pipeline # <<>>
<1>1. ASSUME NEW id \in Ids, NEW doc \in Docs,
             Call(Api!PutCalls(id, doc)) \/ Call(Api!ArchiveCalls(id, doc))
      PROVE  queues' = queues
  BY <1>1 DEF Call
<1>2. ASSUME NEW u \in Users, SwitchUser(u) PROVE queues' = queues
  BY <1>2 DEF SwitchUser, sdkVars
<1>3. ASSUME NEW r \in asking, NEW u \in {auth, None}, AnswerToken(r, u)
      PROVE  queues' = queues
  BY <1>3 DEF AnswerToken, sdkVars
<1>4. CASE Notice \/ TakeToken
  BY <1>4 DEF Notice, TakeToken
<1>5. CASE RunUser \/ RunToken
  BY <1>5 DEF RunUser, RunToken
<1>6. CASE BackoffElapsed \/ IdleTimeout \/ ConnectivityChanged \/ WriteFails \/ BreakStream
  <2>1. CASE BackoffElapsed \/ WriteFails \/ BreakStream
    BY <2>1 DEF BackoffElapsed, WriteFails, BreakStream
  <2>2. CASE IdleTimeout \/ ConnectivityChanged
    BY <2>2 DEF IdleTimeout, ConnectivityChanged
  <2> QED BY <1>6, <2>1, <2>2
<1>7. CASE OnStreamRead
  BY <1>7 DEF OnStreamRead
<1>8. CASE OnStreamFinish
  BY <1>8 DEF OnStreamFinish
<1>9. CASE Serve \/ Refuse
  BY <1>9 DEF Serve, Refuse
<1>10. CASE UNCHANGED vars
  BY <1>10 DEF vars, sdkVars
<1> QED BY <1>1, <1>2, <1>3, <1>4, <1>5, <1>6, <1>7, <1>8, <1>9, <1>10 DEF Next

\* What leaves a queue was committed, or the stream was ended for it.
LEMMA LossStep ==
    ASSUME Inv, [Next]_vars,
           NEW u \in Users, NEW w \in Elements(queues[u]) \ Elements(queues'[u])
    PROVE  w.id \in committed \/ w = stream.status
<1>1. CASE RunWrite
  <2> DEFINE x == Head(worker).write
             old == queues[user]
  <2>1. /\ worker # <<>> /\ Head(worker).type = "write"
        /\ queues' = [queues EXCEPT ![user] = Append(old, x)]
    BY <1>1 DEF RunWrite
  <2>2. old \in Seq(Writes) /\ x \in Writes /\ queues \in [Users -> Seq(Writes)]
        /\ user \in Users
    BY <2>1, FirstMessage DEF Inv, TypeOK, WriteMsg
  <2> HIDE DEF x
  <2>3. u = user
    BY <2>1, <2>2
  <2>4. queues'[user] = Append(old, x)
    BY <2>1, <2>2
  <2> HIDE DEF old
  <2>5. \A i \in DOMAIN old : i \in DOMAIN Append(old, x) /\ Append(old, x)[i] = old[i]
    <3>1. /\ DOMAIN old = 1..Len(old) /\ DOMAIN Append(old, x) = 1..(Len(old) + 1)
          /\ Len(old) \in Nat
          /\ \A i \in 1..Len(old) : Append(old, x)[i] = old[i]
      BY <2>2, Appended
    <3> QED BY <3>1
  <2>6. w \in Elements(queues'[user])
    BY <2>3, <2>4, <2>5 DEF Elements, old
  <2> QED BY <2>3, <2>6
<1>2. ASSUME stream.handshake, OnStreamRead \/ OnStreamFinish
      PROVE  Talking(stream, committed) /\ StreamOK(stream)
  BY UserQueue DEF Flow
<1> DEFINE got == Len(stream.responses)
           old == Len(stream.pipeline)
<1>3. CASE OnStreamRead /\ stream.handshake
  <2>1. stream.responses # <<>> /\ Drop([stream EXCEPT !.responses = Tail(@)])
    BY <1>3 DEF OnStreamRead
  <2>2. [stream EXCEPT !.responses = Tail(@)].pipeline = stream.pipeline
    BY <1>2, <1>3 DEF StreamOK, Stream
  <2>3. got \in Nat /\ got # 0 /\ old \in Nat /\ got <= old
    BY <1>2, <1>3, <2>1 DEF StreamOK, Stream, Talking
  <2>4. 1 \in 1..got /\ old # 0
    <3> HIDE DEF got, old
    <3> QED BY <2>3
  <2>5. stream.pipeline # <<>>
    BY <2>4
  <2>6. stream.pipeline[1].id \in committed
    BY <1>2, <1>3, <2>4 DEF Talking
  <2>7. w = stream.pipeline[1]
    BY <2>1, <2>2, <2>5, DropTakesFirst
  <2> QED BY <2>6, <2>7
<1>4. CASE OnStreamFinish /\ stream.handshake /\ stream.pipeline # <<>>
  <2>1. /\ stream.status # None /\ stream.responses = <<>>
        /\ Drop(Closed(stream, "Initial"))
    BY <1>4 DEF OnStreamFinish
  <2>2. Closed(stream, "Initial").pipeline = stream.pipeline
    BY <1>2, <1>4, ClosedIsNew DEF Inv
  <2>3. w = stream.pipeline[1]
    BY <1>4, <2>1, <2>2, DropTakesFirst
  <2>4. PICK k \in (got + 1)..old :
            /\ stream.status = stream.pipeline[k]
            /\ \A i \in 1..(k - 1) : stream.pipeline[i].id \in committed
    BY <1>2, <1>4, <2>1 DEF Talking
  <2>5. got = 0 /\ old \in Nat
    BY <1>2, <1>4, <2>1 DEF StreamOK, Stream
  <2>6. k = 1 \/ 1 \in 1..(k - 1)
    <3> HIDE DEF got, old
    <3> QED BY <2>5
  <2> QED BY <2>3, <2>4, <2>6
<1>5. CASE queues' = queues
  BY <1>5
<1> QED BY <1>1, <1>3, <1>4, <1>5, QueueSteps

----------------------------------------------------------------------------
\* THEOREMS

\* The invariant holds throughout.
LEMMA Invariance == Spec => []Inv
<1>1. Init => Inv
  BY InvInit
<1>2. Inv /\ [Next]_vars => Inv'
  BY InvStep
<1> QED BY <1>1, <1>2, PTL DEF Spec

\* Every variable keeps its type: a token is there just while the stream is open,
\* nothing is under way on a stream that is not, the pipeline keeps its limit.
THEOREM TypeCorrect == Spec => []TypeOK
<1>1. Inv => TypeOK
  BY DEF Inv
<1> QED BY <1>1, Invariance, PTL

\* Whatever crosses closing and opening the stream on its way, none of the SDK's
\* HARD_ASSERTs about it fails, and a stream that is needed is started
\* (OnStreamRead, OnStreamFinish, RunToken, IdleTimeout).
THEOREM AssertionsAlwaysHold == Spec => []AssertionsHold
<1>1. Inv => AssertionsHold
  BY InvShows
<1> QED BY <1>1, Invariance, PTL

\* A result is matched with the write it is about, though nothing on the wire says
\* which that is: the pipeline is the head of the user's queue (FillWritePipeline),
\* and what is under way is the pipeline, in its order.
THEOREM PipelineStaysInStep == Spec => []PipelineInStep
<1>1. Inv => PipelineInStep
  BY InvShows
<1> QED BY <1>1, Invariance, PTL

\* However many changes of user, tokens and calls are on their way, a write stays
\* with the user who made it and is sent with no other user's token
\* (HandleCredentialChange, ResumeStartWithCredentials).
THEOREM UsersAlwaysStayApart == Spec => []UsersStayApart
<1>1. Inv => UsersStayApart
  BY InvShows
<1> QED BY <1>1, Invariance, PTL

\* OnStreamRead and OnStreamFinish take a write out of a queue only if the backend
\* has committed it or ended the stream for it.
THEOREM NoWriteIsEverLost == Spec => NoWriteIsLost
<1>1. Inv /\ [Next]_vars => [\A u \in Users :
        \A w \in Elements(queues[u]) \ Elements(queues'[u]) :
            w.id \in committed \/ w = stream.status]_vars
  BY LossStep
<1> QED BY <1>1, Invariance, PTL DEF Spec, NoWriteIsLost
==============================================================================
