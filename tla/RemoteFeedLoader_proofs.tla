----------------------- MODULE RemoteFeedLoader_proofs -----------------------
(***************************************************************************)
(* Proofs about RemoteFeedLoader, for any loads, statuses and bodies: every *)
(* answer is the reference answer, and on one thread no answer comes after *)
(* the loader is gone.                                                     *)
(***************************************************************************)
EXTENDS RemoteFeedLoader, TLAPS

\* On one thread nothing comes between the guard of a completion and its delivery.
CheckedWhileAlive == OneThread => \A l \in Loads : phase[l] = "checked" => alive

\* What a delivered answer says of the response it was made from.
IsReference(a, r) ==
    /\ a.outcome = "success" <=> WellFormed(r)
    /\ a.outcome = "connectivity" <=> r = NoConnection
    /\ a.outcome = "success" =>
        /\ Len(a.items) = Len(r.body)
        /\ \A i \in DOMAIN a.items : a.items[i] = r.body[i].id

Answered == \A l \in Loads : answers[l] # <<>> =>
    Len(answers[l]) = 1 /\ IsReference(answers[l][1], response[l])

Inv == TypeOK /\ CheckedWhileAlive /\ Answered

----------------------------------------------------------------------------
\* THE ANSWERS

\* What the completion delivers.
Result(r) == IF r = NoConnection THEN Failure("connectivity") ELSE map(r)

\* The items of a feed, as the mapper gives them.
LEMMA SuccessItems ==
    ASSUME NEW feed \in Seq(Item)
    PROVE  /\ Success(feed).outcome = "success"
           /\ Success(feed).items \in Seq(Nat)
           /\ Len(Success(feed).items) = Len(feed)
           /\ \A i \in DOMAIN Success(feed).items : Success(feed).items[i] = feed[i].id
<1> DEFINE items == [i \in DOMAIN feed |-> feed[i].id]
<1>1. \A i \in DOMAIN feed : feed[i].id \in Nat
  <2>1. \A i \in DOMAIN feed : feed[i] \in Item
    OBVIOUS
  <2> QED BY <2>1 DEF Item
<1>2. items \in Seq(Nat) /\ Len(items) = Len(feed)
  BY <1>1
<1>3. Success(feed) = [outcome |-> "success", items |-> items]
  BY DEF Success
<1> QED BY <1>2, <1>3

\* A response that does not trap the mapper is answered as the reference says.
LEMMA ResultIsReference ==
    ASSUME NEW r \in Response, ~Traps(r)
    PROVE  Result(r) \in Answer /\ IsReference(Result(r), r)
<1>1. \A error \in {"connectivity", "invalidData"} :
        Failure(error) \in Answer /\ Failure(error).outcome = error
  BY DEF Failure, Answer
<1>2. CASE r = NoConnection
  <2>1. ~WellFormed(r)
    BY <1>2 DEF WellFormed, NoConnection
  <2> QED BY <1>1, <1>2, <2>1 DEF Result, IsReference
<1>3. CASE r # NoConnection /\ (r.status # 200 \/ r.body = Garbage)
  <2>1. ~WellFormed(r)
    BY <1>3, LoaderAssumption DEF WellFormed
  <2>2. Result(r) = Failure("invalidData")
    BY <1>3 DEF Result, map
  <2> QED BY <1>1, <1>3, <2>1, <2>2 DEF IsReference
<1>4. CASE r # NoConnection /\ r.status = 200 /\ r.body # Garbage
  <2>1. r.body \in Feeds /\ r.body \in Seq(Item)
    BY <1>4, LoaderAssumption DEF Response
  <2>2. WellFormed(r)
    BY <1>4, <2>1 DEF WellFormed, Traps
  <2>3. Result(r) = Success(r.body)
    BY <1>4 DEF Result, map
  <2>4. Success(r.body) \in Answer
    BY <2>1, SuccessItems DEF Answer, Success
  <2> QED BY <1>4, <2>1, <2>2, <2>3, <2>4, SuccessItems DEF IsReference
<1> QED BY <1>2, <1>3, <1>4

----------------------------------------------------------------------------
LEMMA InvInit == Init => Inv
<1> SUFFICES ASSUME Init
             PROVE  Inv
  OBVIOUS
<1>1. TypeOK
  <2>1. <<>> \in Seq(Answer)
    OBVIOUS
  <2> QED BY <2>1 DEF Init, TypeOK
<1>2. CheckedWhileAlive /\ Answered
  BY DEF Init, CheckedWhileAlive, Answered
<1> QED BY <1>1, <1>2 DEF Inv

LEMMA InvNext == Inv /\ [Next]_vars => Inv'
<1> SUFFICES ASSUME Inv, [Next]_vars
             PROVE  Inv'
  OBVIOUS
<1>1. CASE UNCHANGED vars
  BY <1>1 DEF vars, Inv, TypeOK, CheckedWhileAlive, Answered
<1>2. CASE Release
  BY <1>2 DEF Release, Free, Inv, TypeOK, CheckedWhileAlive, Answered
<1>3. ASSUME NEW l \in Loads, load(l)
      PROVE  Inv'
  BY <1>3 DEF load, Inv, TypeOK, CheckedWhileAlive, Answered
<1>4. ASSUME NEW l \in Loads, NEW r \in Response, Respond(l, r)
      PROVE  Inv'
  <2>1. r # NoResponse /\ answers[l] = <<>>
    BY <1>4, LoaderAssumption DEF Respond, Inv, TypeOK
  <2>2. TypeOK'
    BY <1>4, <2>1 DEF Respond, Inv, TypeOK
  <2>3. CheckedWhileAlive'
    BY <1>4 DEF Respond, Free, Inv, TypeOK, CheckedWhileAlive
  <2>4. Answered'
    BY <1>4, <2>1 DEF Respond, Inv, TypeOK, Answered
  <2> QED BY <2>2, <2>3, <2>4 DEF Inv
<1>5. ASSUME NEW l \in Loads, Deliver(l)
      PROVE  Inv'
  <2>1. answers[l] = <<>> /\ response[l] \in Response
    BY <1>5 DEF Deliver, Inv, TypeOK
  <2>2. CheckedWhileAlive'
    BY <1>5 DEF Deliver, Inv, TypeOK, CheckedWhileAlive
  <2>3. Traps(response[l]) \in BOOLEAN
    BY DEF Traps
  <2>4. CASE Traps(response[l])
    <3>1. TypeOK'
      BY <1>5, <2>1, <2>3, <2>4 DEF Deliver, Inv, TypeOK
    <3>2. Answered'
      BY <1>5, <2>4 DEF Deliver, Inv, Answered
    <3> QED BY <2>2, <3>1, <3>2 DEF Inv
  <2>5. CASE ~Traps(response[l])
    <3> DEFINE a == Result(response[l])
    <3>1. a \in Answer /\ IsReference(a, response[l])
      BY <2>1, <2>5, ResultIsReference
    <3>2. answers' = [answers EXCEPT ![l] = Append(@, a)] /\ response' = response
      BY <1>5, <2>5 DEF Deliver, Result
    <3> HIDE DEF a
    <3>3. answers \in [Loads -> Seq(Answer)]
      BY DEF Inv, TypeOK
    <3>4. /\ answers' \in [Loads -> Seq(Answer)]
          /\ Len(answers'[l]) = 1 /\ answers'[l][1] = a
          /\ \A k \in Loads \ {l} : answers'[k] = answers[k]
      BY <2>1, <3>1, <3>2, <3>3
    <3>5. TypeOK'
      BY <1>5, <2>3, <3>4 DEF Deliver, Inv, TypeOK
    <3>6. Answered'
      BY <3>1, <3>2, <3>4 DEF Inv, Answered
    <3> QED BY <2>2, <3>5, <3>6 DEF Inv
  <2> QED BY <2>4, <2>5
<1> QED BY <1>1, <1>2, <1>3, <1>4, <1>5 DEF Next

LEMMA Invariant == Spec => []Inv
BY InvInit, InvNext, PTL DEF Spec

----------------------------------------------------------------------------
\* THEOREMS

\* Every reachable state of the loader is well typed, and no load has an answer
\* before its completion is over.
THEOREM TypeCorrect == Spec => []TypeOK
<1>1. Inv => TypeOK
  BY DEF Inv
<1> QED BY <1>1, Invariant, PTL

\* FeedItemsMapper.map and the loader's completion: for any bodies and statuses and
\* any number of loads in flight, each is answered once at most and rightly.
THEOREM AnswersAreRight == Spec => []AnswersAreReferenceAnswers
<1>1. Inv => AnswersAreReferenceAnswers
  BY DEF Inv, Answered, IsReference, AnswersAreReferenceAnswers
<1> QED BY <1>1, Invariant, PTL

\* [weak self] keeps its promise where the client calls back on the thread of the
\* loader's owner.
THEOREM OneThreadIsSafe == OneThread /\ Spec => NoDeliveryAfterRelease
<1> SUFFICES ASSUME OneThread
             PROVE  Spec => NoDeliveryAfterRelease
  OBVIOUS
<1>1. Inv /\ [Next]_vars => [answers' # answers => alive]_vars
  BY DEF Inv, CheckedWhileAlive, Next, Release, load, Respond, Deliver
<1> QED BY <1>1, Invariant, PTL DEF Spec, NoDeliveryAfterRelease
==============================================================================
