---------------------------- MODULE AtomicStore ----------------------------
(***************************************************************************)
(* What a device that is alone with the backend may believe of Firestore:  *)
(* a store of whole documents in which every write takes effect at once    *)
(* and for good, in the order the calls were made, and in which a query    *)
(* reads the documents as they are at one moment after its turn has come.  *)
(* What it may not believe is that a call has taken effect when it returns *)
(* (a crash drops the calls that wait), that every query is answered (a    *)
(* crash drops it, an error ends it in silence), or, where the backend may *)
(* refuse writes, that a write stays: one that is refused is taken back,   *)
(* and the device may be left in doubt about that one document, until it   *)
(* writes it again or is answered online.                                  *)
(***************************************************************************)
EXTENDS Naturals, Sequences

CONSTANTS Keys, Queried, Docs, NoDoc, Query, MayRefuse

VARIABLES
    store,      \* the documents
    waiting,    \* the calls that have not had their turn
    reading,    \* the number of queries that have had their turn, unanswered
    answers,    \* the answers the app has not consumed
    refused,    \* the documents of which a write was refused
    doubtful    \* the documents about which an answer may be wrong

vars == <<store, waiting, reading, answers, refused, doubtful>>

Mutation == [key : Keys, doc : Docs \cup {NoDoc}]

Init ==
    /\ store = [k \in Keys |-> NoDoc]
    /\ waiting = <<>>
    /\ reading = 0
    /\ answers = <<>>
    /\ refused = {}
    /\ doubtful = {}

Call(tasks) ==
    /\ waiting' = waiting \o tasks
    /\ UNCHANGED <<store, reading, answers, refused, doubtful>>

TakeEffect ==
    /\ waiting # <<>>
    /\ Head(waiting) # Query
    /\ store' = [store EXCEPT ![Head(waiting).key] = Head(waiting).doc]
    /\ waiting' = Tail(waiting)
    /\ doubtful' = doubtful \ {Head(waiting).key}
    /\ UNCHANGED <<reading, answers, refused>>

StartReading ==
    /\ waiting # <<>>
    /\ Head(waiting) = Query
    /\ waiting' = Tail(waiting)
    /\ reading' = reading + 1
    /\ UNCHANGED <<store, answers, refused, doubtful>>

\* The query is answered, with what the backend has (wrong is empty and the doubts are
\* cleared) or with what the device believes it has.
Answer(docs) ==
    /\ reading > 0
    /\ reading' = reading - 1
    /\ \E wrong \in {{}, doubtful} :
        /\ \A k \in Queried \ wrong : docs[k] = store[k]
        /\ doubtful' = wrong
    /\ answers' = Append(answers, docs)
    /\ UNCHANGED <<store, waiting, refused>>

\* The query ends with an error, of which the app learns nothing.
Fail ==
    /\ reading > 0
    /\ reading' = reading - 1
    /\ UNCHANGED <<store, waiting, answers, refused, doubtful>>

\* A write that has had its turn is refused: the document is what the backend has, or
\* what the writes that were made after it say.
Refuse(k, doc) ==
    /\ MayRefuse
    /\ store' = [store EXCEPT ![k] = doc]
    /\ refused' = refused \cup {k}
    /\ doubtful' \in {doubtful, doubtful \cup {k}}
    /\ UNCHANGED <<waiting, reading, answers>>

Consume ==
    /\ answers # <<>>
    /\ answers' = Tail(answers)
    /\ UNCHANGED <<store, waiting, reading, refused, doubtful>>

Crash ==
    /\ waiting' = <<>>
    /\ reading' = 0
    /\ answers' = <<>>
    /\ UNCHANGED <<store, refused, doubtful>>

\* ApiClient makes one call (a query, a post, a put) or two (an archive).
Next ==
    \/ \E t \in Mutation \cup {Query} : Call(<<t>>)
    \/ \E m1, m2 \in Mutation : Call(<<m1, m2>>)
    \/ TakeEffect
    \/ StartReading
    \/ \E docs \in [Queried -> Docs \cup {NoDoc}] : Answer(docs)
    \/ Fail
    \/ \E k \in Keys, doc \in Docs \cup {NoDoc} : Refuse(k, doc)
    \/ Consume
    \/ Crash

Spec == Init /\ [][Next]_vars
============================================================================
