-------------------------- MODULE RemoteFeedLoader --------------------------
(***************************************************************************)
(* RemoteFeedLoader and FeedItemsMapper: loads in flight on an HTTPClient, *)
(* their responses, and the owner who may let go of the loader.            *)
(*                                                                         *)
(* The completion the loader hands to its client first checks that the     *)
(* loader still exists, then maps the response and delivers the answer.    *)
(* Where client and owner share a thread (OneThread) nothing happens       *)
(* between the two; a client that calls back on a thread of its own, as    *)
(* URLSession does, lets the owner act in between.                         *)
(***************************************************************************)
EXTENDS Naturals, Sequences

CONSTANTS
    Loads,      \* the calls of load
    Statuses,   \* the HTTP status codes of the responses
    Feeds,      \* the bodies that decode: sequences of items
    Garbage,    \* a body that does not decode
    NoResponse, \* a load that has not been answered by the client
    OneThread   \* whether client and owner run on one thread

\* The items of a decoded body.  createdDate is still text: dated says whether
\* it has the format of Date(string:).
Item == [id : Nat, dated : BOOLEAN]

\* What the client answers: a response, or an error of its own.
NoConnection == [status |-> 0, body |-> Garbage]
Response == [status : Statuses, body : Feeds \cup {Garbage}] \cup {NoConnection}

Answer == [outcome : {"success", "connectivity", "invalidData"}, items : Seq(Nat)]

ASSUME LoaderAssumption ==
    /\ Statuses \subseteq Nat \ {0}
    /\ Feeds \subseteq Seq(Item)
    /\ Garbage \notin Feeds
    /\ NoResponse \notin Response
    /\ OneThread \in BOOLEAN

VARIABLES
    alive,      \* the owner still holds the loader
    phase,      \* per load: where its completion is
    response,   \* per load: what the client has answered
    answers,    \* per load: what has been delivered
    trapped     \* the process has trapped

vars == <<alive, phase, response, answers, trapped>>

TypeOK ==
    /\ alive \in BOOLEAN
    /\ phase \in [Loads -> {"idle", "requested", "checked", "over"}]
    /\ response \in [Loads -> Response \cup {NoResponse}]
    /\ answers \in [Loads -> Seq(Answer)]
    /\ trapped \in BOOLEAN
    /\ \A l \in Loads : /\ answers[l] # <<>> => phase[l] = "over"
                        /\ phase[l] = "checked" => response[l] # NoResponse

Init ==
    /\ alive = TRUE
    /\ phase = [l \in Loads |-> "idle"]
    /\ response = [l \in Loads |-> NoResponse]
    /\ answers = [l \in Loads |-> <<>>]
    /\ trapped = FALSE

----------------------------------------------------------------------------
Failure(error) == [outcome |-> error, items |-> <<>>]
Success(feed)  == [outcome |-> "success", items |-> [i \in DOMAIN feed |-> feed[i].id]]

\* root.feed unwraps every date outside the try?: one that does not parse traps.
Traps(r) ==
    /\ r.status = 200
    /\ r.body # Garbage
    /\ \E i \in DOMAIN r.body : ~r.body[i].dated

\* Mutant of map: the status code is not looked at.
mapAnyStatus(r) == IF r.body = Garbage THEN Failure("invalidData") ELSE Success(r.body)

map(r) ==
    IF r.status # 200 \/ r.body = Garbage
    THEN Failure("invalidData")
    ELSE Success(r.body)

\* What else may happen while a completion runs.
Free == ~trapped /\ (OneThread => \A l \in Loads : phase[l] # "checked")

load(l) ==
    /\ Free /\ alive
    /\ phase[l] = "idle"
    /\ phase' = [phase EXCEPT ![l] = "requested"]
    /\ UNCHANGED <<alive, response, answers, trapped>>

\* The owner lets go of the loader.
Release ==
    /\ Free /\ alive
    /\ alive' = FALSE
    /\ UNCHANGED <<phase, response, answers, trapped>>

\* Mutant of Respond: the completion does not check that the loader exists.
RespondUnchecked(l, r) ==
    /\ Free
    /\ phase[l] = "requested"
    /\ response' = [response EXCEPT ![l] = r]
    /\ phase' = [phase EXCEPT ![l] = "checked"]
    /\ UNCHANGED <<alive, answers, trapped>>

\* The client calls the completion: guard self != nil.
Respond(l, r) ==
    /\ Free
    /\ phase[l] = "requested"
    /\ response' = [response EXCEPT ![l] = r]
    /\ phase' = [phase EXCEPT ![l] = IF alive THEN "checked" ELSE "over"]
    /\ UNCHANGED <<alive, answers, trapped>>

\* Mutant of Deliver: every result goes on to the mapper's caller again.
DeliverTwice(l) ==
    /\ ~trapped
    /\ phase[l] = "checked"
    /\ answers' = [answers EXCEPT ![l] = Append(@, map(response[l]))]
    /\ UNCHANGED <<alive, phase, response, trapped>>

\* The rest of the completion: the switch over the result.
Deliver(l) ==
    /\ ~trapped
    /\ phase[l] = "checked"
    /\ phase' = [phase EXCEPT ![l] = "over"]
    /\ trapped' = Traps(response[l])
    /\ answers' =
        IF Traps(response[l]) THEN answers
        ELSE [answers EXCEPT ![l] = Append(@,
                IF response[l] = NoConnection THEN Failure("connectivity")
                                              ELSE map(response[l]))]
    /\ UNCHANGED <<alive, response>>

Next ==
    \/ Release
    \/ \E l \in Loads :
        \/ load(l)
        \/ \E r \in Response : Respond(l, r)
        \/ Deliver(l)

Spec == Init /\ [][Next]_vars

----------------------------------------------------------------------------
\* PROPERTIES

\* A well-formed feed is a 200 response whose every item can be shown.
WellFormed(r) ==
    r.status = 200 /\ r.body \in Feeds /\ \A i \in DOMAIN r.body : r.body[i].dated

\* Whatever the order of the responses and however many loads are in flight, a
\* load is answered once at most, from its own response: with the items of a
\* well-formed feed, in their order, and otherwise with one of the two errors.
AnswersAreReferenceAnswers == \A l \in Loads : answers[l] # <<>> =>
    /\ Len(answers[l]) = 1
    /\ LET a == answers[l][1] IN
        /\ a.outcome = "success" <=> WellFormed(response[l])
        /\ a.outcome = "connectivity" <=> response[l] = NoConnection
        /\ a.outcome = "success" =>
            /\ Len(a.items) = Len(response[l].body)
            /\ \A i \in DOMAIN a.items : a.items[i] = response[l].body[i].id

\* "test_load_doesNotDeliverResultAfterSUTInstanceHasBeenDeallocated": no answer
\* is delivered once the owner has let go of the loader.
NoDeliveryAfterRelease == [][answers' # answers => alive]_vars

\* "test_load_deliversErrorOn200HTTPResponseWithInvalidJSON": a completion that
\* has passed its guard and run to its end has delivered an answer, invalid data
\* included.
InvalidDataIsReported == \A l \in Loads :
    alive /\ phase[l] = "over" => answers[l] # <<>>
============================================================================
