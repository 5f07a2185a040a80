----------------------------- MODULE WriteStream -----------------------------
(***************************************************************************)
(* One phone's write path in detail: the main queue, the SDK's worker      *)
(* queue, a mutation queue per user, the write pipeline and the write      *)
(* stream with its states, tokens, handshake, back-off, idle timer and     *)
(* failures, while the user of the phone may change.                       *)
(*                                                                         *)
(* A change of user reaches the SDK in three hops: Firebase Auth changes   *)
(* its user and posts a notification, the main queue hands it on as a      *)
(* task, the worker queue runs that task and restarts the stream.  Tokens  *)
(* travel the same way, and calls of the app from the main queue on.       *)
(*                                                                         *)
(* Every user's queue and the backend together behave as a device of       *)
(* DefectApi does (ImplementsApi).                                         *)
(***************************************************************************)
EXTENDS Naturals, Sequences, FiniteSets

CONSTANTS
    Users,          \* the accounts, "not logged in" may be one
    Ids, Docs, NoDoc, MayRefuse, MaxPipeline,               \* see DefectApi
    MaxPending,     \* bound: writes queued or to be queued, of all users
    Handshake,      \* the first message of a stream
    None,           \* no user, no token, no status
    MaxTokens       \* bound: token requests and changes of user on their way,
                    \* when the user changes or the network does

Keys   == {"Defects", "Archive"} \X Ids
Writes == [id : Nat, user : Users, key : Keys, doc : Docs \cup {NoDoc}]

ASSUME StreamAssumption ==
    /\ IsFiniteSet(Users)
    /\ None \notin Users \cup Writes
    /\ None \notin [key : Keys, doc : Docs \cup {NoDoc}]
    /\ Handshake \notin Writes \cup {None}
    /\ NoDoc \notin Docs
    /\ MayRefuse \in BOOLEAN
    /\ MaxPipeline \in Nat \ {0}
    /\ MaxPending \in Nat

VARIABLES
    server,         \* the backend's documents
    auth,           \* Firebase Auth's current user
    asking,         \* the requests for a token that Auth works on
    main,           \* the main queue: changes of user and tokens
    credentials,    \* the credentials provider's user
    worker,         \* the worker queue: writes, changes of user, tokens
    user,           \* the sync engine's current_user_
    queues,         \* per user: the mutation queue
    stream,         \* the write stream, its connection and the pipeline
    committed,      \* ids of queued writes the backend has committed
    refused         \* the documents for which a write was dropped as refused

sdkVars == <<worker, user, queues, stream>>
vars == <<server, auth, asking, main, credentials, sdkVars, committed, refused>>

UserMsg  == [type : {"user"}, user : Users]
TokenMsg == [type : {"token"}, closes : Nat, fresh : BOOLEAN, user : Users \cup {None}]
WriteMsg == [type : {"write"}, write : Writes]

\* A request for a token: close_count_ when it was made, and whether token_counter is
\* still what it was then.
Request == [closes : Nat, fresh : BOOLEAN]

\* requests and responses are the messages under way to and from the backend, a
\* response being the request it answers; status is the request for which the
\* backend has ended the stream.
Stream == [state : {"Initial", "Starting", "Open", "Error", "Backoff"},
           token : Users \cup {None}, handshake : BOOLEAN, idle : BOOLEAN,
           closes : Nat, pipeline : Seq(Writes),
           requests : Seq(Writes \cup {Handshake}),
           responses : Seq(Writes \cup {Handshake}),
           status : Writes \cup {Handshake, None}]

TypeOK ==
    /\ server \in [Keys -> Docs \cup {NoDoc}]
    /\ auth \in Users
    /\ asking \subseteq Request
    /\ main \in Seq(UserMsg \cup TokenMsg)
    /\ credentials \in Users
    /\ worker \in Seq(UserMsg \cup TokenMsg \cup WriteMsg)
    /\ user \in Users
    /\ queues \in [Users -> Seq(Writes)]
    /\ stream \in Stream
    /\ committed \subseteq Nat
    /\ refused \subseteq Keys
    /\ stream.state = "Open" <=> stream.token # None
    /\ stream.state # "Open" => stream.requests = <<>> /\ stream.responses = <<>>
    /\ Len(stream.pipeline) <= MaxPipeline

----------------------------------------------------------------------------
\* HELPERS

Min2(m, n) == IF m < n THEN m ELSE n
Elements(s) == {s[i] : i \in DOMAIN s}
OfType(s, type) == {m \in Elements(s) : m.type = type}

\* close_count_ and the batch ids grow for ever, but are only compared: a number
\* nothing on its way carries is as good as the next one.
Unused(S) == CHOOSE n \in 0..Cardinality(S) : n \notin S

Outstanding == asking \cup OfType(main, "token") \cup OfType(worker, "token")
Changes == Cardinality({i \in DOMAIN main : main[i].type = "user"})
           + Cardinality({i \in DOMAIN worker : worker[i].type = "user"})

IsStarted(s) == s.state \in {"Starting", "Backoff", "Open"}
Writable(s)  == s.state = "Open" /\ s.handshake

\* Stream::Start, where the write stream should be started.
StartIfNeeded(s) ==
    IF IsStarted(s) \/ s.pipeline = <<>> THEN s
    ELSE [s EXCEPT !.state = IF @ = "Error" THEN "Backoff" ELSE "Starting"]

\* FillWritePipeline: the writes after the last of the pipeline join it, and are
\* sent if the stream is ready; with nothing to do the idle timer runs.
Fill(s, queue) ==
    LET more == SubSeq(queue, Len(s.pipeline) + 1, Min2(Len(queue), MaxPipeline))
        pipeline == s.pipeline \o more
    IN  StartIfNeeded([s EXCEPT
            !.pipeline = pipeline,
            !.requests = IF Writable(s) THEN @ \o more ELSE @,
            !.idle = \/ s.state = "Open" /\ pipeline = <<>>
                     \/ @ /\ ~(Writable(s) /\ more # <<>>)])

\* Mutant of Closed: the connection is not finished with.
ClosedUnfinished(s, state) ==
    [s EXCEPT !.state = state, !.token = None, !.handshake = FALSE, !.idle = FALSE,
              !.closes = Unused({s.closes} \cup {r.closes : r \in Outstanding})]

\* Stream::Close: timers, connection and outstanding token requests are void.
Closed(s, state) ==
    [s EXCEPT !.state = state, !.token = None, !.handshake = FALSE, !.idle = FALSE,
              !.closes = Unused({s.closes} \cup {r.closes : r \in Outstanding}),
              !.requests = <<>>, !.responses = <<>>, !.status = None]

Stop(s) == IF IsStarted(s) THEN Closed(s, "Initial") ELSE s

\* Mutant of Restarted: the pipeline is not cleared.
RestartedUncleared(queue) == Fill([Stop(stream) EXCEPT !.state = "Initial"], queue)

\* RestartNetwork, for a user with that queue.
Restarted(queue) ==
    Fill([Stop(stream) EXCEPT !.state = "Initial", !.pipeline = <<>>], queue)

\* Mutant of Failed: nobody starts the stream again.
FailedForGood == Closed(stream, "Error")

\* OnWriteStreamClose after an error that does not condemn a write.
Failed == StartIfNeeded(Closed(stream, "Error"))

\* The stream becomes s.  Whenever that starts it, RequestCredentials asks for a
\* token.
Become(s) ==
    /\ stream' = s
    /\ asking' =
        IF s.state = "Starting" /\ (stream.state # "Starting" \/ s.closes # stream.closes)
        THEN asking \cup {[closes |-> s.closes, fresh |-> TRUE]}
        ELSE asking

\* RemoveMutationBatch.
Without(queue, w) ==
    LET n == CHOOSE i \in DOMAIN queue : queue[i].id = w.id
    IN  [i \in 1..(Len(queue) - 1) |-> IF i < n THEN queue[i] ELSE queue[i + 1]]

\* The first write of the pipeline goes, from the user's queue too; another may follow.
Drop(s) ==
    LET w == Head(s.pipeline)
        rest == Without(queues[user], w)
    IN  /\ queues' = [queues EXCEPT ![user] = rest]
        /\ committed' = committed \ {w.id}
        /\ Become(Fill([s EXCEPT !.pipeline = Tail(@)], rest))

----------------------------------------------------------------------------
\* What DefectApi sees: every user is a device.
Mutations(s) == [i \in DOMAIN s |-> [key |-> s[i].key, doc |-> s[i].doc]]

WritesOf(tasks, u) ==
    {i \in DOMAIN tasks : tasks[i].type = "write" /\ tasks[i].write.user = u}

\* The n-th of a set of numbers.  (Places instead of SelectSeq, which the prover
\* knows nothing of.)
Nth(S, n) == CHOOSE i \in S : Cardinality({j \in S : j <= i}) = n

CallsOf(tasks, u) ==
    LET own == WritesOf(tasks, u)
    IN  Mutations([n \in 1..Cardinality(own) |-> tasks[Nth(own, n)].write])

Acknowledged(s, current, u) ==
    IF u = current /\ s.handshake THEN Len(s.responses) ELSE 0

Api == INSTANCE DefectApi WITH
    Devices <- Users, Queried <- {}, Query <- None, QueriesMayFail <- FALSE,
    MaxLoads <- 0,
    calls <- [u \in Users |-> CallsOf(worker, u)],
    queue <- [u \in Users |-> Mutations(queues[u])],
    applied <- [u \in Users |-> Acknowledged(stream, user, u)],
    synced <- [u \in Users |-> 0],
    cache <- [u \in Users |-> <<>>],
    listens <- [u \in Users |-> 0],
    snapshots <- [u \in Users |-> <<>>]

----------------------------------------------------------------------------
\* The first login of a launch has been seen by everyone, nothing is queued.
Init ==
    /\ server = [k \in Keys |-> NoDoc]
    /\ auth \in Users /\ credentials = auth /\ user = auth
    /\ asking = {} /\ main = <<>> /\ worker = <<>>
    /\ queues = [u \in Users |-> <<>>]
    /\ stream = [state |-> "Initial", token |-> None, handshake |-> FALSE,
                 idle |-> FALSE, closes |-> 0, pipeline |-> <<>>, requests |-> <<>>,
                 responses |-> <<>>, status |-> None]
    /\ committed = {} /\ refused = {}

\* MAIN QUEUE

\* A method of ApiClient, for the user the main queue knows.
Call(muts) ==
    LET used == {w.id : w \in UNION {Elements(queues[v]) : v \in Users}}
                \cup {t.write.id : t \in OfType(worker, "write")}
        first == CHOOSE n \in 0..(2 * Cardinality(used)) :
                    (n..(n + Len(muts) - 1)) \cap used = {}
    IN  /\ Cardinality(used) + Len(muts) <= MaxPending
        /\ worker' = worker \o [i \in DOMAIN muts |->
                [type |-> "write", write |-> [id |-> first + i - 1, user |-> credentials,
                 key |-> muts[i].key, doc |-> muts[i].doc]]]
        /\ UNCHANGED <<server, auth, asking, main, credentials, user, queues, stream,
                       committed, refused>>

\* The notification of another user: the provider counts it, so that the tokens
\* asked for before are stale, and hands it on.
Notice ==
    LET stale(m) == IF m.type = "token" THEN [m EXCEPT !.fresh = FALSE] ELSE m
    IN  /\ main # <<>> /\ Head(main).type = "user"
        /\ credentials' = Head(main).user
        /\ worker' = Append(worker, Head(main))
        /\ main' = [i \in 1..(Len(main) - 1) |-> stale(main[i + 1])]
        /\ asking' = {[r EXCEPT !.fresh = FALSE] : r \in asking}
        /\ UNCHANGED <<server, auth, user, queues, stream, committed, refused>>

\* The completion of getToken: asked again if the user has changed since.
TakeToken ==
    LET m == Head(main)
    IN  /\ main # <<>> /\ m.type = "token"
        /\ main' = Tail(main)
        /\ IF m.fresh
           THEN worker' = Append(worker, m) /\ UNCHANGED asking
           ELSE /\ asking' = asking \cup {[closes |-> m.closes, fresh |-> TRUE]}
                /\ UNCHANGED worker
        /\ UNCHANGED <<server, auth, credentials, user, queues, stream, committed, refused>>

\* FIREBASE AUTH

SwitchUser(u) ==
    /\ u # auth
    /\ Cardinality(Outstanding) + Changes <= MaxTokens
    /\ auth' = u
    /\ main' = Append(main, [type |-> "user", user |-> u])
    /\ UNCHANGED <<server, asking, credentials, sdkVars, committed, refused>>

\* A token, or (None) an error, is on its way to the completion.  It is the current
\* user's: one that Auth took before a change would be behind the notification of it.
\* Where nobody will look at it, it may as well be an error.
AnswerToken(r, u) ==
    /\ u # None => r.fresh /\ r.closes = stream.closes
    /\ asking' = asking \ {r}
    /\ main' = Append(main, [type |-> "token", closes |-> r.closes,
                             fresh |-> r.fresh, user |-> u])
    /\ UNCHANGED <<server, auth, credentials, sdkVars, committed, refused>>

\* WORKER QUEUE

RunWrite ==
    LET w == Head(worker).write
        queue == Append(queues[user], w)
    IN  /\ worker # <<>> /\ Head(worker).type = "write"
        /\ worker' = Tail(worker)
        /\ queues' = [queues EXCEPT ![user] = queue]
        /\ Become(Fill(stream, queue))
        /\ UNCHANGED <<server, auth, main, credentials, user, committed, refused>>

\* Mutant of RunUser: the stream goes on.
RunUserUnrestarted ==
    /\ worker # <<>> /\ Head(worker).type = "user"
    /\ worker' = Tail(worker)
    /\ user' = Head(worker).user
    /\ Become(Fill(stream, queues[user']))
    /\ UNCHANGED <<server, auth, main, credentials, queues, committed, refused>>

\* Mutant of RunUser: the queue of the user who leaves is not kept.
RunUserForgetting ==
    /\ worker # <<>> /\ Head(worker).type = "user"
    /\ worker' = Tail(worker)
    /\ user' = Head(worker).user
    /\ queues' = [queues EXCEPT ![user] = <<>>]
    /\ Become(Restarted(queues'[user']))
    /\ UNCHANGED <<server, auth, main, credentials, committed, refused>>

\* HandleCredentialChange: another queue, and a new stream in any case.
RunUser ==
    /\ worker # <<>> /\ Head(worker).type = "user"
    /\ worker' = Tail(worker)
    /\ user' = Head(worker).user
    /\ Become(Restarted(queues[user']))
    /\ UNCHANGED <<server, auth, main, credentials, queues, committed, refused>>

\* Mutant of RunToken: close_count_ is not compared.
RunTokenOfAnyStart ==
    LET t == Head(worker)
    IN  /\ worker # <<>> /\ t.type = "token"
        /\ worker' = Tail(worker)
        /\ \/ t.user = None /\ Become(Failed)
           \/ /\ t.user # None
              /\ Become([stream EXCEPT !.state = "Open", !.token = t.user,
                                       !.requests = <<Handshake>>])
        /\ UNCHANGED <<server, auth, main, credentials, user, queues, committed, refused>>

\* ResumeStartWithCredentials, unless the stream was closed since: it opens, and
\* the handshake is sent.
RunToken ==
    LET t == Head(worker)
    IN  /\ worker # <<>> /\ t.type = "token"
        /\ worker' = Tail(worker)
        /\ \/ t.closes # stream.closes /\ UNCHANGED <<stream, asking>>
           \/ t.closes = stream.closes /\ t.user = None /\ Become(Failed)
           \/ /\ t.closes = stream.closes /\ t.user # None
              /\ Become([stream EXCEPT !.state = "Open", !.token = t.user,
                                       !.requests = <<Handshake>>])
        /\ UNCHANGED <<server, auth, main, credentials, user, queues, committed, refused>>

\* Timers and the connectivity monitor put their operations on the worker queue.
BackoffElapsed ==
    /\ stream.state = "Backoff"
    /\ Become([stream EXCEPT !.state = "Starting"])
    /\ UNCHANGED <<server, auth, main, credentials, worker, user, queues, committed, refused>>

IdleTimeout ==
    /\ stream.idle
    /\ Become(Stop(stream))
    /\ UNCHANGED <<server, auth, main, credentials, worker, user, queues, committed, refused>>

ConnectivityChanged ==
    /\ Cardinality(Outstanding) < MaxTokens
    /\ Become(Restarted(queues[user]))
    /\ UNCHANGED <<server, auth, main, credentials, worker, user, queues, committed, refused>>

\* The first response completes the handshake and the pipeline is sent; any other
\* is taken for the result of the first write of the pipeline.
OnStreamRead ==
    LET read == [stream EXCEPT !.responses = Tail(@)]
    IN  /\ stream.responses # <<>>
        /\ \/ /\ ~stream.handshake
              /\ Become([read EXCEPT !.handshake = TRUE,
                                     !.requests = @ \o stream.pipeline])
              /\ UNCHANGED <<queues, committed>>
           \/ stream.handshake /\ Drop(read)
        /\ UNCHANGED <<server, auth, main, credentials, worker, user, refused>>

\* A write on a stream that the backend has ended fails first, and with it go the
\* responses not yet read.
WriteFails ==
    /\ stream.status # None /\ stream.requests # <<>>
    /\ Become([stream EXCEPT !.requests = <<>>, !.responses = <<>>])
    /\ UNCHANGED <<server, auth, main, credentials, worker, user, queues, committed, refused>>

\* Mutant of OnStreamFinish: the error of a handshake is taken for that of a write.
OnStreamFinishDroppingAny ==
    /\ stream.status # None /\ stream.responses = <<>>
    /\ Drop(Closed(stream, "Initial"))
    /\ refused' = refused \cup {Head(stream.pipeline).key}
    /\ UNCHANGED <<server, auth, main, credentials, worker, user>>

\* The status of a stream the backend has ended with a permanent error: after the
\* handshake the first write of the pipeline is dropped.
OnStreamFinish ==
    /\ stream.status # None /\ stream.responses = <<>>
    /\ \/ /\ stream.handshake /\ stream.pipeline # <<>>
          /\ Drop(Closed(stream, "Initial"))
          /\ refused' = refused \cup {Head(stream.pipeline).key}
       \/ /\ ~(stream.handshake /\ stream.pipeline # <<>>)
          /\ Become(Failed)
          /\ UNCHANGED <<queues, committed, refused>>
    /\ UNCHANGED <<server, auth, main, credentials, worker, user>>

\* The connection breaks: all that is under way is lost.
BreakStream ==
    /\ stream.state = "Open"
    /\ Cardinality(Outstanding) < MaxTokens
    /\ Become(Failed)
    /\ UNCHANGED <<server, auth, main, credentials, worker, user, queues, committed, refused>>

\* BACKEND

\* It answers a handshake, or commits a write, in the name of the token's user.
Serve ==
    LET r == Head(stream.requests)
    IN  /\ stream.requests # <<>> /\ stream.status = None
        /\ stream' = [stream EXCEPT !.requests = Tail(@), !.responses = Append(@, r)]
        /\ \/ r = Handshake /\ UNCHANGED <<server, committed>>
           \/ /\ r # Handshake
              /\ server' = [server EXCEPT ![r.key] = r.doc]
              /\ committed' = committed \cup {r.id}
        /\ UNCHANGED <<auth, asking, main, credentials, worker, user, queues, refused>>

\* Or it ends the stream with a permanent error.
Refuse ==
    /\ MayRefuse
    /\ stream.requests # <<>> /\ stream.status = None
    /\ stream' = [stream EXCEPT !.requests = Tail(@), !.status = Head(stream.requests)]
    /\ UNCHANGED <<server, auth, asking, main, credentials, worker, user, queues,
                   committed, refused>>

Next ==
    \/ \E id \in Ids, doc \in Docs :
        Call(Api!PutCalls(id, doc)) \/ Call(Api!ArchiveCalls(id, doc))
    \/ \E u \in Users : SwitchUser(u)
    \/ \E r \in asking, u \in {auth, None} : AnswerToken(r, u)
    \/ Notice \/ TakeToken
    \/ RunWrite \/ RunUser \/ RunToken
    \/ BackoffElapsed \/ IdleTimeout \/ ConnectivityChanged
    \/ OnStreamRead \/ WriteFails \/ OnStreamFinish \/ BreakStream
    \/ Serve \/ Refuse

Spec == Init /\ [][Next]_vars

\* Auth, the queues and timers keep going.  A connection that breaks, failing tokens
\* and refused handshakes may each undo the last step for ever, but not all at the
\* one moment before the next step, each time.
Fairness ==
    /\ WF_vars(Notice \/ TakeToken)
    /\ WF_vars(RunWrite \/ RunUser \/ RunToken)
    /\ WF_vars(BackoffElapsed)
    /\ WF_vars(OnStreamFinish)
    /\ SF_vars(\E r \in asking : /\ r.closes = stream.closes
                                 /\ AnswerToken(r, IF r.fresh THEN auth ELSE None))
    /\ SF_vars(RunToken /\ stream'.state = "Open")
    /\ \A done \in BOOLEAN : /\ SF_vars(Serve /\ stream.handshake = done)
                             /\ SF_vars(OnStreamRead /\ stream.handshake = done)
    /\ SF_vars(OnStreamFinish /\ stream.handshake)

FairSpec == Spec /\ Fairness

----------------------------------------------------------------------------
\* PROPERTIES

\* The SDK's HARD_ASSERTs: no result for an empty pipeline, no idle stop of a stream
\* that is needed, no token for a stream that does not wait for it.  And what they
\* are about: a stream that is needed is started.
AssertionsHold ==
    /\ stream.handshake /\ stream.responses # <<>> => stream.pipeline # <<>>
    /\ stream.idle => stream.pipeline = <<>>
    /\ \A t \in OfType(worker, "token") :
            t.closes = stream.closes => stream.state = "Starting"
    /\ stream.pipeline # <<>> => IsStarted(stream)

\* Nothing on the wire says which write a result is for.  The pipeline is the head
\* of the user's queue, and while the stream is healthy what is under way on it is
\* the pipeline, in its order.
PipelineInStep ==
    /\ stream.pipeline = SubSeq(queues[user], 1, Min2(Len(queues[user]), MaxPipeline))
    /\ stream.handshake =>
        /\ stream.responses = SubSeq(stream.pipeline, 1, Len(stream.responses))
        /\ stream.status = None => stream.responses \o stream.requests = stream.pipeline

\* A write stays with the user who was logged in when the app made it, and nothing
\* goes to the backend with another user's token, whatever crosses a change of user
\* on the way.
UsersStayApart ==
    /\ \A u \in Users : \A w \in Elements(queues[u]) : w.user = u
    /\ stream.token # None =>
        /\ stream.token = user
        /\ \A w \in Elements(stream.requests) \ {Handshake} : w.user = stream.token

\* A permanent error drops whatever write is first in the pipeline, and the failure
\* of a later write may have swallowed the result of that one.  Even so a write
\* leaves its queue only if the backend has committed it or ended the stream for it.
NoWriteIsLost == [][\A u \in Users :
    \A w \in Elements(queues[u]) \ Elements(queues'[u]) :
        w.id \in committed \/ w = stream.status]_vars

\* Each user's queue is a device of DefectApi: what is proved there, above all that
\* a defect leaves only archived, holds of a phone that changes its users.
ImplementsApi == Api!ApiSpec

\* While a user stays, and the phone on its network, that user's queue drains.
QueueNeverStuck ==
    <>[][~ConnectivityChanged]_vars => \A u \in Users :
        <>[](user = u) =>
            \/ []<>(queues[u] = <<>>)
            \/ []<><<Len(queues'[u]) < Len(queues[u])>>_vars
==============================================================================
