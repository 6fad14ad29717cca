------------------------------- MODULE Telemetry -------------------------------
(***************************************************************************)
(* The telemetry client of a page and its exchange with the service: a      *)
(* bounded queue, batches, a session drawn when one is needed, and requests *)
(* that are lost, late, or delivered twice.                                 *)
(*                                                                         *)
(* drain() is asynchronous; phase is what it awaits.  Only one drain runs   *)
(* (the flag sending), and it is "loop" at the test of its while loop.      *)
(* The edge functions check and sign and forward; a request that they do    *)
(* not get through is one that is lost.                                     *)
(***************************************************************************)
EXTENDS TelemetryBackend

CONSTANTS
    MaxQueueSize,      \* events that may wait
    MaxBatch,          \* events of one batch
    ClientBudget,      \* MAX_EVENTS_PER_SESSION as the client counts it
    MaxRepeats,        \* bound: requests delivered a second time
    Skews              \* by how much the page's clock may be ahead (or behind)

ASSUME ClientAssumption ==
    /\ MaxQueueSize \in Nat \ {0} /\ MaxBatch \in Nat \ {0}
    /\ ClientBudget \in Nat \ {0} /\ MaxRepeats \in Nat /\ Skews \subseteq Int

VARIABLES
    tracked,   \* number of events enqueued so far; they are 1, 2, ...
    queue,     \* events that wait
    timer,     \* whether flushTimer is armed
    phase,     \* "idle" (not sending), "loop", "session" or "batch"
    inHand,    \* the batch taken off the queue
    session,   \* the client's session
    seq,       \* number of the last batch of the session
    disposed,  \* whether the client has been disposed of
    skew,      \* the page's clock minus the service's
    requests,  \* requests on their way to the service
    answer,    \* the answer on its way to the client
    drawn,     \* tokens drawn so far
    repeats,   \* requests delivered twice so far
    refused    \* history: a batch was refused or lost since the last new event

clientVars == <<tracked, queue, timer, phase, inHand, session, seq, disposed, skew>>
netVars == <<requests, answer, drawn, repeats>>
vars == <<backendVars, clientVars, netVars, refused>>

Batch == [token : Tokens, seq : Nat, events : Seq(Events)]
SessionRequest == [kind : {"session"}, awaited : BOOLEAN]
BatchRequest == [kind : {"batch"}, awaited : BOOLEAN, batch : Batch]
SessionState == [token : Tokens, expiresAt : Int, eventsSent : Nat]
Answer == [ok : {FALSE}] \cup [ok : {TRUE}, session : SessionState \cup {None}]

ASSUME NoValue == None \notin SessionState \cup Answer

Init ==
    /\ BackendInit
    /\ tracked = 0 /\ queue = <<>> /\ timer = FALSE
    /\ phase = "idle" /\ inHand = <<>>
    /\ session = None /\ seq = 0 /\ disposed = FALSE
    /\ skew \in Skews
    /\ requests = {} /\ answer = None /\ drawn = 0 /\ repeats = 0
    /\ refused = FALSE

-----------------------------------------------------------------------------
(* The client.                                                             *)

\* drain(): starts unless one runs already or nothing waits.
Drain == phase' = IF phase = "idle" /\ queue # <<>> THEN "loop" ELSE phase

\* The oldest event makes room.
Enqueued(event) == Append(IF Len(queue) >= MaxQueueSize THEN Tail(queue) ELSE queue, event)

Track ==
    /\ tracked < MaxEvents
    /\ tracked' = tracked + 1
    /\ IF disposed THEN UNCHANGED <<queue, timer, refused>>
       ELSE /\ queue' = Enqueued(tracked + 1)
            /\ timer' = TRUE
            /\ refused' = FALSE
    /\ UNCHANGED <<phase, inHand, session, seq, disposed, skew, netVars, backendVars>>

TimerFires ==
    /\ timer
    /\ timer' = FALSE
    /\ Drain
    /\ UNCHANGED <<tracked, queue, inHand, session, seq, disposed, skew, netVars, backendVars, refused>>

Flush ==
    /\ timer' = FALSE
    /\ Drain
    /\ UNCHANGED <<tracked, queue, inHand, session, seq, disposed, skew, netVars, backendVars, refused>>

Dispose ==
    /\ ~disposed
    /\ disposed' = TRUE
    /\ timer' = FALSE
    /\ Drain
    /\ UNCHANGED <<tracked, queue, inHand, session, seq, skew, netVars, backendVars, refused>>

\* sendWithSession once the session is known: the batch is sent, or dropped when
\* the session's budget is used up.
Send(events, current) ==
    IF current.eventsSent >= ClientBudget
    THEN /\ phase' = "loop"
         /\ inHand' = <<>>
         /\ session' = current
         /\ UNCHANGED <<seq, requests>>
    ELSE LET number == (IF current = session THEN seq ELSE 0) + 1 IN
         /\ phase' = "batch"
         /\ inHand' = events
         /\ seq' = number
         /\ session' = [current EXCEPT !.eventsSent = @ + Len(events)]
         /\ requests' = requests \cup
                {[kind |-> "batch", awaited |-> TRUE,
                  batch |-> [token |-> current.token, seq |-> number, events |-> events]]}

Alive(current) == current # None /\ current.expiresAt > now + skew

FirstBatch == SubSeq(queue, 1, IF Len(queue) < MaxBatch THEN Len(queue) ELSE MaxBatch)

\* One turn of the loop: take a batch, and send it if the session is alive or else
\* ask for a session first.
DrainNext ==
    /\ phase = "loop" /\ queue # <<>>
    /\ queue' = SubSeq(queue, Len(FirstBatch) + 1, Len(queue))
    /\ IF Alive(session) THEN Send(FirstBatch, session)
       ELSE /\ phase' = "session"
            /\ inHand' = FirstBatch
            /\ requests' = requests \cup {[kind |-> "session", awaited |-> TRUE]}
            /\ UNCHANGED <<session, seq>>
    /\ UNCHANGED <<tracked, timer, disposed, skew, answer, drawn, repeats, backendVars, refused>>

DrainEnds ==
    /\ phase = "loop" /\ queue = <<>>
    /\ phase' = "idle"
    /\ UNCHANGED <<tracked, queue, timer, inHand, session, seq, disposed, skew, netVars, backendVars, refused>>

\* Without a session the batch is given up, and the loop goes on.
SessionDenied ==
    /\ session' = None
    /\ phase' = "loop"
    /\ inHand' = <<>>
    /\ refused' = TRUE
    /\ UNCHANGED <<queue, seq>>

\* Variant: a batch that failed gives its number back.
BatchTakenBack ==
    /\ phase' = "idle"
    /\ inHand' = <<>>
    /\ refused' = TRUE
    /\ seq' = seq - 1
    /\ UNCHANGED <<queue, session>>

\* A rejected batch ends the drain; what still waits is left to the next one.
BatchFailed ==
    /\ phase' = "idle"
    /\ inHand' = <<>>
    /\ refused' = TRUE
    /\ UNCHANGED <<queue, session, seq>>

ReceiveSession ==
    /\ phase = "session" /\ answer # None
    /\ IF answer.ok
       THEN Send(inHand, answer.session) /\ UNCHANGED <<queue, refused>>
       ELSE SessionDenied /\ UNCHANGED requests
    /\ answer' = None
    /\ UNCHANGED <<tracked, timer, disposed, skew, drawn, repeats, backendVars>>

ReceiveBatch ==
    /\ phase = "batch" /\ answer # None
    /\ IF answer.ok
       THEN phase' = "loop" /\ inHand' = <<>> /\ UNCHANGED <<queue, session, seq, refused>>
       ELSE BatchFailed
    /\ answer' = None
    /\ UNCHANGED <<tracked, timer, disposed, skew, requests, drawn, repeats, backendVars>>

\* Variant: only the request for a session is bounded.
SessionTimesOut ==
    /\ phase = "session"
    /\ SessionDenied
    /\ answer' = None
    /\ requests' = {[r EXCEPT !.awaited = FALSE] : r \in requests}
    /\ UNCHANGED <<tracked, timer, disposed, skew, drawn, repeats, backendVars>>

\* AbortSignal.timeout: the request may still reach the service.
RequestTimesOut ==
    /\ phase \in {"session", "batch"}
    /\ IF phase = "session" THEN SessionDenied ELSE BatchFailed
    /\ answer' = None
    /\ requests' = {[r EXCEPT !.awaited = FALSE] : r \in requests}
    /\ UNCHANGED <<tracked, timer, disposed, skew, drawn, repeats, backendVars>>

-----------------------------------------------------------------------------
(* The network, the edge functions and the service.                         *)

\* A request leaves the network, or a copy of it stays there.
Deliver(r) ==
    \/ requests' = requests \ {r} /\ UNCHANGED repeats
    \/ /\ repeats < MaxRepeats
       /\ requests' = (requests \ {r}) \cup {[r EXCEPT !.awaited = FALSE]}
       /\ repeats' = repeats + 1

Reply(r, reply) == answer' = IF r.awaited THEN reply ELSE answer

SessionArrives(r) ==
    /\ r.kind = "session"
    /\ drawn < MaxSessions
    /\ drawn' = drawn + 1
    /\ Deliver(r)
    /\ CreateSession(drawn + 1)
    /\ Reply(r, [ok |-> TRUE,
                 session |-> [token |-> drawn + 1, expiresAt |-> now + SessionTtl, eventsSent |-> 0]])
    /\ UNCHANGED <<now, completions, counted, clientVars, refused>>

BatchArrives(r) ==
    /\ r.kind = "batch"
    /\ Deliver(r)
    /\ IF Accepts(r.batch)
       THEN ProcessBatch(r.batch) /\ Reply(r, [ok |-> TRUE, session |-> None])
       ELSE UNCHANGED <<sessions, completions, counted>> /\ Reply(r, [ok |-> FALSE])
    /\ UNCHANGED <<now, drawn, clientVars, refused>>

\* The edge function cannot reach the service, or does not let the request through.
\* A request or an answer that is lost on its way is one that is late for ever.
RequestFails(r) ==
    /\ r.awaited
    /\ requests' = requests \ {r}
    /\ Reply(r, [ok |-> FALSE])
    /\ UNCHANGED <<drawn, repeats, backendVars, clientVars, refused>>

Cleanup == CleanupExpiredSessions /\ UNCHANGED <<clientVars, netVars, refused>>

TimePasses == Tick /\ UNCHANGED <<clientVars, netVars, refused>>

ClientStep ==
    \/ TimerFires \/ DrainNext \/ DrainEnds
    \/ ReceiveSession \/ ReceiveBatch \/ RequestTimesOut

Next ==
    \/ Track \/ Flush \/ Dispose
    \/ ClientStep
    \/ \E r \in requests : SessionArrives(r) \/ BatchArrives(r) \/ RequestFails(r)
    \/ Cleanup
    \/ TimePasses

Spec == Init /\ [][Next]_vars
\* The page's event loop runs and its timers fire; the network owes nothing.
FairSpec == Spec /\ WF_vars(ClientStep)

-----------------------------------------------------------------------------
TypeOK ==
    /\ BackendTypeOK
    /\ tracked \in 0..MaxEvents
    /\ queue \in Seq(Events) /\ Len(queue) <= MaxQueueSize
    /\ timer \in BOOLEAN /\ disposed \in BOOLEAN /\ refused \in BOOLEAN
    /\ phase \in {"idle", "loop", "session", "batch"}
    /\ inHand \in Seq(Events) /\ Len(inHand) <= MaxBatch
    /\ session \in SessionState \cup {None}
    /\ seq \in Nat /\ skew \in Skews
    /\ requests \subseteq SessionRequest \cup BatchRequest
    /\ answer \in Answer \cup {None}
    /\ drawn \in 0..MaxSessions /\ repeats \in 0..MaxRepeats

\* The service never runs ahead of the client: it has accepted no number and no
\* amount of events of the current session that the client has not used up, so the
\* client's next batch is not taken for a repetition.
ServiceFollowsClient ==
    session # None /\ sessions[session.token] # None =>
        /\ sessions[session.token].lastSeq <= seq
        /\ sessions[session.token].eventCount <= session.eventsSent

\* With the page's timers running, whatever the network does, a drain comes to its
\* end, and the queue is emptied unless a batch failed: a failed batch leaves the
\* rest to the next event.
QueueIsDrained ==
    /\ phase # "idle" ~> phase = "idle"
    /\ queue # <<>> ~> queue = <<>> \/ refused

\* An event is counted at most once, and only when it was reported, although
\* requests repeat, overtake each other and outlive their timeouts.
Count == INSTANCE AtMostOnce WITH
    Reports <- Events, reported <- 1..tracked, tally <- counted
CountsAtMostOnce == Count!Spec
===============================================================================
