--------------------------- MODULE TelemetryProofs ---------------------------
(***************************************************************************)
(* Proofs about Telemetry: no event is counted twice, for any number of     *)
(* events and sessions, any sizes and budgets, and any number of repeated   *)
(* requests.  The exchange implements AtMostOnce.                           *)
(*                                                                         *)
(* That an event is counted once is not inductive by itself: it must be     *)
(* known where else the event still is.  The strengthening follows an event *)
(* on its way: while it waits it is in no request and not counted; once it  *)
(* is sent, all requests that carry it have one session and one number; and *)
(* once it is counted, the session of those requests has seen that number.  *)
(***************************************************************************)
EXTENDS Telemetry, DataLemmas, TLAPS

USE BackendAssumption, ClientAssumption, NoValue, NoRow

Sent(r, e) == r.kind = "batch" /\ \E i \in DOMAIN r.batch.events : r.batch.events[i] = e

Queued(e) == \E i \in DOMAIN queue : queue[i] = e
Held(e) == phase = "session" /\ \E i \in DOMAIN inHand : inHand[i] = e
Waiting(e) == Queued(e) \/ Held(e)

\* The client awaits one request at a time, and gets the answer to that one.
OneExchange ==
    /\ \A r \in requests : r.awaited => phase = r.kind /\ answer = None
    /\ \A r, s \in requests : r.awaited /\ s.awaited => r = s
    /\ answer # None => phase \in {"session", "batch"}
    /\ answer # None /\ phase = "session" /\ answer.ok => answer.session # None

OnlyReported ==
    /\ \A e \in Events : Waiting(e) \/ counted[e] # 0 => e <= tracked
    /\ \A r \in requests, e \in Events : Sent(r, e) => e <= tracked

InOrder ==
    /\ \A i, j \in DOMAIN queue : i < j => queue[i] < queue[j]
    /\ phase = "session" => \A i \in DOMAIN inHand, j \in DOMAIN queue : inHand[i] < queue[j]

WaitingIsFresh ==
    \A e \in Events : Waiting(e) => counted[e] = 0 /\ \A r \in requests : ~Sent(r, e)

OneNumberPerEvent ==
    \A r, s \in requests, e \in Events : Sent(r, e) /\ Sent(s, e) =>
        r.batch.token = s.batch.token /\ r.batch.seq = s.batch.seq

TokensAreDrawn ==
    /\ session # None => session.token <= drawn
    /\ answer # None /\ answer.ok => answer.session = None \/ answer.session.token <= drawn
    /\ \A r \in requests : r.kind = "batch" => r.batch.token <= drawn

CountedOnce ==
    \A e \in Events :
        /\ counted[e] \in {0, 1}
        /\ counted[e] = 1 => \A r \in requests : Sent(r, e) =>
              \/ sessions[r.batch.token] = None
              \/ sessions[r.batch.token].lastSeq >= r.batch.seq

EventInv ==
    /\ OnlyReported /\ InOrder /\ WaitingIsFresh /\ OneNumberPerEvent
    /\ TokensAreDrawn /\ CountedOnce

OnceInv == TypeOK /\ OneExchange /\ EventInv

-----------------------------------------------------------------------------
(* Queue, batches, requests. *)

LEMMA EnqueuedFacts ==
    ASSUME TypeOK, NEW e \in Events
    PROVE  /\ Enqueued(e) \in Seq(Events)
           /\ Len(Enqueued(e)) <= MaxQueueSize
           /\ \E k \in {0, 1} : \A i \in DOMAIN Enqueued(e) :
                \/ i = Len(Enqueued(e)) /\ Enqueued(e)[i] = e
                \/ i + k \in DOMAIN queue /\ Enqueued(e)[i] = queue[i + k]
  <1>1. CASE Len(queue) >= MaxQueueSize
    <2>1. Enqueued(e) = Append(Tail(queue), e)
      BY <1>1 DEF Enqueued
    <2>2. queue \in Seq(Events) /\ Len(queue) = MaxQueueSize /\ queue # <<>>
      BY <1>1 DEF TypeOK
    <2>. QED  BY <2>1, <2>2
  <1>2. CASE ~(Len(queue) >= MaxQueueSize)
    <2>1. Enqueued(e) = Append(queue, e)
      BY <1>2 DEF Enqueued
    <2>2. queue \in Seq(Events) /\ Len(queue) < MaxQueueSize
      BY <1>2 DEF TypeOK
    <2>. QED  BY <2>1, <2>2
  <1>. QED  BY <1>1, <1>2

LEMMA BatchFacts ==
    ASSUME TypeOK, queue # <<>>
    PROVE  LET n == Len(FirstBatch)
               rest == SubSeq(queue, n + 1, Len(queue))
           IN  /\ FirstBatch \in Seq(Events) /\ n \in 1..MaxBatch /\ n <= Len(queue)
               /\ rest \in Seq(Events) /\ Len(rest) = Len(queue) - n
               /\ \A i \in 1..n : FirstBatch[i] = queue[i]
               /\ \A i \in DOMAIN rest : rest[i] = queue[i + n]
  <1>. DEFINE m == IF Len(queue) < MaxBatch THEN Len(queue) ELSE MaxBatch
  <1>1. queue \in Seq(Events) /\ Len(queue) \in Nat \ {0}
    BY DEF TypeOK
  <1>2. m \in 1..MaxBatch /\ m <= Len(queue)
    BY <1>1
  <1>3. FirstBatch = SubSeq(queue, 1, m)
    BY DEF FirstBatch
  <1>. HIDE DEF m
  <1>4. /\ SubSeq(queue, 1, m) \in Seq(Events) /\ Len(SubSeq(queue, 1, m)) = m
        /\ \A i \in 1..m : SubSeq(queue, 1, m)[i] = queue[i]
    BY <1>1, <1>2
  <1>5. LET rest == SubSeq(queue, m + 1, Len(queue))
        IN  /\ rest \in Seq(Events) /\ Len(rest) = Len(queue) - m
            /\ \A i \in DOMAIN rest : rest[i] = queue[i + m]
    BY <1>1, <1>2
  <1>. QED  BY <1>2, <1>3, <1>4, <1>5

LEMMA NoEvents == <<>> \in Seq(Events) /\ Len(<<>>) = 0
  OBVIOUS

LEMMA Answers ==
    /\ [ok |-> FALSE] \in Answer
    /\ [ok |-> TRUE, session |-> None] \in Answer
    /\ \A t \in Tokens, x \in Int :
          [ok |-> TRUE, session |-> [token |-> t, expiresAt |-> x, eventsSent |-> 0]] \in Answer
  BY DEF Answer, SessionState

LEMMA GivenUp ==
    ASSUME NEW r \in SessionRequest \cup BatchRequest
    PROVE  [r EXCEPT !.awaited = FALSE] \in SessionRequest \cup BatchRequest
  BY DEF SessionRequest, BatchRequest

LEMMA SendType ==
    ASSUME TypeOK, NEW events \in Seq(Events), Len(events) <= MaxBatch,
           NEW current \in SessionState, Send(events, current)
    PROVE  /\ phase' \in {"loop", "batch"}
           /\ inHand' \in Seq(Events) /\ Len(inHand') <= MaxBatch
           /\ session' \in SessionState /\ session'.token = current.token
           /\ seq' \in Nat
           /\ requests' \subseteq SessionRequest \cup BatchRequest
  <1>1. CASE current.eventsSent >= ClientBudget
    <2>1. phase' = "loop" /\ inHand' = <<>> /\ session' = current
      BY <1>1 DEF Send
    <2>2. seq' = seq /\ requests' = requests
      BY <1>1 DEF Send
    <2>. QED  BY <2>1, <2>2, NoEvents DEF TypeOK
  <1>2. CASE ~(current.eventsSent >= ClientBudget)
    <2>. DEFINE number == (IF current = session THEN seq ELSE 0) + 1
                req == [kind |-> "batch", awaited |-> TRUE,
                        batch |-> [token |-> current.token, seq |-> number, events |-> events]]
    <2>1. number \in Nat
      BY DEF TypeOK
    <2>2. req \in BatchRequest
      BY <2>1 DEF BatchRequest, Batch, SessionState
    <2>3. requests' = requests \cup {req} /\ seq' = number
      BY <1>2 DEF Send
    <2>4. session' \in SessionState /\ session'.token = current.token
      <3>1. current.eventsSent + Len(events) \in Nat
        BY DEF SessionState
      <3>. QED  BY <1>2, <3>1 DEF Send, SessionState
    <2>. QED  BY <1>2, <2>1, <2>2, <2>3, <2>4 DEF Send, TypeOK
  <1>. QED  BY <1>1, <1>2

LEMMA DeliverType ==
    ASSUME TypeOK, NEW r \in requests, Deliver(r)
    PROVE  /\ requests' \subseteq SessionRequest \cup BatchRequest
           /\ repeats' \in 0..MaxRepeats
  <1>. DEFINE copy == [r EXCEPT !.awaited = FALSE]
  <1>1. requests \subseteq SessionRequest \cup BatchRequest /\ repeats \in 0..MaxRepeats
    BY DEF TypeOK
  <1>2. copy \in SessionRequest \cup BatchRequest
    BY <1>1, GivenUp
  <1>3. \/ requests' = requests \ {r} /\ repeats' = repeats
        \/ /\ repeats < MaxRepeats
           /\ requests' = (requests \ {r}) \cup {copy}
           /\ repeats' = repeats + 1
    BY DEF Deliver
  <1>. HIDE DEF copy
  <1>4. repeats' \in 0..MaxRepeats
    BY <1>1, <1>3
  <1>. QED  BY <1>1, <1>2, <1>3, <1>4

LEMMA ProcessType ==
    ASSUME TypeOK, NEW batch \in Batch, ProcessBatch(batch), Accepts(batch)
    PROVE  /\ sessions' \in [Tokens -> Row \cup {None}]
           /\ completions' \subseteq Tokens
           /\ counted' \in [Events -> Nat]
  <1>1. batch.token \in Tokens /\ batch.seq \in Nat /\ Len(batch.events) \in Nat
    BY DEF Batch
  <1>2. sessions \in [Tokens -> Row \cup {None}] /\ sessions[batch.token] \in Row
    BY <1>1 DEF Accepts, GetSession, TypeOK, BackendTypeOK
  <1>3. /\ batch.seq \in Nat
        /\ sessions[batch.token].eventCount + Len(batch.events) \in Nat
    BY <1>1, <1>2 DEF Row
  <1>4. sessions' \in [Tokens -> Row \cup {None}]
    BY <1>1, <1>2, <1>3 DEF ProcessBatch, Row
  <1>5. completions' \subseteq Tokens
    BY <1>1 DEF ProcessBatch, TypeOK, BackendTypeOK
  <1>6. counted' \in [Events -> Nat]
    <2>1. counted \in [Events -> Nat]
      BY DEF TypeOK, BackendTypeOK
    <2>. QED  BY <2>1 DEF ProcessBatch
  <1>. QED  BY <1>4, <1>5, <1>6

-----------------------------------------------------------------------------
(* Types. *)

LEMMA TypeInit == Init => TypeOK
  <1>. SUFFICES ASSUME Init PROVE TypeOK
    OBVIOUS
  <1>1. BackendTypeOK
    BY DEF Init, BackendInit, BackendTypeOK, Time
  <1>2. /\ queue \in Seq(Events) /\ Len(queue) <= MaxQueueSize
        /\ inHand \in Seq(Events) /\ Len(inHand) <= MaxBatch
    BY NoEvents DEF Init
  <1>3. /\ requests \subseteq SessionRequest \cup BatchRequest
        /\ tracked \in 0..MaxEvents /\ seq \in Nat
        /\ drawn \in 0..MaxSessions /\ repeats \in 0..MaxRepeats
    BY DEF Init
  <1>. QED  BY <1>1, <1>2, <1>3 DEF Init, TypeOK

LEMMA TypeStep == TypeOK /\ OneExchange /\ [Next]_vars => TypeOK'
  <1>. SUFFICES ASSUME TypeOK, OneExchange, [Next]_vars PROVE TypeOK'
    OBVIOUS
  <1>. USE DEF clientVars, netVars, backendVars
  <1>1. CASE Track
    <2>1. tracked + 1 \in Events
      BY <1>1 DEF Track, TypeOK, Events
    <2>2. queue' \in Seq(Events) /\ Len(queue') <= MaxQueueSize
      BY <1>1, <2>1, EnqueuedFacts DEF Track, TypeOK
    <2>3. /\ tracked' \in 0..MaxEvents /\ timer' \in BOOLEAN /\ refused' \in BOOLEAN
      <3>1. tracked' \in 0..MaxEvents
        BY <1>1, <2>1 DEF Track, Events, TypeOK
      <3>2. CASE disposed
        BY <1>1, <3>1, <3>2 DEF Track, TypeOK
      <3>3. CASE ~disposed
        BY <1>1, <3>1, <3>3 DEF Track
      <3>. QED  BY <3>2, <3>3
    <2>4. UNCHANGED <<phase, inHand, session, seq, disposed, skew, requests, answer,
                      drawn, repeats, now, sessions, completions, counted>>
      BY <1>1 DEF Track
    <2>. QED  BY <2>2, <2>3, <2>4 DEF TypeOK, BackendTypeOK
  <1>2. CASE Flush \/ Dispose \/ TimerFires \/ DrainEnds
    BY <1>2 DEF Flush, Dispose, TimerFires, DrainEnds, Drain, TypeOK, BackendTypeOK
  <1>3. CASE DrainNext
    <2>. DEFINE n == Len(FirstBatch)
                rest == SubSeq(queue, n + 1, Len(queue))
    <2>1. /\ FirstBatch \in Seq(Events) /\ Len(FirstBatch) <= MaxBatch
          /\ queue' = rest /\ rest \in Seq(Events) /\ Len(rest) <= MaxQueueSize
      BY <1>3, BatchFacts DEF DrainNext, TypeOK
    <2>2. CASE Alive(session)
      <3>1. session \in SessionState /\ Send(FirstBatch, session)
        BY <1>3, <2>2 DEF DrainNext, Alive, TypeOK
      <3>. HIDE DEF n, rest
      <3>2. /\ phase' \in {"loop", "batch"}
            /\ inHand' \in Seq(Events) /\ Len(inHand') <= MaxBatch
            /\ session' \in SessionState /\ seq' \in Nat
            /\ requests' \subseteq SessionRequest \cup BatchRequest
        BY <2>1, <3>1, SendType
      <3>3. UNCHANGED <<tracked, timer, disposed, skew, answer, drawn, repeats, refused,
                        now, sessions, completions, counted>>
        BY <1>3 DEF DrainNext
      <3>. QED  BY <2>1, <3>2, <3>3 DEF TypeOK, BackendTypeOK
    <2>3. CASE ~Alive(session)
      <3>. HIDE DEF n, rest
      <3>1. [kind |-> "session", awaited |-> TRUE] \in SessionRequest
        BY DEF SessionRequest
      <3>2. /\ phase' = "session" /\ inHand' = FirstBatch
            /\ requests' \subseteq SessionRequest \cup BatchRequest
        BY <1>3, <2>3, <3>1 DEF DrainNext, TypeOK
      <3>3. UNCHANGED <<tracked, timer, disposed, skew, answer, drawn, repeats, refused,
                        now, sessions, completions, counted, session, seq>>
        BY <1>3, <2>3 DEF DrainNext
      <3>. QED  BY <2>1, <3>2, <3>3 DEF TypeOK, BackendTypeOK
    <2>. QED  BY <2>2, <2>3
  <1>4. CASE ReceiveSession
    <2>1. CASE answer.ok
      <3>1. answer.session \in SessionState /\ Send(inHand, answer.session)
        BY <1>4, <2>1 DEF ReceiveSession, OneExchange, TypeOK, Answer
      <3>2. inHand \in Seq(Events) /\ Len(inHand) <= MaxBatch
        BY DEF TypeOK
      <3>3. /\ phase' \in {"loop", "batch"}
            /\ inHand' \in Seq(Events) /\ Len(inHand') <= MaxBatch
            /\ session' \in SessionState /\ seq' \in Nat
            /\ requests' \subseteq SessionRequest \cup BatchRequest
        BY <3>1, <3>2, SendType
      <3>4. /\ UNCHANGED <<tracked, queue, timer, disposed, skew, drawn, repeats, refused,
                           now, sessions, completions, counted>>
            /\ answer' = None
        BY <1>4, <2>1 DEF ReceiveSession
      <3>. QED  BY <3>3, <3>4 DEF TypeOK, BackendTypeOK
    <2>2. CASE ~answer.ok
      <3>1. /\ UNCHANGED <<tracked, queue, timer, disposed, skew, drawn, repeats, requests, seq,
                           now, sessions, completions, counted>>
            /\ answer' = None /\ session' = None /\ inHand' = <<>> /\ phase' = "loop"
            /\ refused' = TRUE
        BY <1>4, <2>2 DEF ReceiveSession, SessionDenied
      <3>. QED  BY <3>1, NoEvents DEF TypeOK, BackendTypeOK
    <2>. QED  BY <2>1, <2>2
  <1>5. CASE ReceiveBatch
    <2>1. /\ UNCHANGED <<tracked, queue, timer, disposed, skew, drawn, repeats, requests, seq,
                         now, sessions, completions, counted, session>>
          /\ answer' = None /\ inHand' = <<>> /\ phase' \in {"idle", "loop"}
      BY <1>5 DEF ReceiveBatch, BatchFailed
    <2>2. refused' \in BOOLEAN
      BY <1>5 DEF ReceiveBatch, BatchFailed, TypeOK
    <2>. QED  BY <2>1, <2>2, NoEvents DEF TypeOK, BackendTypeOK
  <1>6. CASE RequestTimesOut
    <2>1. requests' \subseteq SessionRequest \cup BatchRequest
      BY <1>6, GivenUp DEF RequestTimesOut, TypeOK
    <2>2. /\ UNCHANGED <<tracked, queue, timer, disposed, skew, drawn, repeats, seq,
                         now, sessions, completions, counted>>
          /\ answer' = None /\ inHand' = <<>> /\ phase' \in {"idle", "loop"}
          /\ session' \in {session, None} /\ refused' = TRUE
      BY <1>6 DEF RequestTimesOut, SessionDenied, BatchFailed
    <2>. QED  BY <2>1, <2>2, NoEvents DEF TypeOK, BackendTypeOK
  <1>7. ASSUME NEW r \in requests, SessionArrives(r) PROVE TypeOK'
    <2>1. drawn' \in 0..MaxSessions /\ drawn + 1 \in Tokens
      BY <1>7 DEF SessionArrives, TypeOK, Tokens
    <2>2. now + SessionTtl \in 0..MaxTime + SessionTtl
      BY DEF TypeOK, BackendTypeOK, Time
    <2>3. sessions' \in [Tokens -> Row \cup {None}]
      BY <1>7, <2>1, <2>2 DEF SessionArrives, CreateSession, TypeOK, BackendTypeOK, Row
    <2>4. answer' \in Answer \cup {None}
      <3>1. now + SessionTtl \in Int
        BY <2>2
      <3>. QED  BY <1>7, <2>1, <3>1, Answers DEF SessionArrives, Reply, TypeOK
    <2>5. UNCHANGED <<now, completions, counted, tracked, queue, timer, phase, inHand,
                      session, seq, disposed, skew, refused>>
      BY <1>7 DEF SessionArrives
    <2>6. /\ requests' \subseteq SessionRequest \cup BatchRequest
          /\ repeats' \in 0..MaxRepeats
      BY <1>7, DeliverType DEF SessionArrives
    <2>. QED  BY <2>1, <2>3, <2>4, <2>5, <2>6 DEF TypeOK, BackendTypeOK
  <1>8. ASSUME NEW r \in requests, BatchArrives(r) PROVE TypeOK'
    <2>1. r.batch \in Batch
      BY <1>8 DEF BatchArrives, TypeOK, SessionRequest, BatchRequest
    <2>2. answer' \in Answer \cup {None}
      BY <1>8, Answers DEF BatchArrives, Reply, TypeOK
    <2>3. /\ sessions' \in [Tokens -> Row \cup {None}]
          /\ completions' \subseteq Tokens
          /\ counted' \in [Events -> Nat]
      <3>1. CASE Accepts(r.batch)
        BY <1>8, <2>1, <3>1, ProcessType DEF BatchArrives
      <3>2. CASE ~Accepts(r.batch)
        BY <1>8, <3>2 DEF BatchArrives, TypeOK, BackendTypeOK
      <3>. QED  BY <3>1, <3>2
    <2>4. UNCHANGED <<now, drawn, tracked, queue, timer, phase, inHand, session, seq,
                      disposed, skew, refused>>
      BY <1>8 DEF BatchArrives
    <2>5. /\ requests' \subseteq SessionRequest \cup BatchRequest
          /\ repeats' \in 0..MaxRepeats
      BY <1>8, DeliverType DEF BatchArrives
    <2>. QED  BY <2>2, <2>3, <2>4, <2>5 DEF TypeOK, BackendTypeOK
  <1>9. CASE \E r \in requests : RequestFails(r)
    BY <1>9 DEF RequestFails, Reply, TypeOK, BackendTypeOK, Answer
  <1>10. CASE Cleanup \/ TimePasses
    <2>1. BackendTypeOK'
      BY <1>10 DEF Cleanup, CleanupExpiredSessions, TimePasses, Tick, TypeOK, BackendTypeOK,
                   Time
    <2>2. UNCHANGED <<tracked, queue, timer, phase, inHand, session, seq, disposed, skew,
                      requests, answer, drawn, repeats, refused>>
      BY <1>10 DEF Cleanup, TimePasses
    <2>. QED  BY <2>1, <2>2 DEF TypeOK
  <1>11. CASE UNCHANGED vars
    BY <1>11 DEF vars, TypeOK, BackendTypeOK
  <1>. QED
    BY <1>1, <1>2, <1>3, <1>4, <1>5, <1>6, <1>7, <1>8, <1>9, <1>10, <1>11
       DEF Next, ClientStep

-----------------------------------------------------------------------------
(* What the network does to requests. *)

\* Requests are dropped, or their answers are no longer awaited.
Fewer(r, s) == r.kind = s.kind /\ (r.kind = "batch" => r.batch = s.batch) /\ (r.awaited => r = s)

LEMMA DeliverFacts ==
    ASSUME TypeOK, NEW r \in requests, Deliver(r)
    PROVE  /\ \A q \in requests' : \E o \in requests : Fewer(q, o)
           /\ \A q \in requests' : q.awaited => q # r
  <1>. DEFINE copy == [r EXCEPT !.awaited = FALSE]
  <1>1. r \in SessionRequest \cup BatchRequest
    BY DEF TypeOK
  <1>2. Fewer(copy, r) /\ ~copy.awaited
    BY <1>1 DEF Fewer, SessionRequest, BatchRequest
  <1>3. \A o \in requests : Fewer(o, o)
    BY DEF Fewer
  <1>4. requests' \subseteq (requests \ {r}) \cup {copy}
    BY DEF Deliver
  <1>. HIDE DEF copy, Fewer
  <1>. QED  BY <1>2, <1>3, <1>4

LEMMA TimeoutFacts ==
    ASSUME TypeOK, RequestTimesOut
    PROVE  \A q \in requests' : ~q.awaited /\ \E o \in requests : Fewer(q, o)
  <1>1. \A o \in requests : LET c == [o EXCEPT !.awaited = FALSE] IN ~c.awaited /\ Fewer(c, o)
    BY DEF TypeOK, SessionRequest, BatchRequest, Fewer
  <1>2. requests' = {[o EXCEPT !.awaited = FALSE] : o \in requests}
    BY DEF RequestTimesOut
  <1>. QED  BY <1>1, <1>2

LEMMA FewerSent ==
    ASSUME NEW q, NEW o, Fewer(q, o), NEW e, Sent(q, e)
    PROVE  Sent(o, e) /\ q.batch = o.batch
  BY DEF Fewer, Sent

-----------------------------------------------------------------------------
(* Where an event is, step by step. *)

\* A step that sends nothing, counts nothing and reports nothing.
LEMMA QuietKeeps ==
    ASSUME TypeOK, TypeOK', EventInv,
           tracked' = tracked, queue' = queue, counted' = counted,
           phase' = "session" => phase = "session" /\ inHand' = inHand,
           \A q \in requests' : \E o \in requests : Fewer(q, o),
           \A t \in Tokens : t <= drawn => sessions'[t] \in {sessions[t], None},
           drawn' >= drawn, session' \in {session, None},
           answer' # None /\ answer'.ok =>
              answer'.session = None \/ answer'.session.token <= drawn'
    PROVE  EventInv'
  <1>1. \A e \in Events : Waiting(e)' => Waiting(e)
    BY DEF Waiting, Queued, Held
  <1>2. OnlyReported'
    BY <1>1, FewerSent DEF EventInv, OnlyReported
  <1>3. InOrder'
    BY DEF EventInv, InOrder
  <1>4. WaitingIsFresh'
    BY <1>1, FewerSent DEF EventInv, WaitingIsFresh
  <1>5. OneNumberPerEvent'
    BY FewerSent DEF EventInv, OneNumberPerEvent
  <1>6. TokensAreDrawn'
    <2>1. drawn \in Nat /\ drawn' \in Nat
      BY DEF TypeOK
    <2>2. session' # None => session'.token <= drawn'
      <3>1. session \in SessionState => session.token \in Nat
        BY DEF SessionState, Tokens
      <3>. QED  BY <2>1, <3>1 DEF EventInv, TokensAreDrawn, TypeOK
    <2>3. \A q \in requests' : q.kind = "batch" => q.batch.token <= drawn'
      <3>. SUFFICES ASSUME NEW q \in requests', q.kind = "batch"
                    PROVE  q.batch.token <= drawn'
        OBVIOUS
      <3>1. PICK o \in requests : Fewer(q, o)
        OBVIOUS
      <3>2. o.kind = "batch" /\ q.batch = o.batch /\ o.batch.token <= drawn
        BY <3>1 DEF Fewer, EventInv, TokensAreDrawn
      <3>3. o.batch.token \in Nat
        BY <3>2 DEF TypeOK, SessionRequest, BatchRequest, Batch, Tokens
      <3>. QED  BY <2>1, <3>2, <3>3
    <2>. QED  BY <2>2, <2>3 DEF TokensAreDrawn
  <1>7. CountedOnce'
    <2>. SUFFICES ASSUME NEW e \in Events, counted[e] = 1,
                         NEW q \in requests', Sent(q, e)
                  PROVE  \/ sessions'[q.batch.token] = None
                         \/ sessions'[q.batch.token].lastSeq >= q.batch.seq
      BY DEF CountedOnce, EventInv, Sent
    <2>1. PICK o \in requests : Fewer(q, o)
      OBVIOUS
    <2>2. Sent(o, e) /\ q.batch = o.batch
      BY <2>1, FewerSent
    <2>3. o.batch.token \in Tokens /\ o.batch.token <= drawn
      BY <2>2 DEF Sent, EventInv, TokensAreDrawn, TypeOK, SessionRequest, BatchRequest, Batch
    <2>4. \/ sessions[o.batch.token] = None
          \/ sessions[o.batch.token].lastSeq >= o.batch.seq
      BY <2>2 DEF EventInv, CountedOnce
    <2>. QED  BY <2>2, <2>3, <2>4
  <1>. QED  BY <1>2, <1>3, <1>4, <1>5, <1>6, <1>7 DEF EventInv

\* A batch of waiting events is sent under a session that was drawn.
LEMMA SentKeeps ==
    ASSUME TypeOK, TypeOK', EventInv,
           NEW events \in Seq(Events), NEW current \in SessionState, current.token <= drawn,
           Send(events, current),
           \A i \in DOMAIN events : Waiting(events[i]),
           \A e \in Events : Waiting(e)' => Waiting(e) /\ \A i \in DOMAIN events : events[i] # e,
           InOrder', answer' \in {answer, None},
           UNCHANGED <<tracked, counted, sessions, drawn>>
    PROVE  EventInv'
  <1>1. PICK req : /\ \A r \in requests' : r \in requests \/ r = req
                   /\ req.kind = "batch" /\ req.batch.token = current.token
                   /\ req.batch.events = events
    <2>. DEFINE r == [kind |-> "batch", awaited |-> TRUE,
                      batch |-> [token |-> current.token,
                                 seq |-> (IF current = session THEN seq ELSE 0) + 1,
                                 events |-> events]]
    <2>1. \A q \in requests' : q \in requests \/ q = r
      BY DEF Send
    <2>2. /\ r.kind = "batch" /\ r.batch.token = current.token /\ r.batch.events = events
      OBVIOUS
    <2>. QED  BY <2>1, <2>2
  <1>2. \A e \in Events : Sent(req, e) => Waiting(e) /\ ~Waiting(e)'
    BY <1>1 DEF Sent
  <1>3. \A e \in Events : Waiting(e) => counted[e] = 0 /\ \A r \in requests : ~Sent(r, e)
    BY DEF EventInv, WaitingIsFresh
  <1>4. \A r \in requests', e \in Events : Sent(r, e) => r \in requests \/ (r = req /\ Waiting(e))
    BY <1>1, <1>2
  <1>5. \A e \in Events : Waiting(e)' => Waiting(e)
    OBVIOUS
  <1>. HIDE DEF Waiting, Sent
  <1>6. OnlyReported'
    BY <1>4, <1>5 DEF EventInv, OnlyReported
  <1>7. WaitingIsFresh'
    BY <1>2, <1>3, <1>4, <1>5 DEF WaitingIsFresh
  <1>8. OneNumberPerEvent'
    BY <1>3, <1>4 DEF EventInv, OneNumberPerEvent
  <1>9. TokensAreDrawn'
    <2>1. session' \in SessionState /\ session'.token = current.token
      BY DEF Send, SessionState
    <2>2. \A r \in requests' : r.kind = "batch" => r.batch.token <= drawn
      BY <1>1 DEF EventInv, TokensAreDrawn
    <2>3. answer' # None /\ answer'.ok => answer'.session = None \/ answer'.session.token <= drawn
      BY DEF EventInv, TokensAreDrawn
    <2>. QED  BY <2>1, <2>2, <2>3 DEF TokensAreDrawn
  <1>10. CountedOnce'
    BY <1>3, <1>4 DEF EventInv, CountedOnce
  <1>. QED  BY <1>6, <1>7, <1>8, <1>9, <1>10 DEF EventInv

\* A batch is accepted: what it counts was not counted before.
LEMMA CountFacts ==
    ASSUME TypeOK, EventInv, NEW r \in requests, r.kind = "batch",
           Accepts(r.batch), ProcessBatch(r.batch)
    PROVE  /\ \A e \in Credited(r.batch) : e \in Events /\ Sent(r, e) /\ counted[e] = 0
           /\ \A e \in Events : counted'[e] = IF e \in Credited(r.batch) THEN 1 ELSE counted[e]
  <1>1. r.batch \in Batch
    BY DEF TypeOK, SessionRequest, BatchRequest
  <1>2. r.batch.events \in Seq(Events) /\ r.batch.token \in Tokens /\ r.batch.seq \in Nat
    BY <1>1 DEF Batch
  <1>3. \A e \in Credited(r.batch) : e \in Events /\ Sent(r, e)
    BY <1>2 DEF Credited, Sent
  <1>4. /\ sessions[r.batch.token] \in Row
        /\ r.batch.seq > sessions[r.batch.token].lastSeq
    BY <1>2 DEF Accepts, GetSession, TypeOK, BackendTypeOK
  <1>5. \A e \in Credited(r.batch) : counted[e] = 0
    <2>. SUFFICES ASSUME NEW e \in Credited(r.batch), counted[e] # 0 PROVE FALSE
      OBVIOUS
    <2>1. e \in Events /\ Sent(r, e)
      BY <1>3
    <2>2. \/ sessions[r.batch.token] = None
          \/ sessions[r.batch.token].lastSeq >= r.batch.seq
      BY <2>1 DEF EventInv, CountedOnce
    <2>3. sessions[r.batch.token].lastSeq \in Nat
      BY <1>4 DEF Row
    <2>. QED  BY <1>2, <1>4, <2>2, <2>3
  <1>6. counted \in [Events -> Nat]
    BY DEF TypeOK, BackendTypeOK
  <1>7. \A e \in Events :
          counted'[e] = IF e \in Credited(r.batch) THEN counted[e] + 1 ELSE counted[e]
    BY <1>6 DEF ProcessBatch
  <1>. QED  BY <1>3, <1>5, <1>7

LEMMA CountKeeps ==
    ASSUME TypeOK, TypeOK', EventInv, NEW r \in requests, BatchArrives(r), Accepts(r.batch)
    PROVE  EventInv'
  <1>1. /\ r.kind = "batch" /\ ProcessBatch(r.batch) /\ Deliver(r)
        /\ UNCHANGED <<tracked, queue, phase, inHand, session, drawn>>
        /\ answer' \in {answer, [ok |-> TRUE, session |-> None]}
    BY DEF BatchArrives, Reply, clientVars
  <1>2. \A q \in requests' : \E o \in requests : Fewer(q, o)
    BY <1>1, DeliverFacts
  <1>3. \A q \in requests', e \in Events : Sent(q, e) =>
          \E o \in requests : Fewer(q, o) /\ Sent(o, e) /\ q.batch = o.batch
    BY <1>2, FewerSent
  <1>4. /\ \A e \in Credited(r.batch) : e \in Events /\ Sent(r, e) /\ counted[e] = 0
        /\ \A e \in Events : counted'[e] = IF e \in Credited(r.batch) THEN 1 ELSE counted[e]
    BY <1>1, CountFacts
  <1>5. \A e \in Events : Waiting(e)' <=> Waiting(e)
    BY <1>1 DEF Waiting, Queued, Held
  <1>6. OnlyReported'
    BY <1>1, <1>3, <1>4, <1>5 DEF EventInv, OnlyReported
  <1>7. InOrder'
    BY <1>1 DEF EventInv, InOrder
  <1>8. WaitingIsFresh'
    BY <1>3, <1>4, <1>5 DEF EventInv, WaitingIsFresh
  <1>9. OneNumberPerEvent'
    BY <1>3 DEF EventInv, OneNumberPerEvent
  <1>10. TokensAreDrawn'
    <2>1. \A q \in requests' : q.kind = "batch" => q.batch.token <= drawn
      BY <1>2 DEF Fewer, EventInv, TokensAreDrawn
    <2>2. answer' # None /\ answer'.ok =>
            answer'.session = None \/ answer'.session.token <= drawn
      BY <1>1 DEF EventInv, TokensAreDrawn
    <2>. QED  BY <1>1, <2>1, <2>2 DEF EventInv, TokensAreDrawn
  <1>11. CountedOnce'
    <2>1. \A e \in Events : counted'[e] \in {0, 1}
      BY <1>4 DEF EventInv, CountedOnce
    <2>2. ASSUME NEW e \in Events, counted'[e] = 1, NEW q \in requests', Sent(q, e)
          PROVE  \/ sessions'[q.batch.token] = None
                 \/ sessions'[q.batch.token].lastSeq >= q.batch.seq
      <3>1. PICK o \in requests : Sent(o, e) /\ q.batch = o.batch
        BY <2>2, <1>3
      <3>2. /\ o.batch.token \in Tokens /\ o.batch.seq \in Nat
            /\ r.batch.token \in Tokens /\ r.batch.seq \in Nat
        BY <1>1, <3>1 DEF Sent, TypeOK, SessionRequest, BatchRequest, Batch
      <3>3. sessions \in [Tokens -> Row \cup {None}] /\ sessions[r.batch.token] \in Row
        BY <3>2 DEF Accepts, GetSession, TypeOK, BackendTypeOK
      <3>4. /\ r.batch.seq > sessions[r.batch.token].lastSeq
            /\ sessions[r.batch.token].lastSeq \in Nat
        BY <3>2, <3>3 DEF Accepts, GetSession, Row
      <3>5. /\ sessions'[r.batch.token].lastSeq = r.batch.seq
            /\ \A t \in Tokens \ {r.batch.token} : sessions'[t] = sessions[t]
        BY <1>1, <3>2, <3>3 DEF ProcessBatch, Row
      <3>6. CASE e \in Credited(r.batch)
        <4>1. o.batch.token = r.batch.token /\ o.batch.seq = r.batch.seq
          BY <3>1, <3>6, <1>4 DEF EventInv, OneNumberPerEvent
        <4>. QED  BY <3>1, <3>2, <3>5, <4>1
      <3>7. CASE e \notin Credited(r.batch)
        <4>1. \/ sessions[o.batch.token] = None
              \/ sessions[o.batch.token].lastSeq >= o.batch.seq
          BY <2>2, <3>1, <3>7, <1>4 DEF EventInv, CountedOnce
        <4>2. CASE o.batch.token = r.batch.token
          BY <3>1, <3>2, <3>3, <3>4, <3>5, <4>1, <4>2
        <4>3. CASE o.batch.token # r.batch.token
          BY <3>1, <3>2, <3>5, <4>1, <4>3
        <4>. QED  BY <4>2, <4>3
      <3>. QED  BY <3>6, <3>7
    <2>. QED  BY <2>1, <2>2 DEF CountedOnce
  <1>. QED  BY <1>6, <1>7, <1>8, <1>9, <1>10, <1>11 DEF EventInv

\* An event is reported: it is newer than whatever waits.
LEMMA TrackKeeps ==
    ASSUME TypeOK, TypeOK', EventInv, Track
    PROVE  EventInv'
  <1>. DEFINE new == tracked + 1
  <1>1. /\ new \in Events /\ tracked' = new /\ tracked \in Nat
        /\ UNCHANGED <<phase, inHand, requests, counted, sessions, session, drawn, answer>>
        /\ queue' \in {queue, Enqueued(new)}
    BY DEF Track, TypeOK, Events, netVars, backendVars
  <1>2. queue \in Seq(Events) /\ inHand \in Seq(Events) /\ queue' \in Seq(Events)
    BY DEF TypeOK
  <1>3. \E k \in {0, 1} : \A i \in DOMAIN queue' :
          \/ i = Len(queue') /\ queue'[i] = new
          \/ i + k \in DOMAIN queue /\ queue'[i] = queue[i + k]
    <2>1. CASE queue' = queue
      BY <1>2, <2>1
    <2>2. CASE queue' = Enqueued(new)
      BY <1>1, <2>2, EnqueuedFacts
    <2>. QED  BY <1>1, <2>1, <2>2
  <1>. HIDE DEF new
  <1>4. \A e \in Events : Waiting(e)' => Waiting(e) \/ e = new
    BY <1>1, <1>3 DEF Waiting, Queued, Held
  <1>5. \A e \in Events : Waiting(e) \/ counted[e] # 0 => e <= tracked
    BY DEF EventInv, OnlyReported
  <1>6. \A e \in Events, r \in requests : Sent(r, e) => e <= tracked
    BY DEF EventInv, OnlyReported
  <1>7. \A e \in Events : e <= tracked => e < new
    BY <1>1 DEF Events, new
  <1>8. OnlyReported'
    BY <1>1, <1>4, <1>5, <1>6, <1>7 DEF OnlyReported, Events, Sent
  <1>9. InOrder'
    <2>1. \A i \in DOMAIN queue : queue[i] \in Events /\ queue[i] < new
      BY <1>2, <1>5, <1>7 DEF Waiting, Queued
    <2>2. phase = "session" => \A i \in DOMAIN inHand : inHand[i] \in Events /\ inHand[i] < new
      BY <1>2, <1>5, <1>7 DEF Waiting, Held
    <2>3. \A i, j \in DOMAIN queue' : i < j => queue'[i] < queue'[j]
      <3>1. PICK k \in {0, 1} : \A i \in DOMAIN queue' :
              \/ i = Len(queue') /\ queue'[i] = new
              \/ i + k \in DOMAIN queue /\ queue'[i] = queue[i + k]
        BY <1>3
      <3>2. \A i, j \in DOMAIN queue : i < j => queue[i] < queue[j]
        BY DEF EventInv, InOrder
      <3>. SUFFICES ASSUME NEW i \in DOMAIN queue', NEW j \in DOMAIN queue', i < j
                    PROVE  queue'[i] < queue'[j]
        OBVIOUS
      <3>3. i \in Nat /\ j \in Nat /\ j <= Len(queue') /\ Len(queue') \in Nat
        BY <1>2
      <3>4. i + k \in DOMAIN queue /\ queue'[i] = queue[i + k]
        BY <3>1, <3>3
      <3>. QED  BY <2>1, <3>1, <3>2, <3>3, <3>4
    <2>4. phase' = "session" => \A i \in DOMAIN inHand', j \in DOMAIN queue' : inHand'[i] < queue'[j]
      BY <1>1, <1>3, <2>2 DEF EventInv, InOrder
    <2>. QED  BY <2>3, <2>4 DEF InOrder
  <1>10. \A r \in requests, e \in Events : Sent(r, e)' <=> Sent(r, e)
    BY DEF Sent
  <1>11. WaitingIsFresh'
    <2>1. counted[new] = 0 /\ \A r \in requests : ~Sent(r, new)
      BY <1>1, <1>5, <1>6, <1>7 DEF Events
    <2>. QED  BY <1>1, <1>4, <2>1 DEF EventInv, WaitingIsFresh, Sent
  <1>12. OneNumberPerEvent' /\ TokensAreDrawn' /\ CountedOnce'
    BY <1>1 DEF EventInv, OneNumberPerEvent, TokensAreDrawn, CountedOnce, Sent
  <1>. QED  BY <1>8, <1>9, <1>11, <1>12 DEF EventInv

\* A batch is taken off the queue.
LEMMA TakeKeeps ==
    ASSUME TypeOK, TypeOK', EventInv, DrainNext
    PROVE  EventInv'
  <1>. DEFINE n == Len(FirstBatch)
  <1>1. /\ queue # <<>> /\ phase = "loop"
        /\ queue' = SubSeq(queue, n + 1, Len(queue))
        /\ UNCHANGED <<tracked, counted, sessions, drawn, answer>>
    BY DEF DrainNext, backendVars
  <1>2. queue \in Seq(Events)
    BY DEF TypeOK
  <1>3. /\ FirstBatch \in Seq(Events) /\ n \in Nat
        /\ \A i \in DOMAIN FirstBatch : i \in DOMAIN queue /\ i <= n /\ FirstBatch[i] = queue[i]
        /\ \A i \in DOMAIN queue' : i \in Nat \ {0} /\ i + n \in DOMAIN queue /\ queue'[i] = queue[i + n]
    BY <1>1, <1>2, BatchFacts
  <1>. HIDE DEF n
  <1>4. \A i, j \in DOMAIN queue : i < j => queue[i] < queue[j]
    BY DEF EventInv, InOrder
  <1>5. \A i, j \in DOMAIN queue' : i < j => queue'[i] < queue'[j]
    BY <1>3, <1>4
  <1>6. \A i \in DOMAIN FirstBatch, j \in DOMAIN queue' : FirstBatch[i] < queue'[j]
    BY <1>3, <1>4
  <1>7. \A i \in DOMAIN FirstBatch : FirstBatch[i] \in Events /\ Queued(FirstBatch[i])
    BY <1>3 DEF Queued
  <1>8. \A e \in Events : Queued(e)' => Queued(e) /\ \A i \in DOMAIN FirstBatch : FirstBatch[i] # e
    <2>. SUFFICES ASSUME NEW e \in Events, NEW j \in DOMAIN queue', queue'[j] = e
                  PROVE  Queued(e) /\ \A i \in DOMAIN FirstBatch : FirstBatch[i] # e
      BY DEF Queued
    <2>1. Queued(e)
      BY <1>3 DEF Queued
    <2>2. \A i \in DOMAIN FirstBatch : FirstBatch[i] \in Int /\ FirstBatch[i] < e
      BY <1>6, <1>7 DEF Events
    <2>. QED  BY <2>1, <2>2
  <1>9. CASE Alive(session)
    <2>1. session \in SessionState /\ Send(FirstBatch, session)
      BY <1>9 DEF DrainNext, Alive, TypeOK
    <2>2. session.token <= drawn
      BY <1>9 DEF Alive, EventInv, TokensAreDrawn
    <2>3. phase' # "session"
      BY <2>1 DEF Send
    <2>4. InOrder'
      BY <1>5, <2>3 DEF InOrder
    <2>5. \A e \in Events : Waiting(e)' => Waiting(e) /\ \A i \in DOMAIN FirstBatch : FirstBatch[i] # e
      BY <1>8, <2>3 DEF Waiting, Held
    <2>6. \A i \in DOMAIN FirstBatch : Waiting(FirstBatch[i])
      BY <1>7 DEF Waiting
    <2>. QED  BY <1>1, <1>3, <2>1, <2>2, <2>4, <2>5, <2>6, SentKeeps
  <1>10. CASE ~Alive(session)
    <2>. DEFINE ask == [kind |-> "session", awaited |-> TRUE]
    <2>1. /\ phase' = "session" /\ inHand' = FirstBatch /\ session' = session
          /\ requests' = requests \cup {ask}
      BY <1>10 DEF DrainNext
    <2>2. \A e \in Events : ~Sent(ask, e)
      BY DEF Sent
    <2>3. ask.kind # "batch"
      OBVIOUS
    <2>. HIDE DEF ask
    <2>4. \A e \in Events : Waiting(e)' => Waiting(e)
      BY <1>7, <1>8, <2>1 DEF Waiting, Held
    <2>5. OnlyReported'
      BY <1>1, <2>1, <2>2, <2>4 DEF EventInv, OnlyReported
    <2>6. InOrder'
      BY <1>5, <1>6, <2>1 DEF InOrder
    <2>7. WaitingIsFresh'
      BY <1>1, <2>1, <2>2, <2>4 DEF EventInv, WaitingIsFresh
    <2>8. OneNumberPerEvent' /\ CountedOnce'
      BY <1>1, <2>1, <2>2 DEF EventInv, OneNumberPerEvent, CountedOnce
    <2>9. TokensAreDrawn'
      BY <1>1, <2>1, <2>3 DEF EventInv, TokensAreDrawn
    <2>. QED  BY <2>5, <2>6, <2>7, <2>8, <2>9 DEF EventInv
  <1>. QED  BY <1>9, <1>10

\* The batch that waited for a session is sent.
LEMMA SessionKeeps ==
    ASSUME TypeOK, TypeOK', OneExchange, EventInv, ReceiveSession, answer.ok
    PROVE  EventInv'
  <1>1. /\ phase = "session" /\ Send(inHand, answer.session) /\ answer # None
        /\ answer' = None /\ queue' = queue
        /\ UNCHANGED <<tracked, counted, sessions, drawn>>
    BY DEF ReceiveSession, backendVars
  <1>2. answer.session \in SessionState /\ answer.session.token <= drawn
    BY <1>1 DEF OneExchange, EventInv, TokensAreDrawn, TypeOK, Answer
  <1>3. inHand \in Seq(Events) /\ queue \in Seq(Events)
    BY DEF TypeOK
  <1>4. \A i \in DOMAIN inHand : inHand[i] \in Events /\ Waiting(inHand[i])
    BY <1>1, <1>3 DEF Waiting, Held
  <1>5. phase' # "session"
    BY <1>1 DEF Send
  <1>6. InOrder'
    BY <1>1, <1>5 DEF EventInv, InOrder
  <1>7. \A e \in Events : Waiting(e)' => Queued(e)
    BY <1>1, <1>5 DEF Waiting, Held, Queued
  <1>8. \A e \in Events : Queued(e) => \A i \in DOMAIN inHand : inHand[i] # e
    <2>1. \A i \in DOMAIN inHand, j \in DOMAIN queue : inHand[i] \in Int /\ inHand[i] < queue[j]
      BY <1>1, <1>4 DEF EventInv, InOrder, Events
    <2>. QED  BY <2>1 DEF Queued, Events
  <1>9. \A e \in Events : Waiting(e)' => Waiting(e) /\ \A i \in DOMAIN inHand : inHand[i] # e
    BY <1>7, <1>8 DEF Waiting
  <1>. QED  BY <1>1, <1>2, <1>3, <1>4, <1>6, <1>9, SentKeeps

-----------------------------------------------------------------------------
(* One request at a time. *)

\* A request is sent while none is awaited.
LEMMA AskedAlone ==
    ASSUME \A r \in requests : ~r.awaited, answer' = None, NEW req,
           requests' = requests \cup {req}, phase' = req.kind
    PROVE  OneExchange'
  BY DEF OneExchange

\* The exchange is over.
LEMMA ExchangeOver ==
    ASSUME \A r \in requests' : ~r.awaited, answer' = None
    PROVE  OneExchange'
  BY DEF OneExchange

LEMMA SendKeepsExchange ==
    ASSUME NEW events, NEW current, Send(events, current),
           \A r \in requests : ~r.awaited, answer' = None
    PROVE  OneExchange'
  <1>1. CASE current.eventsSent >= ClientBudget
    BY <1>1, ExchangeOver DEF Send
  <1>2. CASE ~(current.eventsSent >= ClientBudget)
    <2>. DEFINE req == [kind |-> "batch", awaited |-> TRUE,
                        batch |-> [token |-> current.token,
                                   seq |-> (IF current = session THEN seq ELSE 0) + 1,
                                   events |-> events]]
    <2>1. requests' = requests \cup {req} /\ phase' = "batch"
      BY <1>2 DEF Send
    <2>2. req.kind = "batch"
      OBVIOUS
    <2>. HIDE DEF req
    <2>. QED  BY <2>1, <2>2, AskedAlone
  <1>. QED  BY <1>1, <1>2

\* An answer: the request that was awaited leaves, or stays without being awaited.
LEMMA AnsweredKeeps ==
    ASSUME TypeOK, TypeOK', OneExchange, NEW r \in requests, NEW reply \in Answer,
           Reply(r, reply), phase' = phase,
           \A q \in requests' : \E o \in requests : Fewer(q, o),
           \A q \in requests' : q.awaited => q # r,
           r.kind = "session" /\ reply.ok => reply.session # None
    PROVE  OneExchange'
  <1>1. \A q \in requests' : q.awaited => q \in requests /\ q # r
    BY DEF Fewer
  <1>2. CASE r.awaited
    <2>1. \A q \in requests' : ~q.awaited
      BY <1>1, <1>2 DEF OneExchange
    <2>2. answer' = reply /\ phase = r.kind
      BY <1>2 DEF Reply, OneExchange
    <2>3. r.kind \in {"session", "batch"}
      BY DEF TypeOK, SessionRequest, BatchRequest
    <2>. QED  BY <2>1, <2>2, <2>3 DEF OneExchange
  <1>3. CASE ~r.awaited
    BY <1>1, <1>3 DEF OneExchange, Reply
  <1>. QED  BY <1>2, <1>3

LEMMA ExchangeStep == TypeOK /\ TypeOK' /\ OneExchange /\ [Next]_vars => OneExchange'
  <1>. SUFFICES ASSUME TypeOK, TypeOK', OneExchange, [Next]_vars PROVE OneExchange'
    OBVIOUS
  <1>. USE DEF clientVars, netVars, backendVars
  <1>1. CASE Track
    BY <1>1 DEF Track, OneExchange
  <1>2. CASE Flush \/ Dispose \/ TimerFires
    <2>1. phase' = phase \/ (phase = "idle" /\ phase' = "loop")
      BY <1>2 DEF Flush, Dispose, TimerFires, Drain
    <2>2. UNCHANGED <<requests, answer>>
      BY <1>2 DEF Flush, Dispose, TimerFires
    <2>3. phase = "idle" => answer = None /\ \A r \in requests : ~r.awaited
      BY DEF OneExchange, TypeOK, SessionRequest, BatchRequest
    <2>. QED  BY <2>1, <2>2, <2>3 DEF OneExchange
  <1>3. CASE DrainEnds
    <2>1. answer = None /\ \A r \in requests : ~r.awaited
      BY <1>3 DEF DrainEnds, OneExchange, TypeOK, SessionRequest, BatchRequest
    <2>. QED  BY <1>3, <2>1 DEF DrainEnds, OneExchange
  <1>4. CASE DrainNext
    <2>1. answer = None /\ answer' = None /\ \A r \in requests : ~r.awaited
      BY <1>4 DEF DrainNext, OneExchange, TypeOK, SessionRequest, BatchRequest
    <2>2. CASE Alive(session)
      BY <1>4, <2>1, <2>2, SendKeepsExchange DEF DrainNext
    <2>3. CASE ~Alive(session)
      <3>. DEFINE ask == [kind |-> "session", awaited |-> TRUE]
      <3>1. phase' = "session" /\ requests' = requests \cup {ask} /\ ask.kind = "session"
        BY <1>4, <2>3 DEF DrainNext
      <3>. HIDE DEF ask
      <3>. QED  BY <2>1, <3>1, AskedAlone
    <2>. QED  BY <2>2, <2>3
  <1>5. CASE ReceiveSession
    <2>1. answer' = None /\ \A r \in requests : ~r.awaited
      BY <1>5 DEF ReceiveSession, OneExchange
    <2>2. CASE answer.ok
      BY <1>5, <2>1, <2>2, SendKeepsExchange DEF ReceiveSession
    <2>3. CASE ~answer.ok
      BY <1>5, <2>1, <2>3, ExchangeOver DEF ReceiveSession
    <2>. QED  BY <2>2, <2>3
  <1>6. CASE ReceiveBatch
    <2>1. answer' = None /\ requests' = requests /\ \A r \in requests : ~r.awaited
      BY <1>6 DEF ReceiveBatch, OneExchange
    <2>. QED  BY <2>1, ExchangeOver
  <1>7. CASE RequestTimesOut
    BY <1>7, TimeoutFacts, ExchangeOver DEF RequestTimesOut
  <1>8. ASSUME NEW r \in requests, SessionArrives(r) PROVE OneExchange'
    <2>. DEFINE reply == [ok |-> TRUE, session |-> [token |-> drawn + 1,
                          expiresAt |-> now + SessionTtl, eventsSent |-> 0]]
    <2>1. drawn + 1 \in Tokens /\ now + SessionTtl \in Int
      BY <1>8 DEF SessionArrives, TypeOK, BackendTypeOK, Tokens, Time
    <2>2. reply \in Answer
      BY <2>1, Answers
    <2>3. reply.session # None
      <3>1. reply.session \in SessionState
        BY <2>1 DEF SessionState
      <3>. QED  BY <3>1
    <2>4. Reply(r, reply) /\ Deliver(r) /\ phase' = phase
      BY <1>8 DEF SessionArrives
    <2>. HIDE DEF reply
    <2>. QED  BY <2>2, <2>3, <2>4, DeliverFacts, AnsweredKeeps
  <1>9. ASSUME NEW r \in requests, BatchArrives(r) PROVE OneExchange'
    <2>1. Deliver(r) /\ phase' = phase /\ r.kind = "batch"
      BY <1>9 DEF BatchArrives
    <2>2. \E reply \in Answer : Reply(r, reply)
      BY <1>9, Answers DEF BatchArrives
    <2>. QED  BY <2>1, <2>2, DeliverFacts, AnsweredKeeps
  <1>10. ASSUME NEW r \in requests, RequestFails(r) PROVE OneExchange'
    <2>1. /\ requests' = requests \ {r} /\ phase' = phase
          /\ Reply(r, [ok |-> FALSE])
      BY <1>10 DEF RequestFails
    <2>2. [ok |-> FALSE] \in Answer /\ ~[ok |-> FALSE].ok
      BY Answers
    <2>3. \A q \in requests' : q # r /\ \E o \in requests : Fewer(q, o)
      BY <2>1 DEF Fewer
    <2>. QED  BY <2>1, <2>2, <2>3, AnsweredKeeps
  <1>11. CASE Cleanup \/ TimePasses \/ UNCHANGED vars
    <2>1. UNCHANGED <<requests, answer, phase>>
      BY <1>11 DEF Cleanup, TimePasses, vars
    <2>. QED  BY <2>1 DEF OneExchange
  <1>. QED
    BY <1>1, <1>2, <1>3, <1>4, <1>5, <1>6, <1>7, <1>8, <1>9, <1>10, <1>11
       DEF Next, ClientStep

-----------------------------------------------------------------------------
(* The invariant. *)

LEMMA OnceInit == Init => OnceInv
  <1>. SUFFICES ASSUME Init PROVE OnceInv
    OBVIOUS
  <1>1. /\ queue = <<>> /\ phase = "idle" /\ requests = {} /\ answer = None /\ session = None
        /\ tracked = 0 /\ \A e \in Events : counted[e] = 0
    BY DEF Init, BackendInit
  <1>2. \A e \in Events : ~Waiting(e)
    BY <1>1 DEF Waiting, Queued, Held
  <1>3. OneExchange
    BY <1>1 DEF OneExchange
  <1>4. EventInv
    BY <1>1, <1>2 DEF EventInv, OnlyReported, InOrder, WaitingIsFresh, OneNumberPerEvent,
                      TokensAreDrawn, CountedOnce
  <1>. QED  BY <1>3, <1>4, TypeInit DEF OnceInv

LEMMA EventStep == TypeOK /\ TypeOK' /\ OneExchange /\ EventInv /\ [Next]_vars => EventInv'
  <1>. SUFFICES ASSUME TypeOK, TypeOK', OneExchange, EventInv, [Next]_vars PROVE EventInv'
    OBVIOUS
  <1>. USE DEF clientVars, netVars, backendVars
  <1>1. \A o \in requests : Fewer(o, o)
    BY DEF Fewer
  <1>2. answer # None /\ answer.ok => answer.session = None \/ answer.session.token <= drawn
    BY DEF EventInv, TokensAreDrawn
  <1>3. drawn \in Nat
    BY DEF TypeOK
  <1>4. CASE Track
    BY <1>4, TrackKeeps
  <1>5. CASE Flush \/ Dispose \/ TimerFires \/ DrainEnds \/ UNCHANGED vars
    <2>1. /\ UNCHANGED <<tracked, queue, counted, inHand, requests, sessions, drawn, session, answer>>
          /\ phase' = "session" => phase = "session"
      BY <1>5 DEF Flush, Dispose, TimerFires, DrainEnds, Drain, vars
    <2>. QED  BY <1>1, <1>2, <1>3, <2>1, QuietKeeps
  <1>6. CASE DrainNext
    BY <1>6, TakeKeeps
  <1>7. CASE ReceiveSession
    <2>1. CASE answer.ok
      BY <1>7, <2>1, SessionKeeps
    <2>2. CASE ~answer.ok
      <3>1. /\ UNCHANGED <<tracked, queue, counted, requests, sessions, drawn>>
            /\ phase' # "session" /\ answer' = None /\ session' = None
        BY <1>7, <2>2 DEF ReceiveSession, SessionDenied
      <3>. QED  BY <1>1, <1>3, <3>1, QuietKeeps
    <2>. QED  BY <2>1, <2>2
  <1>8. CASE ReceiveBatch
    <2>1. /\ UNCHANGED <<tracked, queue, counted, requests, sessions, drawn, session>>
          /\ phase' # "session" /\ answer' = None
      BY <1>8 DEF ReceiveBatch, BatchFailed
    <2>. QED  BY <1>1, <1>3, <2>1, QuietKeeps
  <1>9. CASE RequestTimesOut
    <2>1. /\ UNCHANGED <<tracked, queue, counted, sessions, drawn>>
          /\ phase' # "session" /\ answer' = None /\ session' \in {session, None}
      BY <1>9 DEF RequestTimesOut, SessionDenied, BatchFailed
    <2>. QED  BY <1>9, <1>3, <2>1, TimeoutFacts, QuietKeeps
  <1>10. ASSUME NEW r \in requests, SessionArrives(r) PROVE EventInv'
    <2>1. /\ UNCHANGED <<tracked, queue, counted, phase, inHand, session>>
          /\ Deliver(r) /\ drawn' = drawn + 1
          /\ \A t \in Tokens : t <= drawn => sessions'[t] = sessions[t]
      BY <1>10, <1>3 DEF SessionArrives, CreateSession, TypeOK, BackendTypeOK
    <2>2. answer' # None /\ answer'.ok => answer'.session = None \/ answer'.session.token <= drawn'
      <3>1. CASE r.awaited
        BY <1>10, <1>3, <2>1, <3>1 DEF SessionArrives, Reply
      <3>2. CASE ~r.awaited
        <4>1. answer' = answer
          BY <1>10, <3>2 DEF SessionArrives, Reply
        <4>2. answer # None /\ answer.ok /\ answer.session # None => answer.session.token \in Nat
          <5>1. answer # None /\ answer.ok /\ answer.session # None =>
                  answer.session \in SessionState
            BY DEF TypeOK, Answer
          <5>. QED  BY <5>1 DEF SessionState, Tokens
        <4>. QED  BY <1>2, <1>3, <2>1, <4>1, <4>2
      <3>. QED  BY <3>1, <3>2
    <2>. QED  BY <1>3, <2>1, <2>2, DeliverFacts, QuietKeeps
  <1>11. ASSUME NEW r \in requests, BatchArrives(r) PROVE EventInv'
    <2>1. CASE Accepts(r.batch)
      BY <1>11, <2>1, CountKeeps
    <2>2. CASE ~Accepts(r.batch)
      <3>1. /\ UNCHANGED <<tracked, queue, counted, phase, inHand, session, sessions, drawn>>
            /\ Deliver(r) /\ answer' \in {answer, [ok |-> FALSE]}
        BY <1>11, <2>2 DEF BatchArrives, Reply
      <3>. QED  BY <1>2, <1>3, <3>1, DeliverFacts, QuietKeeps
    <2>. QED  BY <2>1, <2>2
  <1>12. ASSUME NEW r \in requests, RequestFails(r) PROVE EventInv'
    <2>1. /\ UNCHANGED <<tracked, queue, counted, phase, inHand, session, sessions, drawn>>
          /\ requests' \subseteq requests /\ answer' \in {answer, [ok |-> FALSE]}
      BY <1>12 DEF RequestFails, Reply
    <2>. QED  BY <1>1, <1>2, <1>3, <2>1, QuietKeeps
  <1>13. CASE Cleanup \/ TimePasses
    <2>1. /\ UNCHANGED <<tracked, queue, counted, phase, inHand, session, drawn, requests, answer>>
          /\ \A t \in Tokens : sessions'[t] \in {sessions[t], None}
      BY <1>13 DEF Cleanup, CleanupExpiredSessions, TimePasses, Tick
    <2>. QED  BY <1>1, <1>2, <1>3, <2>1, QuietKeeps
  <1>. QED
    BY <1>4, <1>5, <1>6, <1>7, <1>8, <1>9, <1>10, <1>11, <1>12, <1>13 DEF Next, ClientStep

LEMMA OnceStep == OnceInv /\ [Next]_vars => OnceInv'
  BY TypeStep, ExchangeStep, EventStep DEF OnceInv

\* The queue, the batch in hand, the session, the requests and answers under way and
\* the service's tables are of their types: no batch is sent without a session.
THEOREM ExchangeIsTyped == Spec => []TypeOK
  <1>1. OnceInv => TypeOK
    BY DEF OnceInv
  <1>. QED  BY OnceInit, OnceStep, <1>1, PTL DEF Spec

-----------------------------------------------------------------------------
(* The refinement. *)

LEMMA CountInit == Init => Count!Init
  BY DEF Init, BackendInit, Count!Init

LEMMA CountStep == OnceInv /\ [Next]_vars => [Count!Next]_<<1..tracked, counted>>
  <1>. SUFFICES ASSUME OnceInv, [Next]_vars
                PROVE  Count!Next \/ (1..tracked' = 1..tracked /\ counted' = counted)
    OBVIOUS
  <1>. USE DEF clientVars, netVars, backendVars
  <1>1. CASE Track
    <2>1. tracked + 1 \in Events /\ tracked \in Nat /\ tracked' = tracked + 1 /\ counted' = counted
      BY <1>1 DEF Track, OnceInv, TypeOK, Events
    <2>2. Count!Report(tracked + 1)
      BY <2>1 DEF Count!Report
    <2>. QED  BY <2>1, <2>2 DEF Count!Next
  <1>2. ASSUME NEW r \in requests, BatchArrives(r), Accepts(r.batch) PROVE Count!Next
    <2>. DEFINE some == Credited(r.batch)
    <2>1. tracked' = tracked /\ r.kind = "batch" /\ ProcessBatch(r.batch)
      BY <1>2 DEF BatchArrives
    <2>2. /\ \A e \in some : e \in Events /\ Sent(r, e) /\ counted[e] = 0
          /\ \A e \in Events : counted'[e] = IF e \in some THEN 1 ELSE counted[e]
      BY <1>2, <2>1, CountFacts DEF OnceInv
    <2>3. \A e \in some : e \in 1..tracked
      BY <2>2 DEF OnceInv, EventInv, OnlyReported, Events, TypeOK
    <2>4. counted' = [e \in Events |-> IF e \in some THEN 1 ELSE counted[e]]
      <3>1. counted' = [e \in Events |-> counted'[e]]
        BY <2>1 DEF ProcessBatch
      <3>. QED  BY <2>2, <3>1
    <2>. HIDE DEF some
    <2>5. some \in SUBSET Events /\ Count!Count(some)
      BY <2>1, <2>2, <2>3, <2>4 DEF Count!Count
    <2>. QED  BY <2>5 DEF Count!Next
  <1>3. ASSUME NEW r \in requests, BatchArrives(r), ~Accepts(r.batch)
        PROVE  tracked' = tracked /\ counted' = counted
    BY <1>3 DEF BatchArrives
  <1>4. CASE \/ Flush \/ Dispose \/ ClientStep \/ Cleanup \/ TimePasses \/ UNCHANGED vars
             \/ \E r \in requests : SessionArrives(r) \/ RequestFails(r)
    BY <1>4 DEF Flush, Dispose, ClientStep, TimerFires, DrainNext, DrainEnds, ReceiveSession,
                ReceiveBatch, RequestTimesOut, Cleanup, CleanupExpiredSessions, TimePasses, Tick,
                SessionArrives, RequestFails, vars
  <1>. QED  BY <1>1, <1>2, <1>3, <1>4 DEF Next

\* The exchange of client and service implements counting at most once: whatever the
\* network repeats, delays or loses, and however often batches time out, processBatch
\* counts no event twice and none that the page did not report.
THEOREM EventsCountAtMostOnce == Spec => CountsAtMostOnce
  <1>1. Spec => []OnceInv
    BY OnceInit, OnceStep, PTL DEF Spec
  <1>2. Spec => []([Count!Next]_<<1..tracked, counted>>)
    BY <1>1, CountStep, PTL DEF Spec
  <1>. QED  BY CountInit, <1>2, PTL DEF Spec, CountsAtMostOnce, Count!Spec

-----------------------------------------------------------------------------
(* The service stays behind the client.  Each number of a session has its    *)
(* share of eventsSent: reach[n] is what had been used up when batch n was   *)
(* sent, and the service, having accepted number n last, has counted no more *)
(* than that.  A new session starts with nothing of its own anywhere.        *)

NewSessionIsUnused ==
    answer # None /\ answer.ok /\ answer.session # None =>
        /\ answer.session.eventsSent = 0
        /\ session # None => session.token # answer.session.token
        /\ \A r \in requests : r.kind = "batch" => r.batch.token # answer.session.token
        /\ LET row == sessions[answer.session.token] IN
              row # None => row.lastSeq = 0 /\ row.eventCount = 0

Rising(reach, top) ==
    /\ \A m, n \in Nat : m <= n => reach[m] <= reach[n]
    /\ \A n \in Nat : reach[n] <= top

Fits(reach, number, share) == reach[number - 1] + share <= reach[number]

Follows(reach) ==
    /\ Rising(reach, session.eventsSent)
    /\ \A r \in requests : r.kind = "batch" /\ r.batch.token = session.token =>
          r.batch.seq \in 1..seq /\ Fits(reach, r.batch.seq, Len(r.batch.events))
    /\ LET row == sessions[session.token] IN
          row # None => row.lastSeq <= seq /\ row.eventCount <= reach[row.lastSeq]

SessionFollowed == session # None => \E reach \in [Nat -> Nat] : Follows(reach)

FollowInv == OnceInv /\ NewSessionIsUnused /\ SessionFollowed

LEMMA FollowInit == Init => FollowInv
  BY OnceInit DEF Init, FollowInv, NewSessionIsUnused, SessionFollowed

LEMMA FollowImplies == FollowInv => ServiceFollowsClient
  <1>. SUFFICES ASSUME FollowInv, session # None, sessions[session.token] # None
                PROVE  /\ sessions[session.token].lastSeq <= seq
                       /\ sessions[session.token].eventCount <= session.eventsSent
    BY DEF ServiceFollowsClient
  <1>1. PICK reach \in [Nat -> Nat] : Follows(reach)
    BY DEF FollowInv, SessionFollowed
  <1>2. session \in SessionState /\ sessions \in [Tokens -> Row \cup {None}]
    BY DEF FollowInv, OnceInv, TypeOK, BackendTypeOK
  <1>3. sessions[session.token] \in Row /\ session.eventsSent \in Nat
    BY <1>2 DEF SessionState
  <1>4. sessions[session.token].lastSeq \in Nat /\ sessions[session.token].eventCount \in Nat
    BY <1>3 DEF Row
  <1>5. /\ sessions[session.token].lastSeq <= seq
        /\ sessions[session.token].eventCount <= reach[sessions[session.token].lastSeq]
    BY <1>1 DEF Follows
  <1>6. reach[sessions[session.token].lastSeq] <= session.eventsSent
    BY <1>1, <1>4 DEF Follows, Rising
  <1>. QED  BY <1>3, <1>4, <1>5, <1>6

\* A step without sending, accepting or learning of a session.
LEMMA FollowQuiet ==
    ASSUME FollowInv, TypeOK', session' \in {session, None}, session' # None => seq' = seq,
           \A q \in requests' : \E o \in requests : Fewer(q, o),
           \A t \in Tokens : t <= drawn => sessions'[t] \in {sessions[t], None},
           answer' # None /\ answer'.ok => answer'.session = None \/ answer' = answer
    PROVE  NewSessionIsUnused' /\ SessionFollowed'
  <1>1. NewSessionIsUnused'
    <2>. SUFFICES ASSUME answer' # None, answer'.ok, answer'.session # None
                  PROVE  NewSessionIsUnused'
      BY DEF NewSessionIsUnused
    <2>1. answer' = answer
      OBVIOUS
    <2>2. answer.session \in SessionState
      BY <2>1 DEF FollowInv, OnceInv, TypeOK, Answer
    <2>3. answer.session.token \in Tokens /\ answer.session.token <= drawn
      BY <2>1, <2>2 DEF SessionState, FollowInv, OnceInv, EventInv, TokensAreDrawn
    <2>4. sessions'[answer.session.token] \in {sessions[answer.session.token], None}
      BY <2>3
    <2>5. \A q \in requests' : q.kind = "batch" => q.batch.token # answer.session.token
      BY <2>1 DEF Fewer, FollowInv, NewSessionIsUnused
    <2>. QED  BY <2>1, <2>4, <2>5 DEF FollowInv, NewSessionIsUnused
  <1>2. SessionFollowed'
    <2>. SUFFICES ASSUME session' # None PROVE SessionFollowed'
      BY DEF SessionFollowed
    <2>1. PICK reach \in [Nat -> Nat] : Follows(reach)
      BY DEF FollowInv, SessionFollowed
    <2>2. session' = session /\ seq' = seq /\ session \in SessionState
      BY DEF FollowInv, OnceInv, TypeOK
    <2>3. session.token \in Tokens /\ session.token <= drawn
      BY <2>2 DEF SessionState, FollowInv, OnceInv, EventInv, TokensAreDrawn
    <2>4. sessions'[session.token] \in {sessions[session.token], None}
      BY <2>3
    <2>5. \A q \in requests' : q.kind = "batch" /\ q.batch.token = session.token =>
            q.batch.seq \in 1..seq /\ Fits(reach, q.batch.seq, Len(q.batch.events))
      BY <2>1 DEF Follows, Fewer
    <2>6. Follows(reach)'
      BY <2>1, <2>2, <2>4, <2>5 DEF Follows
    <2>. QED  BY <2>6 DEF SessionFollowed
  <1>. QED  BY <1>1, <1>2

Prolongs(longer, reach, last, top) ==
    /\ Rising(longer, top)
    /\ \A n \in Nat : n <= last => longer[n] = reach[n]
    /\ longer[last + 1] = top

LEMMA ReachExtended ==
    ASSUME NEW reach \in [Nat -> Nat], NEW used \in Nat, NEW more \in Nat, NEW last \in Nat,
           Rising(reach, used)
    PROVE  \E longer \in [Nat -> Nat] : Prolongs(longer, reach, last, used + more)
  <1>. DEFINE longer == [n \in Nat |-> IF n <= last THEN reach[n] ELSE used + more]
  <1>1. longer \in [Nat -> Nat]
    OBVIOUS
  <1>2. \A n \in Nat : longer[n] = IF n <= last THEN reach[n] ELSE used + more
    OBVIOUS
  <1>. HIDE DEF longer
  <1>3. \A n \in Nat : reach[n] \in Nat /\ reach[n] <= used + more
    BY DEF Rising
  <1>4. Rising(longer, used + more)
    BY <1>2, <1>3 DEF Rising
  <1>. QED  BY <1>1, <1>2, <1>4 DEF Prolongs

LEMMA BatchFields ==
    ASSUME NEW batch \in Batch
    PROVE  batch.token \in Tokens /\ batch.seq \in Nat /\ Len(batch.events) \in Nat
  BY DEF Batch

LEMMA FitsStill ==
    ASSUME NEW reach \in [Nat -> Nat], NEW longer \in [Nat -> Nat], NEW last \in Nat, NEW top,
           Prolongs(longer, reach, last, top),
           NEW number \in 1..last, NEW share \in Nat, Fits(reach, number, share)
    PROVE  number \in 1..last + 1 /\ Fits(longer, number, share)
  <1>1. number - 1 \in Nat /\ number - 1 <= last /\ number \in Nat /\ number <= last
    OBVIOUS
  <1>2. longer[number - 1] = reach[number - 1] /\ longer[number] = reach[number]
    BY <1>1 DEF Prolongs
  <1>. QED  BY <1>1, <1>2 DEF Fits

LEMMA FitsNow ==
    ASSUME NEW reach \in [Nat -> Nat], NEW longer \in [Nat -> Nat], NEW last \in Nat,
           NEW used \in Nat, NEW more \in Nat, Rising(reach, used),
           Prolongs(longer, reach, last, used + more)
    PROVE  last + 1 \in 1..last + 1 /\ Fits(longer, last + 1, more)
  <1>1. reach[last] <= used /\ reach[last] \in Nat
    BY DEF Rising
  <1>2. longer[last] = reach[last] /\ longer[last + 1] = used + more /\ last + 1 - 1 = last
    BY DEF Prolongs
  <1>. QED  BY <1>1, <1>2 DEF Fits

\* A batch is sent under the session in use, or dropped when its budget is used up.
LEMMA FollowSend ==
    ASSUME FollowInv, TypeOK', NEW events \in Seq(Events), session # None,
           Send(events, session), sessions' = sessions, answer' = None
    PROVE  NewSessionIsUnused' /\ SessionFollowed'
  <1>. DEFINE used == session.eventsSent
              more == Len(events)
              row == sessions[session.token]
  <1>1. NewSessionIsUnused'
    BY DEF NewSessionIsUnused
  <1>2. PICK reach \in [Nat -> Nat] : Follows(reach)
    BY DEF FollowInv, SessionFollowed
  <1>3. session \in SessionState /\ seq \in Nat /\ row \in Row \cup {None}
    <2>1. session \in SessionState /\ seq \in Nat /\ sessions \in [Tokens -> Row \cup {None}]
      BY DEF FollowInv, OnceInv, TypeOK, BackendTypeOK
    <2>. QED  BY <2>1 DEF SessionState
  <1>4. used \in Nat /\ more \in Nat /\ seq \in Nat
    BY <1>3 DEF SessionState
  <1>5. CASE used >= ClientBudget
    <2>1. session' = session /\ seq' = seq /\ requests' = requests
      BY <1>5 DEF Send
    <2>2. Follows(reach)'
      BY <1>2, <2>1 DEF Follows
    <2>. QED  BY <1>1, <1>2, <2>2 DEF SessionFollowed
  <1>6. CASE ~(used >= ClientBudget)
    <2>. DEFINE req == [kind |-> "batch", awaited |-> TRUE,
                        batch |-> [token |-> session.token, seq |-> seq + 1, events |-> events]]
    <2>1. /\ seq' = seq + 1 /\ requests' = requests \cup {req}
          /\ session' = [session EXCEPT !.eventsSent = @ + Len(events)]
      BY <1>6 DEF Send
    <2>2. session'.token = session.token /\ session'.eventsSent = used + more
      BY <1>3, <2>1 DEF SessionState
    <2>3. req.batch.token = session.token /\ req.batch.seq = seq + 1 /\ Len(req.batch.events) = more
      OBVIOUS
    <2>4. Rising(reach, used)
      BY <1>2 DEF Follows
    <2>5. /\ \A r \in requests : r.kind = "batch" /\ r.batch.token = session.token =>
                r.batch.seq \in 1..seq /\ Fits(reach, r.batch.seq, Len(r.batch.events))
          /\ row # None => row.lastSeq <= seq /\ row.eventCount <= reach[row.lastSeq]
      BY <1>2 DEF Follows
    <2>. HIDE DEF req, used, more, row
    <2>6. PICK longer \in [Nat -> Nat] : Prolongs(longer, reach, seq, used + more)
      BY <1>4, <2>4, ReachExtended
    <2>7. ASSUME NEW r \in requests', r.kind = "batch", r.batch.token = session.token
          PROVE  r.batch.seq \in 1..seq + 1 /\ Fits(longer, r.batch.seq, Len(r.batch.events))
      <3>1. CASE r \in requests
        <4>1. r.batch \in Batch
          BY <2>7, <3>1 DEF FollowInv, OnceInv, TypeOK, SessionRequest, BatchRequest
        <4>2. Len(r.batch.events) \in Nat
          BY <4>1, BatchFields
        <4>3. r.batch.seq \in 1..seq /\ Fits(reach, r.batch.seq, Len(r.batch.events))
          BY <2>5, <2>7, <3>1
        <4>. DEFINE number == r.batch.seq
                    share == Len(r.batch.events)
        <4>4. number \in 1..seq /\ Fits(reach, number, share) /\ share \in Nat
          BY <4>2, <4>3
        <4>. HIDE DEF number, share
        <4>5. number \in 1..seq + 1 /\ Fits(longer, number, share)
          BY <1>4, <2>6, <4>4, FitsStill
        <4>. QED  BY <4>5 DEF number, share
      <3>2. CASE r = req
        <4>1. seq + 1 \in 1..seq + 1 /\ Fits(longer, seq + 1, more)
          BY <1>4, <2>4, <2>6, FitsNow
        <4>. QED  BY <2>3, <3>2, <4>1
      <3>. QED  BY <2>1, <3>1, <3>2
    <2>8. ASSUME row # None
          PROVE  row.lastSeq <= seq + 1 /\ row.eventCount <= longer[row.lastSeq]
      <3>. DEFINE last == row.lastSeq
                  count == row.eventCount
      <3>1. last \in Nat /\ count \in Nat
        BY <1>3, <2>8 DEF Row
      <3>2. last <= seq /\ count <= reach[last]
        BY <2>5, <2>8
      <3>. HIDE DEF last, count
      <3>3. last <= seq + 1 /\ count <= longer[last]
        BY <1>4, <2>6, <3>1, <3>2 DEF Prolongs
      <3>. QED  BY <3>3 DEF last, count
    <2>9. Rising(longer, session'.eventsSent)
      BY <2>2, <2>6 DEF Prolongs, used, more
    <2>10. Follows(longer)'
      BY <2>1, <2>2, <2>7, <2>8, <2>9 DEF Follows, row
    <2>. QED  BY <1>1, <2>6, <2>10 DEF SessionFollowed
  <1>. QED  BY <1>5, <1>6

\* The first batch of a new session is sent.
LEMMA FollowSendNew ==
    ASSUME FollowInv, TypeOK', NEW events \in Seq(Events), answer # None, answer.ok,
           answer.session # None, Send(events, answer.session), sessions' = sessions, answer' = None
    PROVE  NewSessionIsUnused' /\ SessionFollowed'
  <1>. DEFINE current == answer.session
  <1>1. NewSessionIsUnused'
    BY DEF NewSessionIsUnused
  <1>2. current \in SessionState /\ sessions \in [Tokens -> Row \cup {None}]
    BY DEF FollowInv, OnceInv, TypeOK, BackendTypeOK, Answer
  <1>3. /\ current.eventsSent = 0
        /\ session # None => session.token # current.token
        /\ \A r \in requests : r.kind = "batch" => r.batch.token # current.token
        /\ sessions[current.token] # None =>
              sessions[current.token].lastSeq = 0 /\ sessions[current.token].eventCount = 0
    BY DEF FollowInv, NewSessionIsUnused
  <1>4. current # None
    OBVIOUS
  <1>. HIDE DEF current
  <1>5. current # session
    BY <1>3, <1>4
  <1>. DEFINE req == [kind |-> "batch", awaited |-> TRUE,
                      batch |-> [token |-> current.token, seq |-> 1, events |-> events]]
              reach == [n \in Nat |-> IF n = 0 THEN 0 ELSE Len(events)]
  <1>6. /\ seq' = 1 /\ requests' = requests \cup {req}
        /\ session' = [current EXCEPT !.eventsSent = @ + Len(events)]
    BY <1>3, <1>5 DEF Send, current
  <1>7. session'.token = current.token /\ session'.eventsSent = Len(events)
    BY <1>2, <1>3, <1>6 DEF SessionState
  <1>8. req.batch.token = current.token /\ req.batch.seq = 1 /\ req.batch.events = events
    OBVIOUS
  <1>9. reach \in [Nat -> Nat] /\ reach[0] = 0 /\ Rising(reach, Len(events))
    BY DEF Rising
  <1>10. Fits(reach, 1, Len(events))
    BY DEF Fits
  <1>. HIDE DEF req, reach
  <1>11. \A r \in requests' : r.kind = "batch" /\ r.batch.token = current.token =>
            r.batch.seq = 1 /\ r.batch.events = events
    BY <1>3, <1>6, <1>8
  <1>12. Follows(reach)'
    <2>1. \A r \in requests' : r.kind = "batch" /\ r.batch.token = session'.token =>
            r.batch.seq \in 1..seq' /\ Fits(reach, r.batch.seq, Len(r.batch.events))
      BY <1>6, <1>7, <1>10, <1>11
    <2>2. sessions'[session'.token] # None =>
            /\ sessions'[session'.token].lastSeq <= seq'
            /\ sessions'[session'.token].eventCount <= reach[sessions'[session'.token].lastSeq]
      <3>. DEFINE row == sessions[current.token]
      <3>1. row # None => row.lastSeq = 0 /\ row.eventCount = 0
        BY <1>3
      <3>2. row # None => row.lastSeq <= 1 /\ row.eventCount <= reach[row.lastSeq]
        <4>1. 0 <= 1 /\ 0 <= reach[0]
          BY <1>9
        <4>. QED  BY <3>1, <4>1
      <3>. QED  BY <1>6, <1>7, <3>2
    <2>. QED  BY <1>7, <1>9, <2>1, <2>2 DEF Follows
  <1>. QED  BY <1>1, <1>9, <1>12 DEF SessionFollowed

\* A session is created: under a token of its own.
LEMMA FollowArrives ==
    ASSUME FollowInv, TypeOK', NEW r \in requests, SessionArrives(r)
    PROVE  NewSessionIsUnused' /\ SessionFollowed'
  <1>. DEFINE t == drawn + 1
  <1>1. /\ session' = session /\ seq' = seq /\ drawn' = t
        /\ Deliver(r) /\ t \in Tokens /\ drawn \in Nat
    BY DEF SessionArrives, clientVars, FollowInv, OnceInv, TypeOK, Tokens
  <1>2. sessions \in [Tokens -> Row \cup {None}] /\ session \in SessionState \cup {None}
    BY DEF FollowInv, OnceInv, TypeOK, BackendTypeOK
  <1>3. /\ sessions'[t].lastSeq = 0 /\ sessions'[t].eventCount = 0
        /\ \A u \in Tokens : u # t => sessions'[u] = sessions[u]
    BY <1>1, <1>2 DEF SessionArrives, CreateSession
  <1>4. \A q \in requests' : \E o \in requests : Fewer(q, o)
    BY <1>1, DeliverFacts DEF FollowInv, OnceInv
  <1>5. \A q \in requests' : q.kind = "batch" => q.batch.token <= drawn /\ q.batch.token \in Tokens
    <2>. SUFFICES ASSUME NEW q \in requests', q.kind = "batch"
                  PROVE  q.batch.token <= drawn /\ q.batch.token \in Tokens
      OBVIOUS
    <2>1. PICK o \in requests : Fewer(q, o)
      BY <1>4
    <2>2. o.kind = "batch" /\ q.batch = o.batch
      BY <2>1 DEF Fewer
    <2>3. o.batch \in Batch
      BY <2>2 DEF FollowInv, OnceInv, TypeOK, SessionRequest, BatchRequest
    <2>4. o.batch.token <= drawn
      BY <2>2 DEF FollowInv, OnceInv, EventInv, TokensAreDrawn
    <2>. QED  BY <2>2, <2>3, <2>4, BatchFields
  <1>6. session # None => session.token <= drawn /\ session.token \in Tokens
    BY <1>2 DEF SessionState, FollowInv, OnceInv, EventInv, TokensAreDrawn
  <1>7. \A u \in Tokens : u <= drawn => u # t
    BY <1>1 DEF Tokens
  <1>8. NewSessionIsUnused'
    <2>1. CASE r.awaited
      <3>1. answer' = [ok |-> TRUE, session |-> [token |-> t, expiresAt |-> now + SessionTtl,
                                                 eventsSent |-> 0]]
        BY <2>1 DEF SessionArrives, Reply
      <3>2. answer'.session.token = t /\ answer'.session.eventsSent = 0
        BY <3>1
      <3>. HIDE DEF t
      <3>. QED  BY <1>1, <1>3, <1>5, <1>6, <1>7, <3>2 DEF NewSessionIsUnused
    <2>2. CASE ~r.awaited
      <3>1. answer' = answer
        BY <2>2 DEF SessionArrives, Reply
      <3>. SUFFICES ASSUME answer # None, answer.ok, answer.session # None
                    PROVE  NewSessionIsUnused'
        BY <3>1 DEF NewSessionIsUnused
      <3>2. answer.session \in SessionState
        BY DEF FollowInv, OnceInv, TypeOK, Answer
      <3>3. answer.session.token \in Tokens /\ answer.session.token <= drawn
        BY <3>2 DEF SessionState, FollowInv, OnceInv, EventInv, TokensAreDrawn
      <3>4. sessions'[answer.session.token] = sessions[answer.session.token]
        BY <1>3, <1>7, <3>3
      <3>5. \A q \in requests' : q.kind = "batch" => q.batch.token # answer.session.token
        BY <1>4 DEF Fewer, FollowInv, NewSessionIsUnused
      <3>. QED  BY <1>1, <3>1, <3>4, <3>5 DEF FollowInv, NewSessionIsUnused
    <2>. QED  BY <2>1, <2>2
  <1>9. SessionFollowed'
    <2>. SUFFICES ASSUME session # None PROVE SessionFollowed'
      BY <1>1 DEF SessionFollowed
    <2>1. PICK reach \in [Nat -> Nat] : Follows(reach)
      BY DEF FollowInv, SessionFollowed
    <2>2. sessions'[session.token] = sessions[session.token]
      BY <1>3, <1>6, <1>7
    <2>3. \A q \in requests' : q.kind = "batch" /\ q.batch.token = session.token =>
            q.batch.seq \in 1..seq /\ Fits(reach, q.batch.seq, Len(q.batch.events))
      BY <1>4, <2>1 DEF Follows, Fewer
    <2>4. Follows(reach)'
      BY <1>1, <2>1, <2>2, <2>3 DEF Follows
    <2>. QED  BY <2>4 DEF SessionFollowed
  <1>. QED  BY <1>8, <1>9

\* A batch is accepted: its events are counted to its session.
LEMMA FollowAccepts ==
    ASSUME FollowInv, TypeOK', NEW r \in requests, BatchArrives(r), Accepts(r.batch)
    PROVE  NewSessionIsUnused' /\ SessionFollowed'
  <1>. DEFINE t == r.batch.token
              number == r.batch.seq
              share == Len(r.batch.events)
  <1>1. /\ session' = session /\ seq' = seq /\ Deliver(r) /\ r.kind = "batch"
        /\ ProcessBatch(r.batch) /\ answer' \in {answer, [ok |-> TRUE, session |-> None]}
    BY DEF BatchArrives, clientVars, Reply
  <1>2. sessions \in [Tokens -> Row \cup {None}] /\ session \in SessionState \cup {None} /\ seq \in Nat
    BY DEF FollowInv, OnceInv, TypeOK, BackendTypeOK
  <1>3. t \in Tokens /\ number \in Nat /\ share \in Nat
    <2>1. r.batch \in Batch
      BY <1>1 DEF FollowInv, OnceInv, TypeOK, SessionRequest, BatchRequest
    <2>. QED  BY <2>1, BatchFields
  <1>4. sessions[t] # None /\ number > sessions[t].lastSeq
    BY DEF Accepts, GetSession
  <1>5. sessions[t] \in Row
    BY <1>2, <1>3, <1>4
  <1>6. /\ sessions'[t].lastSeq = number
        /\ sessions'[t].eventCount = sessions[t].eventCount + share
        /\ \A u \in Tokens : u # t => sessions'[u] = sessions[u]
    BY <1>1, <1>2, <1>3, <1>5 DEF ProcessBatch, Row
  <1>7. \A q \in requests' : \E o \in requests : Fewer(q, o)
    BY <1>1, DeliverFacts DEF FollowInv, OnceInv
  <1>8. NewSessionIsUnused'
    <2>. SUFFICES ASSUME answer' # None, answer'.ok, answer'.session # None
                  PROVE  NewSessionIsUnused'
      BY DEF NewSessionIsUnused
    <2>1. answer' = answer
      BY <1>1
    <2>2. answer.session \in SessionState
      BY <2>1 DEF FollowInv, OnceInv, TypeOK, Answer
    <2>3. answer.session.token \in Tokens /\ t # answer.session.token
      BY <1>1, <2>1, <2>2 DEF SessionState, FollowInv, NewSessionIsUnused
    <2>4. sessions'[answer.session.token] = sessions[answer.session.token]
      BY <1>6, <2>3
    <2>5. \A q \in requests' : q.kind = "batch" => q.batch.token # answer.session.token
      BY <1>7, <2>1 DEF Fewer, FollowInv, NewSessionIsUnused
    <2>. QED  BY <1>1, <2>1, <2>4, <2>5 DEF FollowInv, NewSessionIsUnused
  <1>9. SessionFollowed'
    <2>. SUFFICES ASSUME session # None PROVE SessionFollowed'
      BY <1>1 DEF SessionFollowed
    <2>1. PICK reach \in [Nat -> Nat] : Follows(reach)
      BY DEF FollowInv, SessionFollowed
    <2>2. \A q \in requests' : q.kind = "batch" /\ q.batch.token = session.token =>
            q.batch.seq \in 1..seq /\ Fits(reach, q.batch.seq, Len(q.batch.events))
      BY <1>7, <2>1 DEF Follows, Fewer
    <2>3. session.token \in Tokens
      BY <1>2 DEF SessionState
    <2>4. CASE session.token = t
      <3>. DEFINE last == sessions[t].lastSeq
                  count == sessions[t].eventCount
      <3>1. last \in Nat /\ count \in Nat
        BY <1>5 DEF Row
      <3>2. last <= seq /\ count <= reach[last]
        BY <1>4, <2>1, <2>4 DEF Follows
      <3>3. number \in 1..seq /\ Fits(reach, number, share)
        BY <1>1, <2>1, <2>4 DEF Follows
      <3>4. number > last
        BY <1>4
      <3>5. sessions'[t].lastSeq = number /\ sessions'[t].eventCount = count + share
        BY <1>6
      <3>6. Rising(reach, session.eventsSent)
        BY <2>1 DEF Follows
      <3>. HIDE DEF last, count, number, share
      <3>7. number - 1 \in Nat /\ last <= number - 1
        BY <1>2, <3>1, <3>3, <3>4
      <3>8. reach[last] <= reach[number - 1]
        BY <3>1, <3>6, <3>7 DEF Rising
      <3>9. reach[last] \in Nat /\ reach[number - 1] \in Nat /\ reach[number] \in Nat
        BY <1>3, <3>1, <3>7
      <3>10. count + share <= reach[number]
        BY <1>3, <3>1, <3>2, <3>3, <3>8, <3>9 DEF Fits
      <3>11. number <= seq
        BY <1>2, <3>3
      <3>12. /\ sessions'[t].lastSeq <= seq
             /\ sessions'[t].eventCount <= reach[sessions'[t].lastSeq]
        BY <3>5, <3>10, <3>11
      <3>13. Follows(reach)'
        BY <1>1, <2>2, <2>4, <3>6, <3>12 DEF Follows
      <3>. QED  BY <3>13 DEF SessionFollowed
    <2>5. CASE session.token # t
      <3>1. sessions'[session.token] = sessions[session.token]
        BY <1>6, <2>3, <2>5
      <3>2. Follows(reach)'
        BY <1>1, <2>1, <2>2, <3>1 DEF Follows
      <3>. QED  BY <3>2 DEF SessionFollowed
    <2>. QED  BY <2>4, <2>5
  <1>. QED  BY <1>8, <1>9

LEMMA FollowStep == FollowInv /\ [Next]_vars => FollowInv'
  <1>. SUFFICES ASSUME FollowInv, [Next]_vars PROVE FollowInv'
    OBVIOUS
  <1>. USE DEF clientVars, netVars, backendVars
  <1>1. OnceInv /\ OnceInv' /\ TypeOK /\ TypeOK'
    BY OnceStep DEF FollowInv, OnceInv
  <1>2. \A o \in requests : Fewer(o, o)
    BY DEF Fewer
  <1>3. SUFFICES NewSessionIsUnused' /\ SessionFollowed'
    BY <1>1 DEF FollowInv
  <1>4. CASE Track \/ Flush \/ Dispose \/ TimerFires \/ DrainEnds \/ UNCHANGED vars
    <2>1. UNCHANGED <<requests, sessions, session, seq, answer>>
      BY <1>4 DEF Track, Flush, Dispose, TimerFires, DrainEnds, vars
    <2>. QED  BY <1>1, <1>2, <2>1, FollowQuiet
  <1>5. CASE DrainNext
    <2>1. answer = None /\ answer' = None /\ sessions' = sessions
      BY <1>5 DEF DrainNext, OnceInv, OneExchange, FollowInv
    <2>2. CASE Alive(session)
      <3>1. session # None /\ Send(FirstBatch, session)
        BY <1>5, <2>2 DEF DrainNext, Alive
      <3>2. FirstBatch \in Seq(Events)
        BY <1>1, <1>5, BatchFacts DEF DrainNext
      <3>. QED  BY <1>1, <2>1, <3>1, <3>2, FollowSend
    <2>3. CASE ~Alive(session)
      <3>. DEFINE ask == [kind |-> "session", awaited |-> TRUE]
      <3>1. requests' = requests \cup {ask} /\ ask.kind # "batch" /\ session' = session /\ seq' = seq
        BY <1>5, <2>3 DEF DrainNext
      <3>. HIDE DEF ask
      <3>2. NewSessionIsUnused'
        BY <2>1 DEF NewSessionIsUnused
      <3>3. SessionFollowed'
        <4>. SUFFICES ASSUME session # None PROVE SessionFollowed'
          BY <3>1 DEF SessionFollowed
        <4>1. PICK reach \in [Nat -> Nat] : Follows(reach)
          BY DEF FollowInv, SessionFollowed
        <4>2. Follows(reach)'
          BY <2>1, <3>1, <4>1 DEF Follows
        <4>. QED  BY <4>2 DEF SessionFollowed
      <3>. QED  BY <3>2, <3>3
    <2>. QED  BY <2>2, <2>3
  <1>6. CASE ReceiveSession
    <2>1. phase = "session" /\ answer # None /\ answer' = None /\ sessions' = sessions
      BY <1>6 DEF ReceiveSession
    <2>2. CASE answer.ok
      <3>1. answer.session # None /\ Send(inHand, answer.session) /\ inHand \in Seq(Events)
        BY <1>1, <1>6, <2>1, <2>2 DEF ReceiveSession, OnceInv, OneExchange, TypeOK
      <3>. QED  BY <1>1, <2>1, <2>2, <3>1, FollowSendNew
    <2>3. CASE ~answer.ok
      <3>1. requests' = requests /\ session' = None
        BY <1>6, <2>3 DEF ReceiveSession, SessionDenied
      <3>. QED  BY <1>1, <1>2, <2>1, <3>1, FollowQuiet
    <2>. QED  BY <2>2, <2>3
  <1>7. CASE ReceiveBatch
    <2>1. UNCHANGED <<requests, sessions, session, seq>> /\ answer' = None
      BY <1>7 DEF ReceiveBatch, BatchFailed
    <2>. QED  BY <1>1, <1>2, <2>1, FollowQuiet
  <1>8. CASE RequestTimesOut
    <2>1. /\ sessions' = sessions /\ seq' = seq /\ answer' = None
          /\ session' \in {session, None}
      BY <1>8 DEF RequestTimesOut, SessionDenied, BatchFailed
    <2>. QED  BY <1>1, <1>8, <2>1, TimeoutFacts, FollowQuiet
  <1>9. CASE \E r \in requests : SessionArrives(r)
    BY <1>1, <1>9, FollowArrives
  <1>10. ASSUME NEW r \in requests, BatchArrives(r) PROVE NewSessionIsUnused' /\ SessionFollowed'
    <2>1. CASE Accepts(r.batch)
      BY <1>1, <1>10, <2>1, FollowAccepts
    <2>2. CASE ~Accepts(r.batch)
      <3>1. /\ UNCHANGED <<sessions, session, seq>> /\ Deliver(r)
            /\ answer' \in {answer, [ok |-> FALSE]}
        BY <1>10, <2>2 DEF BatchArrives, Reply
      <3>. QED  BY <1>1, <3>1, DeliverFacts, FollowQuiet
    <2>. QED  BY <2>1, <2>2
  <1>11. ASSUME NEW r \in requests, RequestFails(r) PROVE NewSessionIsUnused' /\ SessionFollowed'
    <2>1. /\ UNCHANGED <<sessions, session, seq>> /\ requests' \subseteq requests
          /\ answer' \in {answer, [ok |-> FALSE]}
      BY <1>11 DEF RequestFails, Reply
    <2>. QED  BY <1>1, <1>2, <2>1, FollowQuiet
  <1>12. CASE Cleanup \/ TimePasses
    <2>1. /\ UNCHANGED <<session, seq, requests, answer>>
          /\ \A t \in Tokens : sessions'[t] \in {sessions[t], None}
      BY <1>12 DEF Cleanup, CleanupExpiredSessions, TimePasses, Tick
    <2>. QED  BY <1>1, <1>2, <2>1, FollowQuiet
  <1>. QED
    BY <1>4, <1>5, <1>6, <1>7, <1>8, <1>9, <1>10, <1>11, <1>12 DEF Next, ClientStep

\* The service has never accepted more of the session in use, in numbers or in events,
\* than the client has sent under it: the sequence test of processBatch never takes the
\* client's next batch for a repetition, and its budget is never ahead of eventsSent.
THEOREM ServiceStaysBehind == Spec => []ServiceFollowsClient
  BY FollowInit, FollowStep, FollowImplies, PTL DEF Spec

-----------------------------------------------------------------------------
(* The two figures of the overview agree. *)

\* A batch credits at most one completion, and only to a session that has none.
LEMMA OneCompletionCredited ==
  ASSUME NEW batch, NEW a \in Credited(batch), NEW b \in Credited(batch),
         DOMAIN batch.events \subseteq Nat \ {0}, a \in Completions, b \in Completions
  PROVE  a = b /\ batch.token \notin completions
  <1>. DEFINE passes(j) == /\ batch.token \notin completions
                          /\ \A k \in 1..j - 1 : batch.events[k] \notin Completions
  <1>1. PICK i \in DOMAIN batch.events : batch.events[i] = a /\ passes(i)
    BY DEF Credited
  <1>2. PICK j \in DOMAIN batch.events : batch.events[j] = b /\ passes(j)
    BY DEF Credited
  <1>3. i \in Nat \ {0} /\ j \in Nat \ {0}
    OBVIOUS
  <1>4. ~(i < j) /\ ~(j < i)
    <2>1. i < j => i \in 1..j - 1
      BY <1>3
    <2>2. j < i => j \in 1..i - 1
      BY <1>3
    <2>. QED  BY <1>1, <1>2, <2>1, <2>2
  <1>. QED  BY <1>1, <1>2, <1>3, <1>4

LEMMA ProcessKeepsAgreement ==
  ASSUME TypeOK, CompletionsAgree, NEW batch \in Batch, ProcessBatch(batch)
  PROVE  CompletionsAgree'
  <1>1. /\ batch.token \in Tokens /\ DOMAIN batch.events \subseteq Nat \ {0}
        /\ completions \subseteq Tokens /\ counted \in [Events -> Nat]
        /\ Completions \subseteq Events
    BY BackendAssumption DEF Batch, TypeOK, BackendTypeOK
  <1>2. IsFiniteSet(Completions) /\ IsFiniteSet(completions)
    <2>1. IsFiniteSet(Events) /\ IsFiniteSet(Tokens)
      BY BackendAssumption, FS_Interval DEF Events, Tokens
    <2>. QED  BY <1>1, <2>1, FS_Subset
  <1>3. \A e \in Events :
           counted'[e] = IF e \in Credited(batch) THEN counted[e] + 1 ELSE counted[e]
    BY DEF ProcessBatch
  <1>4. \A e \in Completions : counted[e] \in Nat /\ counted'[e] \in Nat
    BY <1>1, <1>3
  <1>5. CASE Credited(batch) \cap Completions = {}
    <2>1. completions' = completions
      BY <1>5 DEF ProcessBatch
    <2>2. \A e \in Completions : counted'[e] = counted[e]
      BY <1>1, <1>3, <1>5
    <2>3. SumFunctionOnSet(counted', Completions) = SumFunctionOnSet(counted, Completions)
      BY <1>2, <1>4, <2>2, SumSame
    <2>. QED  BY <2>1, <2>3 DEF CompletionsAgree
  <1>6. ASSUME NEW c \in Credited(batch) \cap Completions
        PROVE  CompletionsAgree'
    <2>1. batch.token \notin completions /\ \A e \in Completions \ {c} : e \notin Credited(batch)
      BY <1>1, OneCompletionCredited
    <2>2. completions' = completions \cup {batch.token}
      BY DEF ProcessBatch
    <2>3. c \in Completions /\ counted'[c] = counted[c] + 1
      BY <1>1, <1>3
    <2>4. \A e \in Completions \ {c} : counted'[e] = counted[e]
      BY <1>1, <1>3, <2>1
    <2>5. SumFunctionOnSet(counted', Completions)
            = SumFunctionOnSet(counted, Completions) - counted[c] + counted'[c]
      BY <1>2, <1>4, <2>3, <2>4, SumChanged
    <2>6. Cardinality(completions') = Cardinality(completions) + 1
      BY <1>2, <2>1, <2>2, FS_AddElement
    <2>7. SumFunctionOnSet(counted, Completions) \in Nat /\ counted[c] \in Nat
      BY <1>2, <1>4, <2>3, SumType
    <2>. QED  BY <2>3, <2>5, <2>6, <2>7 DEF CompletionsAgree
  <1>. QED  BY <1>5, <1>6

\* As many completions are in the aggregates as sessions have completed the level:
\* the overview's two figures, of which one adds up days and the other counts rows,
\* are the same whatever is repeated, late, refused or cut off by a timeout.
THEOREM FiguresAgree == Spec => []CompletionsAgree
  <1>1. Init => CompletionsAgree
    <2>. SUFFICES ASSUME Init PROVE CompletionsAgree
      OBVIOUS
    <2>1. completions = {} /\ \A e \in Completions : counted[e] = 0
      BY BackendAssumption DEF Init, BackendInit
    <2>2. IsFiniteSet(Completions)
      <3>1. IsFiniteSet(Events) /\ Completions \in SUBSET Events
        BY BackendAssumption, FS_Interval DEF Events
      <3>. QED  BY <3>1, FS_Subset
    <2>3. {e \in Completions : counted[e] > 0} = {}
      BY <2>1
    <2>4. /\ SumFunctionOnSet(counted, Completions) <= 0 * 0
          /\ SumFunctionOnSet(counted, Completions) \in Nat
      BY <2>1, <2>2, <2>3, SumBounded, SumType, FS_EmptySet
    <2>. QED  BY <2>1, <2>4, FS_EmptySet DEF CompletionsAgree
  <1>2. TypeOK /\ CompletionsAgree /\ [Next]_vars => CompletionsAgree'
    <2>. SUFFICES ASSUME TypeOK, CompletionsAgree, [Next]_vars PROVE CompletionsAgree'
      OBVIOUS
    <2>1. CASE UNCHANGED <<completions, counted>>
      BY <2>1 DEF CompletionsAgree
    <2>2. ASSUME NEW r \in requests, BatchArrives(r), Accepts(r.batch)
          PROVE  CompletionsAgree'
      <3>1. r.batch \in Batch /\ ProcessBatch(r.batch)
        BY <2>2 DEF BatchArrives, TypeOK, SessionRequest, BatchRequest
      <3>. QED  BY <3>1, ProcessKeepsAgreement
    <2>3. ASSUME NEW r \in requests, SessionArrives(r) \/ RequestFails(r)
                                      \/ (BatchArrives(r) /\ ~Accepts(r.batch))
          PROVE  UNCHANGED <<completions, counted>>
      BY <2>3 DEF SessionArrives, RequestFails, BatchArrives, backendVars
    <2>4. CASE Track \/ Flush \/ Dispose \/ ClientStep \/ Cleanup \/ TimePasses \/ UNCHANGED vars
      <3>1. UNCHANGED <<completions, counted>>
        BY <2>4 DEF Track, Flush, Dispose, ClientStep, TimerFires, DrainNext, DrainEnds,
           ReceiveSession, ReceiveBatch, RequestTimesOut, Cleanup, CleanupExpiredSessions,
           TimePasses, Tick, backendVars, vars
      <3>. QED  BY <2>1, <3>1
    <2>. QED  BY <2>1, <2>2, <2>3, <2>4 DEF Next
  <1>. QED  BY <1>1, <1>2, ExchangeIsTyped, PTL DEF Spec
===============================================================================
