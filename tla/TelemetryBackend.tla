--------------------------- MODULE TelemetryBackend ---------------------------
(***************************************************************************)
(* The telemetry service behind the edge functions: anonymous sessions, the *)
(* batches of events they send, and what is counted.  Node runs a handler   *)
(* and its SQLite transaction without interruption, so each is one action;  *)
(* what is committed survives a restart of the process.  The event log only *)
(* repeats what is counted, with a time, and is left out.                   *)
(*                                                                         *)
(* Events have identities here, so that it can be said how often one was    *)
(* counted; the tables only hold sums per module, metric and dimension.     *)
(* All completions are of one level, the other events are alike.            *)
(***************************************************************************)
EXTENDS Integers, Sequences, SequencesExt, FiniteSets

CONSTANTS
    MaxEvents,      \* events a page reports
    Completions,    \* those that report the completion of the level
    Unlisted,       \* those the service's lists do not contain (an older profile)
    MaxSessions,    \* session tokens the edge function may draw
    SessionTtl,     \* life of a session
    SessionBudget,  \* events a session may submit
    MaxTime,        \* last tick of the clock
    None

Events == 1..MaxEvents
Tokens == 1..MaxSessions
Time == 0..MaxTime

ASSUME BackendAssumption ==
    /\ MaxEvents \in Nat /\ MaxSessions \in Nat /\ MaxTime \in Nat
    /\ SessionTtl \in Nat /\ SessionBudget \in Nat
    /\ Completions \subseteq Events /\ Unlisted \subseteq Events

\* A row of the table sessions.  Its module is bound by its first batch, hence
\* exactly when lastSeq is no longer 0.
Row == [expiresAt : 0..MaxTime + SessionTtl, lastSeq : Nat, eventCount : Nat]

ASSUME NoRow == None \notin Row

VARIABLES
    now,          \* the service's clock
    sessions,     \* table sessions, by token
    completions,  \* table completions: the tokens that have completed the level
    counted       \* how often each event went into the aggregates and the event log

backendVars == <<now, sessions, completions, counted>>

BackendInit ==
    /\ now = 0
    /\ sessions = [t \in Tokens |-> None]
    /\ completions = {}
    /\ counted = [e \in Events |-> 0]

-----------------------------------------------------------------------------
CreateSession(t) ==
    sessions' = [sessions EXCEPT ![t] =
                    [expiresAt |-> now + SessionTtl, lastSeq |-> 0, eventCount |-> 0]]

GetSession(t) ==
    IF sessions[t] # None /\ sessions[t].expiresAt >= now THEN sessions[t] ELSE None

\* validateEvent() holds of every event.
Listed(batch) == Range(batch.events) \cap Unlisted = {}

\* Variant: a repetition of the last batch passes.
AcceptsLastAgain(batch) ==
    LET row == GetSession(batch.token) IN
    /\ row # None
    /\ batch.seq >= row.lastSeq
    /\ Listed(batch)
    /\ row.eventCount + Len(batch.events) <= SessionBudget

\* The session exists and is alive, the number is new, every event is listed, and
\* the budget lasts.  Batches of the page's client pass the other tests.
Accepts(batch) ==
    LET row == GetSession(batch.token) IN
    /\ row # None
    /\ batch.seq > row.lastSeq
    /\ Listed(batch)
    /\ row.eventCount + Len(batch.events) <= SessionBudget

\* Variant: a completion that the session reported before is counted.
CreditedAgain(batch) ==
    {batch.events[i] : i \in DOMAIN batch.events}

\* What processEvent counts, one event after the other: everything, but a
\* completion only once in a session.
Credited(batch) ==
    {batch.events[i] : i \in
        {j \in DOMAIN batch.events : batch.events[j] \in Completions =>
            /\ batch.token \notin completions
            /\ \A k \in 1..j - 1 : batch.events[k] \notin Completions}}

ProcessBatch(batch) ==
    LET credited == Credited(batch) IN
    /\ counted' = [e \in Events |-> IF e \in credited THEN counted[e] + 1 ELSE counted[e]]
    /\ completions' = IF credited \cap Completions = {} THEN completions
                      ELSE completions \cup {batch.token}
    /\ sessions' = [sessions EXCEPT
                       ![batch.token].lastSeq = batch.seq,
                       ![batch.token].eventCount = @ + Len(batch.events)]

CleanupExpiredSessions ==
    /\ sessions' = [t \in Tokens |->
                       IF sessions[t] # None /\ sessions[t].expiresAt < now
                       THEN None ELSE sessions[t]]
    /\ UNCHANGED <<now, completions, counted>>

Tick ==
    /\ now < MaxTime
    /\ now' = now + 1
    /\ UNCHANGED <<sessions, completions, counted>>

-----------------------------------------------------------------------------
BackendTypeOK ==
    /\ now \in Time
    /\ sessions \in [Tokens -> Row \cup {None}]
    /\ completions \subseteq Tokens
    /\ counted \in [Events -> Nat]

\* The two figures of the overview agree: as many completions are counted in the
\* aggregates as there are rows of completions.
CompletionsAgree ==
    SumFunctionOnSet(counted, Completions) = Cardinality(completions)
===============================================================================
