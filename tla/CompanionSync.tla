---------------------------- MODULE CompanionSync ----------------------------
(***************************************************************************)
(* The windows of an external tool's companion: the panel in the page and  *)
(* any number of companion windows of the same lab.  Each keeps the whole  *)
(* session and saves it whole; a change is told to the others twice, on a  *)
(* broadcast channel and as a storage event, and the copy that comes       *)
(* second is told by its message id.                                       *)
(*                                                                         *)
(* The selected tool, the tasks and the saved observations are items here: *)
(* each message sets one.  Text that is typed but not saved is left out.   *)
(* Times are written and never read, so they are left out too, and so are  *)
(* clicks that change nothing.                                             *)
(***************************************************************************)
EXTENDS Integers, Sequences, SequencesExt

CONSTANTS
    Windows,
    Items,        \* what a session consists of
    SeenCapacity, \* message ids a window remembers (256 in the code)
    MaxSent,      \* bound on the messages
    Closed        \* a window that is not open; the item of a "ready" message

Session == [Items -> BOOLEAN]

ASSUME SyncAssumption ==
    /\ Closed \notin Items \cup Session
    /\ SeenCapacity \in Nat \ {0} /\ MaxSent \in Nat

VARIABLES
    saved,      \* the stored session
    session,    \* session[w]: what window w shows, or Closed
    seen,       \* seen[w]: remembered message ids, oldest first
    channel,    \* channel[w]: messages the broadcast channel has yet to deliver
    events,     \* events[w]: messages in undelivered storage events
    hasChannel, \* the browser lets the page create a broadcast channel
    sent,       \* messages so far
    applied,    \* history: applied[w] are the messages w acted on
    crossed     \* history: somebody acted on a session that was behind

syncVars ==
    <<saved, session, seen, channel, events, hasChannel, sent, applied, crossed>>

OpenWindows == {w \in Windows : session[w] # Closed}

-----------------------------------------------------------------------------
\* What is on its way to w and was not seen there yet.
Unhandled(w) == {m \in ToSet(channel[w]) \cup ToSet(events[w]) : m.id \notin ToSet(seen[w])}

\* Bound: no copy is overtaken by as many messages as a window remembers.
NoneIsOld ==
    \A w \in Windows : \A m \in ToSet(channel[w]) \cup ToSet(events[w]) :
        sent + 1 - m.id < SeenCapacity

\* publish: the sender knows its own message, the others get it on both paths.
Publish(w, item, value) ==
    LET m == [id |-> sent + 1, from |-> w, item |-> item, value |-> value]
        others == (OpenWindows \cup {w}) \ {w}
        queued(q) == [v \in Windows |-> IF v \in others THEN Append(q[v], m) ELSE q[v]]
    IN  /\ sent < MaxSent /\ NoneIsOld
        /\ sent' = sent + 1
        /\ events' = queued(events)
        /\ channel' = IF hasChannel THEN queued(channel) ELSE channel

\* The component is mounted: it loads the session, listens and says so.
OpenWindow(w) ==
    /\ w \notin OpenWindows
    /\ session' = [session EXCEPT ![w] = saved]
    /\ Publish(w, Closed, FALSE)
    /\ seen' = [seen EXCEPT ![w] = <<sent'>>]
    /\ crossed' = (crossed \/ \E v \in OpenWindows : Unhandled(v) # {})
    /\ UNCHANGED <<saved, hasChannel, applied>>

CloseWindow(w) ==
    /\ w \in OpenWindows
    /\ session' = [session EXCEPT ![w] = Closed]
    /\ seen' = [seen EXCEPT ![w] = <<>>]
    /\ channel' = [channel EXCEPT ![w] = <<>>]
    /\ events' = [events EXCEPT ![w] = <<>>]
    /\ applied' = [applied EXCEPT ![w] = <<>>]
    /\ crossed' = (crossed \/ Unhandled(w) # {})
    /\ UNCHANGED <<saved, hasChannel, sent>>

\* Variant: a change is told but left to the others to save.
ChangeUnsaved(w, item, value) ==
    /\ w \in OpenWindows
    /\ session' = [session EXCEPT ![w][item] = value]
    /\ Publish(w, item, value)
    /\ seen' = [seen EXCEPT ![w] = Append(@, sent')]
    /\ crossed' = (crossed \/ Unhandled(w) # {})
    /\ UNCHANGED <<saved, hasChannel, applied>>

\* selectTool, toggleTask, saveObservation: the session is saved, then told.
Change(w, item, value) ==
    /\ w \in OpenWindows
    /\ session' = [session EXCEPT ![w][item] = value]
    /\ saved' = session'[w]
    /\ Publish(w, item, value)
    /\ seen' = [seen EXCEPT ![w] = Append(@, sent')]
    /\ crossed' = (crossed \/ Unhandled(w) # {})
    /\ UNCHANGED <<hasChannel, applied>>

\* Variant: an id too many is forgotten.
ForgetOneMore(ids) == IF Len(ids) >= SeenCapacity THEN Tail(ids) ELSE ids

\* The oldest id is forgotten when there are more than the window remembers.
Forget(ids) == IF Len(ids) > SeenCapacity THEN Tail(ids) ELSE ids

\* applyMessage: one item is set, and the whole session saved.
Deliver(w, m) ==
    IF m.id \in ToSet(seen[w])
    THEN UNCHANGED <<saved, session, seen, applied>>
    ELSE /\ seen' = [seen EXCEPT ![w] = Forget(Append(@, m.id))]
         /\ session' = IF m.item = Closed THEN session
                       ELSE [session EXCEPT ![w][m.item] = m.value]
         /\ saved' = session'[w]
         /\ applied' = [applied EXCEPT ![w] = Append(@, m)]

ChannelDelivers(w) ==
    /\ channel[w] # <<>>
    /\ Deliver(w, Head(channel[w]))
    /\ channel' = [channel EXCEPT ![w] = Tail(@)]
    /\ UNCHANGED <<events, hasChannel, sent, crossed>>

StorageDelivers(w) ==
    /\ events[w] # <<>>
    /\ Deliver(w, Head(events[w]))
    /\ events' = [events EXCEPT ![w] = Tail(@)]
    /\ UNCHANGED <<channel, hasChannel, sent, crossed>>

SyncInit ==
    /\ saved = [i \in Items |-> FALSE]
    /\ session = [w \in Windows |-> Closed]
    /\ seen = [w \in Windows |-> <<>>]
    /\ channel = [w \in Windows |-> <<>>]
    /\ events = [w \in Windows |-> <<>>]
    /\ hasChannel \in BOOLEAN
    /\ sent = 0
    /\ applied = [w \in Windows |-> <<>>]
    /\ crossed = FALSE

SyncNext ==
    \E w \in Windows :
        \/ OpenWindow(w) \/ CloseWindow(w)
        \/ \E i \in Items : Change(w, i, ~session[w][i])
        \/ ChannelDelivers(w) \/ StorageDelivers(w)

SyncSpec == SyncInit /\ [][SyncNext]_syncVars

-----------------------------------------------------------------------------
(* Properties. *)

\* A window acts on a message once, and on the messages of another window in the
\* order they were sent, whichever path is faster.
OnceAndInOrder ==
    \A w \in Windows : \A i, j \in DOMAIN applied[w] :
        i < j /\ applied[w][i].from = applied[w][j].from
            => applied[w][i].id < applied[w][j].id

\* When every message was acted on, though second copies may still be under way,
\* all windows and the stored session agree; unless a window was changed, opened
\* or closed while a message was under way: times are not compared, and a window
\* that is behind saves its whole session with every message, a "ready" included.
WindowsAgree ==
    ~crossed /\ (\A w \in OpenWindows : Unhandled(w) = {}) =>
        \A w \in OpenWindows : session[w] = saved
=============================================================================
