----------------------------- MODULE SerialParser -----------------------------
(* The serial line carries ordinary output and control lines.  The parser is   *)
(* fed whatever chunks the emulator's buffer happens to be emptied in, takes   *)
(* the control lines out of the text and passes the rest on to the terminal.   *)
(* A character is one of six: text, a newline, the two halves of the marker    *)
(* @@HASHTEAM:, and the JSON of a telemetry command or of another message.     *)
EXTENDS Integers, Sequences, SequencesExt

CONSTANTS
    Streams,        \* what the guest may send
    MaxBuffer       \* MAX_BUFFER_LENGTH, in such characters

VARIABLES
    stream,         \* what the guest sends on this line
    wire,           \* the part of it not received yet
    held,           \* the parser's buffer
    shown,          \* text passed to the terminal
    messages,       \* control messages passed to the page
    open            \* the session is not disposed

serialVars == <<stream, wire, held, shown, messages, open>>

Marker == <<"@@", "HASHTEAM:">>
Newline == "newline"
Telemetry == "telemetry"
Message == "message"
Characters == {"text", "@@", "HASHTEAM:", Newline, Telemetry, Message}
ASSUME SerialAssumption == Streams \subseteq Seq(Characters) /\ MaxBuffer \in Nat
Nothing == [display |-> <<>>, messages |-> <<>>, line |-> <<>>]

(* parseMessage: what is not exactly one valid message is ignored.             *)
ParseMessage(json) == IF json \in {<<Telemetry>>, <<Message>>} THEN json ELSE <<>>

MarkerStarts(line) == {i \in DOMAIN line : IsPrefix(Marker, SubSeq(line, i, Len(line)))}

(* One line: a control line at its start is hidden, valid or not; after other  *)
(* text only a telemetry command is taken out, together with its newline.      *)
ParseLine(line) ==
    LET found == MarkerStarts(line)
        at == CHOOSE i \in found : \A j \in found : i <= j
        json == ParseMessage(SubSeq(line, at + Len(Marker), Len(line)))
    IN IF found = {} THEN [Nothing EXCEPT !.display = Append(line, Newline)]
       ELSE IF at = 1 THEN [Nothing EXCEPT !.messages = json]
       ELSE IF json = <<Telemetry>>
            THEN [Nothing EXCEPT !.display = SubSeq(line, 1, at - 1), !.messages = json]
       ELSE [Nothing EXCEPT !.display = Append(line, Newline)]

(* The loop over the buffer: a newline ends a line, which is passed on; what    *)
(* is behind the last one stays in the buffer, called line here.               *)
Read(line, c) ==
    IF c # Newline THEN [Nothing EXCEPT !.line = Append(line, c)] ELSE ParseLine(line)
Reading(line, text) ==
    LET upTo[n \in 0 .. Len(text)] ==
            IF n = 0 THEN [Nothing EXCEPT !.line = line]
            ELSE LET p == Read(upTo[n - 1].line, text[n])
                 IN [display |-> upTo[n - 1].display \o p.display,
                     messages |-> upTo[n - 1].messages \o p.messages,
                     line |-> p.line]
    IN upTo

\* Variant: an open line is held only once its marker is complete.
MayBecomeControlComplete(line) == IsPrefix(Marker, line)

(* An open line is held back while it may still turn out to be a control line. *)
MayBecomeControl(line) == IsPrefix(Marker, line) \/ IsPrefix(line, Marker)
Holds(line) == Len(line) <= MaxBuffer /\ MayBecomeControl(line)

(* feed(chunk), with a line in the buffer.                                     *)
Parsed(line, chunk) ==
    LET r == Reading(line, chunk)[Len(chunk)]
    IN [display |-> r.display \o IF Holds(r.line) THEN <<>> ELSE r.line,
        messages |-> r.messages,
        held |-> IF Holds(r.line) THEN r.line ELSE <<>>]

SerialInit ==
    /\ stream \in Streams /\ wire = stream
    /\ held = <<>> /\ shown = <<>> /\ messages = <<>> /\ open = TRUE

Feed(n) ==
    /\ open /\ n <= Len(wire)
    /\ LET p == Parsed(held, SubSeq(wire, 1, n)) IN
        /\ shown' = shown \o p.display
        /\ messages' = messages \o p.messages
        /\ held' = p.held
    /\ wire' = SubSeq(wire, n + 1, Len(wire))
    /\ UNCHANGED <<stream, open>>

(* dispose: what is held is flushed; of an open control line nothing is shown  *)
(* and its message is dropped.                                                 *)
Flushed(line) == IF IsPrefix(Marker, line) THEN <<>> ELSE line
DisposeSerial ==
    /\ open
    /\ open' = FALSE /\ held' = <<>>
    /\ shown' = shown \o Flushed(held)
    /\ UNCHANGED <<stream, wire, messages>>

SerialNext == DisposeSerial \/ \E n \in 1 .. Len(wire) : Feed(n)
SerialSpec == SerialInit /\ [][SerialNext]_serialVars

-----------------------------------------------------------------------------
(* Control lines that start a line and fit into the buffer.                    *)
WellPlaced(text) ==
    \A n \in 0 .. Len(text) :
        LET line == Reading(<<>>, text)[n].line
        IN MarkerStarts(line) \subseteq {1} /\ Len(line) <= MaxBuffer

(* The chunks are invisible: at any time the page has got and the terminal     *)
(* shown what one chunk of the same text would have given them, in the same    *)
(* order, and the end of the session adds the line still held.                 *)
ChunksAreInvisible ==
    WellPlaced(stream) =>
        LET received == SubSeq(stream, 1, Len(stream) - Len(wire))
            whole == Parsed(<<>>, received)
        IN /\ messages = whole.messages
           /\ shown \o held = whole.display \o IF open THEN whole.held
                                               ELSE Flushed(whole.held)
=============================================================================
