------------------------------ MODULE GuestProofs ------------------------------
(***************************************************************************)
(* Proofs about the guest, for any course, levels, labs and prerequisites   *)
(* and any program in the debugger.  VmNavigation: the page and the guest   *)
(* are never silently apart, whatever the user and another tab do and any   *)
(* number of lines and messages on their way.  HtCheck and Debugger, which  *)
(* run in the guest together: commands that are cut off, machines that      *)
(* start over, and a child that does anything the processor allows.         *)
(* SerialParser: any stream, cut into any chunks.                           *)
(***************************************************************************)
EXTENDS VmNavigation, Debugger, SerialParser, DataLemmas, SequenceTheorems,
        FiniteSetTheorems, TLAPS

-----------------------------------------------------------------------------
(***************************************************************************)
(* SerialParser: what a line is turned into, character by character.       *)
(***************************************************************************)
Texts == Seq(Characters)
Results == [display : Texts, messages : Texts, line : Texts]

LEMMA MarkerAt ==
    ASSUME NEW line \in Texts, NEW i \in Int
    PROVE  i \in MarkerStarts(line)
             <=> /\ i >= 1 /\ i + 1 <= Len(line)
                 /\ line[i] = "@@" /\ line[i + 1] = "HASHTEAM:"
  <1>1. DOMAIN line = 1 .. Len(line) /\ Len(line) \in Nat
    BY LenProperties DEF Texts
  <1>2. CASE i < 1 \/ i > Len(line)
    <2>1. i \notin DOMAIN line
      BY <1>1, <1>2
    <2>2. ~(i >= 1 /\ i + 1 <= Len(line))
      BY <1>1, <1>2
    <2>. QED  BY <2>1, <2>2 DEF MarkerStarts
  <1>3. CASE i >= 1 /\ i <= Len(line)
    <2>. DEFINE rest == SubSeq(line, i, Len(line))
    <2>1. \A j \in i .. Len(line) : line[j] \in Characters
      BY <1>1, <1>3, ElementOfSeq DEF Texts
    <2>2. /\ rest \in Texts
          /\ Len(rest) = Len(line) - i + 1
          /\ \A j \in 1 .. Len(line) - i + 1 : rest[j] = line[i + j - 1]
      BY <1>1, <1>3, <2>1, SubSeqProperties DEF Texts
    <2>. HIDE DEF rest
    <2>3. Len(Marker) = 2 /\ Marker[1] = "@@" /\ Marker[2] = "HASHTEAM:"
      BY DEF Marker
    <2>4. Marker \in Texts
      BY DEF Marker, Texts, Characters
    <2>5. SubSeq(Marker, 1, 2) = Marker
      BY <2>3, <2>4, SubSeqFull DEF Texts
    <2>6. i \in MarkerStarts(line) <=> IsPrefix(Marker, rest)
      BY <1>1, <1>3 DEF MarkerStarts, rest
    <2>7. IsPrefix(Marker, rest) <=> /\ 2 <= Len(rest)
                                     /\ SubSeq(rest, 1, 2) = Marker
      BY <2>3, <2>5 DEF IsPrefix
    <2>8. CASE Len(rest) < 2
      BY <1>1, <1>3, <2>2, <2>6, <2>7, <2>8
    <2>9. CASE Len(rest) >= 2
      <3>. DEFINE two == SubSeq(rest, 1, 2)
      <3>1. /\ two \in Texts /\ Len(two) = 2
            /\ two[1] = rest[1] /\ two[2] = rest[2]
        <4>1. \A j \in 1 .. 2 : rest[j] \in Characters
          BY <2>2, <2>9, ElementOfSeq DEF Texts
        <4>2. /\ two \in Texts /\ Len(two) = 2
              /\ \A j \in 1 .. 2 : two[j] = rest[j]
          BY <4>1, SubSeqProperties DEF Texts
        <4>. QED  BY <4>2
      <3>. HIDE DEF two
      <3>2. two = Marker <=> two[1] = "@@" /\ two[2] = "HASHTEAM:"
        <4>1. ASSUME two[1] = "@@", two[2] = "HASHTEAM:" PROVE two = Marker
          <5>1. \A j \in 1 .. Len(two) : two[j] = Marker[j]
            BY <3>1, <2>3, <4>1
          <5>. QED  BY <5>1, <3>1, <2>3, <2>4, SeqEqual DEF Texts
        <4>. QED  BY <4>1, <2>3
      <3>3. rest[1] = line[i] /\ rest[2] = line[i + 1]
        BY <1>1, <1>3, <2>2, <2>9
      <3>. QED  BY <1>1, <1>3, <2>2, <2>6, <2>7, <2>9, <3>1, <3>2, <3>3 DEF two
    <2>. QED  BY <1>1, <1>3, <2>2, <2>8, <2>9
  <1>. QED  BY <1>1, <1>2, <1>3

LEMMA ParseLineType ==
    ASSUME NEW line \in Texts
    PROVE  ParseLine(line) \in Results /\ ParseLine(line).line = <<>>
  <1>. DEFINE found == MarkerStarts(line)
              at == CHOOSE i \in found : \A j \in found : i <= j
              json == ParseMessage(SubSeq(line, at + Len(Marker), Len(line)))
  <1>1. Len(line) \in Nat /\ DOMAIN line = 1 .. Len(line)
    BY LenProperties DEF Texts
  <1>2. json \in Texts
    <2>1. Telemetry \in Characters /\ Message \in Characters
      BY DEF Characters
    <2>2. <<Telemetry>> \in Texts /\ <<Message>> \in Texts /\ <<>> \in Texts
      BY <2>1 DEF Texts
    <2>3. \A x : ParseMessage(x) \in {<<Telemetry>>, <<Message>>, <<>>}
      BY DEF ParseMessage
    <2>. QED  BY <2>2, <2>3
  <1>3. <<>> \in Texts
    BY DEF Texts
  <1>4. Append(line, Newline) \in Texts
    BY AppendProperties DEF Texts, Characters
  <1>5. found # {} => SubSeq(line, 1, at - 1) \in Texts
    <2>. SUFFICES ASSUME found # {} PROVE SubSeq(line, 1, at - 1) \in Texts
      OBVIOUS
    <2>1. found \subseteq 1 .. Len(line)
      BY <1>1 DEF MarkerStarts
    <2>2. found \subseteq Nat
      BY <2>1
    <2>3. \E i \in found : \A j \in found : i <= j
      BY <2>2, LeastNumber
    <2>4. at \in found
      BY <2>3
    <2>5. at \in 1 .. Len(line)
      BY <2>1, <2>4
    <2>. HIDE DEF at
    <2>6. at - 1 \in Int /\ \A j \in 1 .. at - 1 : line[j] \in Characters
      BY <2>5, <1>1, ElementOfSeq DEF Texts
    <2>. QED  BY <2>6, SubSeqProperties DEF Texts
  <1>. HIDE DEF found, at, json
  <1>6. ParseLine(line) =
          IF found = {} THEN [Nothing EXCEPT !.display = Append(line, Newline)]
          ELSE IF at = 1 THEN [Nothing EXCEPT !.messages = json]
          ELSE IF json = <<Telemetry>>
               THEN [Nothing EXCEPT !.display = SubSeq(line, 1, at - 1), !.messages = json]
          ELSE [Nothing EXCEPT !.display = Append(line, Newline)]
    BY DEF ParseLine, found, at, json
  <1>7. Nothing \in Results /\ Nothing.line = <<>>
    BY <1>3 DEF Nothing, Results
  <1>. QED  BY <1>2, <1>3, <1>4, <1>5, <1>6, <1>7 DEF Results, Nothing

LEMMA ReadType ==
    ASSUME NEW line \in Texts, NEW c \in Characters
    PROVE  Read(line, c) \in Results
  <1>1. <<>> \in Texts /\ Append(line, c) \in Texts
    BY AppendProperties DEF Texts
  <1>2. ParseLine(line) \in Results
    BY ParseLineType
  <1>. QED  BY <1>1, <1>2 DEF Read, Results, Nothing

-----------------------------------------------------------------------------
(* The recursive function of Reading exists, and it is the only one. *)

At(line) == [Nothing EXCEPT !.line = line]
After(r, c) ==
    LET p == Read(r.line, c)
    IN [display |-> r.display \o p.display,
        messages |-> r.messages \o p.messages,
        line |-> p.line]
IsReading(f, line, text, m) ==
    /\ f \in [0 .. m -> Results]
    /\ f[0] = At(line)
    /\ \A n \in 1 .. m : f[n] = After(f[n - 1], text[n])

LEMMA AfterType ==
    ASSUME NEW r \in Results, NEW c \in Characters
    PROVE  After(r, c) \in Results
  <1>1. Read(r.line, c) \in Results
    BY ReadType DEF Results
  <1>. DEFINE p == Read(r.line, c)
  <1>. HIDE DEF p
  <1>2. p \in Results
    BY <1>1 DEF p
  <1>3. r.display \o p.display \in Texts /\ r.messages \o p.messages \in Texts
    BY <1>2, ConcatProperties DEF Results, Texts
  <1>. QED  BY <1>2, <1>3 DEF After, Results, p

LEMMA AtType ==
    ASSUME NEW line \in Texts
    PROVE  At(line) = [display |-> <<>>, messages |-> <<>>, line |-> line] /\ At(line) \in Results
  <1>1. <<>> \in Texts
    BY DEF Texts
  <1>. QED  BY <1>1 DEF At, Nothing, Results

LEMMA ReadingExists ==
    ASSUME NEW line \in Texts, NEW text \in Texts, NEW m \in 0 .. Len(text)
    PROVE  \E f : IsReading(f, line, text, m)
  <1>. DEFINE bad == {k \in 0 .. Len(text) : ~ \E f : IsReading(f, line, text, k)}
  <1>1. Len(text) \in Nat /\ \A k \in 1 .. Len(text) : text[k] \in Characters
    BY LenProperties, ElementOfSeq DEF Texts
  <1>2. SUFFICES ASSUME bad # {} PROVE FALSE
    OBVIOUS
  <1>3. bad \subseteq 0 .. Len(text)
    OBVIOUS
  <1>. HIDE DEF bad
  <1>4. PICK k \in bad : k - 1 \notin bad
    BY <1>1, <1>2, <1>3, NatSteps
  <1>5. k # 0
    <2>. DEFINE f == [i \in 0 .. 0 |-> At(line)]
    <2>1. IsReading(f, line, text, 0)
      BY AtType DEF IsReading
    <2>. QED  BY <2>1, <1>1 DEF bad
  <1>6. k \in 1 .. Len(text) /\ k - 1 \in 0 .. Len(text)
    BY <1>3, <1>4, <1>5, <1>1
  <1>7. PICK f : IsReading(f, line, text, k - 1)
    BY <1>4, <1>6 DEF bad
  <1>. DEFINE g == [i \in 0 .. k |-> IF i = k THEN After(f[k - 1], text[k]) ELSE f[i]]
  <1>8. f \in [0 .. k - 1 -> Results] /\ f[0] = At(line)
        /\ \A n \in 1 .. k - 1 : f[n] = After(f[n - 1], text[n])
    BY <1>7 DEF IsReading
  <1>9. After(f[k - 1], text[k]) \in Results
    <2>1. f[k - 1] \in Results
      BY <1>6, <1>8
    <2>. QED  BY <2>1, <1>1, <1>6, AfterType
  <1>10. g \in [0 .. k -> Results]
    BY <1>6, <1>8, <1>9
  <1>11. g[0] = At(line)
    BY <1>6, <1>8
  <1>12. \A n \in 1 .. k : g[n] = After(g[n - 1], text[n])
    <2>1. ASSUME NEW n \in 1 .. k PROVE g[n] = After(g[n - 1], text[n])
      <3>1. g[n - 1] = f[n - 1]
        BY <1>6
      <3>2. CASE n = k
        <4>1. g[n] = After(f[k - 1], text[k])
          BY <1>6, <3>2
        <4>. QED  BY <3>1, <3>2, <4>1
      <3>3. CASE n # k
        <4>1. n \in 1 .. k - 1 /\ g[n] = f[n]
          BY <1>6, <3>3
        <4>. QED  BY <1>8, <3>1, <4>1
      <3>. QED  BY <3>2, <3>3
    <2>. QED  BY <2>1
  <1>. HIDE DEF g
  <1>13. IsReading(g, line, text, k)
    BY <1>10, <1>11, <1>12 DEF IsReading
  <1>. QED  BY <1>4, <1>13 DEF bad

LEMMA ReadingIs ==
    ASSUME NEW line \in Texts, NEW text \in Texts
    PROVE  IsReading(Reading(line, text), line, text, Len(text))
  <1>1. Len(text) \in Nat
    BY LenProperties DEF Texts
  <1>2. PICK f : IsReading(f, line, text, Len(text))
    BY <1>1, ReadingExists
  <1>. DEFINE Body(g) == [n \in 0 .. Len(text) |->
                  IF n = 0 THEN [Nothing EXCEPT !.line = line]
                  ELSE LET p == Read(g[n - 1].line, text[n])
                       IN [display |-> g[n - 1].display \o p.display,
                           messages |-> g[n - 1].messages \o p.messages,
                           line |-> p.line]]
  <1>3. Reading(line, text) = CHOOSE g : g = Body(g)
    BY DEF Reading
  <1>4. f = Body(f)
    <2>1. f \in [0 .. Len(text) -> Results]
      BY <1>2 DEF IsReading
    <2>2. \A n \in 0 .. Len(text) : f[n] = Body(f)[n]
      <3>. SUFFICES ASSUME NEW n \in 0 .. Len(text) PROVE f[n] = Body(f)[n]
        OBVIOUS
      <3>1. CASE n = 0
        BY <1>2, <3>1, <1>1 DEF IsReading, At
      <3>2. CASE n # 0
        <4>1. n \in 1 .. Len(text)
          BY <1>1, <3>2
        <4>2. f[n] = After(f[n - 1], text[n])
          BY <1>2, <4>1 DEF IsReading
        <4>3. Body(f)[n] = After(f[n - 1], text[n])
          BY <3>2 DEF After
        <4>. QED  BY <4>2, <4>3
      <3>. QED  BY <3>1, <3>2
    <2>. HIDE DEF Body
    <2>3. Body(f) = [n \in 0 .. Len(text) |-> Body(f)[n]]
      BY DEF Body
    <2>4. f = [n \in 0 .. Len(text) |-> f[n]]
      BY <2>1
    <2>. QED  BY <2>2, <2>3, <2>4
  <1>. DEFINE r == Reading(line, text)
  <1>. HIDE DEF r
  <1>5. r = Body(r)
    <2>. HIDE DEF Body
    <2>. QED  BY <1>3, <1>4 DEF r
  <1>6. r[0] = At(line)
    BY <1>1, <1>5 DEF At
  <1>7. \A n \in 1 .. Len(text) : r[n] = After(r[n - 1], text[n])
    <2>. SUFFICES ASSUME NEW n \in 1 .. Len(text) PROVE r[n] = After(r[n - 1], text[n])
      OBVIOUS
    <2>1. r[n] = Body(r)[n] /\ n \in 0 .. Len(text) /\ n # 0
      <3>. HIDE DEF Body
      <3>. QED  BY <1>5, <1>1
    <2>2. Body(r)[n] = After(r[n - 1], text[n])
      BY <2>1 DEF After
    <2>. QED  BY <2>1, <2>2
  <1>8. r = [n \in 0 .. Len(text) |-> r[n]]
    <2>1. Body(r) = [n \in 0 .. Len(text) |-> Body(r)[n]]
      OBVIOUS
    <2>. HIDE DEF Body
    <2>. QED  BY <2>1, <1>5
  <1>. HIDE DEF Body
  <1>9. \A n \in 0 .. Len(text) : r[n] = f[n]
    <2>. DEFINE off == {n \in 0 .. Len(text) : r[n] # f[n]}
    <2>1. SUFFICES ASSUME off # {} PROVE FALSE
      OBVIOUS
    <2>2. off \subseteq 0 .. Len(text)
      OBVIOUS
    <2>. HIDE DEF off
    <2>3. PICK n \in off : n - 1 \notin off
      BY <1>1, <2>1, <2>2, NatSteps
    <2>4. n # 0
      BY <1>1, <1>2, <1>6 DEF off, IsReading
    <2>5. n \in 1 .. Len(text) /\ n - 1 \in 0 .. Len(text)
      BY <1>1, <2>2, <2>3, <2>4
    <2>6. r[n - 1] = f[n - 1]
      BY <2>3, <2>5 DEF off
    <2>7. f[n] = After(f[n - 1], text[n])
      BY <1>2, <2>5 DEF IsReading
    <2>8. r[n] = After(r[n - 1], text[n])
      BY <1>7, <2>5
    <2>. QED  BY <2>3, <2>6, <2>7, <2>8 DEF off
  <1>10. r = f
    <2>1. f = [n \in 0 .. Len(text) |-> f[n]]
      BY <1>2 DEF IsReading
    <2>. QED  BY <1>8, <1>9, <2>1
  <1>. QED  BY <1>2, <1>10 DEF r

SameUpTo(m, text, other) == \A n \in 1 .. m : text[n] = other[n]
\* Of two texts of which one starts the other, the readings agree that far.
LEMMA ReadingsAgree ==
    ASSUME NEW line \in Texts, NEW f, NEW g, NEW text, NEW other, NEW k \in Nat, NEW m \in 0 .. k,
           IsReading(f, line, text, k), IsReading(g, line, other, m),
           SameUpTo(m, text, other)
    PROVE  \A n \in 0 .. m : g[n] = f[n]
  <1>. DEFINE off == {n \in 0 .. m : g[n] # f[n]}
  <1>1. SUFFICES ASSUME off # {} PROVE FALSE
    OBVIOUS
  <1>2. off \subseteq 0 .. m /\ m \in Nat
    OBVIOUS
  <1>. HIDE DEF off
  <1>3. PICK n \in off : n - 1 \notin off
    BY <1>1, <1>2, NatSteps
  <1>4. n # 0
    BY <1>2 DEF off, IsReading
  <1>5. n \in 1 .. m /\ n \in 1 .. k /\ n - 1 \in 0 .. m
    BY <1>2, <1>3, <1>4
  <1>6. g[n - 1] = f[n - 1]
    BY <1>3, <1>5 DEF off
  <1>7. f[n] = After(f[n - 1], text[n])
    BY <1>5 DEF IsReading
  <1>8. g[n] = After(g[n - 1], other[n])
    BY <1>5 DEF IsReading
  <1>9. text[n] = other[n]
    BY <1>5 DEF SameUpTo
  <1>. QED  BY <1>3, <1>6, <1>7, <1>8, <1>9 DEF off

-----------------------------------------------------------------------------
(***************************************************************************)
(* What has come out of the parser, against one reading of the whole text: *)
(* the open line may have been passed on up to some place, but then it can *)
(* no longer become a control line.                                        *)
(***************************************************************************)
Ahead(p) == p = <<>> \/ ~MayBecomeControl(p)
Match(r, out) ==
    \E p \in Texts :
        /\ Ahead(p)
        /\ out.display = r.display \o p
        /\ r.line = p \o out.line
        /\ out.messages = r.messages
SoundLine(line) == MarkerStarts(line) \subseteq {1} /\ Len(line) <= MaxBuffer

LEMMA ControlLines ==
    ASSUME NEW line \in Texts
    PROVE  MayBecomeControl(line)
             <=> \/ line = <<>>
                 \/ Len(line) = 1 /\ line[1] = "@@"
                 \/ Len(line) >= 2 /\ line[1] = "@@" /\ line[2] = "HASHTEAM:"
  <1>1. Len(line) \in Nat /\ DOMAIN line = 1 .. Len(line)
    BY LenProperties DEF Texts
  <1>2. /\ Marker \in Texts /\ Len(Marker) = 2
        /\ Marker[1] = "@@" /\ Marker[2] = "HASHTEAM:"
    BY DEF Marker, Texts, Characters
  <1>3. SubSeq(Marker, 1, 2) = Marker
    BY <1>2, SubSeqFull DEF Texts
  <1>4. \A k \in 0 .. Len(line) : SubSeq(line, 1, k) \in Texts /\ Len(SubSeq(line, 1, k)) = k
               /\ \A j \in 1 .. k : SubSeq(line, 1, k)[j] = line[j]
    <2>. SUFFICES ASSUME NEW k \in 0 .. Len(line)
                  PROVE  SubSeq(line, 1, k) \in Texts /\ Len(SubSeq(line, 1, k)) = k
                         /\ \A j \in 1 .. k : SubSeq(line, 1, k)[j] = line[j]
      OBVIOUS
    <2>1. \A j \in 1 .. k : line[j] \in Characters
      BY <1>1, ElementOfSeq DEF Texts
    <2>. QED  BY <1>1, <2>1, SubSeqProperties DEF Texts
  <1>5. IsPrefix(Marker, line) <=> Len(line) >= 2 /\ line[1] = "@@" /\ line[2] = "HASHTEAM:"
    <2>1. IsPrefix(Marker, line) <=> Len(line) >= 2 /\ SubSeq(line, 1, 2) = Marker
      BY <1>1, <1>2, <1>3 DEF IsPrefix
    <2>2. ASSUME Len(line) >= 2
          PROVE  SubSeq(line, 1, 2) = Marker <=> line[1] = "@@" /\ line[2] = "HASHTEAM:"
      <3>. DEFINE two == SubSeq(line, 1, 2)
      <3>1. two \in Texts /\ Len(two) = 2 /\ two[1] = line[1] /\ two[2] = line[2]
        BY <1>1, <1>4, <2>2
      <3>. HIDE DEF two
      <3>2. ASSUME two[1] = "@@", two[2] = "HASHTEAM:" PROVE two = Marker
        <4>1. \A j \in 1 .. Len(two) : two[j] = Marker[j]
          BY <3>1, <1>2, <3>2
        <4>. QED  BY <4>1, <3>1, <1>2, SeqEqual DEF Texts
      <3>. QED  BY <3>1, <3>2, <1>2 DEF two
    <2>. QED  BY <2>1, <2>2
  <1>6. IsPrefix(line, Marker)
          <=> Len(line) <= 2 /\ \A j \in 1 .. Len(line) : line[j] = Marker[j]
    <2>1. SubSeq(line, 1, Len(line)) = line
      BY SubSeqFull DEF Texts
    <2>. DEFINE start == SubSeq(Marker, 1, Len(line))
    <2>2. ASSUME Len(line) <= 2
          PROVE  start \in Texts /\ Len(start) = Len(line) /\ \A j \in 1 .. Len(line) : start[j] = Marker[j]
      <3>1. \A j \in 1 .. Len(line) : Marker[j] \in Characters
        <4>1. \A j \in 1 .. 2 : Marker[j] \in Characters
          BY <1>2, ElementOfSeq DEF Texts
        <4>. QED  BY <4>1, <1>1, <2>2
      <3>. QED  BY <3>1, <1>1, SubSeqProperties DEF Texts
    <2>3. IsPrefix(line, Marker) <=> Len(line) <= 2 /\ line = start
      BY <2>1, <1>2 DEF IsPrefix
    <2>. HIDE DEF start
    <2>4. ASSUME Len(line) <= 2
          PROVE  line = start <=> \A j \in 1 .. Len(line) : line[j] = Marker[j]
      <3>1. ASSUME \A j \in 1 .. Len(line) : line[j] = Marker[j] PROVE line = start
        <4>1. \A j \in 1 .. Len(line) : line[j] = start[j]
          BY <2>2, <2>4, <3>1
        <4>. QED  BY <4>1, <2>2, <2>4, SeqEqual DEF Texts
      <3>. QED  BY <3>1, <2>2, <2>4
    <2>. QED  BY <2>3, <2>4
  <1>7. line = <<>> <=> Len(line) = 0
    BY EmptySeq DEF Texts
  <1>8. CASE Len(line) = 0
    <2>1. IsPrefix(line, Marker)
      BY <1>6, <1>8
    <2>. QED  BY <2>1, <1>7, <1>8 DEF MayBecomeControl
  <1>9. CASE Len(line) = 1
    BY <1>1, <1>2, <1>5, <1>6, <1>7, <1>9 DEF MayBecomeControl
  <1>10. CASE Len(line) = 2
    BY <1>1, <1>2, <1>5, <1>6, <1>7, <1>10 DEF MayBecomeControl
  <1>11. CASE Len(line) > 2
    BY <1>1, <1>2, <1>5, <1>6, <1>7, <1>11 DEF MayBecomeControl
  <1>. QED  BY <1>1, <1>8, <1>9, <1>10, <1>11

LEMMA PrefixMarker ==
    ASSUME NEW line \in Texts
    PROVE  IsPrefix(Marker, line) <=> 1 \in MarkerStarts(line)
  <1>1. Len(line) \in Nat /\ DOMAIN line = 1 .. Len(line)
    BY LenProperties DEF Texts
  <1>2. Len(Marker) = 2
    BY DEF Marker
  <1>3. CASE Len(line) = 0
    <2>1. ~IsPrefix(Marker, line)
      BY <1>1, <1>2, <1>3 DEF IsPrefix
    <2>. QED  BY <2>1, <1>1, <1>3 DEF MarkerStarts
  <1>4. CASE Len(line) > 0
    <2>1. SubSeq(line, 1, Len(line)) = line
      BY SubSeqFull DEF Texts
    <2>2. 1 \in DOMAIN line
      BY <1>1, <1>4
    <2>3. 1 \in MarkerStarts(line) <=> IsPrefix(Marker, SubSeq(line, 1, Len(line)))
      BY <2>2, Zenon DEF MarkerStarts
    <2>. QED  BY <2>1, <2>3
  <1>. QED  BY <1>1, <1>3, <1>4

\* A line that cannot become a control line still cannot when it grows.
LEMMA PassedOnStaysPassedOn ==
    ASSUME NEW p \in Texts, NEW l \in Texts, p # <<>>, ~MayBecomeControl(p)
    PROVE  /\ ~MayBecomeControl(p \o l)
           /\ p \o l # <<>>
           /\ 1 \notin MarkerStarts(p \o l)
           /\ \A i \in MarkerStarts(l) : Len(p) + i \in MarkerStarts(p \o l)
  <1>. DEFINE w == p \o l
  <1>1. Len(p) \in Nat /\ Len(l) \in Nat /\ Len(p) > 0
    BY LenProperties, EmptySeq DEF Texts
  <1>2. w \in Texts /\ Len(w) = Len(p) + Len(l)
        /\ \A i \in 1 .. Len(p) + Len(l) : w[i] = IF i <= Len(p) THEN p[i] ELSE l[i - Len(p)]
    BY ConcatProperties DEF Texts
  <1>. HIDE DEF w
  <1>3. w[1] = p[1]
    BY <1>1, <1>2
  <1>4. Len(p) >= 2 => w[2] = p[2]
    BY <1>1, <1>2
  <1>5. w # <<>>
    BY <1>1, <1>2, EmptySeq
  <1>6. ~(p[1] = "@@") \/ (Len(p) >= 2 /\ ~(p[2] = "HASHTEAM:"))
    <2>1. ~(\/ p = <<>>
            \/ Len(p) = 1 /\ p[1] = "@@"
            \/ Len(p) >= 2 /\ p[1] = "@@" /\ p[2] = "HASHTEAM:")
      BY ControlLines
    <2>2. ASSUME p[1] = "@@" PROVE Len(p) >= 2 /\ p[2] # "HASHTEAM:"
      <3>1. Len(p) # 1
        BY <2>1, <2>2
      <3>2. Len(p) >= 2
        <4>1. \A n \in Nat : n > 0 /\ n # 1 => n >= 2
          OBVIOUS
        <4>. QED  BY <1>1, <3>1, <4>1, Zenon
      <3>. QED  BY <2>1, <2>2, <3>2
    <2>. QED  BY <2>2
  <1>7. ~MayBecomeControl(w)
    <2>1. MayBecomeControl(w) => /\ w = <<>> \/ w[1] = "@@"
                                 /\ w = <<>> \/ Len(w) = 1 \/ w[2] = "HASHTEAM:"
      BY <1>2, ControlLines
    <2>2. CASE p[1] = "@@"
      <3>1. Len(w) # 1 /\ w[2] # "HASHTEAM:"
        BY <1>1, <1>2, <1>4, <1>6, <2>2
      <3>. QED  BY <1>5, <2>1, <3>1
    <2>3. CASE p[1] # "@@"
      BY <1>3, <1>5, <2>1, <2>3
    <2>. QED  BY <2>2, <2>3
  <1>8. 1 \notin MarkerStarts(w)
    BY <1>2, <1>3, <1>4, <1>6, MarkerAt
  <1>9. ASSUME NEW i \in MarkerStarts(l) PROVE Len(p) + i \in MarkerStarts(w)
    <2>1. i \in Int
      <3>1. DOMAIN l = 1 .. Len(l)
        BY LenProperties DEF Texts
      <3>. QED  BY <3>1, <1>1 DEF MarkerStarts
    <2>2. i >= 1 /\ i + 1 <= Len(l) /\ l[i] = "@@" /\ l[i + 1] = "HASHTEAM:"
      BY <1>9, <2>1, MarkerAt
    <2>3. w[Len(p) + i] = l[i] /\ w[Len(p) + i + 1] = l[i + 1]
      <3>1. Len(p) + i \in 1 .. Len(p) + Len(l) /\ Len(p) + i + 1 \in 1 .. Len(p) + Len(l)
            /\ ~(Len(p) + i <= Len(p)) /\ ~(Len(p) + i + 1 <= Len(p))
            /\ Len(p) + i - Len(p) = i /\ Len(p) + i + 1 - Len(p) = i + 1
        BY <1>1, <2>1, <2>2
      <3>. DEFINE j == Len(p) + i
      <3>2. j \in 1 .. Len(p) + Len(l) /\ ~(j <= Len(p)) /\ j - Len(p) = i
        BY <1>1, <2>1, <2>2
      <3>3. j + 1 \in 1 .. Len(p) + Len(l) /\ ~(j + 1 <= Len(p)) /\ j + 1 - Len(p) = i + 1
        BY <1>1, <2>1, <2>2
      <3>. HIDE DEF j
      <3>4. w[j] = l[j - Len(p)] /\ w[j + 1] = l[j + 1 - Len(p)]
        BY <3>2, <3>3, <1>2
      <3>5. w[j] = l[i] /\ w[j + 1] = l[i + 1]
        BY <3>2, <3>3, <3>4
      <3>. QED  BY <3>5 DEF j
    <2>4. Len(p) + i >= 1 /\ Len(p) + i + 1 <= Len(w) /\ Len(p) + i \in Int
      BY <1>1, <1>2, <2>1, <2>2
    <2>. QED  BY <1>2, <2>2, <2>3, <2>4, MarkerAt
  <1>. QED  BY <1>5, <1>7, <1>8, <1>9 DEF w

LEMMA JoinAssociative ==
    \A x, y, z \in Texts : (x \o y) \o z = x \o (y \o z)
  BY ConcatAssociative DEF Texts

LEMMA TextsJoin ==
    /\ \A x, y, z \in Texts : (x \o y) \o z = x \o (y \o z)
    /\ \A x, y \in Texts : x \o y \in Texts
    /\ \A x \in Texts : x \o <<>> = x /\ <<>> \o x = x
    /\ <<>> \in Texts
  <1>1. \A x, y, z \in Texts : (x \o y) \o z = x \o (y \o z)
    BY ConcatAssociative DEF Texts
  <1>2. \A x, y \in Texts : x \o y \in Texts
    BY ConcatProperties DEF Texts
  <1>3. \A x \in Texts : x \o <<>> = x /\ <<>> \o x = x
    BY ConcatEmptySeq DEF Texts
  <1>. QED  BY <1>1, <1>2, <1>3 DEF Texts

\* Reading one more character on both sides keeps the match.
LEMMA MatchGoesOn ==
    ASSUME NEW r \in Results, NEW out \in Results, NEW c \in Characters,
           Match(r, out), SoundLine(r.line)
    PROVE  Match(After(r, c), After(out, c))
  <1>1. PICK p \in Texts : /\ Ahead(p) /\ out.display = r.display \o p
                           /\ r.line = p \o out.line /\ out.messages = r.messages
    BY DEF Match
  <1>. DEFINE l == out.line  d == r.display  w == r.line
  <1>2. l \in Texts /\ d \in Texts /\ w \in Texts /\ r.messages \in Texts /\ out.display \in Texts
    BY DEF Results
  <1>. HIDE DEF l, d, w
  <1>3. <<>> \in Texts /\ Ahead(<<>>)
    BY DEF Texts, Ahead
  <1>4. Read(w, c) \in Results /\ Read(l, c) \in Results
    BY <1>2, ReadType
  <1>5. After(r, c) = [display |-> d \o Read(w, c).display,
                       messages |-> r.messages \o Read(w, c).messages, line |-> Read(w, c).line]
    BY DEF After, d, w
  <1>6. After(out, c) = [display |-> out.display \o Read(l, c).display,
                         messages |-> out.messages \o Read(l, c).messages, line |-> Read(l, c).line]
    BY DEF After, l
  <1>7. CASE c # Newline
    <2>1. Read(w, c) = [display |-> <<>>, messages |-> <<>>, line |-> Append(w, c)]
          /\ Read(l, c) = [display |-> <<>>, messages |-> <<>>, line |-> Append(l, c)]
      BY <1>7 DEF Read, Nothing
    <2>2. d \o <<>> = d /\ out.display \o <<>> = out.display
      BY <1>2, ConcatEmptySeq DEF Texts
    <2>3. Append(w, c) = p \o Append(l, c)
      <3>1. <<c>> \in Texts
        BY DEF Texts
      <3>2. Append(w, c) = w \o <<c>> /\ Append(l, c) = l \o <<c>>
        BY <1>2, AppendIsConcat DEF Texts
      <3>3. (p \o l) \o <<c>> = p \o (l \o <<c>>)
        BY <1>2, <3>1, JoinAssociative, Zenon
      <3>. QED  BY <1>1, <3>2, <3>3 DEF w, l
    <2>. DEFINE a == After(r, c)  b == After(out, c)
    <2>4. r.messages \o <<>> = r.messages /\ out.messages \o <<>> = r.messages
      BY <1>1, <1>2, TextsJoin
    <2>5. a = [display |-> d, messages |-> r.messages, line |-> Append(w, c)]
      BY <1>5, <2>1, <2>2, <2>4
    <2>6. b = [display |-> out.display, messages |-> r.messages, line |-> Append(l, c)]
      <3>1. b = [display |-> out.display \o <<>>, messages |-> out.messages \o <<>>, line |-> Append(l, c)]
        BY <1>6, <2>1
      <3>. QED  BY <3>1, <2>2, <2>4
    <2>. HIDE DEF a, b
    <2>7. b.display = a.display \o p /\ a.line = p \o b.line /\ b.messages = a.messages
      BY <1>1, <2>3, <2>5, <2>6 DEF d
    <2>8. Match(a, b)
      BY <1>1, <2>7 DEF Match
    <2>. QED  BY <2>8 DEF a, b
  <1>8. CASE c = Newline
    <2>1. Read(w, c) = ParseLine(w) /\ Read(l, c) = ParseLine(l)
      BY <1>8 DEF Read
    <2>2. ParseLine(w).line = <<>> /\ ParseLine(l).line = <<>>
      BY <1>2, ParseLineType
    <2>3. <<>> \o <<>> = <<>>
      BY <1>3, ConcatEmptySeq DEF Texts
    <2>4. \A x \in Texts : x \o <<>> = x /\ <<>> \o x = x
      BY ConcatEmptySeq DEF Texts
    <2>5. CASE p = <<>>
      <3>1. w = l
        BY <1>1, <1>2, <2>4, <2>5 DEF w, l
      <3>2. out.display = d
        BY <1>1, <1>2, <2>4, <2>5 DEF d
      <3>3. d \o ParseLine(w).display \in Texts
        BY <1>2, <1>4, <2>1, ConcatProperties DEF Texts, Results
      <3>. DEFINE a == After(r, c)  b == After(out, c)
      <3>4. a = b
        BY <1>1, <1>5, <1>6, <3>1, <3>2
      <3>5. a.display \in Texts /\ a.line = <<>>
        BY <1>5, <2>1, <2>2, <3>3
      <3>. HIDE DEF a, b
      <3>6. a.display = a.display \o <<>> /\ a.line = <<>> \o a.line
        BY <3>5, <2>4, <2>3
      <3>7. Match(a, b)
        BY <3>4, <3>6, <1>3 DEF Match
      <3>. QED  BY <3>7 DEF a, b
    <2>6. CASE p # <<>>
      <3>1. ~MayBecomeControl(p)
        BY <1>1, <2>6 DEF Ahead
      <3>2. w = p \o l
        BY <1>1 DEF w, l
      <3>3. 1 \notin MarkerStarts(w) /\ \A i \in MarkerStarts(l) : Len(p) + i \in MarkerStarts(w)
        BY <1>2, <2>6, <3>1, <3>2, PassedOnStaysPassedOn
      <3>4. MarkerStarts(w) = {}
        BY <3>3 DEF SoundLine, w
      <3>5. MarkerStarts(l) = {}
        BY <3>3, <3>4
      <3>6. ParseLine(w) = [display |-> Append(w, Newline), messages |-> <<>>, line |-> <<>>]
            /\ ParseLine(l) = [display |-> Append(l, Newline), messages |-> <<>>, line |-> <<>>]
        BY <3>4, <3>5 DEF ParseLine, Nothing
      <3>. DEFINE nl == <<Newline>>
      <3>7. nl \in Texts
        BY <1>8 DEF Texts
      <3>8. Append(w, Newline) = w \o nl /\ Append(l, Newline) = l \o nl
        BY <1>2, <1>8, AppendIsConcat DEF Texts
      <3>. HIDE DEF nl
      <3>9. d \o (w \o nl) = out.display \o (l \o nl)
        <4>1. w \o nl = p \o (l \o nl)
          <5>1. p \in Texts /\ l \in Texts /\ nl \in Texts
            BY <1>2, <3>7
          <5>2. (p \o l) \o nl = p \o (l \o nl)
            BY <5>1, JoinAssociative, Zenon
          <5>. QED  BY <3>2, <5>2
        <4>2. l \o nl \in Texts
          BY <1>2, <3>7, ConcatProperties DEF Texts
        <4>. DEFINE q == l \o nl
        <4>. HIDE DEF q
        <4>3. (d \o p) \o q = d \o (p \o q)
          <5>1. d \in Texts /\ p \in Texts /\ q \in Texts
            BY <1>2, <4>2 DEF q
          <5>. QED  BY <5>1, JoinAssociative, Zenon
        <4>. QED  BY <1>1, <4>1, <4>3 DEF d, q
      <3>10. d \o (w \o nl) \in Texts
        BY <1>2, <3>7, ConcatProperties DEF Texts
      <3>. DEFINE a == After(r, c)  b == After(out, c)
      <3>11. a.display = d \o (w \o nl) /\ b.display = out.display \o (l \o nl)
             /\ a.line = <<>> /\ b.line = <<>> /\ a.messages = b.messages
        <4>1. a = [display |-> d \o (w \o nl), messages |-> r.messages \o <<>>, line |-> <<>>]
          BY <1>5, <2>1, <3>6, <3>8
        <4>2. b = [display |-> out.display \o (l \o nl), messages |-> out.messages \o <<>>, line |-> <<>>]
          BY <1>6, <2>1, <3>6, <3>8
        <4>. HIDE DEF a, b
        <4>. QED  BY <1>1, <4>1, <4>2
      <3>. HIDE DEF a, b
      <3>12. b.display = a.display \o <<>> /\ a.line = <<>> \o b.line
        BY <3>9, <3>10, <3>11, <2>3, <2>4
      <3>13. Match(a, b)
        BY <3>11, <3>12, <1>3 DEF Match
      <3>. QED  BY <3>13 DEF a, b
    <2>. QED  BY <2>5, <2>6
  <1>. QED  BY <1>7, <1>8

-----------------------------------------------------------------------------
(***************************************************************************)
(* SerialParser: any cut into chunks gives the same.                       *)
(***************************************************************************)
Out == [display |-> shown, messages |-> messages, line |-> held]
SerialTypes ==
    /\ stream \in Texts /\ wire \in Texts /\ Len(wire) <= Len(stream)
    /\ \A i \in 1 .. Len(wire) : wire[i] = stream[Len(stream) - Len(wire) + i]
    /\ Out \in Results
Received == Len(stream) - Len(wire)
SerialInv ==
    /\ SerialTypes
    /\ WellPlaced(stream) =>
        IF open THEN Holds(held) /\ Match(Reading(<<>>, stream)[Received], Out)
        ELSE ChunksAreInvisible

LEMMA HoldsNothing == Holds(<<>>)
  <1>1. <<>> \in Texts
    BY DEF Texts
  <1>2. MayBecomeControl(<<>>)
    BY <1>1, ControlLines
  <1>. QED  BY SerialAssumption, <1>2 DEF Holds

LEMMA ReadingType ==
    ASSUME NEW line \in Texts, NEW text \in Texts
    PROVE  /\ Reading(line, text) \in [0 .. Len(text) -> Results]
           /\ Reading(line, text)[0] = At(line)
           /\ \A n \in 1 .. Len(text) :
                Reading(line, text)[n] = After(Reading(line, text)[n - 1], text[n])
  BY ReadingIs DEF IsReading

LEMMA SoundLines ==
    ASSUME NEW text \in Texts, WellPlaced(text)
    PROVE  \A n \in 0 .. Len(text) : SoundLine(Reading(<<>>, text)[n].line)
  BY DEF WellPlaced, SoundLine

\* Reading a beginning of the stream is reading the stream that far.
LEMMA ReadingOfAPart ==
    ASSUME NEW text \in Texts, NEW m \in 0 .. Len(text)
    PROVE  /\ SubSeq(text, 1, m) \in Texts /\ Len(SubSeq(text, 1, m)) = m
           /\ Reading(<<>>, SubSeq(text, 1, m))[m] = Reading(<<>>, text)[m]
  <1>. DEFINE part == SubSeq(text, 1, m)
  <1>1. Len(text) \in Nat /\ \A i \in 1 .. Len(text) : text[i] \in Characters
    BY LenProperties, ElementOfSeq DEF Texts
  <1>2. part \in Texts /\ Len(part) = m /\ \A i \in 1 .. m : part[i] = text[i]
    <2>1. \A i \in 1 .. m : text[i] \in Characters
      BY <1>1
    <2>. QED  BY <1>1, <2>1, SubSeqProperties DEF Texts
  <1>. HIDE DEF part
  <1>3. <<>> \in Texts
    BY DEF Texts
  <1>. DEFINE f == Reading(<<>>, text)  g == Reading(<<>>, part)
  <1>4. IsReading(f, <<>>, text, Len(text)) /\ IsReading(g, <<>>, part, m)
    <2>1. IsReading(g, <<>>, part, Len(part))
      BY <1>2, <1>3, ReadingIs
    <2>. QED  BY <1>2, <1>3, <2>1, ReadingIs
  <1>. HIDE DEF f, g
  <1>5. SameUpTo(m, text, part)
    BY <1>2 DEF SameUpTo
  <1>6. \A n \in 0 .. m : g[n] = f[n]
    <2>. DEFINE k == Len(text)  none == <<>>
    <2>1. k \in Nat /\ m \in 0 .. k
      BY <1>1
    <2>2. none \in Texts /\ IsReading(f, none, text, k) /\ IsReading(g, none, part, m)
      BY <1>3, <1>4
    <2>. HIDE DEF k, none
    <2>. QED  BY <1>5, <2>1, <2>2, ReadingsAgree
  <1>7. m \in 0 .. m
    BY <1>1
  <1>8. g[m] = f[m]
    BY <1>6, <1>7
  <1>. QED  BY <1>2, <1>8 DEF f, g, part

\* A chunk read on top of the buffer follows the reading of the stream.
LEMMA ChunkFollows ==
    ASSUME SerialTypes, NEW n \in 1 .. Len(wire),
           \A i \in 0 .. Len(stream) : SoundLine(Reading(<<>>, stream)[i].line),
           Match(Reading(<<>>, stream)[Received], Out)
    PROVE  LET r == Reading(held, SubSeq(wire, 1, n))[n]
           IN /\ r \in Results
              /\ Match(Reading(<<>>, stream)[Received + n],
                       [display |-> shown \o r.display, messages |-> messages \o r.messages,
                        line |-> r.line])
  <1>. DEFINE chunk == SubSeq(wire, 1, n)
              R == Reading(<<>>, stream)
              S == Reading(held, chunk)
              Total(s) == [display |-> shown \o s.display, messages |-> messages \o s.messages,
                           line |-> s.line]
              bad == {j \in 0 .. n : ~Match(R[Received + j], Total(S[j]))}
  <1>1. /\ Len(stream) \in Nat /\ Len(wire) \in Nat /\ Len(wire) <= Len(stream)
        /\ \A i \in 1 .. Len(stream) : stream[i] \in Characters
        /\ \A i \in 1 .. Len(wire) : wire[i] \in Characters
        /\ n \in Nat /\ n <= Len(wire)
        /\ held \in Texts /\ shown \in Texts /\ messages \in Texts /\ <<>> \in Texts
    BY LenProperties, ElementOfSeq DEF SerialTypes, Texts, Out, Results
  <1>2. /\ chunk \in Texts /\ Len(chunk) = n
        /\ \A i \in 1 .. n : chunk[i] = wire[i]
    <2>1. \A i \in 1 .. n : wire[i] \in Characters
      BY <1>1
    <2>. QED  BY <1>1, <2>1, SubSeqProperties DEF Texts
  <1>. HIDE DEF chunk
  <1>3. Received \in Nat /\ Received + n <= Len(stream)
    BY <1>1 DEF Received
  <1>4. \A i \in 1 .. n : chunk[i] = stream[Received + i]
    <2>1. ASSUME NEW i \in 1 .. n PROVE chunk[i] = stream[Received + i]
      <3>1. i \in 1 .. Len(wire)
        BY <1>1
      <3>2. wire[i] = stream[Len(stream) - Len(wire) + i]
        BY <3>1 DEF SerialTypes
      <3>. QED  BY <1>2, <3>2 DEF Received
    <2>. QED  BY <2>1
  <1>5. /\ R \in [0 .. Len(stream) -> Results]
        /\ \A i \in 1 .. Len(stream) : R[i] = After(R[i - 1], stream[i])
    BY <1>1, ReadingType DEF SerialTypes
  <1>6. /\ S \in [0 .. n -> Results] /\ S[0] = At(held)
        /\ \A i \in 1 .. n : S[i] = After(S[i - 1], chunk[i])
    BY <1>1, <1>2, ReadingType
  <1>7. \A s \in Results : Total(s) \in Results
    BY <1>1, TextsJoin DEF Results
  <1>8. \A s \in Results, c \in Characters : Total(After(s, c)) = After(Total(s), c)
    <2>. SUFFICES ASSUME NEW s \in Results, NEW c \in Characters
                  PROVE  Total(After(s, c)) = After(Total(s), c)
      OBVIOUS
    <2>. DEFINE p == Read(s.line, c)
    <2>1. p \in Results
      BY ReadType DEF Results
    <2>. HIDE DEF p
    <2>2. Total(s).line = s.line
      OBVIOUS
    <2>3. After(s, c) = [display |-> s.display \o p.display, messages |-> s.messages \o p.messages,
                         line |-> p.line]
      BY DEF After, p
    <2>4. After(Total(s), c) = [display |-> (shown \o s.display) \o p.display,
                                messages |-> (messages \o s.messages) \o p.messages, line |-> p.line]
      BY <2>2 DEF After, p
    <2>5. Total(After(s, c)) = [display |-> shown \o (s.display \o p.display),
                                messages |-> messages \o (s.messages \o p.messages), line |-> p.line]
      BY <2>3
    <2>6. /\ s.display \in Texts /\ s.messages \in Texts
          /\ p.display \in Texts /\ p.messages \in Texts
      BY <2>1 DEF Results
    <2>7. (shown \o s.display) \o p.display = shown \o (s.display \o p.display)
      <3>. DEFINE x == s.display  y == p.display
      <3>1. x \in Texts /\ y \in Texts /\ shown \in Texts
        BY <1>1, <2>6
      <3>. HIDE DEF x, y
      <3>2. (shown \o x) \o y = shown \o (x \o y)
        BY <3>1, JoinAssociative, Zenon
      <3>. QED  BY <3>2 DEF x, y
    <2>8. (messages \o s.messages) \o p.messages = messages \o (s.messages \o p.messages)
      <3>. DEFINE x == s.messages  y == p.messages
      <3>1. x \in Texts /\ y \in Texts /\ messages \in Texts
        BY <1>1, <2>6
      <3>. HIDE DEF x, y
      <3>2. (messages \o x) \o y = messages \o (x \o y)
        BY <3>1, JoinAssociative, Zenon
      <3>. QED  BY <3>2 DEF x, y
    <2>. QED  BY <2>4, <2>5, <2>7, <2>8
  <1>9. Match(R[Received], Total(S[0]))
    <2>1. S[0] = [display |-> <<>>, messages |-> <<>>, line |-> held]
      BY <1>1, <1>6, AtType
    <2>2. shown \o <<>> = shown /\ messages \o <<>> = messages
      BY <1>1, TextsJoin
    <2>3. Total(S[0]) = Out
      BY <2>1, <2>2 DEF Out
    <2>. QED  BY <2>3
  <1>. HIDE DEF R, S, Total
  <1>10. bad = {}
    <2>. SUFFICES ASSUME bad # {} PROVE FALSE
      OBVIOUS
    <2>1. bad \subseteq 0 .. n
      OBVIOUS
    <2>. HIDE DEF bad
    <2>2. PICK j \in bad : j - 1 \notin bad
      BY <1>1, <2>1, NatSteps
    <2>3. Received + 0 = Received
      BY <1>3
    <2>4. j # 0
      BY <1>9, <2>2, <2>3 DEF bad
    <2>5. j \in 1 .. n /\ j - 1 \in 0 .. n
      BY <1>1, <2>1, <2>2, <2>4
    <2>. DEFINE i == Received + j
    <2>6. i \in 1 .. Len(stream) /\ i - 1 \in 0 .. Len(stream) /\ Received + (j - 1) = i - 1
      BY <1>1, <1>3, <2>5
    <2>7. chunk[j] = stream[i] /\ stream[i] \in Characters
      BY <1>1, <1>4, <2>5, <2>6
    <2>. HIDE DEF i
    <2>8. Match(R[i - 1], Total(S[j - 1]))
      BY <2>2, <2>5, <2>6 DEF bad
    <2>9. R[i - 1] \in Results /\ SoundLine(R[i - 1].line) /\ S[j - 1] \in Results
      BY <1>5, <1>6, <2>5, <2>6 DEF R
    <2>. DEFINE a == R[i - 1]  b == Total(S[j - 1])  c == stream[i]
    <2>10. a \in Results /\ b \in Results /\ c \in Characters /\ Match(a, b) /\ SoundLine(a.line)
      BY <1>7, <2>7, <2>8, <2>9
    <2>11. R[i] = After(a, c)
      BY <1>5, <2>6
    <2>12. Total(S[j]) = After(b, c)
      <3>1. S[j] = After(S[j - 1], c)
        BY <1>6, <2>5, <2>7
      <3>. QED  BY <1>8, <2>7, <2>9, <3>1
    <2>. HIDE DEF a, b, c
    <2>13. Match(After(a, c), After(b, c))
      BY <2>10, MatchGoesOn
    <2>14. Match(R[i], Total(S[j]))
      BY <2>11, <2>12, <2>13
    <2>. QED  BY <2>2, <2>14 DEF bad, i
  <1>11. S[n] \in Results /\ Match(R[Received + n], Total(S[n]))
    BY <1>1, <1>6, <1>10
  <1>. QED  BY <1>11 DEF R, S, Total, chunk

LEMMA SerialInit_Inv == SerialInit => SerialInv
  <1>. SUFFICES ASSUME SerialInit PROVE SerialInv
    OBVIOUS
  <1>1. <<>> \in Texts /\ stream \in Texts
    BY SerialAssumption DEF SerialInit, Texts
  <1>2. Len(stream) \in Nat
    BY <1>1, LenProperties DEF Texts
  <1>3. SerialTypes
    <2>1. \A i \in 1 .. Len(wire) : wire[i] = stream[Len(stream) - Len(wire) + i]
      BY <1>2 DEF SerialInit
    <2>2. Len(wire) <= Len(stream)
      BY <1>2 DEF SerialInit
    <2>. QED  BY <1>1, <2>1, <2>2 DEF SerialTypes, SerialInit, Out, Results
  <1>4. Received = 0
    BY <1>2 DEF Received, SerialInit
  <1>5. Reading(<<>>, stream)[0] = [display |-> <<>>, messages |-> <<>>, line |-> <<>>]
    BY <1>1, ReadingType, AtType
  <1>6. Out = [display |-> <<>>, messages |-> <<>>, line |-> <<>>]
    BY DEF Out, SerialInit
  <1>7. <<>> = <<>> \o <<>>
    BY <1>1, TextsJoin
  <1>8. Match(Reading(<<>>, stream)[0], Out)
    BY <1>1, <1>5, <1>6, <1>7 DEF Match, Ahead
  <1>9. open /\ Holds(held)
    BY HoldsNothing DEF SerialInit
  <1>. QED  BY <1>3, <1>4, <1>8, <1>9 DEF SerialInv

LEMMA SerialInv_Property ==
    ASSUME SerialInv
    PROVE  ChunksAreInvisible
  <1>. SUFFICES ASSUME WellPlaced(stream), open PROVE ChunksAreInvisible
    BY DEF SerialInv, ChunksAreInvisible
  <1>. DEFINE r == Reading(<<>>, stream)[Received]
              part == SubSeq(stream, 1, Received)
              whole == Parsed(<<>>, part)
  <1>1. Len(stream) \in Nat /\ Received \in 0 .. Len(stream)
        /\ held \in Texts /\ shown \in Texts /\ stream \in Texts
    <2>1. Len(stream) \in Nat /\ Len(wire) \in Nat /\ Len(wire) <= Len(stream)
      BY LenProperties DEF SerialInv, SerialTypes, Texts
    <2>. QED  BY <2>1 DEF Received, SerialInv, SerialTypes, Out, Results
  <1>2. r \in Results
    <2>1. <<>> \in Texts
      BY TextsJoin
    <2>. QED  BY <1>1, <2>1, ReadingType
  <1>3. Len(part) = Received /\ Reading(<<>>, part)[Received] = r
    BY <1>1, ReadingOfAPart
  <1>. HIDE DEF r
  <1>4. Holds(held) /\ Match(r, Out)
    BY DEF SerialInv, r
  <1>5. PICK p \in Texts : /\ Ahead(p) /\ shown = r.display \o p
                           /\ r.line = p \o held /\ messages = r.messages
    BY <1>4 DEF Match, Out
  <1>6. whole = [display |-> r.display \o IF Holds(r.line) THEN <<>> ELSE r.line,
                 messages |-> r.messages,
                 held |-> IF Holds(r.line) THEN r.line ELSE <<>>]
    BY <1>3 DEF Parsed
  <1>. HIDE DEF whole
  <1>7. r.display \in Texts /\ r.line \in Texts
    BY <1>2 DEF Results
  <1>8. whole.display \o whole.held = r.display \o r.line
    <2>1. CASE Holds(r.line)
      <3>1. whole.display = r.display /\ whole.held = r.line
        BY <1>6, <1>7, <2>1, TextsJoin
      <3>. QED  BY <3>1
    <2>2. CASE ~Holds(r.line)
      <3>1. whole.display = r.display \o r.line /\ whole.held = <<>>
        BY <1>6, <2>2
      <3>2. r.display \o r.line \in Texts
        BY <1>7, TextsJoin
      <3>. QED  BY <3>1, <3>2, TextsJoin
    <2>. QED  BY <2>1, <2>2
  <1>9. shown \o held = r.display \o r.line
    <2>. DEFINE d == r.display
    <2>1. d \in Texts /\ p \in Texts /\ held \in Texts
      BY <1>1, <1>7
    <2>. HIDE DEF d
    <2>2. (d \o p) \o held = d \o (p \o held)
      BY <2>1, JoinAssociative, Zenon
    <2>. QED  BY <1>5, <2>2 DEF d
  <1>10. messages = whole.messages
    BY <1>5, <1>6
  <1>. QED  BY <1>8, <1>9, <1>10 DEF ChunksAreInvisible, whole, Received

LEMMA FeedKeeps ==
    ASSUME SerialInv, NEW n \in 1 .. Len(wire), Feed(n)
    PROVE  SerialInv'
  <1>. DEFINE chunk == SubSeq(wire, 1, n)
              r == Reading(held, chunk)[n]
  <1>1. /\ Len(stream) \in Nat /\ Len(wire) \in Nat /\ Len(wire) <= Len(stream)
        /\ \A i \in 1 .. Len(wire) : wire[i] \in Characters
        /\ n \in Nat /\ n <= Len(wire) /\ n >= 1
        /\ held \in Texts /\ shown \in Texts /\ messages \in Texts /\ <<>> \in Texts
        /\ wire \in Texts /\ stream \in Texts
    BY LenProperties, ElementOfSeq DEF SerialInv, SerialTypes, Texts, Out, Results
  <1>2. chunk \in Texts /\ Len(chunk) = n
    <2>1. \A i \in 1 .. n : wire[i] \in Characters
      BY <1>1
    <2>. QED  BY <1>1, <2>1, SubSeqProperties DEF Texts
  <1>3. r \in Results
    <2>1. Reading(held, chunk) \in [0 .. Len(chunk) -> Results]
      BY <1>1, <1>2, ReadingType
    <2>. QED  BY <1>1, <1>2, <2>1
  <1>4. /\ open /\ open' = open /\ stream' = stream
        /\ wire' = SubSeq(wire, n + 1, Len(wire))
        /\ shown' = shown \o Parsed(held, chunk).display
        /\ messages' = messages \o Parsed(held, chunk).messages
        /\ held' = Parsed(held, chunk).held
    BY DEF Feed
  <1>5. Parsed(held, chunk) = [display |-> r.display \o IF Holds(r.line) THEN <<>> ELSE r.line,
                               messages |-> r.messages,
                               held |-> IF Holds(r.line) THEN r.line ELSE <<>>]
    BY <1>2 DEF Parsed
  <1>. HIDE DEF r, chunk
  <1>6. /\ shown' = shown \o (r.display \o IF Holds(r.line) THEN <<>> ELSE r.line)
        /\ messages' = messages \o r.messages
        /\ held' = IF Holds(r.line) THEN r.line ELSE <<>>
    <2>. DEFINE new == Parsed(held, chunk)
                more == IF Holds(r.line) THEN <<>> ELSE r.line
                kept == IF Holds(r.line) THEN r.line ELSE <<>>
    <2>1. new = [display |-> r.display \o more, messages |-> r.messages, held |-> kept]
      BY <1>5
    <2>2. shown' = shown \o new.display /\ messages' = messages \o new.messages /\ held' = new.held
      BY <1>4
    <2>. HIDE DEF new, more, kept
    <2>3. new.display = r.display \o more /\ new.messages = r.messages /\ new.held = kept
      BY <2>1
    <2>4. shown' = shown \o (r.display \o more) /\ messages' = messages \o r.messages /\ held' = kept
      BY <2>2, <2>3
    <2>. QED  BY <2>4 DEF more, kept
  <1>7. r.display \in Texts /\ r.messages \in Texts /\ r.line \in Texts
    BY <1>3 DEF Results
  <1>8. /\ wire' \in Texts /\ Len(wire') = Len(wire) - n
        /\ \A i \in 1 .. Len(wire) - n : wire'[i] = wire[n + i]
    <2>1. n + 1 \in Int /\ Len(wire) \in Int /\ \A i \in n + 1 .. Len(wire) : wire[i] \in Characters
      BY <1>1
    <2>. DEFINE rest == SubSeq(wire, n + 1, Len(wire))
    <2>2. /\ rest \in Texts
          /\ Len(rest) = IF n + 1 <= Len(wire) THEN Len(wire) - (n + 1) + 1 ELSE 0
          /\ \A i \in 1 .. Len(wire) - (n + 1) + 1 : rest[i] = wire[n + 1 + i - 1]
      BY <2>1, SubSeqProperties DEF Texts
    <2>. HIDE DEF rest
    <2>3. Len(rest) = Len(wire) - n
      BY <1>1, <2>2
    <2>4. \A i \in 1 .. Len(wire) - n : rest[i] = wire[n + i]
      <3>1. \A i \in Int : n + 1 + i - 1 = n + i
        BY <1>1
      <3>2. Len(wire) - (n + 1) + 1 = Len(wire) - n
        BY <1>1
      <3>. SUFFICES ASSUME NEW i \in 1 .. Len(wire) - n PROVE rest[i] = wire[n + i]
        OBVIOUS
      <3>3. i \in 1 .. Len(wire) - (n + 1) + 1 /\ n + 1 + i - 1 = n + i
        BY <3>1, <3>2
      <3>4. rest[i] = wire[n + 1 + i - 1]
        BY <2>2, <3>3
      <3>. QED  BY <3>3, <3>4
    <2>. QED  BY <1>4, <2>2, <2>3, <2>4 DEF rest
  <1>lens. Len(wire') = Len(wire) - n /\ Len(stream') = Len(stream)
    BY <1>4, <1>8
  <1>9. SerialTypes'
    <2>1. (stream' \in Texts) /\ (wire' \in Texts) /\ Len(wire') <= Len(stream')
      BY <1>1, <1>4, <1>8
    <2>2. \A i \in 1 .. Len(wire') : wire'[i] = stream'[Len(stream') - Len(wire') + i]
      <3>1. ASSUME NEW i \in 1 .. Len(wire') PROVE wire'[i] = stream'[Len(stream') - Len(wire') + i]
        <4>1. i \in 1 .. Len(wire) - n /\ n + i \in 1 .. Len(wire)
          BY <1>1, <1>8
        <4>2. wire'[i] = wire[n + i]
          BY <1>8, <4>1
        <4>3. wire[n + i] = stream[Len(stream) - Len(wire) + (n + i)]
          BY <4>1 DEF SerialInv, SerialTypes
        <4>4. Len(stream') - Len(wire') + i = Len(stream) - Len(wire) + (n + i)
          <5>1. \A a, b, c, d \in Int : a - (b - c) + d = a - b + (c + d)
            OBVIOUS
          <5>2. i \in Int
            BY <1>1, <4>1
          <5>. QED  BY <1>1, <1>lens, <5>1, <5>2
        <4>. QED  BY <1>4, <4>2, <4>3, <4>4
      <3>. QED  BY <3>1
    <2>3. (shown' \in Texts) /\ (messages' \in Texts) /\ (held' \in Texts)
      <3>. DEFINE more == IF Holds(r.line) THEN <<>> ELSE r.line
      <3>1. more \in Texts
        BY <1>1, <1>7
      <3>. HIDE DEF more
      <3>2. shown \o (r.display \o more) \in Texts /\ messages \o r.messages \in Texts
        BY <1>1, <1>7, <3>1, TextsJoin
      <3>. QED  BY <1>1, <1>6, <1>7, <3>2 DEF more
    <2>. QED  BY <2>1, <2>2, <2>3 DEF SerialTypes, Out, Results
  <1>10. Received' = Received + n /\ Received \in Nat /\ Received + n <= Len(stream)
    <2>. DEFINE a == Len(stream)  b == Len(wire)
    <2>1. a \in Nat /\ b \in Nat /\ b <= a /\ n <= b
      BY <1>1
    <2>2. Received = a - b /\ Received' = a - (b - n)
      BY <1>lens DEF Received
    <2>. HIDE DEF a, b
    <2>3. a - (b - n) = a - b + n /\ a - b \in Nat /\ a - b + n <= a
      BY <2>1, <1>1
    <2>4. Received + n <= a
      BY <2>2, <2>3
    <2>. QED  BY <2>2, <2>3, <2>4 DEF a
  <1>11. ASSUME WellPlaced(stream)
         PROVE  Holds(held)' /\ Match(Reading(<<>>, stream)[Received + n], Out')
    <2>. DEFINE R == Reading(<<>>, stream)[Received + n]
    <2>1. \A i \in 0 .. Len(stream) : SoundLine(Reading(<<>>, stream)[i].line)
      BY <1>1, <1>11, SoundLines
    <2>2. Match(Reading(<<>>, stream)[Received], Out)
      BY <1>4, <1>11 DEF SerialInv
    <2>3. Match(R, [display |-> shown \o r.display, messages |-> messages \o r.messages, line |-> r.line])
      BY <2>1, <2>2, ChunkFollows DEF SerialInv, r, chunk
    <2>4. R \in Results /\ SoundLine(R.line)
      <3>1. Received + n \in 0 .. Len(stream)
        BY <1>1, <1>10
      <3>. QED  BY <1>1, <2>1, <3>1, ReadingType
    <2>. HIDE DEF R
    <2>5. PICK p \in Texts : /\ Ahead(p) /\ shown \o r.display = R.display \o p
                             /\ R.line = p \o r.line /\ messages \o r.messages = R.messages
      BY <2>3 DEF Match
    <2>6. CASE Holds(r.line)
      <3>1. shown' = shown \o r.display /\ held' = r.line
        BY <1>6, <1>7, <2>6, TextsJoin
      <3>2. Out' = [display |-> shown \o r.display, messages |-> messages \o r.messages, line |-> r.line]
        BY <1>6, <3>1 DEF Out
      <3>3. Holds(held)'
        BY <2>6, <3>1 DEF Holds, MayBecomeControl
      <3>. QED  BY <2>3, <3>2, <3>3 DEF R
    <2>7. CASE ~Holds(r.line)
      <3>. DEFINE l == r.line  q == p \o l  d == R.display
      <3>1. held' = <<>> /\ shown' = shown \o (r.display \o l)
        BY <1>6, <2>7
      <3>2. l \in Texts /\ d \in Texts /\ r.display \in Texts
        BY <1>7, <2>4 DEF Results
      <3>3. l # <<>>
        BY <2>7, HoldsNothing
      <3>4. q \in Texts
        BY <3>2, TextsJoin
      <3>5. R.line = q
        BY <2>5
      <3>6. Len(q) <= MaxBuffer
        BY <2>4, <3>5 DEF SoundLine
      <3>7. Len(l) <= Len(q) /\ Len(q) \in Nat /\ Len(l) \in Nat
        <4>1. Len(q) = Len(p) + Len(l) /\ Len(p) \in Nat /\ Len(l) \in Nat
          BY <3>2, ConcatProperties, LenProperties DEF Texts
        <4>. HIDE DEF q, l
        <4>. QED  BY <4>1
      <3>. HIDE DEF q, l, d
      <3>8. ~MayBecomeControl(l)
        <4>1. Len(l) <= MaxBuffer
          BY SerialAssumption, <3>6, <3>7
        <4>. QED  BY <2>7, <4>1 DEF Holds, l
      <3>9. Ahead(q)
        <4>1. CASE p = <<>>
          <5>1. q = l
            BY <3>2, <4>1, TextsJoin DEF q
          <5>. QED  BY <3>8, <5>1 DEF Ahead
        <4>2. CASE p # <<>>
          <5>1. ~MayBecomeControl(p)
            BY <2>5, <4>2 DEF Ahead
          <5>. QED  BY <3>2, <4>2, <5>1, PassedOnStaysPassedOn DEF Ahead, q
        <4>. QED  BY <4>1, <4>2
      <3>10. shown' = d \o q
        <4>. DEFINE x == r.display
        <4>1. x \in Texts /\ l \in Texts /\ d \in Texts /\ p \in Texts /\ shown \in Texts
          BY <1>1, <3>2
        <4>2. shown \o x = d \o p
          BY <2>5 DEF d
        <4>. HIDE DEF x
        <4>3. (shown \o x) \o l = shown \o (x \o l)
          BY <4>1, JoinAssociative, Zenon
        <4>4. (d \o p) \o l = d \o (p \o l)
          BY <4>1, JoinAssociative, Zenon
        <4>. QED  BY <3>1, <4>2, <4>3, <4>4 DEF q, x
      <3>11. q = q \o <<>>
        BY <3>4, TextsJoin
      <3>12. Out' = [display |-> d \o q, messages |-> R.messages, line |-> <<>>]
        BY <1>6, <2>5, <3>1, <3>10 DEF Out
      <3>13. Match(R, Out')
        BY <3>4, <3>5, <3>9, <3>11, <3>12 DEF Match, d
      <3>14. Holds(held)'
        BY <3>1, HoldsNothing DEF Holds, MayBecomeControl
      <3>. QED  BY <3>13, <3>14 DEF R
    <2>. QED  BY <2>6, <2>7
  <1>12. WellPlaced(stream)' => /\ open'
                               /\ Holds(held)'
                               /\ Match(Reading(<<>>, stream)[Received], Out)'
    <2>. SUFFICES ASSUME WellPlaced(stream)
                  PROVE  /\ open'
                         /\ Holds(held)'
                         /\ Match(Reading(<<>>, stream)[Received], Out)'
      BY <1>4
    <2>1. Match(Reading(<<>>, stream)[Received], Out)'
      BY <1>4, <1>10, <1>11
    <2>. QED  BY <1>4, <1>11, <2>1
  <1>. QED  BY <1>9, <1>12 DEF SerialInv

LEMMA DisposeKeeps ==
    ASSUME SerialInv, DisposeSerial
    PROVE  SerialInv'
  <1>. DEFINE r == Reading(<<>>, stream)[Received]
              part == SubSeq(stream, 1, Received)
              whole == Parsed(<<>>, part)
  <1>1. Len(stream) \in Nat /\ Received \in 0 .. Len(stream) /\ Len(wire) \in Nat
        /\ held \in Texts /\ shown \in Texts /\ messages \in Texts /\ stream \in Texts /\ <<>> \in Texts
    <2>1. Len(stream) \in Nat /\ Len(wire) \in Nat /\ Len(wire) <= Len(stream)
      BY LenProperties DEF SerialInv, SerialTypes, Texts
    <2>. QED  BY <2>1, TextsJoin DEF Received, SerialInv, SerialTypes, Out, Results
  <1>2. r \in Results
    BY <1>1, ReadingType
  <1>3. Len(part) = Received /\ Reading(<<>>, part)[Received] = r
    BY <1>1, ReadingOfAPart
  <1>. HIDE DEF r
  <1>4. whole = [display |-> r.display \o IF Holds(r.line) THEN <<>> ELSE r.line,
                 messages |-> r.messages,
                 held |-> IF Holds(r.line) THEN r.line ELSE <<>>]
    BY <1>3 DEF Parsed
  <1>. HIDE DEF whole
  <1>5. /\ open /\ open' = FALSE /\ held' = <<>> /\ shown' = shown \o Flushed(held)
        /\ stream' = stream /\ wire' = wire /\ messages' = messages
    BY DEF DisposeSerial
  <1>6. Flushed(held) \in Texts
    BY <1>1 DEF Flushed
  <1>7. SerialTypes'
    <2>1. shown \o Flushed(held) \in Texts
      BY <1>1, <1>6, TextsJoin
    <2>2. (shown' \in Texts) /\ (messages' \in Texts) /\ (held' \in Texts)
      BY <1>1, <1>5, <2>1
    <2>3. Out' \in Results
      BY <2>2 DEF Out, Results
    <2>. QED  BY <1>5, <2>3 DEF SerialInv, SerialTypes
  <1>8. ASSUME WellPlaced(stream)
        PROVE  /\ messages' = whole.messages
               /\ shown' \o held' = whole.display \o Flushed(whole.held)
    <2>1. Holds(held) /\ Match(r, Out)
      BY <1>5, <1>8 DEF SerialInv, r
    <2>2. PICK p \in Texts : /\ Ahead(p) /\ shown = r.display \o p
                             /\ r.line = p \o held /\ messages = r.messages
      BY <2>1 DEF Match, Out
    <2>3. SoundLine(r.line)
      BY <1>1, <1>8, SoundLines DEF r
    <2>4. r.display \in Texts /\ r.line \in Texts
      BY <1>2 DEF Results
    <2>5. shown' \o held' = shown \o Flushed(held)
      <3>. DEFINE s == shown \o Flushed(held)
      <3>1. s \in Texts
        BY <1>1, <1>6, TextsJoin
      <3>. HIDE DEF s
      <3>2. s \o <<>> = s
        BY <3>1, TextsJoin
      <3>3. shown' = s /\ held' = <<>>
        BY <1>5 DEF s
      <3>. QED  BY <3>2, <3>3 DEF s
    <2>6. CASE p = <<>>
      <3>1. shown = r.display /\ r.line = held
        BY <1>1, <2>2, <2>4, <2>6, TextsJoin
      <3>2. whole.held = held /\ whole.display = shown
        BY <1>1, <1>4, <2>1, <3>1, TextsJoin
      <3>. QED  BY <1>4, <1>5, <2>2, <2>5, <3>2
    <2>7. CASE p # <<>>
      <3>1. ~MayBecomeControl(p)
        BY <2>2, <2>7 DEF Ahead
      <3>2. /\ ~MayBecomeControl(p \o held)
            /\ \A i \in MarkerStarts(held) : Len(p) + i \in MarkerStarts(p \o held)
        BY <1>1, <2>7, <3>1, PassedOnStaysPassedOn
      <3>3. ~Holds(r.line)
        BY <2>2, <3>2 DEF Holds
      <3>4. whole.held = <<>> /\ whole.display = r.display \o r.line
        BY <1>4, <3>3
      <3>5. 1 \notin MarkerStarts(held)
        <4>1. Len(p) \in Nat /\ Len(p) # 0
          BY <2>7, LenProperties, EmptySeq DEF Texts
        <4>. DEFINE k == Len(p)
        <4>2. k + 1 # 1
          BY <4>1
        <4>. HIDE DEF k
        <4>3. MarkerStarts(p \o held) \subseteq {1}
          BY <2>2, <2>3 DEF SoundLine
        <4>. QED  BY <3>2, <4>2, <4>3 DEF k
      <3>6. Flushed(held) = held
        BY <1>1, <3>5, PrefixMarker DEF Flushed
      <3>7. Flushed(<<>>) = <<>>
        BY DEF Flushed
      <3>8. shown \o held = r.display \o r.line
        <4>. DEFINE d == r.display
        <4>1. d \in Texts /\ p \in Texts /\ held \in Texts
          BY <1>1, <2>4
        <4>. HIDE DEF d
        <4>2. (d \o p) \o held = d \o (p \o held)
          BY <4>1, JoinAssociative, Zenon
        <4>. QED  BY <2>2, <4>2 DEF d
      <3>9. (r.display \o r.line) \o <<>> = r.display \o r.line
        <4>. DEFINE x == r.display \o r.line
        <4>1. x \in Texts
          BY <2>4, TextsJoin
        <4>. HIDE DEF x
        <4>2. x \o <<>> = x
          BY <4>1, TextsJoin
        <4>. QED  BY <4>2 DEF x
      <3>. QED  BY <1>4, <1>5, <2>2, <2>5, <3>4, <3>6, <3>7, <3>8, <3>9
    <2>. QED  BY <2>6, <2>7
  <1>9. ChunksAreInvisible'
    <2>1. WellPlaced(stream)' => WellPlaced(stream)
      BY <1>5
    <2>2. Parsed(<<>>, SubSeq(stream, 1, Len(stream) - Len(wire)))' = whole
      BY <1>5 DEF whole, Received
    <2>3. Flushed(whole.held) = (IF open' THEN whole.held ELSE Flushed(whole.held))
      BY <1>5
    <2>. QED  BY <1>8, <2>1, <2>2, <2>3 DEF ChunksAreInvisible
  <1>. QED  BY <1>5, <1>7, <1>9 DEF SerialInv

LEMMA SerialNext_Inv == SerialInv /\ [SerialNext]_serialVars => SerialInv'
  <1>. SUFFICES ASSUME SerialInv, [SerialNext]_serialVars PROVE SerialInv'
    OBVIOUS
  <1>1. CASE DisposeSerial
    BY <1>1, DisposeKeeps
  <1>2. ASSUME NEW n \in 1 .. Len(wire), Feed(n) PROVE SerialInv'
    BY <1>2, FeedKeeps
  <1>3. CASE UNCHANGED serialVars
    BY <1>3 DEF serialVars, SerialInv, SerialTypes, Out, Received, ChunksAreInvisible, WellPlaced
  <1>. QED  BY <1>1, <1>2, <1>3 DEF SerialNext

(***************************************************************************)
(* However the emulator's buffer is emptied, the page gets the messages    *)
(* and the terminal the text that one chunk would have given them          *)
(* (protocol-parser.ts:28-73), for any stream and any size of the buffer.  *)
(***************************************************************************)
THEOREM ChunksStayInvisible == SerialSpec => []ChunksAreInvisible
  <1>1. SerialInit => SerialInv
    BY SerialInit_Inv
  <1>2. SerialInv /\ [SerialNext]_serialVars => SerialInv'
    BY SerialNext_Inv
  <1>3. SerialInv => ChunksAreInvisible
    BY SerialInv_Property
  <1>. QED  BY <1>1, <1>2, <1>3, PTL DEF SerialSpec

-----------------------------------------------------------------------------
USE NavigationAssumption

-----------------------------------------------------------------------------
(* VmNavigation: types. *)

LEMMA SetToSeqType ==
    ASSUME NEW S, IsFiniteSet(S)
    PROVE  SetToSeq(S) \in Seq(S)
  <1>1. Cardinality(S) \in Nat /\ ExistsBijection(1..Cardinality(S), S)
    BY FS_CardinalityType
  <1>2. \E f \in [1..Cardinality(S) -> S] : IsInjective(f)
    BY <1>1 DEF ExistsBijection, Bijection, Injection
  <1>3. SetToSeq(S) \in [1..Cardinality(S) -> S]
    BY <1>2 DEF SetToSeq
  <1>. QED  BY <1>1, <1>3

LEMMA MarksType ==
    ASSUME NEW labs, labs \subseteq Labs
    PROVE  Marks(labs) \in Seq(Commands)
  <1>1. SetToSeq(labs) \in Seq(Labs)
    <2>1. IsFiniteSet(labs)
      BY FS_Subset
    <2>. QED  BY <2>1, SetToSeqType
  <1>2. \A l \in Labs : Mark(l) \in Commands
    BY DEF Mark, Commands
  <1>. DEFINE order == SetToSeq(labs)
  <1>. HIDE DEF order
  <1>3. [i \in DOMAIN order |-> Mark(order[i])] \in Seq(Commands)
    <2>1. order \in Seq(Labs)
      BY <1>1 DEF order
    <2>. QED  BY <1>2, <2>1
  <1>. QED  BY <1>3 DEF Marks, order

LEMMA LinesType ==
    ASSUME TypeOK, NEW l \in Labs, NEW temporary, temporary \subseteq Labs
    PROVE  /\ SyncTemporaryUnlock(l, temporary) \in Seq(Commands)
           /\ SyncCompletion \in Seq(Commands)
           /\ RestoreLab(l) \in Seq(Commands)
           /\ <<Leave, Reset>> \in Seq(Commands)
           /\ <<>> \in Seq(Commands)
  <1>1. Needs[l] \subseteq Labs
    OBVIOUS
  <1>2. SyncCompletion \in Seq(Commands)
    BY MarksType DEF SyncCompletion, TypeOK
  <1>3. SyncTemporaryUnlock(l, temporary) \in Seq(Commands)
    BY <1>1, MarksType DEF SyncTemporaryUnlock
  <1>4. Leave \in Commands /\ Goto(l) \in Commands /\ Reset \in Commands
    BY DEF Leave, Goto, Reset, Commands
  <1>. QED  BY <1>2, <1>3, <1>4 DEF RestoreLab

LEMMA TypedType ==
    ASSUME NEW s \in Seq(Commands), NEW q \in Seq(Commands)
    PROVE  s \o q \in Seq(Commands)
  OBVIOUS

LEMMA AnswerType ==
    ASSUME TypeOK, NEW l \in Labs, NEW type \in {"lab-ready", "lab-result"}, Answer(type, l)
    PROVE  output' \in Seq(Messages)
  <1>1. [type |-> type, lab |-> l] \in Messages
    BY DEF Messages
  <1>. QED  BY <1>1 DEF Answer, TypeOK

LEMMA GotoLabType ==
    ASSUME TypeOK, NEW l \in Labs, NEW temporary, temporary \subseteq Labs, UserStep,
           GotoLab(l, temporary)
    PROVE  TypeOK'
  <1>. USE DEF TypeOK, GotoLab, UserStep, guestVars
  <1>1. input' \in Seq(Commands)
    <2>1. CASE phase = "steady"
      <3>1. input' = input \o (SyncTemporaryUnlock(l, temporary) \o SyncCompletion \o RestoreLab(l))
        BY <2>1 DEF Type
      <3>. HIDE DEF GotoLab
      <3>. QED  BY <3>1, LinesType, TypedType
    <2>2. CASE phase # "steady"
      <3>1. input' = input \o (SyncTemporaryUnlock(l, temporary) \o RestoreLab(l))
        BY <2>2 DEF Type
      <3>. HIDE DEF GotoLab
      <3>. QED  BY <3>1, LinesType, TypedType
    <2>. QED  BY <2>1, <2>2
  <1>2. strayed' \in BOOLEAN
    BY DEF OnItsWay
  <1>3. pending' \in Labs \cup {None} /\ selected' \in Labs
    OBVIOUS
  <1>4. UNCHANGED <<completed, phase, output, lab, done, program, told, refused>> /\ unlocked' \subseteq Labs
    OBVIOUS
  <1>5. steps' \in 0..MaxUserSteps
    BY DEF UserStep
  <1>. HIDE DEF GotoLab, UserStep
  <1>. QED  BY <1>1, <1>2, <1>3, <1>4, <1>5

LEMMA HeadType ==
    ASSUME TypeOK
    PROVE  /\ output # <<>> => Head(output) \in Messages /\ Tail(output) \in Seq(Messages)
                               /\ Head(output).lab \in Labs
           /\ input # <<>> => Head(input) \in Commands /\ Tail(input) \in Seq(Commands)
                              /\ Head(input).target \in Labs
  <1>1. output # <<>> => Head(output) \in Messages /\ Tail(output) \in Seq(Messages)
    BY DEF TypeOK
  <1>2. input # <<>> => Head(input) \in Commands /\ Tail(input) \in Seq(Commands)
    BY DEF TypeOK
  <1>3. \A m \in Messages : m.lab \in Labs
    BY DEF Messages
  <1>4. \A c \in Commands : c.target \in Labs
    BY DEF Commands
  <1>. QED  BY <1>1, <1>2, <1>3, <1>4

LEMMA TypeInit == Init => TypeOK
  <1>. SUFFICES ASSUME Init PROVE TypeOK
    OBVIOUS
  <1>1. selected \in Labs /\ completed \subseteq Labs /\ unlocked \subseteq Labs
    BY DEF Init
  <1>2. lab \in Labs /\ done \subseteq Labs /\ program \in Programs /\ phase \in Phases
    BY DEF Init, Programs, Phases
  <1>3. input \in Seq(Commands) /\ output \in Seq(Messages)
    BY DEF Init
  <1>4. pending = None /\ refused = None /\ told = FALSE /\ strayed = FALSE
    BY DEF Init
  <1>5. steps \in 0..MaxUserSteps
    BY DEF Init
  <1>. QED  BY <1>1, <1>2, <1>3, <1>4, <1>5 DEF TypeOK

LEMMA PageType ==
    ASSUME TypeOK, Page
    PROVE  TypeOK'
  <1>. USE HeadType DEF NextMessage, guestVars, pageVars
  <1>1. CASE Ready
    BY <1>1 DEF Ready, TypeOK, Phases
  <1>2. CASE RunBootRestore
    <2>1. PICK first \in 1..Len(input) + 1 :
            input' = SubSeq(input, first, Len(input))
                     \o SyncCompletion
                     \o SyncTemporaryUnlock(selected, unlocked)
                     \o RestoreLab(selected)
      BY <1>2 DEF RunBootRestore
    <2>. DEFINE kept == SubSeq(input, first, Len(input))
    <2>2. input' \in Seq(Commands)
      <3>1. kept \in Seq(Commands)
        <4>1. input \in Seq(Commands) /\ first \in Nat /\ first >= 1
          BY DEF TypeOK
        <4>. QED  BY <4>1
      <3>. HIDE DEF kept
      <3>2. /\ SyncCompletion \in Seq(Commands) /\ RestoreLab(selected) \in Seq(Commands)
            /\ SyncTemporaryUnlock(selected, unlocked) \in Seq(Commands)
        BY LinesType DEF TypeOK
      <3>3. kept \o SyncCompletion \in Seq(Commands)
        BY <3>1, <3>2, TypedType
      <3>4. kept \o SyncCompletion \o SyncTemporaryUnlock(selected, unlocked) \in Seq(Commands)
        BY <3>2, <3>3, TypedType
      <3>5. (kept \o SyncCompletion \o SyncTemporaryUnlock(selected, unlocked))
               \o RestoreLab(selected) \in Seq(Commands)
        BY <3>2, <3>4, TypedType
      <3>. QED  BY <2>1, <3>5 DEF kept
    <2>3. UNCHANGED <<selected, completed, unlocked, output, lab, done, program, told, strayed,
                      refused, steps>> /\ phase' = "steady" /\ pending' = selected
      BY <1>2 DEF RunBootRestore
    <2>. QED  BY <2>2, <2>3 DEF TypeOK, Phases
  <1>3. CASE NavigationTimesOut
    BY <1>3 DEF NavigationTimesOut, TypeOK
  <1>4. CASE VerifyReady
    <2>1. [Head(output) EXCEPT !.type = "checked ready"] \in Messages
      BY <1>4 DEF VerifyReady, Messages
    <2>2. output' \in Seq(Messages)
      <3>1. \A m \in Messages : <<m>> \in Seq(Messages)
        OBVIOUS
      <3>2. \A q \in Seq(Messages) : \A r \in Seq(Messages) : q \o r \in Seq(Messages)
        OBVIOUS
      <3>3. Tail(output) \in Seq(Messages)
        BY <1>4, HeadType DEF VerifyReady
      <3>. QED  BY <1>4, <2>1, <3>1, <3>2, <3>3 DEF VerifyReady
    <2>. QED  BY <1>4, <2>2 DEF VerifyReady, TypeOK
  <1>5. CASE HandleReady
    <2>1. UNCHANGED <<completed, unlocked, phase, input, lab, done, program, refused, steps>>
      BY <1>5 DEF HandleReady
    <2>2. output' \in Seq(Messages)
      BY <1>5 DEF HandleReady
    <2>3. selected' \in Labs /\ pending' \in Labs \cup {None}
      BY <1>5 DEF HandleReady, TypeOK
    <2>4. told' \in BOOLEAN
      BY <1>5 DEF HandleReady, InStep, TypeOK
    <2>5. strayed' \in BOOLEAN
      BY <1>5 DEF HandleReady, InStep, TypeOK
    <2>. QED  BY <2>1, <2>2, <2>3, <2>4, <2>5 DEF TypeOK
  <1>6. CASE HandleResult
    <2>1. UNCHANGED <<selected, unlocked, pending, phase, input, lab, done, program, strayed,
                      refused, steps>>
      BY <1>6 DEF HandleResult
    <2>2. output' \in Seq(Messages)
      BY <1>6 DEF HandleResult
    <2>3. completed' \subseteq Labs
      BY <1>6 DEF HandleResult, TypeOK
    <2>4. told' \in BOOLEAN
      BY <1>6 DEF HandleResult, TypeOK
    <2>. QED  BY <2>1, <2>2, <2>3, <2>4 DEF TypeOK
  <1>. QED  BY <1>1, <1>2, <1>3, <1>4, <1>5, <1>6 DEF Page

LEMMA EnterLabType ==
    ASSUME TypeOK, NEW l \in Labs, EnterLab(l)
    PROVE  lab' \in Labs /\ output' \in Seq(Messages) /\ strayed' \in BOOLEAN
  <1>1. CASE Answer("lab-ready", l) /\ UNCHANGED strayed
    BY <1>1, AnswerType DEF EnterLab, TypeOK
  <1>2. CASE UNCHANGED output /\ strayed' = (strayed \/ pending # l \/ OnItsWay(l))
    <2>1. strayed' \in BOOLEAN
      BY <1>2
    <2>. QED  BY <1>2, <2>1 DEF EnterLab, TypeOK
  <1>. QED  BY <1>1, <1>2 DEF EnterLab

LEMMA StudentType ==
    ASSUME TypeOK, Student
    PROVE  TypeOK'
  <1>. USE DEF guestVars, pageVars
  <1>0. UserStep => steps' \in 0..MaxUserSteps
    BY DEF UserStep, TypeOK
  <1>1. ASSUME NEW l \in Labs, SelectLab(l) PROVE TypeOK'
    <2>1. unlocked \subseteq Labs
      BY DEF TypeOK
    <2>. QED  BY <1>1, <2>1, GotoLabType DEF SelectLab
  <1>2. ASSUME NEW l \in Labs, DebugUnlockLab(l) PROVE TypeOK'
    <2>1. unlocked \cup {l} \subseteq Labs
      BY DEF TypeOK
    <2>2. CASE l # selected
      BY <1>2, <2>1, <2>2, GotoLabType DEF DebugUnlockLab
    <2>3. CASE l = selected
      BY <1>0, <1>2, <2>1, <2>3 DEF DebugUnlockLab, TypeOK
    <2>. QED  BY <2>2, <2>3
  <1>3. ASSUME NEW l \in Labs, TypeGoto(l) PROVE TypeOK'
    <2>1. lab' \in Labs /\ output' \in Seq(Messages) /\ strayed' \in BOOLEAN
      BY <1>3, EnterLabType DEF TypeGoto
    <2>2. /\ UNCHANGED <<selected, completed, unlocked, pending, phase, input, done, program, told,
                         refused>>
          /\ UserStep
      BY <1>3 DEF TypeGoto
    <2>. QED  BY <1>0, <2>1, <2>2 DEF TypeOK
  <1>4. CASE ResetCurrentLevel
    <2>1. input' \in Seq(Commands)
      <3>1. input' = input \o <<Leave, Reset>>
        BY <1>4 DEF ResetCurrentLevel, Type
      <3>2. <<Leave, Reset>> \in Seq(Commands) /\ input \in Seq(Commands)
        BY LinesType DEF TypeOK
      <3>. QED  BY <3>1, <3>2, TypedType
    <2>2. /\ UNCHANGED <<selected, completed, unlocked, pending, phase, output, lab, done, program,
                         told, strayed, refused>>
          /\ UserStep
      BY <1>4 DEF ResetCurrentLevel
    <2>. QED  BY <1>0, <2>1, <2>2 DEF TypeOK
  <1>5. CASE RunProgram
    BY <1>0, <1>5 DEF RunProgram, TypeOK, Programs
  <1>6. CASE ResetLab
    <2>1. output' \in Seq(Messages)
      BY <1>6, AnswerType DEF ResetLab, TypeOK
    <2>. QED  BY <1>0, <1>6, <2>1 DEF ResetLab, TypeOK
  <1>7. CASE Check
    <2>1. output' \in Seq(Messages)
      BY <1>7, AnswerType DEF Check, TypeOK
    <2>. QED  BY <1>0, <1>7, <2>1 DEF Check, TypeOK
  <1>. QED  BY <1>1, <1>2, <1>3, <1>4, <1>5, <1>6, <1>7 DEF Student

LEMMA ShellType ==
    ASSUME TypeOK, ShellReads
    PROVE  TypeOK'
  <1>. USE DEF pageVars
  <1>. DEFINE line == Head(input)
  <1>1. line.target \in Labs /\ input' \in Seq(Commands)
    BY HeadType DEF ShellReads
  <1>2. UNCHANGED <<selected, completed, unlocked, pending, phase, program, told, steps>>
    BY DEF ShellReads
  <1>3. ASSUME NEW l \in Labs, Refuse(l) PROVE refused' \in Labs \cup {None}
    BY <1>3 DEF Refuse, TypeOK
  <1>4. CASE /\ line.command = "mark-lab-completed"
             /\ done' = done \cup {line.target}
             /\ UNCHANGED <<lab, output, strayed, refused>>
    BY <1>1, <1>2, <1>4 DEF TypeOK
  <1>5. CASE /\ line.command = "goto-lab"
             /\ IF Needs[line.target] \subseteq done
                THEN EnterLab(line.target) /\ UNCHANGED refused
                ELSE Refuse(line.target) /\ UNCHANGED <<lab, output, strayed>>
             /\ UNCHANGED done
    <2>1. CASE Needs[line.target] \subseteq done
      <3>1. lab' \in Labs /\ output' \in Seq(Messages) /\ strayed' \in BOOLEAN
        BY <1>1, <1>5, <2>1, EnterLabType
      <3>. QED  BY <1>1, <1>2, <1>5, <2>1, <3>1 DEF TypeOK
    <2>2. CASE ~ (Needs[line.target] \subseteq done)
      <3>1. refused' \in Labs \cup {None}
        BY <1>1, <1>3, <1>5, <2>2
      <3>. QED  BY <1>1, <1>2, <1>5, <2>2, <3>1 DEF TypeOK
    <2>. QED  BY <2>1, <2>2
  <1>6. CASE /\ line.command = "reset-level"
             /\ Answer("lab-ready", lab)
             /\ UNCHANGED <<done, lab, strayed, refused>>
    <2>1. output' \in Seq(Messages)
      BY <1>6, AnswerType DEF TypeOK
    <2>. QED  BY <1>1, <1>2, <1>6, <2>1 DEF TypeOK
  <1>7. CASE line.command = "leave" /\ UNCHANGED <<done, lab, output, strayed, refused>>
    BY <1>1, <1>2, <1>7 DEF TypeOK
  <1>. QED  BY <1>4, <1>5, <1>6, <1>7 DEF ShellReads

LEMMA TypeStep == TypeOK /\ [Next]_vars => TypeOK'
  <1>. SUFFICES ASSUME TypeOK, [Next]_vars PROVE TypeOK'
    OBVIOUS
  <1>. USE DEF pageVars, guestVars
  <1>1. CASE OtherTabCompletes
    <2>1. completed' \subseteq Labs
      BY <1>1 DEF OtherTabCompletes, TypeOK
    <2>. QED  BY <1>1, <2>1 DEF OtherTabCompletes, UserStep, TypeOK
  <1>2. CASE OtherTabStartsOver
    <2>1. strayed' \in BOOLEAN /\ selected' \in Labs
      BY <1>2 DEF OtherTabStartsOver, TypeOK
    <2>. QED  BY <1>2, <2>1 DEF OtherTabStartsOver, UserStep, TypeOK
  <1>3. CASE ProgramReads
    <2>1. input' \in Seq(Commands) /\ program' \in Programs
      BY <1>3, HeadType DEF ProgramReads, TypeOK, Programs
    <2>. QED  BY <1>3, <2>1 DEF ProgramReads, TypeOK
  <1>4. CASE ProgramEnds
    BY <1>4 DEF ProgramEnds, TypeOK, Programs
  <1>5. CASE UNCHANGED vars
    BY <1>5 DEF vars, TypeOK
  <1>. QED  BY <1>1, <1>2, <1>3, <1>4, <1>5, PageType, StudentType, ShellType DEF Next

\* Page, guest, terminal and messages are of their types.
THEOREM NavigationIsTyped == Spec => []TypeOK
  BY TypeInit, TypeStep, PTL DEF Spec

-----------------------------------------------------------------------------
(* Never silently apart.  What the guest said last about its lab is the lab *)
(* it is in, and the page follows it, unless a notice or a stray move       *)
(* excuses them or the page still waits for an answer that none of the      *)
(* messages on their way gives.                                             *)

Excused == told \/ strayed

\* The i-th message on its way says that the guest entered a lab.
Said(i) == output[i].type # "lab-result"
LastSaid(i) == Said(i) /\ \A j \in 1..Len(output) : j > i => ~ Said(j)

\* The page waits for a lab that no message on its way names.
Waits == pending # None /\ \A i \in 1..Len(output) : Said(i) => output[i].lab # pending

SaysNothing == \A i \in 1..Len(output) : ~ Said(i)

SilentBeforeShell == phase # "steady" => output = <<>>
FollowsInSilence ==
    phase = "steady" /\ SaysNothing => selected = lab \/ Excused \/ pending # None
LastWordIsTrue ==
    \A i \in 1..Len(output) : LastSaid(i) => output[i].lab = lab \/ Excused \/ Waits

NavInv == SilentBeforeShell /\ FollowsInSilence /\ LastWordIsTrue

LEMMA OnItsWayMeans ==
    ASSUME TypeOK, NEW l
    PROVE  OnItsWay(l) <=> \E i \in 1..Len(output) : output[i].lab = l /\ Said(i)
  <1>1. ToSet(output) = {output[i] : i \in 1..Len(output)}
    BY DEF ToSet, TypeOK
  <1>. QED  BY <1>1 DEF OnItsWay, Said

\* What does not touch the messages, the labs, the phase or the wait.
LEMMA NothingSaid ==
    ASSUME NavInv, UNCHANGED <<selected, pending, phase, output, lab>>, Excused => Excused'
    PROVE  NavInv'
  BY DEF NavInv, SilentBeforeShell, FollowsInSilence, LastWordIsTrue, SaysNothing, LastSaid, Said, Waits

LEMMA AppendFacts ==
    ASSUME TypeOK, NEW l \in Labs, NEW type \in {"lab-ready", "lab-result"}, Answer(type, l)
    PROVE  /\ Len(output) \in Nat /\ Len(output') = Len(output) + 1
           /\ output'[Len(output) + 1].type = type /\ output'[Len(output) + 1].lab = l
           /\ \A i \in 1..Len(output) : output'[i] = output[i]
  BY DEF Answer, TypeOK

LEMMA GuestSaysReady ==
    ASSUME TypeOK, NEW l \in Labs, lab' = l, phase = "steady", UNCHANGED phase,
           Answer("lab-ready", l)
    PROVE  NavInv'
  <1>0. PICK n \in Nat : n = Len(output) + 1
    BY DEF TypeOK
  <1>1. /\ Len(output) \in Nat /\ Len(output') = n
        /\ output'[n].type = "lab-ready" /\ output'[n].lab = l
    BY <1>0, AppendFacts
  <1>2. n \in 1..Len(output') /\ Said(n)'
    BY <1>0, <1>1 DEF Said
  <1>3. SilentBeforeShell'
    BY DEF SilentBeforeShell
  <1>4. ~ SaysNothing'
    BY <1>2 DEF SaysNothing
  <1>5. ASSUME NEW i \in 1..Len(output'), LastSaid(i)' PROVE i = n
    <2>1. ~ (n > i)
      BY <1>2, <1>5 DEF LastSaid
    <2>. QED  BY <1>1, <2>1
  <1>6. LastWordIsTrue'
    BY <1>1, <1>5 DEF LastWordIsTrue
  <1>. QED  BY <1>3, <1>4, <1>6 DEF NavInv, FollowsInSilence

LEMMA GuestSaysResult ==
    ASSUME TypeOK, NavInv, phase = "steady", Answer("lab-result", lab),
           UNCHANGED <<selected, pending, phase, lab, told, strayed>>
    PROVE  NavInv'
  <1>0. PICK n \in Nat : n = Len(output) + 1
    BY DEF TypeOK
  <1>1. /\ Len(output) \in Nat /\ Len(output') = n /\ output'[n].type = "lab-result"
        /\ \A i \in 1..Len(output) : output'[i] = output[i]
    BY <1>0, AppendFacts DEF TypeOK
  <1>2. ~ Said(n)' /\ \A i \in 1..Len(output) : Said(i)' = Said(i)
    BY <1>1 DEF Said
  <1>3. ASSUME NEW i \in 1..Len(output'), Said(i)' PROVE i \in 1..Len(output) /\ Said(i)
    <2>1. i # n
      BY <1>2, <1>3
    <2>2. i \in 1..Len(output)
      BY <1>0, <1>1, <2>1
    <2>. QED  BY <1>2, <1>3, <2>2
  <1>4. \A i \in 1..Len(output) : i \in 1..Len(output')
    BY <1>0, <1>1
  <1>5. SaysNothing' => SaysNothing
    BY <1>2, <1>4 DEF SaysNothing
  <1>6. Waits => Waits'
    BY <1>1, <1>3 DEF Waits
  <1>7. LastWordIsTrue'
    <2>. SUFFICES ASSUME NEW i \in 1..Len(output'), LastSaid(i)'
                  PROVE  output'[i].lab = lab \/ Excused \/ Waits'
      BY DEF LastWordIsTrue, Excused
    <2>1. i \in 1..Len(output) /\ Said(i)
      BY <1>3 DEF LastSaid
    <2>2. LastSaid(i)
      BY <1>2, <1>4, <2>1 DEF LastSaid
    <2>3. output[i].lab = lab \/ Excused \/ Waits
      BY <2>1, <2>2 DEF NavInv, LastWordIsTrue
    <2>. QED  BY <1>1, <1>6, <2>1, <2>3
  <1>. QED  BY <1>5, <1>7 DEF NavInv, SilentBeforeShell, FollowsInSilence, Excused

LEMMA GuestEnters ==
    ASSUME TypeOK, NavInv, NEW l \in Labs, EnterLab(l), phase = "steady",
           UNCHANGED <<selected, pending, phase, told>>
    PROVE  NavInv'
  <1>1. CASE Answer("lab-ready", l)
    BY <1>1, GuestSaysReady DEF EnterLab
  <1>2. CASE UNCHANGED output /\ strayed' = (strayed \/ pending # l \/ OnItsWay(l))
    <2>1. CASE pending = l /\ ~ OnItsWay(l)
      <3>1. \A i \in 1..Len(output) : Said(i) => output[i].lab # pending
        BY <2>1, OnItsWayMeans
      <3>2. Waits'
        BY <1>2, <2>1, <3>1 DEF Waits, Said
      <3>. QED  BY <1>2, <3>2 DEF NavInv, SilentBeforeShell, FollowsInSilence, LastWordIsTrue, Waits
    <2>2. CASE pending # l \/ OnItsWay(l)
      <3>1. Excused'
        BY <1>2, <2>2 DEF Excused
      <3>. QED  BY <1>2, <3>1 DEF NavInv, SilentBeforeShell, FollowsInSilence, LastWordIsTrue
    <2>. QED  BY <2>1, <2>2
  <1>. QED  BY <1>1, <1>2 DEF EnterLab

LEMMA PageGoes ==
    ASSUME TypeOK, NavInv, NEW l \in Labs, NEW temporary, GotoLab(l, temporary)
    PROVE  NavInv'
  <1>1. UNCHANGED <<phase, output, lab, told>>
    BY DEF GotoLab, guestVars
  <1>2. CASE phase = "steady"
    <2>1. pending' = l /\ strayed' = (strayed \/ OnItsWay(l)) /\ pending' # None
      BY <1>2 DEF GotoLab
    <2>2. CASE OnItsWay(l)
      <3>1. Excused'
        BY <2>1, <2>2 DEF Excused
      <3>. QED  BY <1>1, <1>2, <3>1 DEF NavInv, SilentBeforeShell, FollowsInSilence, LastWordIsTrue
    <2>3. CASE ~ OnItsWay(l)
      <3>1. \A i \in 1..Len(output) : Said(i) => output[i].lab # l
        BY <2>3, OnItsWayMeans
      <3>2. Waits'
        BY <1>1, <2>1, <3>1 DEF Waits, Said
      <3>. QED  BY <1>1, <1>2, <2>1, <3>2 DEF NavInv, SilentBeforeShell, FollowsInSilence, LastWordIsTrue
    <2>. QED  BY <2>2, <2>3
  <1>3. CASE phase # "steady"
    <2>1. output = <<>> /\ output' = <<>>
      BY <1>1, <1>3 DEF NavInv, SilentBeforeShell
    <2>. QED  BY <1>1, <1>3, <2>1 DEF NavInv, SilentBeforeShell, FollowsInSilence, LastWordIsTrue
  <1>. QED  BY <1>2, <1>3

LEMMA TailFacts ==
    ASSUME TypeOK, output # <<>>, output' = Tail(output)
    PROVE  /\ Len(output) \in Nat /\ 1 \in 1..Len(output) /\ Head(output) = output[1]
           /\ Len(output') = Len(output) - 1
           /\ \A i \in 1..Len(output') : /\ i + 1 \in 1..Len(output)
                                         /\ output'[i] = output[i + 1]
           /\ \A i \in 1..Len(output) : i # 1 => i - 1 \in 1..Len(output')
                                                 /\ output'[i - 1] = output[i]
  <1>. DEFINE q == output
  <1>. HIDE DEF q
  <1>1. q \in Seq(Messages) /\ q # <<>> /\ output' = Tail(q) /\ output = q
    BY DEF TypeOK, q
  <1>2. Len(q) \in Nat /\ Len(q) > 0 /\ Head(q) = q[1] /\ Len(Tail(q)) = Len(q) - 1
    BY <1>1
  <1>3. \A i \in 1..Len(Tail(q)) : Tail(q)[i] = q[i + 1]
    BY <1>1
  <1>. QED  BY <1>1, <1>2, <1>3

\* What follows the first message is what is on its way once it is handled.
LEMMA RestIsTrue ==
    ASSUME TypeOK, NavInv, output # <<>>, output' = Tail(output), NEW i \in 1..Len(output'),
           LastSaid(i)'
    PROVE  output'[i].lab = lab \/ Excused \/ Waits
  <1>1. /\ i + 1 \in 1..Len(output) /\ output'[i] = output[i + 1]
    BY TailFacts
  <1>2. Said(i + 1)
    BY <1>1 DEF LastSaid, Said
  <1>3. ASSUME NEW j \in 1..Len(output), j > i + 1 PROVE ~ Said(j)
    <2>1. j # 1
      BY <1>3
    <2>2. j - 1 \in 1..Len(output') /\ output'[j - 1] = output[j]
      BY <2>1, TailFacts
    <2>3. j - 1 > i
      BY <1>3
    <2>4. ~ Said(j - 1)'
      BY <2>2, <2>3 DEF LastSaid
    <2>. QED  BY <2>2, <2>4 DEF Said
  <1>4. LastSaid(i + 1)
    BY <1>2, <1>3 DEF LastSaid
  <1>. QED  BY <1>1, <1>4 DEF NavInv, LastWordIsTrue

LEMMA WaitLasts ==
    ASSUME TypeOK, output # <<>>, output' = Tail(output), UNCHANGED pending, Waits
    PROVE  Waits'
  <1>. SUFFICES ASSUME NEW i \in 1..Len(output'), Said(i)' PROVE output'[i].lab # pending
    BY DEF Waits
  <1>1. i + 1 \in 1..Len(output) /\ output'[i] = output[i + 1]
    BY TailFacts
  <1>. QED  BY <1>1 DEF Waits, Said

LEMMA PageHandlesReady ==
    ASSUME TypeOK, NavInv, HandleReady
    PROVE  NavInv'
  <1>. DEFINE l == Head(output).lab
  <1>1. output # <<>> /\ output' = Tail(output) /\ UNCHANGED <<phase, lab>>
    BY DEF HandleReady, NextMessage, guestVars
  <1>2. phase = "steady"
    BY <1>1 DEF NavInv, SilentBeforeShell
  <1>3. l = output[1].lab /\ Said(1) /\ 1 \in 1..Len(output) /\ l \in Labs
    BY <1>1, TailFacts, HeadType DEF HandleReady, NextMessage, Said
  <1>4. ~ InStep(l) /\ Excused => Excused'
    BY DEF HandleReady, Excused
  <1>5. Waits => pending' = pending /\ pending # None /\ pending # l
    BY <1>3 DEF Waits, HandleReady
  <1>6. LastWordIsTrue'
    <2>. SUFFICES ASSUME NEW i \in 1..Len(output'), LastSaid(i)'
                  PROVE  output'[i].lab = lab \/ Excused' \/ Waits'
      BY <1>1 DEF LastWordIsTrue
    <2>1. output'[i].lab = lab \/ Excused \/ Waits
      BY <1>1, RestIsTrue
    <2>2. Len(output) # 1
      BY <1>1, TailFacts
    <2>3. ~ InStep(l)
      BY <2>2 DEF InStep
    <2>4. Waits => Waits'
      BY <1>1, <1>5, WaitLasts
    <2>. QED  BY <1>4, <2>1, <2>3, <2>4
  <1>7. SaysNothing' => selected' = lab \/ Excused' \/ pending' # None
    <2>. SUFFICES ASSUME SaysNothing' PROVE selected' = lab \/ Excused' \/ pending' # None
      OBVIOUS
    <2>1. ASSUME NEW j \in 1..Len(output), j > 1 PROVE ~ Said(j)
      <3>1. j - 1 \in 1..Len(output') /\ output'[j - 1] = output[j]
        BY <1>1, <2>1, TailFacts
      <3>2. ~ Said(j - 1)'
        BY <3>1 DEF SaysNothing
      <3>. QED  BY <3>1, <3>2 DEF Said
    <2>2. LastSaid(1)
      BY <1>3, <2>1 DEF LastSaid
    <2>3. l = lab \/ Excused \/ Waits
      BY <1>3, <2>2 DEF NavInv, LastWordIsTrue
    <2>4. CASE l = lab
      <3>1. CASE CanNavigateToLab(l)
        BY <2>4, <3>1 DEF HandleReady
      <3>2. CASE ~ CanNavigateToLab(l)
        <4>1. strayed' = (strayed \/ pending # l) /\ pending' = pending
          BY <3>2 DEF HandleReady
        <4>2. pending # l => Excused'
          BY <4>1 DEF Excused
        <4>. QED  BY <1>3, <4>1, <4>2
      <3>. QED  BY <3>1, <3>2
    <2>5. CASE l # lab /\ Excused
      BY <1>4, <2>5 DEF InStep
    <2>6. CASE Waits
      BY <1>5, <2>6
    <2>. QED  BY <2>3, <2>4, <2>5, <2>6
  <1>. QED  BY <1>1, <1>2, <1>6, <1>7 DEF NavInv, SilentBeforeShell, FollowsInSilence

LEMMA PageHandlesResult ==
    ASSUME TypeOK, NavInv, HandleResult
    PROVE  NavInv'
  <1>1. /\ output # <<>> /\ output' = Tail(output)
        /\ UNCHANGED <<selected, pending, phase, lab, strayed>>
    BY DEF HandleResult, NextMessage, guestVars
  <1>2. phase = "steady"
    BY <1>1 DEF NavInv, SilentBeforeShell
  <1>3. told => told'
    BY DEF HandleResult
  <1>4. Excused => Excused'
    BY <1>1, <1>3 DEF Excused
  <1>5. Waits => Waits'
    BY <1>1, WaitLasts
  <1>6. LastWordIsTrue'
    BY <1>1, <1>4, <1>5, RestIsTrue DEF LastWordIsTrue
  <1>7. SaysNothing' => SaysNothing
    <2>. SUFFICES ASSUME SaysNothing', NEW j \in 1..Len(output) PROVE ~ Said(j)
      BY DEF SaysNothing
    <2>1. CASE j = 1
      BY <1>1, <2>1, TailFacts DEF HandleResult, NextMessage, Said
    <2>2. CASE j # 1
      <3>1. j - 1 \in 1..Len(output') /\ output'[j - 1] = output[j]
        BY <1>1, <2>2, TailFacts
      <3>2. ~ Said(j - 1)'
        BY <3>1 DEF SaysNothing
      <3>. QED  BY <3>1, <3>2 DEF Said
    <2>. QED  BY <2>1, <2>2
  <1>. QED  BY <1>1, <1>2, <1>4, <1>6, <1>7 DEF NavInv, SilentBeforeShell, FollowsInSilence

\* Checking a signature changes no lab of a message and no result.
LEMMA PageVerifies ==
    ASSUME TypeOK, NavInv, VerifyReady
    PROVE  NavInv'
  <1>. DEFINE q == output
              m == [Head(q) EXCEPT !.type = "checked ready"]
  <1>1. /\ q # <<>> /\ output' = <<m>> \o Tail(q) /\ Head(q).type = "lab-ready"
        /\ UNCHANGED <<selected, pending, phase, lab, told, strayed>>
    BY DEF VerifyReady, NextMessage, pageVars, guestVars
  <1>2. q \in Seq(Messages) /\ Head(q) = q[1] /\ q[1] \in Messages
    <2>1. Head(q) \in Messages
      BY <1>1, HeadType
    <2>2. output \in Seq(Messages)
      BY DEF TypeOK
    <2>3. \A r \in Seq(Messages) : r # <<>> => Head(r) = r[1]
      OBVIOUS
    <2>. QED  BY <1>1, <2>1, <2>2, <2>3
  <1>3. m.lab = q[1].lab /\ m.type = "checked ready"
    BY <1>2 DEF Messages
  <1>4. /\ Len(output') = Len(q) /\ output'[1] = m
        /\ \A i \in 1..Len(q) : i # 1 => output'[i] = q[i]
    <2>. HIDE DEF m, q
    <2>1. Tail(q) \in Seq(Messages) /\ Len(Tail(q)) = Len(q) - 1 /\ Len(q) \in Nat \ {0}
      BY <1>1, <1>2
    <2>2. \A r \in Seq(Messages) :
            /\ Len(<<m>> \o r) = Len(r) + 1 /\ (<<m>> \o r)[1] = m
            /\ \A i \in 2..(Len(r) + 1) : (<<m>> \o r)[i] = r[i - 1]
      OBVIOUS
    <2>3. \A i \in 2..Len(q) : Tail(q)[i - 1] = q[i]
      BY <1>1, <1>2
    <2>. QED  BY <1>1, <2>1, <2>2, <2>3
  <1>5. \A i \in 1..Len(q) : output'[i].lab = q[i].lab
    BY <1>3, <1>4
  <1>6. \A i \in 1..Len(q) : Said(i)' = Said(i)
    BY <1>1, <1>2, <1>3, <1>4 DEF Said
  <1>7. Waits => Waits'
    BY <1>1, <1>4, <1>5, <1>6 DEF Waits
  <1>8. \A i \in 1..Len(q) : LastSaid(i)' => LastSaid(i)
    BY <1>4, <1>6 DEF LastSaid
  <1>9. LastWordIsTrue'
    BY <1>1, <1>4, <1>5, <1>7, <1>8 DEF NavInv, LastWordIsTrue, Excused
  <1>10. phase = "steady"
    BY <1>1 DEF NavInv, SilentBeforeShell
  <1>11. SaysNothing' => SaysNothing
    BY <1>4, <1>6 DEF SaysNothing
  <1>. QED  BY <1>1, <1>9, <1>10, <1>11 DEF NavInv, SilentBeforeShell, FollowsInSilence, Excused

LEMMA ShellKeeps ==
    ASSUME TypeOK, NavInv, ShellReads
    PROVE  NavInv'
  <1>. DEFINE line == Head(input)
  <1>1. /\ phase = "steady" /\ line.target \in Labs
        /\ UNCHANGED <<selected, pending, phase, told>>
    BY HeadType DEF ShellReads, pageVars
  <1>2. CASE UNCHANGED <<lab, output, strayed>>
    BY <1>1, <1>2, NothingSaid DEF Excused
  <1>3. CASE EnterLab(line.target)
    BY <1>1, <1>3, GuestEnters
  <1>4. CASE Answer("lab-ready", lab) /\ UNCHANGED <<lab, strayed>>
    BY <1>1, <1>4, GuestSaysReady DEF TypeOK
  <1>. QED  BY <1>2, <1>3, <1>4 DEF ShellReads

LEMMA NavInit == Init => NavInv
  BY DEF Init, NavInv, SilentBeforeShell, FollowsInSilence, LastWordIsTrue

LEMMA NavStep == TypeOK /\ NavInv /\ [Next]_vars => NavInv'
  <1>. SUFFICES ASSUME TypeOK, NavInv, [Next]_vars PROVE NavInv'
    OBVIOUS
  <1>. USE DEF pageVars, guestVars
  <1>1. ASSUME NEW l \in Labs, SelectLab(l) PROVE NavInv'
    BY <1>1, PageGoes DEF SelectLab
  <1>2. ASSUME NEW l \in Labs, DebugUnlockLab(l) PROVE NavInv'
    <2>1. CASE l # selected
      BY <1>2, <2>1, PageGoes DEF DebugUnlockLab
    <2>2. CASE l = selected
      BY <1>2, <2>2, NothingSaid DEF DebugUnlockLab, Excused
    <2>. QED  BY <2>1, <2>2
  <1>3. ASSUME NEW l \in Labs, TypeGoto(l) PROVE NavInv'
    BY <1>3, GuestEnters DEF TypeGoto, Prompt
  <1>4. CASE ResetCurrentLevel
    BY <1>4, NothingSaid DEF ResetCurrentLevel, Excused
  <1>5. CASE RunProgram
    BY <1>5, NothingSaid DEF RunProgram, Excused
  <1>6. CASE ResetLab
    BY <1>6, GuestSaysReady DEF ResetLab, Prompt, TypeOK
  <1>7. CASE Check
    BY <1>7, GuestSaysResult DEF Check, Prompt
  <1>8. CASE Ready
    <2>1. phase = "booting" /\ phase' = "restoring" /\ output = <<>> /\ UNCHANGED output
      BY <1>8 DEF Ready, NavInv, SilentBeforeShell
    <2>. QED  BY <2>1 DEF NavInv, SilentBeforeShell, FollowsInSilence, LastWordIsTrue
  <1>9. CASE RunBootRestore
    <2>1. output = <<>> /\ UNCHANGED output /\ phase' = "steady" /\ pending' = selected
      BY <1>9 DEF RunBootRestore, NavInv, SilentBeforeShell
    <2>2. pending' # None
      BY <2>1 DEF TypeOK
    <2>. QED  BY <2>1, <2>2 DEF NavInv, SilentBeforeShell, FollowsInSilence, LastWordIsTrue
  <1>10. CASE NavigationTimesOut
    <2>1. Excused' /\ UNCHANGED <<phase, output>>
      BY <1>10 DEF NavigationTimesOut, Excused
    <2>. QED  BY <2>1 DEF NavInv, SilentBeforeShell, FollowsInSilence, LastWordIsTrue
  <1>11. CASE OtherTabCompletes
    BY <1>11, NothingSaid DEF OtherTabCompletes, Excused
  <1>12. CASE OtherTabStartsOver
    <2>1. /\ UNCHANGED <<phase, output, pending, lab, told>>
          /\ strayed' = (strayed \/ selected' # selected)
      BY <1>12 DEF OtherTabStartsOver
    <2>2. CASE selected' = selected
      BY <2>1, <2>2, NothingSaid DEF Excused
    <2>3. CASE selected' # selected
      <3>1. Excused'
        BY <2>1, <2>3 DEF Excused
      <3>. QED  BY <2>1, <3>1 DEF NavInv, SilentBeforeShell, FollowsInSilence, LastWordIsTrue
    <2>. QED  BY <2>2, <2>3
  <1>13. CASE ProgramReads
    BY <1>13, NothingSaid DEF ProgramReads, Excused
  <1>14. CASE ProgramEnds
    BY <1>14, NothingSaid DEF ProgramEnds, Excused
  <1>15. CASE UNCHANGED vars
    BY <1>15, NothingSaid DEF vars, Excused
  <1>. QED
    BY <1>1, <1>2, <1>3, <1>4, <1>5, <1>6, <1>7, <1>8, <1>9, <1>10, <1>11, <1>12, <1>13, <1>14,
       <1>15, PageVerifies, PageHandlesReady, PageHandlesResult, ShellKeeps
    DEF Next, Page, Student

\* Once everything typed has been read and answered, the page shows the lab the guest
\* is in, or a notice was shown, or page or guest moved where the other does not follow:
\* whatever the shell or a program in the foreground swallows, whatever is refused,
\* answered late or left unsigned, and whatever another tab completes meanwhile.
THEOREM PageAndGuestAreNotSilentlyApart == Spec => []NeverSilentlyApart
  <1>1. TypeOK /\ NavInv => NeverSilentlyApart
    <2>. SUFFICES ASSUME NavInv, phase = "steady", output = <<>>, pending = None
                  PROVE  selected = lab \/ told \/ strayed
      BY DEF NeverSilentlyApart
    <2>1. SaysNothing
      BY DEF SaysNothing
    <2>. QED  BY <2>1 DEF NavInv, FollowsInSilence, Excused
  <1>. QED  BY <1>1, TypeInit, TypeStep, NavInit, NavStep, PTL DEF Spec

-----------------------------------------------------------------------------
(* HtCheck and Debugger: types. *)

ShellTypeOK ==
    /\ stateDir \in BOOLEAN
    /\ levelFile \in Levels \cup {Absent} /\ labFile \in GuestLabs \cup {Absent}
    /\ maxCompleted \in 0 .. LastLevel /\ completedLabs \subseteq GuestLabs
    /\ command \in {"shell", "goto", "gotoLab", "script", "recorded", "debugger"}
    /\ subject \in Places \cup {Absent} /\ signed \subseteq Places
    /\ command = "goto" => subject \in Levels
    /\ command = "gotoLab" => subject \in GuestLabs
    /\ command \in {"script", "recorded"} => subject \in Places

Modes == {"off", "starting", "prompt", "command", "resume", "step", "run", "complete", "quit"}

DebuggerTypeOK ==
    /\ mode \in Modes /\ request \in {"none", "step", "continue"}
    /\ origin \in Code \cup {Exit} /\ alive \in BOOLEAN /\ eip \in Nat /\ due \in Nat
    /\ code \in [Code -> {"linked", "edited", "trap"}]
    /\ DOMAIN breakpoints \subseteq Code
    /\ \A b \in DOMAIN breakpoints : breakpoints[b] \in {"linked", "edited", "trap"}
    /\ reachedCount \in Nat
    /\ key \in [GuestLabs -> {"none", "old", "current"}]

GuestTypeOK == ShellTypeOK /\ DebuggerTypeOK

-----------------------------------------------------------------------------
(* Where the student is. *)

(* A command that moves the student has looked at the prerequisites, and what *)
(* a file names has them.                                                     *)
PlacesAreUnlocked ==
    /\ labFile # Absent => LabUnlocked(labFile)
    /\ levelFile # Absent => LevelUnlocked(levelFile)
    /\ command = "goto" => LevelUnlocked(subject)
    /\ command = "gotoLab" => LabUnlocked(subject)
RecordedIsRecorded == command = "recorded" /\ stateDir => Recorded(subject)

-----------------------------------------------------------------------------
(* The debugger's session. *)

SessionHasKey ==
    mode # "off" => /\ command = "debugger" /\ labFile \in Debugged
                    /\ key[labFile] = "current"

-----------------------------------------------------------------------------
(* The child's code. *)

(* Off a breakpoint one steps alone: resume_child has put its byte back.       *)
SteppedOff ==
    IF mode = "step"
    THEN alive /\ origin = (IF Planted(eip) THEN eip ELSE Exit)
    ELSE origin = Exit
(* A child that is gone has left no code, and a byte that traps is planted.   *)
NoStrayTrap ==
    /\ ~alive => code = [a \in Code |-> "linked"]
    /\ \A a \in Code : code[a] = "trap" => Planted(a)
    /\ \A b \in DOMAIN breakpoints : breakpoints[b] # "trap"
(* A child that runs has no breakpoint to stand on that would be missed.       *)
AllPlanted ==
    alive => \A b \in DOMAIN breakpoints :
                 \/ code[b] = "trap" \/ b \in left
                 \/ b = eip /\ mode # "run"

TablesBounded ==
    /\ IsFiniteSet(DOMAIN breakpoints)
    /\ Cardinality(DOMAIN breakpoints) <= MaxBreakpoints
    /\ IsFiniteSet(reached) /\ Cardinality(reached) <= reachedCount
    /\ reachedCount <= MaxReached

-----------------------------------------------------------------------------
(* What the proofs keep needing of the model's operators. *)

HIDE NavigationAssumption
USE HtCheckAssumption, DebuggerAssumption

LEMMA NoneHasNoDomain == DOMAIN <<>> = {}
  OBVIOUS

(* Code has addresses that are not Exit, and every instruction starts in it.  *)
LEMMA CodeIsAddresses == Code \subseteq Nat \ {Exit} /\ Starts \subseteq Code
  <1>1. ASSUME NEW a \in Starts
        PROVE  /\ a .. a + Program[a].length - 1 \subseteq Nat \ {Exit}
               /\ a \in a .. a + Program[a].length - 1
    <2>1. a \in Nat \ {0} /\ Program[a].length \in Nat \ {0}
      BY DEF Starts, Exit
    <2>. QED
      BY <2>1 DEF Exit
  <1>. QED
    BY <1>1 DEF Code

(* Wherever the processor takes the child is an address, or Exit.             *)
LEMMA OutcomesAreAddresses ==
    ASSUME NEW a \in Nat, NEW o \in Outcomes(a)
    PROVE  o[1] \in Nat
  <1>1. Starts \subseteq Nat /\ Exit \in Nat
    BY DEF Starts, Exit
  <1>2. CASE o \in {<<a + 1, "trap">>}
    BY <1>2
  <1>3. CASE Intact(a) /\ o \in {<<n, "trap">> : n \in Program[a].next}
    <2>1. Program[a].next \subseteq Starts \cup {Exit}
      BY <1>3 DEF Intact, Starts
    <2>. QED
      BY <1>1, <1>3, <2>1
  <1>4. CASE o \in ({a} \X {"fault"}) \cup {<<n, "trap">> : n \in Starts}
    BY <1>1, <1>4
  <1>. QED
    BY <1>2, <1>3, <1>4 DEF Outcomes

(* The debugger touches the shell's state when it takes a key, and leaves.    *)
LEMMA GuestMoves ==
    ASSUME [DebuggerNext]_<<shellVars, debugVars>>
    PROVE  \/ mode = "off" /\ GuestCommand /\ UNCHANGED debugVars
           \/ PrepareKey \/ TakeKey \/ LeaveDebugger \/ Reboot
           \/ UNCHANGED shellVars
  BY DEF DebuggerNext, DebuggerStep, StartChild, Restart, SingleStep, RunStep, RunGone,
     Resume, Step, Break, Delete, SetMemory, Jump, CheckSuccess, Restarted

LEMMA StopTypes ==
    ASSUME DebuggerTypeOK, NEW at \in Nat, NEW signal, Stop(at, signal)
    PROVE  /\ alive' \in BOOLEAN /\ eip' \in Nat /\ due' \in Nat
           /\ code' \in [Code -> {"linked", "edited", "trap"}]
           /\ reachedCount' \in Nat
  <1>. USE DEF DebuggerTypeOK, Stop
  <1>1. Code \subseteq Nat
    BY CodeIsAddresses
  <1>2. Written(at, signal) \in [Code -> {"linked", "edited", "trap"}]
    BY <1>1 DEF Written, Rewinds, Planted
  <1>3. eip' \in Nat
    BY <1>1 DEF Rewinds, Planted
  <1>. QED
    BY <1>2, <1>3

(* The list of a new child holds its first stop, if it has come to one.       *)
LEMMA StartCount ==
    ASSUME Fork(reached)
    PROVE  /\ IsFiniteSet(reached') /\ reachedCount' = Cardinality(reached')
           /\ reachedCount' \in Nat /\ reachedCount' <= MaxReached
  <1>1. reached' = stops' /\ reachedCount' = Cardinality(reached')
    BY DEF Fork
  <1>2. CASE stops' = {Entry}
    <2>1. IsFiniteSet(stops') /\ Cardinality(stops') = 1
      BY <1>2, FS_Singleton
    <2>. QED
      BY <1>1, <2>1
  <1>3. CASE stops' = {}
    BY <1>1, <1>3, FS_EmptySet
  <1>. QED
    BY <1>2, <1>3 DEF Fork

-----------------------------------------------------------------------------
(* Types, and the key the session holds, which says what lab is completed. *)

LEMMA GuestTypeInit == DebuggerInit => GuestTypeOK /\ SessionHasKey
  <1>. SUFFICES ASSUME DebuggerInit PROVE GuestTypeOK /\ SessionHasKey
    OBVIOUS
  <1>1. Entry \in Nat
    BY DEF Starts
  <1>2. maxCompleted \in 0 .. LastLevel /\ completedLabs \subseteq GuestLabs
    BY DEF DebuggerInit, HtCheckInit
  <1>3. ShellTypeOK
    BY <1>2 DEF DebuggerInit, HtCheckInit, ShellTypeOK
  <1>4. DebuggerTypeOK
    BY <1>1, NoneHasNoDomain DEF DebuggerInit, DebuggerTypeOK, NoKeys, Modes, Exit
  <1>. QED
    BY <1>3, <1>4 DEF DebuggerInit, GuestTypeOK, SessionHasKey

(* A place that is recorded leaves a record of the right type.                *)
LEMMA RecordTypes ==
    ASSUME ShellTypeOK, NEW p \in Places, Record(p)
    PROVE  maxCompleted' \in 0 .. LastLevel /\ completedLabs' \subseteq GuestLabs
  <1>1. CASE p \in GuestLabs
    BY <1>1 DEF ShellTypeOK, Record
  <1>2. CASE p \notin GuestLabs
    <2>1. p \in 1 .. LastLevel
      BY <1>2 DEF Places, Levels
    <2>2. maxCompleted' = p \/ maxCompleted' = maxCompleted
      BY <1>2 DEF Record
    <2>3. completedLabs' = completedLabs
      BY <1>2 DEF Record
    <2>. QED
      BY <2>1, <2>2, <2>3 DEF ShellTypeOK
  <1>. QED
    BY <1>1, <1>2

LEMMA CurrentIsPlace == ASSUME ShellTypeOK PROVE CurrentPlace \in Places
  BY DEF ShellTypeOK, CurrentPlace, Places, Levels, Absent

LEMMA ShellTypeNext ==
    ASSUME GuestTypeOK, SessionHasKey, [DebuggerNext]_<<shellVars, debugVars>>
    PROVE  ShellTypeOK'
  <1>. USE DEF GuestTypeOK, ShellTypeOK, Places
  <1>1. CASE mode = "off" /\ (\E n \in Levels : EnterLevel(n))
    BY <1>1 DEF EnterLevel, record
  <1>2. CASE mode = "off" /\ (\E l \in GuestLabs : EnterGuestLab(l))
    BY <1>2 DEF EnterGuestLab, record
  <1>3. CASE mode = "off" /\ (\E p \in Places : Replay(p))
    <2>1. PICK p \in Places : Replay(p)
      BY <1>3
    <2>. QED
      BY <2>1, RecordTypes DEF Replay
  <1>4. CASE mode = "off" /\ WriteLevel
    BY <1>4 DEF WriteLevel, record
  <1>5. CASE mode = "off" /\ WriteLab
    BY <1>5 DEF WriteLab, record
  <1>6. CASE mode = "off" /\ FactoryReset
    BY <1>6 DEF FactoryReset, Levels
  <1>7. CASE mode = "off" /\ RunCheck
    BY <1>7, CurrentIsPlace DEF RunCheck, placeVars, record
  <1>8. CASE mode = "off" /\ Passes
    <2>1. subject \in Places /\ subject \in Scripted
      BY <1>8 DEF Passes, Levels
    <2>2. maxCompleted' \in 0 .. LastLevel /\ completedLabs' \subseteq GuestLabs
      BY <1>8, <2>1, RecordTypes DEF Passes, record
    <2>. QED
      BY <1>8, <2>2 DEF Passes, placeVars
  <1>9. CASE mode = "off" /\ Fails
    BY <1>9 DEF Fails, placeVars, record
  <1>10. CASE mode = "off" /\ Sign
    BY <1>10 DEF Sign, placeVars, record
  <1>11. CASE mode = "off" /\ Interrupt
    BY <1>11 DEF Interrupt, placeVars, record
  <1>12. CASE PrepareKey
    BY <1>12 DEF PrepareKey, childVars, tableVars, placeVars, record
  <1>13. CASE TakeKey
    <2>1. labFile \in GuestLabs /\ labFile \in Places
      BY <1>13 DEF TakeKey, SessionHasKey
    <2>. QED
      BY <1>13, <2>1, RecordTypes DEF TakeKey, placeVars, record
  <1>14. CASE LeaveDebugger
    BY <1>14 DEF LeaveDebugger, placeVars, record, Forget
  <1>15. CASE Reboot
    <2>1. stateDir' \in BOOLEAN /\ levelFile' \in Levels \cup {Absent} /\
       labFile' \in GuestLabs \cup {Absent}
      BY <1>15 DEF Reboot
    <2>2. maxCompleted' \in 0 .. LastLevel
      BY <1>15 DEF Reboot
    <2>3. completedLabs' \subseteq GuestLabs
      BY <1>15 DEF Reboot
    <2>4. subject' \in Places \cup {Absent} /\ signed' \subseteq Places
      BY <1>15 DEF Reboot
    <2>. QED
      BY <1>15, <2>1, <2>2, <2>3, <2>4 DEF Reboot
  <1>16. CASE UNCHANGED shellVars
    BY <1>16 DEF shellVars, placeVars, record
  <1>. QED  BY <1>1, <1>2, <1>3, <1>4, <1>5, <1>6, <1>7, <1>8, <1>9, <1>10,
     <1>11, <1>12, <1>13, <1>14, <1>15, <1>16, GuestMoves DEF GuestCommand

LEMMA DebuggerTypeNext ==
    ASSUME GuestTypeOK, SessionHasKey, [DebuggerNext]_<<shellVars, debugVars>>
    PROVE  DebuggerTypeOK'
  <1>. USE DEF GuestTypeOK, DebuggerTypeOK, Modes
  <1>1. CASE PrepareKey
    BY <1>1 DEF PrepareKey, childVars, tableVars, placeVars, record
  <1>2. CASE StartChild
    <2>1. Fork(reached)
      BY <1>2 DEF StartChild
    <2>2. reachedCount' \in Nat
      BY <2>1, StartCount DEF Fork
    <2>3. Entry \in Nat
      BY DEF Starts
    <2>. QED
      BY <1>2, <2>1, <2>2, <2>3 DEF StartChild, Fork, shellVars
  <1>3. CASE Restart
    <2>1. Fork(reached)
      BY <1>3 DEF Restart
    <2>2. reachedCount' \in Nat
      BY <2>1, StartCount DEF Fork
    <2>3. Entry \in Nat
      BY DEF Starts
    <2>. QED
      BY <1>3, <2>1, <2>2, <2>3 DEF Restart, Fork, shellVars
  <1>4. CASE SingleStep
    <2>1. PICK o \in Outcomes(eip) :
             /\ IF o[1] = Exit THEN Gone ELSE Stop(o[1], o[2])
             /\ mode' \in Modes
      BY <1>4 DEF SingleStep
    <2>2. o[1] \in Nat /\ Entry \in Nat
      BY OutcomesAreAddresses DEF Starts
    <2>3. /\ alive' \in BOOLEAN /\ eip' \in Nat /\ due' \in Nat
          /\ code' \in [Code -> {"linked", "edited", "trap"}] /\ reachedCount'
             \in Nat
      BY <2>1, <2>2, StopTypes DEF Gone
    <2>. QED
      BY <1>4, <2>1, <2>3 DEF SingleStep, shellVars
  <1>5. CASE RunStep
    <2>1. PICK o \in Outcomes(eip) :
             IF o[1] = Exit THEN Gone /\ mode' = "command"
             ELSE IF o[2] = "fault" \/ (eip \in Code /\ code[eip] = "trap")
             THEN Stop(o[1], o[2]) /\ mode' = "command"
             ELSE /\ eip' = o[1] /\ due' = o[1]
                  /\ UNCHANGED <<alive, code, reached, reachedCount, stops,
                     mode>>
      BY <1>5 DEF RunStep
    <2>2. o[1] \in Nat /\ Entry \in Nat
      BY OutcomesAreAddresses DEF Starts
    <2>3. /\ alive' \in BOOLEAN /\ eip' \in Nat /\ due' \in Nat
          /\ code' \in [Code -> {"linked", "edited", "trap"}] /\ reachedCount'
             \in Nat
          /\ mode' \in Modes
      BY <2>1, <2>2, StopTypes DEF Gone
    <2>. QED
      BY <1>5, <2>3 DEF RunStep, shellVars, tableVars
  <1>6. CASE RunGone
    BY <1>6 DEF RunGone, shellVars, childVars, tableVars, placeVars, record
  <1>7. CASE Resume
    BY <1>7 DEF Resume, shellVars, Planted, placeVars, record
  <1>8. CASE \E r \in {"step", "continue"} : Step(r)
    BY <1>8 DEF Step, shellVars, childVars, tableVars, placeVars, record
  <1>9. CASE \E a \in Code : Break(a)
    BY <1>9 DEF Break, shellVars, Install, Planted, placeVars, record
  <1>10. CASE \E a \in Code : Delete(a)
    BY <1>10 DEF Delete, shellVars, Planted, placeVars, record
  <1>11. CASE \E a \in Code : SetMemory(a)
    BY <1>11 DEF SetMemory, shellVars, placeVars, record
  <1>12. CASE \E a \in Starts : Jump(a)
    <2>1. Starts \subseteq Nat
      BY DEF Starts
    <2>. QED
      BY <1>12, <2>1 DEF Jump, shellVars
  <1>13. CASE CheckSuccess
    BY <1>13 DEF CheckSuccess, shellVars, childVars, tableVars, placeVars,
       record
  <1>14. CASE TakeKey
    <2>1. Entry \in Nat
      BY DEF Starts
    <2>. QED
      BY <1>14, <2>1, NoneHasNoDomain DEF TakeKey, Forget, placeVars
  <1>15. CASE LeaveDebugger
    <2>1. Entry \in Nat
      BY DEF Starts
    <2>. QED
      BY <1>15, <2>1, NoneHasNoDomain DEF LeaveDebugger, Forget, placeVars,
         record
  <1>16. CASE Restarted
    <2>1. Entry \in Nat
      BY DEF Starts
    <2>. QED
      BY <1>16, <2>1, NoneHasNoDomain DEF Restarted, Forget, NoKeys
  <1>17. CASE mode = "off" /\ GuestCommand /\ UNCHANGED debugVars
    BY <1>17 DEF debugVars
  <1>18. CASE UNCHANGED <<shellVars, debugVars>>
    BY <1>18 DEF debugVars, shellVars, placeVars, record
  <1>. QED  BY <1>1, <1>2, <1>3, <1>4, <1>5, <1>6, <1>7, <1>8, <1>9, <1>10,
     <1>11, <1>12, <1>13, <1>14, <1>15, <1>16, <1>17, <1>18 DEF DebuggerNext,
     DebuggerStep

LEMMA SessionNext ==
    ASSUME GuestTypeOK, SessionHasKey, [DebuggerNext]_<<shellVars, debugVars>>
    PROVE  SessionHasKey'
  <1>. USE DEF SessionHasKey, GuestTypeOK, ShellTypeOK, DebuggerTypeOK
  <1>1. CASE PrepareKey
    BY <1>1 DEF PrepareKey, childVars, tableVars, placeVars, record
  <1>2. CASE StartChild
    BY <1>2 DEF StartChild, shellVars, placeVars, record
  <1>3. CASE Restart
    BY <1>3 DEF Restart, shellVars, placeVars, record
  <1>4. CASE SingleStep
    BY <1>4 DEF SingleStep, shellVars, placeVars, record
  <1>5. CASE RunStep
    BY <1>5 DEF RunStep, shellVars, tableVars, placeVars, record
  <1>6. CASE RunGone
    BY <1>6 DEF RunGone, shellVars, childVars, tableVars, placeVars, record
  <1>7. CASE Resume
    BY <1>7 DEF Resume, shellVars, Planted, placeVars, record
  <1>8. CASE \E r \in {"step", "continue"} : Step(r)
    BY <1>8 DEF Step, shellVars, childVars, tableVars, placeVars, record
  <1>9. CASE \E a \in Code : Break(a)
    BY <1>9 DEF Break, shellVars, placeVars, record
  <1>10. CASE \E a \in Code : Delete(a)
    BY <1>10 DEF Delete, shellVars, Planted, placeVars, record
  <1>11. CASE \E a \in Code : SetMemory(a)
    BY <1>11 DEF SetMemory, shellVars, placeVars, record
  <1>12. CASE \E a \in Starts : Jump(a)
    BY <1>12 DEF Jump, shellVars, placeVars, record
  <1>13. CASE CheckSuccess
    BY <1>13 DEF CheckSuccess, shellVars, childVars, tableVars, placeVars,
       record
  <1>14. CASE TakeKey
    BY <1>14 DEF TakeKey, placeVars, record, Forget
  <1>15. CASE LeaveDebugger
    BY <1>15 DEF LeaveDebugger, placeVars, record, Forget
  <1>16. CASE Restarted
    BY <1>16 DEF Restarted, Forget, NoKeys
  <1>17. CASE mode = "off" /\ GuestCommand /\ UNCHANGED debugVars
    BY <1>17 DEF debugVars
  <1>18. CASE UNCHANGED <<shellVars, debugVars>>
    BY <1>18 DEF debugVars, shellVars, placeVars, record
  <1>. QED  BY <1>1, <1>2, <1>3, <1>4, <1>5, <1>6, <1>7, <1>8, <1>9, <1>10,
     <1>11, <1>12, <1>13, <1>14, <1>15, <1>16, <1>17, <1>18 DEF DebuggerNext,
     DebuggerStep

(* The shell's files and the debugger's variables keep their types.            *)
THEOREM GuestIsTyped == GuestSpec => []GuestTypeOK
  <1>1. GuestTypeOK /\ SessionHasKey /\ [DebuggerNext]_<<shellVars, debugVars>>
           => (GuestTypeOK /\ SessionHasKey)'
    BY ShellTypeNext, DebuggerTypeNext, SessionNext DEF GuestTypeOK
  <1>. QED
    BY GuestTypeInit, <1>1, PTL DEF GuestSpec

(* The key a completion is graded with was made for the session that           *)
(* completes: prepare_dynamic_key stands before every session, and nothing but *)
(* the completion and the end of the session touch the key after it.           *)
THEOREM CompletionsUseOwnKey == GuestSpec => []KeyIsOfThisSession
  <1>1. GuestTypeOK /\ SessionHasKey /\ [DebuggerNext]_<<shellVars, debugVars>>
           => (GuestTypeOK /\ SessionHasKey)'
    BY ShellTypeNext, DebuggerTypeNext, SessionNext DEF GuestTypeOK
  <1>2. SessionHasKey => KeyIsOfThisSession
    BY DEF SessionHasKey, KeyIsOfThisSession
  <1>. QED
    BY GuestTypeInit, <1>1, <1>2, PTL DEF GuestSpec

-----------------------------------------------------------------------------
(* Grading: what the guest's record says of where the student is and of what  *)
(* is signed. *)

ShellInv == PlacesAreUnlocked /\ RecordedIsRecorded

(* A record that only grows unlocks no less.                                  *)
LEMMA RecordUnlocks ==
    ASSUME ShellTypeOK, NEW p \in Places, Record(p)
    PROVE  /\ \A n \in Levels : LevelUnlocked(n) => LevelUnlocked(n)'
           /\ \A l \in GuestLabs : LabUnlocked(l) => LabUnlocked(l)'
           /\ \A q \in Places : Recorded(q) => Recorded(q)'
           /\ Recorded(p)'
  <1>1. maxCompleted' \in 0 .. LastLevel /\ completedLabs' \subseteq GuestLabs
    BY RecordTypes
  <1>2. completedLabs \subseteq completedLabs' /\ (p \in GuestLabs => p \in completedLabs')
    BY DEF Record
  <1>3. maxCompleted <= maxCompleted' /\ (p \notin GuestLabs => p <= maxCompleted')
    <2>1. CASE p \in GuestLabs
      BY <2>1 DEF Record, ShellTypeOK
    <2>2. CASE p \notin GuestLabs
      <3>1. p \in 1 .. LastLevel
        BY <2>2 DEF Places, Levels
      <3>2. IF p > maxCompleted THEN maxCompleted' = p ELSE maxCompleted' = maxCompleted
        BY <2>2 DEF Record
      <3>. QED
        BY <2>2, <3>1, <3>2 DEF ShellTypeOK
    <2>. QED
      BY <2>1, <2>2
  <1>4. maxCompleted \in Nat /\ maxCompleted' \in Nat
    BY <1>1 DEF ShellTypeOK
  <1>5. ASSUME NEW n \in Levels, LevelUnlocked(n) PROVE LevelUnlocked(n)'
    BY <1>3, <1>4, <1>5 DEF LevelUnlocked, Levels
  <1>6. ASSUME NEW l \in GuestLabs, LabUnlocked(l) PROVE LabUnlocked(l)'
    <2>1. UnlockLevel[l] \in Nat
      OBVIOUS
    <2>. QED
      BY <1>2, <1>3, <1>4, <1>6, <2>1 DEF LabUnlocked
  <1>7. ASSUME NEW q \in Places, Recorded(q) PROVE Recorded(q)'
    <2>1. CASE q \in GuestLabs
      BY <1>2, <1>7, <2>1 DEF Recorded
    <2>2. CASE q \notin GuestLabs
      <3>1. q \in Nat
        BY <2>2 DEF Places, Levels
      <3>. QED
        BY <1>3, <1>4, <1>7, <2>2, <3>1 DEF Recorded
    <2>. QED
      BY <2>1, <2>2
  <1>8. Recorded(p)'
    BY <1>2, <1>3 DEF Recorded
  <1>. QED
    BY <1>5, <1>6, <1>7, <1>8

LEMMA ShellInit == DebuggerInit => ShellInv
  BY DEF DebuggerInit, HtCheckInit, ShellInv, PlacesAreUnlocked, RecordedIsRecorded

LEMMA ShellNext ==
    ASSUME GuestTypeOK, SessionHasKey, ShellInv, [DebuggerNext]_<<shellVars, debugVars>>
    PROVE  ShellInv'
  <1>. USE DEF ShellInv, PlacesAreUnlocked, RecordedIsRecorded, GuestTypeOK,
     ShellTypeOK
  <1>1. CASE mode = "off" /\ (\E n \in Levels : EnterLevel(n))
    BY <1>1 DEF EnterLevel, record, LevelUnlocked, LabUnlocked, Recorded
  <1>2. CASE mode = "off" /\ (\E l \in GuestLabs : EnterGuestLab(l))
    BY <1>2 DEF EnterGuestLab, record, LevelUnlocked, LabUnlocked, Recorded
  <1>3. CASE mode = "off" /\ (\E p \in Places : Replay(p))
    <2>1. PICK p \in Places : Replay(p)
      BY <1>3
    <2>2. /\ \A n \in Levels : LevelUnlocked(n) => LevelUnlocked(n)'
          /\ \A l \in GuestLabs : LabUnlocked(l) => LabUnlocked(l)'
      BY <2>1, RecordUnlocks DEF Replay
    <2>. QED
      BY <2>1, <2>2 DEF Replay
  <1>4. CASE mode = "off" /\ WriteLevel
    BY <1>4 DEF WriteLevel, record, LevelUnlocked, LabUnlocked, Recorded
  <1>5. CASE mode = "off" /\ WriteLab
    BY <1>5 DEF WriteLab, record, LevelUnlocked, LabUnlocked, Recorded
  <1>6. CASE mode = "off" /\ FactoryReset
    BY <1>6 DEF FactoryReset, LevelUnlocked, LabUnlocked, Recorded
  <1>7. CASE mode = "off" /\ RunCheck
    BY <1>7 DEF RunCheck, placeVars, record, LevelUnlocked, LabUnlocked,
       Recorded
  <1>8. CASE mode = "off" /\ Passes
    <2>1. PICK p \in Places : p = subject
      BY <1>8 DEF Passes
    <2>2. CASE stateDir
      <3>1. Record(p)
        BY <1>8, <2>1, <2>2 DEF Passes
      <3>2. /\ \A n \in Levels : LevelUnlocked(n) => LevelUnlocked(n)'
            /\ \A l \in GuestLabs : LabUnlocked(l) => LabUnlocked(l)'
            /\ Recorded(p)'
        BY <3>1, RecordUnlocks
      <3>3. Recorded(subject)'
        BY <1>8, <2>1, <3>2 DEF Passes, Recorded
      <3>4. UNCHANGED placeVars /\ command' = "recorded"
        BY <1>8 DEF Passes
      <3>. QED
        BY <3>2, <3>3, <3>4 DEF placeVars
    <2>3. CASE ~stateDir
      BY <1>8, <2>3 DEF Passes, placeVars, record, LevelUnlocked, LabUnlocked
    <2>. QED
      BY <2>2, <2>3
  <1>9. CASE mode = "off" /\ Fails
    BY <1>9 DEF Fails, placeVars, record, LevelUnlocked, LabUnlocked, Recorded
  <1>10. CASE mode = "off" /\ Sign
    BY <1>10 DEF Sign, placeVars, record, LevelUnlocked, LabUnlocked, Recorded
  <1>11. CASE mode = "off" /\ Interrupt
    BY <1>11 DEF Interrupt, placeVars, record, LevelUnlocked, LabUnlocked,
       Recorded
  <1>12. CASE PrepareKey
    BY <1>12 DEF PrepareKey, childVars, tableVars, placeVars, record,
       LevelUnlocked, LabUnlocked, Recorded
  <1>13. CASE TakeKey
    <2>1. PICK p \in GuestLabs : p = labFile /\ p \in Places
      BY <1>13 DEF TakeKey, SessionHasKey, Places
    <2>2. CASE key[labFile] # "none"
      <3>1. Record(p) /\ subject' = p /\ command' = "recorded" /\ UNCHANGED
         placeVars
        BY <1>13, <2>1, <2>2 DEF TakeKey
      <3>2. /\ \A n \in Levels : LevelUnlocked(n) => LevelUnlocked(n)'
            /\ \A l \in GuestLabs : LabUnlocked(l) => LabUnlocked(l)'
            /\ Recorded(p)'
        BY <2>1, <3>1, RecordUnlocks
      <3>3. Recorded(subject)'
        BY <3>1, <3>2 DEF Recorded
      <3>. QED
        BY <3>1, <3>2, <3>3 DEF placeVars
    <2>3. CASE key[labFile] = "none"
      BY <1>13, <2>3 DEF TakeKey, placeVars, record, LevelUnlocked, LabUnlocked
    <2>. QED
      BY <2>2, <2>3
  <1>14. CASE LeaveDebugger
    BY <1>14 DEF LeaveDebugger, placeVars, record, Forget, LevelUnlocked,
       LabUnlocked, Recorded
  <1>15. CASE Reboot
    BY <1>15 DEF Reboot, LevelUnlocked, LabUnlocked, Recorded
  <1>16. CASE UNCHANGED shellVars
    BY <1>16 DEF shellVars, placeVars, record, LevelUnlocked, LabUnlocked,
       Recorded
  <1>. QED  BY <1>1, <1>2, <1>3, <1>4, <1>5, <1>6, <1>7, <1>8, <1>9, <1>10,
     <1>11, <1>12, <1>13, <1>14, <1>15, <1>16, GuestMoves DEF GuestCommand

LEMMA GuestStepKeeps ==
    GuestTypeOK /\ SessionHasKey /\ ShellInv /\ [DebuggerNext]_<<shellVars, debugVars>>
       => (GuestTypeOK /\ SessionHasKey /\ ShellInv)'
  BY ShellTypeNext, DebuggerTypeNext, SessionNext, ShellNext DEF GuestTypeOK

(* Where the student is has its prerequisites on record, whichever command was *)
(* cut off between two of its writes: goto and goto-lab look before they write,*)
(* the record never shrinks while a place stands, and factory-reset removes    *)
(* the places with it.                                                         *)
THEOREM StudentStandsUnlocked == GuestSpec => []CurrentIsUnlocked
  <1>1. ASSUME GuestTypeOK, ShellInv PROVE CurrentIsUnlocked
    <2>1. LevelUnlocked(1)
      BY DEF LevelUnlocked
    <2>. QED
      BY <1>1, <2>1 DEF GuestTypeOK, ShellTypeOK, ShellInv, PlacesAreUnlocked,
         CurrentIsUnlocked, CurrentPlace
  <1>. QED
    BY GuestTypeInit, ShellInit, GuestStepKeeps, <1>1, PTL DEF GuestSpec

(* htcheck signs no result for a place the guest has not put on record first,  *)
(* once there is a directory to record in: it records before it reads the key, *)
(* and while it runs in the foreground nothing makes the directory.            *)
THEOREM SignsOnlyRecorded == GuestSpec => SignedIsRecorded
  <1>1. ASSUME GuestTypeOK, ShellInv, [DebuggerNext]_<<shellVars, debugVars>>
        PROVE  [\A p \in signed' \ signed : stateDir => Recorded(p)]_shellVars
    <2>1. signed' = signed \/ (command = "recorded" /\ signed' = signed \cup {subject})
      BY <1>1, GuestMoves DEF GuestCommand, EnterLevel, EnterGuestLab, Replay, WriteLevel, WriteLab,
         FactoryReset, RunCheck, Passes, Fails, Sign, Interrupt, PrepareKey, TakeKey,
         LeaveDebugger, Reboot, shellVars
    <2>. QED
      BY <1>1, <2>1 DEF ShellInv, RecordedIsRecorded
  <1>2. (GuestTypeOK /\ SessionHasKey /\ ShellInv) /\ [DebuggerNext]_<<shellVars, debugVars>>
           => [\A p \in signed' \ signed : stateDir => Recorded(p)]_shellVars
    BY <1>1
  <1>. QED
    BY GuestTypeInit, ShellInit, GuestStepKeeps, <1>2, PTL DEF GuestSpec, SignedIsRecorded

-----------------------------------------------------------------------------
(* The code of the child: the bytes that trap and the table of breakpoints. *)

TrapInv == SteppedOff /\ NoStrayTrap /\ AllPlanted

(* A stop writes a trap where the step off a breakpoint began, restores the    *)
(* one it rewinds to, and nothing else.                                        *)
LEMMA StopKeepsTraps ==
    ASSUME DebuggerTypeOK, TrapInv, mode \in {"step", "run"}, alive,
           NEW at \in Nat, NEW signal, Stop(at, signal), UNCHANGED breakpoints
    PROVE  /\ alive'
           /\ \A a \in Code : code'[a] = "trap" => Planted(a)
           /\ \A b \in DOMAIN breakpoints :
                 code'[b] = "trap" \/ b \in left \/ b = eip'
  <1>. USE DEF TrapInv, DebuggerTypeOK
  <1>0. alive'
    BY DEF Stop
  <1>. DEFINE restored == IF Rewinds(at, signal)
                          THEN [code EXCEPT ![at - 1] = breakpoints[at - 1]] ELSE code
  <1>1. restored \in [Code -> {"linked", "edited", "trap"}]
    BY CodeIsAddresses DEF Rewinds, Planted
  <1>2. /\ Rewinds(at, signal) => eip' = at - 1 /\ Planted(at - 1)
        /\ \A a \in Code : restored[a] = code[a] \/ (Rewinds(at, signal) /\ a = at - 1)
        /\ Rewinds(at, signal) => restored[at - 1] # "trap"
    BY CodeIsAddresses DEF Stop, Rewinds, Planted, NoStrayTrap
  <1>3. code' = IF origin = Exit THEN restored ELSE [restored EXCEPT ![origin] = "trap"]
    BY DEF Stop, Written
  <1>4. origin # Exit => origin = eip /\ Planted(eip) /\ origin \in Code
    BY DEF SteppedOff, Planted
  <1>5. ASSUME NEW a \in Code, code'[a] = "trap" PROVE Planted(a)
    <2>1. CASE origin # Exit /\ a = origin
      BY <1>4, <2>1
    <2>2. CASE ~(origin # Exit /\ a = origin)
      <3>1. restored[a] = "trap"
        BY <1>1, <1>3, <1>5, <2>2
      <3>. QED
        BY <1>2, <3>1 DEF NoStrayTrap
    <2>. QED
      BY <2>1, <2>2
  <1>6. ASSUME NEW b \in DOMAIN breakpoints
        PROVE  code'[b] = "trap" \/ b \in left \/ b = eip'
    <2>. b \in Code
      OBVIOUS
    <2>1. CASE b = eip
      <3>1. mode = "step" => origin = b /\ b # Exit
        BY <2>1, CodeIsAddresses DEF SteppedOff, Planted
      <3>2. mode = "step" => code'[b] = "trap"
        BY <1>1, <1>3, <3>1
      <3>3. mode = "run" => code[b] = "trap" \/ b \in left
        BY DEF AllPlanted
      <3>4. mode = "run" => origin = Exit
        BY DEF SteppedOff
      <3>. QED
        BY <1>2, <1>3, <3>2, <3>3, <3>4
    <2>2. CASE b # eip
      <3>1. code[b] = "trap" \/ b \in left
        BY <2>2 DEF AllPlanted
      <3>2. b # origin
        BY <1>4, <2>2, CodeIsAddresses DEF Exit
      <3>3. code'[b] = restored[b]
        BY <1>1, <1>3, <3>2
      <3>. QED
        BY <1>2, <3>1, <3>3
    <2>. QED
      BY <2>1, <2>2
  <1>. QED
    BY <1>0, <1>5, <1>6

LEMMA TrapInit == DebuggerInit => TrapInv
  BY NoneHasNoDomain DEF DebuggerInit, TrapInv, SteppedOff, NoStrayTrap, AllPlanted

LEMMA TrapNext ==
    ASSUME GuestTypeOK, TrapInv, [DebuggerNext]_<<shellVars, debugVars>>
    PROVE  TrapInv'
  <1>. USE DEF TrapInv, SteppedOff, NoStrayTrap, AllPlanted, Planted,
     GuestTypeOK, DebuggerTypeOK
  <1>1. CASE PrepareKey
    BY <1>1 DEF PrepareKey, childVars, tableVars
  <1>2. CASE StartChild
    BY <1>2, NoneHasNoDomain DEF StartChild, Fork
  <1>3. CASE Restart
    BY <1>3, NoneHasNoDomain DEF Restart, Fork
  <1>4. CASE SingleStep
    <2>1. PICK o \in Outcomes(eip) :
             /\ IF o[1] = Exit THEN Gone ELSE Stop(o[1], o[2])
             /\ mode' \in IF request = "continue" THEN {"run"}
                          ELSE IF alive' THEN {"resume", "command"} ELSE
                             {"command"}
      BY <1>4 DEF SingleStep
    <2>2. origin' = Exit /\ UNCHANGED breakpoints /\ mode' # "step"
      BY <1>4, <2>1 DEF SingleStep
    <2>3. CASE o[1] = Exit
      BY <2>1, <2>2, <2>3 DEF Gone
    <2>4. CASE o[1] # Exit
      <3>1. /\ alive'
            /\ \A a \in Code : code'[a] = "trap" => Planted(a)
            /\ \A b \in DOMAIN breakpoints :
                  code'[b] = "trap" \/ b \in left \/ b = eip'
        BY <1>4, <2>1, <2>2, <2>4, OutcomesAreAddresses, StopKeepsTraps DEF
           SingleStep
      <3>2. left \subseteq left' /\ (mode' = "run" => {eip'} \cap DOMAIN
         breakpoints \subseteq left')
        BY <1>4, <3>1 DEF SingleStep
      <3>. QED
        BY <2>2, <3>1, <3>2
    <2>. QED
      BY <2>3, <2>4
  <1>5. CASE RunStep
    <2>1. PICK o \in Outcomes(eip) :
             IF o[1] = Exit THEN Gone /\ mode' = "command"
             ELSE IF o[2] = "fault" \/ (eip \in Code /\ code[eip] = "trap")
             THEN Stop(o[1], o[2]) /\ mode' = "command"
             ELSE /\ eip' = o[1] /\ due' = o[1]
                  /\ UNCHANGED <<alive, code, reached, reachedCount, stops,
                     mode>>
      BY <1>5 DEF RunStep
    <2>2. origin' = Exit /\ UNCHANGED <<breakpoints, left>> /\ mode = "run" /\
       alive
      BY <1>5 DEF RunStep, tableVars
    <2>3. CASE Gone /\ mode' = "command"
      BY <2>2, <2>3 DEF Gone
    <2>4. CASE Stop(o[1], o[2]) /\ mode' = "command"
      <3>1. /\ alive'
            /\ \A a \in Code : code'[a] = "trap" => Planted(a)
            /\ \A b \in DOMAIN breakpoints :
                  code'[b] = "trap" \/ b \in left \/ b = eip'
        BY <2>2, <2>4, OutcomesAreAddresses, StopKeepsTraps
      <3>. QED
        BY <2>2, <2>4, <3>1
    <2>5. CASE UNCHANGED <<alive, code, mode>>
      BY <2>2, <2>5
    <2>. QED
      BY <2>1, <2>3, <2>4, <2>5
  <1>6. CASE RunGone
    BY <1>6 DEF RunGone, childVars, tableVars
  <1>7. CASE Resume
    BY <1>7 DEF Resume, Planted
  <1>8. CASE \E r \in {"step", "continue"} : Step(r)
    BY <1>8 DEF Step, childVars, tableVars
  <1>9. CASE \E a \in Code : Break(a)
    BY <1>9 DEF Break, Install, Planted
  <1>10. CASE \E a \in Code : Delete(a)
    BY <1>10 DEF Delete, Planted
  <1>11. CASE \E a \in Code : SetMemory(a)
    BY <1>11 DEF SetMemory
  <1>12. CASE \E a \in Starts : Jump(a)
    BY <1>12 DEF Jump
  <1>13. CASE CheckSuccess
    BY <1>13 DEF CheckSuccess, childVars, tableVars
  <1>14. CASE TakeKey
    BY <1>14, NoneHasNoDomain DEF TakeKey, Forget
  <1>15. CASE LeaveDebugger
    BY <1>15, NoneHasNoDomain DEF LeaveDebugger, Forget
  <1>16. CASE Restarted
    BY <1>16, NoneHasNoDomain DEF Restarted, Forget, NoKeys
  <1>17. CASE mode = "off" /\ GuestCommand /\ UNCHANGED debugVars
    BY <1>17 DEF debugVars
  <1>18. CASE UNCHANGED <<shellVars, debugVars>>
    BY <1>18 DEF debugVars, shellVars, placeVars, record
  <1>. QED  BY <1>1, <1>2, <1>3, <1>4, <1>5, <1>6, <1>7, <1>8, <1>9, <1>10,
     <1>11, <1>12, <1>13, <1>14, <1>15, <1>16, <1>17, <1>18 DEF DebuggerNext,
     DebuggerStep

LEMMA ChildStepKeeps ==
    /\ GuestTypeOK /\ SessionHasKey /\ TrapInv /\ [DebuggerNext]_<<shellVars, debugVars>>
    => (GuestTypeOK /\ SessionHasKey /\ TrapInv)'
  BY ShellTypeNext, DebuggerTypeNext, SessionNext, TrapNext DEF GuestTypeOK

(* Every byte of the child that traps belongs to a breakpoint in the table, and*)
(* every breakpoint in the table is planted, stood on, or was left by hand:    *)
(* through hits, steps off, deletions, edits, jumps and restarts.              *)
THEOREM TrapsAndTableAgree == GuestSpec => []TrapsAreBreakpoints
  <1>1. TrapInv => TrapsAreBreakpoints
    BY DEF TrapInv, NoStrayTrap, AllPlanted, TrapsAreBreakpoints
  <1>. QED
    BY GuestTypeInit, TrapInit, ChildStepKeeps, <1>1, PTL DEF GuestSpec

(* Where a step or a run of the child ends is where the processor took it or,  *)
(* set back by one, on a breakpoint of the table.                              *)
THEOREM StopsAreReportedWhereDue == GuestSpec => StopsWhereDue
  <1>. DEFINE Due == (mode \in {"step", "run"} /\ alive') =>
                        (eip' = due' \/ (Planted(eip') /\ due' = eip' + 1))
  <1>1. ASSUME GuestTypeOK, TrapInv, DebuggerNext PROVE Due
    <2>. SUFFICES ASSUME mode \in {"step", "run"}, alive'
                  PROVE  eip' = due' \/ (Planted(eip') /\ due' = eip' + 1)
      OBVIOUS
    <2>0. eip \in Nat /\ Code \subseteq Nat
      BY <1>1, CodeIsAddresses DEF GuestTypeOK, DebuggerTypeOK
    <2>1. ASSUME NEW o \in Outcomes(eip), Stop(o[1], o[2])
          PROVE  eip' = due' \/ (Planted(eip') /\ due' = eip' + 1)
      <3>0. o[1] \in Nat
        BY <2>0, OutcomesAreAddresses
      <3>1. CASE eip \in Code /\ code[eip] = "trap"
        <4>1. o = <<eip + 1, "trap">> /\ Planted(eip)
          BY <1>1, <3>1 DEF Outcomes, TrapInv, NoStrayTrap
        <4>2. o[1] = eip + 1 /\ o[2] = "trap" /\ o[1] - 1 = eip
          BY <2>0, <4>1
        <4>3. Rewinds(o[1], o[2])
          BY <4>1, <4>2 DEF Rewinds
        <4>. QED
          BY <2>1, <3>1, <4>2, <4>3 DEF Stop
      <3>2. CASE ~(eip \in Code /\ code[eip] = "trap")
        <4>1. due' = o[1]
          BY <2>1, <3>2 DEF Stop
        <4>2. eip' = o[1] \/ (eip' = o[1] - 1 /\ Planted(o[1] - 1))
          BY <2>1 DEF Stop, Rewinds
        <4>3. o[1] = (o[1] - 1) + 1
          BY <3>0
        <4>. QED
          BY <4>1, <4>2, <4>3
      <3>. QED
        BY <3>1, <3>2
    <2>2. CASE SingleStep
      BY <2>1, <2>2 DEF SingleStep, Gone
    <2>3. CASE RunStep
      BY <2>1, <2>3 DEF RunStep, Gone
    <2>4. CASE ~SingleStep /\ ~RunStep
      BY <1>1, <2>4 DEF DebuggerNext, DebuggerStep, PrepareKey, StartChild, Restart, RunGone, childVars,
         Resume, Step, Break, Delete, SetMemory, Jump, CheckSuccess, TakeKey, LeaveDebugger,
         Restarted, Forget
    <2>. QED
      BY <2>2, <2>3, <2>4
  <1>2. GuestTypeOK /\ TrapInv /\ [DebuggerNext]_<<shellVars, debugVars>> => [Due]_debugVars
    BY <1>1 DEF debugVars
  <1>. HIDE DEF Due
  <1>3. GuestSpec => [][Due]_debugVars
    BY GuestTypeInit, TrapInit, ChildStepKeeps, <1>2, PTL DEF GuestSpec
  <1>. QED
    BY <1>3 DEF StopsWhereDue, Due

-----------------------------------------------------------------------------
(* What the debugger remembers of the child. *)

(* Only a stop of this very child is remembered, and a new child starts afresh.*)
THEOREM OnlyStopsAreReached == GuestSpec => []OnlyReachedCounts
  <1>1. DebuggerInit => OnlyReachedCounts
    BY DEF DebuggerInit, OnlyReachedCounts
  <1>2. ASSUME OnlyReachedCounts, [DebuggerNext]_<<shellVars, debugVars>>
        PROVE  OnlyReachedCounts'
    <2>. USE DEF OnlyReachedCounts
    <2>1. CASE UNCHANGED debugVars
      BY <1>2, <2>1 DEF debugVars
    <2>2. CASE UNCHANGED childVars
      BY <1>2, <2>2 DEF childVars
    <2>3. CASE Fork(reached)
      BY <2>3 DEF Fork
    <2>4. CASE Forget
      BY <2>4 DEF Forget
    <2>5. CASE UNCHANGED <<reached, stops>>
      BY <1>2, <2>5
    <2>6. CASE \E o \in Outcomes(eip) : Stop(o[1], o[2])
      BY <1>2, <2>6 DEF Stop
    <2>. QED
      BY <1>2, <2>1, <2>2, <2>3, <2>4, <2>5, <2>6 DEF DebuggerNext, DebuggerStep, PrepareKey,
         StartChild, Restart, SingleStep, RunStep, RunGone, Resume, Step, Break, Delete,
         SetMemory, Jump, CheckSuccess, TakeKey, LeaveDebugger, Restarted, Gone
  <1>. QED
    BY <1>1, <1>2, PTL DEF GuestSpec

(* The two tables of the debugger have a fixed size and are never written past *)
(* it: a breakpoint is installed only in a free slot, and an address is kept   *)
(* only while the count of them has room.                                      *)
THEOREM TablesStayInBounds == GuestSpec => []TablesBounded
  <1>1. DebuggerInit => TablesBounded
    BY NoneHasNoDomain, FS_EmptySet DEF DebuggerInit, TablesBounded
  <1>2. ASSUME GuestTypeOK, TablesBounded, [DebuggerNext]_<<shellVars, debugVars>>
        PROVE  TablesBounded'
    <2>. DEFINE Slots == IsFiniteSet(DOMAIN breakpoints)
                         /\ Cardinality(DOMAIN breakpoints) <= MaxBreakpoints
                List == IsFiniteSet(reached) /\ Cardinality(reached) <= reachedCount
                        /\ reachedCount <= MaxReached
    <2>0. /\ Slots /\ List /\ reachedCount \in Nat
          /\ UNCHANGED breakpoints => Slots'
          /\ UNCHANGED <<reached, reachedCount>> => List'
      BY <1>2 DEF TablesBounded, GuestTypeOK, DebuggerTypeOK
    <2>1. ASSUME Fork(reached) PROVE Slots' /\ List'
      <3>1. List'
        BY <2>1, StartCount
      <3>2. DOMAIN breakpoints' = {}
        BY <2>1, NoneHasNoDomain DEF Fork
      <3>. QED
        BY <3>1, <3>2, FS_EmptySet
    <2>2. ASSUME Forget PROVE Slots' /\ List'
      <3>1. DOMAIN breakpoints' = {} /\ reached' = {} /\ reachedCount' = 0
        BY <2>2, NoneHasNoDomain DEF Forget
      <3>. QED
        BY <3>1, FS_EmptySet
    <2>3. ASSUME NEW at, NEW signal, Stop(at, signal) PROVE List'
      <3>1. CASE Room
        <4>1. reached' = reached \cup {eip'} /\ reachedCount' = reachedCount + 1
          BY <2>3, <3>1 DEF Stop
        <4>2. IsFiniteSet(reached') /\ Cardinality(reached') <= Cardinality(reached) + 1
          <5>1. IsFiniteSet(reached) /\ Cardinality(reached) \in Nat
            BY <2>0, FS_CardinalityType
          <5>2. PICK a : a = eip'
            OBVIOUS
          <5>3. /\ IsFiniteSet(reached \cup {a})
                /\ Cardinality(reached \cup {a}) = IF a \in reached THEN Cardinality(reached)
                                                  ELSE Cardinality(reached) + 1
            BY <5>1, FS_AddElement
          <5>. QED
            BY <4>1, <5>1, <5>2, <5>3
        <4>3. Cardinality(reached) \in Nat /\ Cardinality(reached') \in Nat
          BY <2>0, <4>2, FS_CardinalityType
        <4>. QED
          BY <2>0, <3>1, <4>1, <4>2, <4>3 DEF Room
      <3>2. CASE ~Room
        BY <2>0, <2>3, <3>2 DEF Stop
      <3>. QED
        BY <3>1, <3>2
    <2>4. ASSUME NEW a \in Code, Install(a) PROVE Slots'
      <3>1. CASE Planted(a)
        BY <2>0, <2>4, <3>1 DEF Install
      <3>2. CASE ~Planted(a)
        <4>1. /\ DOMAIN breakpoints' = DOMAIN breakpoints \cup {a}
              /\ Cardinality(DOMAIN breakpoints) < MaxBreakpoints
          BY <2>4, <3>2 DEF Install
        <4>2. a \notin DOMAIN breakpoints
          BY <3>2 DEF Planted
        <4>3. /\ IsFiniteSet(DOMAIN breakpoints')
              /\ Cardinality(DOMAIN breakpoints') = Cardinality(DOMAIN breakpoints) + 1
          BY <2>0, <4>1, <4>2, FS_AddElement
        <4>4. Cardinality(DOMAIN breakpoints) \in Nat
          BY <2>0, FS_CardinalityType
        <4>. QED
          BY <4>1, <4>3, <4>4
      <3>. QED
        BY <3>1, <3>2
    <2>5. ASSUME NEW a \in Code, Delete(a) PROVE Slots'
      <3>1. DOMAIN breakpoints' = DOMAIN breakpoints \ {a} /\ a \in DOMAIN breakpoints
        BY <2>5 DEF Delete, Planted
      <3>2. /\ IsFiniteSet(DOMAIN breakpoints')
            /\ Cardinality(DOMAIN breakpoints') = Cardinality(DOMAIN breakpoints) - 1
        BY <2>0, <3>1, FS_RemoveElement
      <3>3. Cardinality(DOMAIN breakpoints) \in Nat
        BY <2>0, FS_CardinalityType
      <3>. QED
        BY <2>0, <3>2, <3>3
    <2>6. Slots'
      <3>1. CASE UNCHANGED breakpoints
        BY <2>0, <3>1
      <3>2. CASE breakpoints' # breakpoints
        <4>1. \/ Fork(reached) \/ Forget
              \/ \E a \in Code : Install(a) \/ Delete(a)
          BY <1>2, <3>2 DEF DebuggerNext, DebuggerStep, PrepareKey, StartChild, Restart,
             SingleStep, RunStep, RunGone, Resume, Step, Break, SetMemory, Jump, CheckSuccess,
             TakeKey, LeaveDebugger, Restarted, debugVars, tableVars
        <4>. QED
          BY <2>1, <2>2, <2>4, <2>5, <4>1
      <3>. QED
        BY <3>1, <3>2
    <2>7. List'
      <3>1. CASE UNCHANGED <<reached, reachedCount>>
        BY <2>0, <3>1
      <3>2. CASE ~UNCHANGED <<reached, reachedCount>>
        <4>1. \/ Fork(reached) \/ Forget
              \/ \E o \in Outcomes(eip) : Stop(o[1], o[2])
          BY <1>2, <3>2 DEF DebuggerNext, DebuggerStep, PrepareKey, StartChild, Restart,
             SingleStep, RunStep, RunGone, Resume, Step, Break, Delete, SetMemory, Jump,
             CheckSuccess, TakeKey, LeaveDebugger, Restarted, debugVars, childVars, Gone
        <4>. QED
          BY <2>1, <2>2, <2>3, <4>1
      <3>. QED
        BY <3>1, <3>2
    <2>. QED
      BY <2>6, <2>7 DEF TablesBounded
  <1>3. GuestTypeOK /\ SessionHasKey /\ [DebuggerNext]_<<shellVars, debugVars>>
           => (GuestTypeOK /\ SessionHasKey)'
    BY ShellTypeNext, DebuggerTypeNext, SessionNext DEF GuestTypeOK
  <1>. QED
    BY GuestTypeInit, <1>1, <1>2, <1>3, PTL DEF GuestSpec
==============================================================================
