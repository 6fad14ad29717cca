----------------------------- MODULE StorageProofs -----------------------------
(***************************************************************************)
(* The storage wrapper, and the windows of a companion that talk through   *)
(* it.  The wrapper loses nothing to a failing browser store, for any      *)
(* number of instances, names and writes; a companion acts on each message *)
(* once and in order, and its windows come to agree, for any number of     *)
(* windows, items and messages.                                            *)
(*                                                                         *)
(* The invariant of StorageSpec is not inductive by itself: it speaks of   *)
(* what a read would answer, and a read may come from either place.  The   *)
(* strengthening says of each place what it holds: the copy is what the    *)
(* instance knows, and the browser's store has nothing older as long as    *)
(* the instance uses it.                                                   *)
(***************************************************************************)
EXTENDS SafeStorage, CompanionSync, FiniteSetTheorems, TLAPS

\* What an item of one place is: nothing, or the number of a write that was made.
Item == 1..writes \cup {NoItem}

StorageTypeOK ==
    /\ writes \in Nat
    /\ primary \in [Names -> Item]
    /\ fallback \in [Instances -> [Names -> Item]]
    /\ available \in [Instances -> BOOLEAN]
    /\ known \in [Instances -> [Names -> Item]]
    /\ newest \in [Instances -> [Names -> 0..writes]]

\* The copy of an instance is what it knows.
CopyIsKnown == fallback = known

\* What an instance knows is the newest that it saw, unless it removed that.
KnownIsNewest ==
    \A i \in Instances, k \in Names : known[i][k] # NoItem => known[i][k] = newest[i][k]

\* The browser's store holds nothing older than what an instance that uses it saw.
PrimaryIsNewer ==
    \A i \in Instances, k \in Names :
        available[i] /\ primary[k] # NoItem => primary[k] >= newest[i][k]

StorageInv == StorageTypeOK /\ CopyIsKnown /\ KnownIsNewest /\ PrimaryIsNewer

-----------------------------------------------------------------------------
(* The initial states, and what the invariant is for. *)

LEMMA InitEstablishes == StorageInit => StorageInv
  <1>. SUFFICES ASSUME StorageInit PROVE StorageInv
    OBVIOUS
  <1>. USE DEF StorageInit, Nothing, Item
  <1>1. StorageTypeOK
    BY DEF StorageTypeOK
  <1>2. CopyIsKnown
    BY DEF CopyIsKnown
  <1>3. KnownIsNewest
    BY DEF KnownIsNewest
  <1>4. PrimaryIsNewer
    BY DEF PrimaryIsNewer
  <1>. QED  BY <1>1, <1>2, <1>3, <1>4 DEF StorageInv

LEMMA InvImpliesKept == StorageInv => KeepsWhatItKnew
  <1>. SUFFICES ASSUME StorageInv,
                       NEW i \in Instances, NEW k \in Names, NEW works \in BOOLEAN
                PROVE  LET r == Reading(i, k, works)
                       IN  IF r = NoItem THEN known[i][k] = NoItem ELSE r >= newest[i][k]
    BY DEF KeepsWhatItKnew
  <1>1. CASE available[i] /\ works /\ primary[k] # NoItem
    BY <1>1 DEF StorageInv, PrimaryIsNewer, Reading
  <1>2. CASE ~(available[i] /\ works /\ primary[k] # NoItem)
    <2>1. Reading(i, k, works) = known[i][k]
      BY <1>2 DEF StorageInv, CopyIsKnown, Reading
    <2>2. newest[i][k] \in Nat
      BY DEF StorageInv, StorageTypeOK
    <2>. QED  BY <2>1, <2>2 DEF StorageInv, KnownIsNewest
  <1>. QED  BY <1>1, <1>2

-----------------------------------------------------------------------------
(* The operations. *)

LEMMA CreateKeeps ==
    ASSUME StorageInv, NEW j \in Instances, CreateSafeStorage(j)
    PROVE  StorageInv'
  <1>. USE StorageAssumption DEF StorageInv, CreateSafeStorage, Nothing, Item
  <1>1. StorageTypeOK'
    BY DEF StorageTypeOK
  <1>2. CopyIsKnown'
    BY DEF StorageTypeOK, CopyIsKnown
  <1>3. KnownIsNewest'
    BY DEF StorageTypeOK, KnownIsNewest
  <1>4. PrimaryIsNewer'
    BY DEF StorageTypeOK, PrimaryIsNewer
  <1>. QED  BY <1>1, <1>2, <1>3, <1>4

LEMMA GetKeeps ==
    ASSUME StorageInv, NEW j \in Instances, NEW n \in Names, NEW works \in BOOLEAN,
           GetItem(j, n, works)
    PROVE  StorageInv'
  <1>. DEFINE r == Reading(j, n, works)
  <1>. USE StorageAssumption DEF StorageInv, GetItem, Item
  <1>1. r \in Item
    BY DEF StorageTypeOK, Reading
  <1>2. r # NoItem => r >= newest[j][n]
    BY InvImpliesKept DEF KeepsWhatItKnew
  <1>3. r # NoItem /\ available'[j] /\ primary[n] # NoItem => r = primary[n]
    BY DEF StorageTypeOK, Reading
  <1>. HIDE DEF r
  <1>4. StorageTypeOK'
    BY <1>1 DEF StorageTypeOK, r
  <1>5. CopyIsKnown'
    BY DEF StorageTypeOK, CopyIsKnown, r
  <1>6. KnownIsNewest'
    BY <1>1, <1>2, <1>4 DEF StorageTypeOK, KnownIsNewest, r
  <1>7. PrimaryIsNewer'
    BY <1>1, <1>2, <1>3, <1>4 DEF StorageTypeOK, PrimaryIsNewer, r
  <1>. QED  BY <1>4, <1>5, <1>6, <1>7

LEMMA SetKeeps ==
    ASSUME StorageInv, NEW j \in Instances, NEW n \in Names, NEW works \in BOOLEAN,
           SetItem(j, n, works)
    PROVE  StorageInv'
  <1>. USE StorageAssumption DEF StorageInv, SetItem, Item
  <1>1. StorageTypeOK'
    BY DEF StorageTypeOK
  <1>2. CopyIsKnown'
    BY DEF StorageTypeOK, CopyIsKnown
  <1>3. KnownIsNewest'
    BY DEF StorageTypeOK, KnownIsNewest
  <1>4. PrimaryIsNewer'
    BY DEF StorageTypeOK, PrimaryIsNewer
  <1>. QED  BY <1>1, <1>2, <1>3, <1>4

LEMMA RemoveKeeps ==
    ASSUME StorageInv, NEW j \in Instances, NEW n \in Names, NEW works \in BOOLEAN,
           RemoveItem(j, n, works)
    PROVE  StorageInv'
  <1>. USE StorageAssumption DEF StorageInv, RemoveItem, Item
  <1>1. StorageTypeOK'
    BY DEF StorageTypeOK
  <1>2. CopyIsKnown'
    BY DEF StorageTypeOK, CopyIsKnown
  <1>3. KnownIsNewest'
    BY DEF StorageTypeOK, KnownIsNewest
  <1>4. PrimaryIsNewer'
    BY DEF StorageTypeOK, PrimaryIsNewer
  <1>. QED  BY <1>1, <1>2, <1>3, <1>4

-----------------------------------------------------------------------------

\* An instance finds what it last read or stored, or something newer, whenever the
\* browser's store starts to fail and whatever other instances do: getItem, setItem
\* and removeItem of ResilientStorage keep the copy in step.
THEOREM NothingKnownIsLost == StorageSpec => []KeepsWhatItKnew
  <1>1. StorageInv /\ [StorageNext]_storageVars => StorageInv'
    <2>. SUFFICES ASSUME StorageInv, [StorageNext]_storageVars PROVE StorageInv'
      OBVIOUS
    <2>1. CASE \E i \in Instances : CreateSafeStorage(i)
      BY <2>1, CreateKeeps
    <2>2. CASE \E i \in Instances, k \in Names, works \in BOOLEAN : GetItem(i, k, works)
      BY <2>2, GetKeeps
    <2>3. CASE \E i \in Instances, k \in Names, works \in BOOLEAN : SetItem(i, k, works)
      BY <2>3, SetKeeps
    <2>4. CASE \E i \in Instances, k \in Names, works \in BOOLEAN : RemoveItem(i, k, works)
      BY <2>4, RemoveKeeps
    <2>5. CASE UNCHANGED storageVars
      BY <2>5 DEF storageVars, StorageInv, StorageTypeOK, CopyIsKnown, KnownIsNewest,
                  PrimaryIsNewer, Item
    <2>. QED  BY <2>1, <2>2, <2>3, <2>4, <2>5 DEF StorageNext
  <1>. QED  BY InitEstablishes, InvImpliesKept, <1>1, PTL DEF StorageSpec

-----------------------------------------------------------------------------
(***************************************************************************)
(* The windows of a companion.  What a window has pending, queued and not  *)
(* seen, is in every queue that delivers to it, in the order it was sent,  *)
(* and newer than all it acted on.  An id is forgotten only when no copy   *)
(* of its message is queued: behind the id of a queued message the window  *)
(* remembers newer ones only, and fewer than it can hold were sent since.  *)
(*                                                                         *)
(* Whether they agree: behind the sessions is one that all come to be when *)
(* they have acted on what is pending, as long as nobody crossed that.     *)
(***************************************************************************)
USE SyncAssumption

SyncMessages == [id : Nat \ {0}, from : Windows, item : Items \cup {Closed}, value : BOOLEAN]

SyncTypeOK ==
    /\ sent \in Nat /\ saved \in Session
    /\ session \in [Windows -> Session \cup {Closed}]
    /\ seen \in [Windows -> Seq(Nat)]
    /\ channel \in [Windows -> Seq(SyncMessages)]
    /\ events \in [Windows -> Seq(SyncMessages)]
    /\ applied \in [Windows -> Seq(SyncMessages)]
    /\ hasChannel \in BOOLEAN /\ crossed \in BOOLEAN

Increasing(q) == \A i, j \in DOMAIN q : i < j => q[i].id < q[j].id

Pending(queued, ids) == {m \in queued : m.id \notin ToSet(ids)}

\* Nothing queued is as old as what a window may have forgotten.
Recent(queued, last) == \A m \in queued : m.id <= last /\ last - m.id < SeenCapacity

\* Behind a queued message the window remembers newer ones only.
NewerBehind(queued, ids) ==
    \A i, j \in DOMAIN ids : i < j =>
        /\ ids[i] # ids[j]
        /\ (\E m \in queued : m.id = ids[i]) => ids[i] < ids[j]

PendingIsNewest(queued, ids, done) ==
    \A m \in Pending(queued, ids) :
        /\ \A d \in ToSet(done) : d.id < m.id
        /\ \A k \in queued : k.id \in ToSet(ids) => k.id < m.id

WindowInv(chan, evts, ids, done, last, has) ==
    LET queued == ToSet(chan) \cup ToSet(evts) IN
    /\ Increasing(chan) /\ Increasing(evts) /\ Increasing(done)
    /\ \A x \in ToSet(ids) : x <= last
    /\ \A d \in ToSet(done) : d.id <= last
    /\ Recent(queued, last)
    /\ Pending(queued, ids) \subseteq ToSet(evts)
    /\ has => Pending(queued, ids) \subseteq ToSet(chan)
    /\ ~ has => chan = <<>>
    /\ NewerBehind(queued, ids)
    /\ PendingIsNewest(queued, ids, done)

WindowsInv ==
    \A w \in Windows :
        /\ WindowInv(channel[w], events[w], seen[w], applied[w], sent, hasChannel)
        /\ session[w] = Closed =>
              channel[w] = <<>> /\ events[w] = <<>> /\ seen[w] = <<>> /\ applied[w] = <<>>

\* A session comes to be what the last changes made it by the messages that are pending.
Becomes(s, pending, truth) ==
    \A i \in Items :
        /\ (\A m \in pending : m.item # i) => s[i] = truth[i]
        /\ \A m \in pending :
              m.item = i /\ (\A k \in pending : k.item = i => k.id <= m.id) => m.value = truth[i]

AgreementInv ==
    ~ crossed =>
        \E truth \in Session :
            /\ \A w \in OpenWindows : Becomes(session[w], Unhandled(w), truth)
            /\ (\A w \in OpenWindows : Unhandled(w) = {}) => saved = truth

LEMMA SetOfSeq ==
    ASSUME NEW S, NEW q \in Seq(S)
    PROVE  ToSet(q) \subseteq S
  BY DEF ToSet

LEMMA SetOfAppended ==
    ASSUME NEW S, NEW q \in Seq(S), NEW x \in S
    PROVE  /\ Append(q, x) \in Seq(S)
           /\ ToSet(Append(q, x)) = ToSet(q) \cup {x}
           /\ DOMAIN Append(q, x) = 1..Len(q) + 1
           /\ \A i \in 1..Len(q) : Append(q, x)[i] = q[i]
           /\ Append(q, x)[Len(q) + 1] = x
  <1>1. /\ Append(q, x) \in Seq(S) /\ DOMAIN Append(q, x) = 1..Len(q) + 1 /\ Len(q) \in Nat
        /\ \A i \in 1..Len(q) : Append(q, x)[i] = q[i]
        /\ Append(q, x)[Len(q) + 1] = x /\ DOMAIN q = 1..Len(q)
    OBVIOUS
  <1>. DEFINE a == Append(q, x)
              n == Len(q)
  <1>. HIDE DEF a, n
  <1>2. {a[i] : i \in 1..n + 1} = {q[i] : i \in 1..n} \cup {x}
    <2>1. \A i \in 1..n + 1 : i \in 1..n \/ i = n + 1
      BY <1>1 DEF n
    <2>2. n + 1 \in 1..n + 1 /\ \A i \in 1..n : i \in 1..n + 1
      BY <1>1 DEF n
    <2>3. \A i \in 1..n : a[i] = q[i]
      BY <1>1 DEF n, a
    <2>4. a[n + 1] = x
      BY <1>1 DEF n, a
    <2>. QED  BY <2>1, <2>2, <2>3, <2>4
  <1>. QED  BY <1>1, <1>2 DEF ToSet, a, n

LEMMA SetOfTail ==
    ASSUME NEW S, NEW q \in Seq(S), q # <<>>
    PROVE  /\ Head(q) \in S /\ Tail(q) \in Seq(S)
           /\ ToSet(q) = {Head(q)} \cup ToSet(Tail(q))
           /\ DOMAIN Tail(q) = 1..Len(q) - 1 /\ Len(q) \in Nat \ {0} /\ DOMAIN q = 1..Len(q)
           /\ Head(q) = q[1] /\ \A i \in 1..Len(q) - 1 : Tail(q)[i] = q[i + 1]
  <1>1. /\ Head(q) \in S /\ Tail(q) \in Seq(S) /\ Len(q) \in Nat \ {0} /\ DOMAIN q = 1..Len(q)
        /\ DOMAIN Tail(q) = 1..Len(q) - 1 /\ Head(q) = q[1]
        /\ \A i \in 1..Len(q) - 1 : Tail(q)[i] = q[i + 1]
    OBVIOUS
  <1>. DEFINE t == Tail(q)
              n == Len(q)
              h == Head(q)
  <1>. HIDE DEF t, n, h
  <1>2. {q[i] : i \in 1..n} = {h} \cup {t[i] : i \in 1..n - 1}
    <2>1. \A i \in 1..n : i = 1 \/ (i - 1 \in 1..n - 1 /\ i = (i - 1) + 1)
      BY <1>1 DEF n
    <2>2. 1 \in 1..n /\ \A i \in 1..n - 1 : i + 1 \in 1..n
      BY <1>1 DEF n
    <2>3. \A i \in 1..n - 1 : t[i] = q[i + 1]
      BY <1>1 DEF n, t
    <2>4. h = q[1]
      BY <1>1 DEF h
    <2>5. \A i \in 1..n : q[i] \in {h} \cup {t[k] : k \in 1..n - 1}
      BY <2>1, <2>3, <2>4
    <2>6. \A i \in 1..n - 1 : t[i] \in {q[k] : k \in 1..n}
      BY <2>2, <2>3
    <2>. QED  BY <2>2, <2>4, <2>5, <2>6
  <1>. QED  BY <1>1, <1>2 DEF ToSet, t, n, h

LEMMA IncreasingAppended ==
    ASSUME NEW q \in Seq(SyncMessages), NEW m \in SyncMessages, Increasing(q),
           \A k \in ToSet(q) : k.id < m.id
    PROVE  Increasing(Append(q, m))
  <1>. DEFINE a == Append(q, m)
              n == Len(q)
  <1>1. /\ DOMAIN a = 1..n + 1 /\ n \in Nat /\ DOMAIN q = 1..n
        /\ \A i \in 1..n : a[i] = q[i]
        /\ a[n + 1] = m
    BY SetOfAppended
  <1>2. \A i \in 1..n : q[i].id < m.id
    BY <1>1 DEF ToSet
  <1>. HIDE DEF a, n
  <1>3. ASSUME NEW i \in 1..n + 1, NEW j \in 1..n + 1, i < j
        PROVE  a[i].id < a[j].id
    <2>1. i \in 1..n
      BY <1>1, <1>3
    <2>2. CASE j = n + 1
      BY <1>1, <1>2, <2>1, <2>2
    <2>3. CASE j # n + 1
      <3>1. j \in 1..n
        BY <1>1, <2>3
      <3>2. q[i].id < q[j].id
        BY <1>1, <1>3, <2>1, <3>1 DEF Increasing
      <3>. QED  BY <1>1, <2>1, <3>1, <3>2
    <2>. QED  BY <2>2, <2>3
  <1>. QED  BY <1>1, <1>3 DEF Increasing, a

LEMMA IncreasingTail ==
    ASSUME NEW q \in Seq(SyncMessages), q # <<>>, Increasing(q)
    PROVE  /\ Increasing(Tail(q))
           /\ \A k \in ToSet(Tail(q)) : Head(q).id < k.id
           /\ \A k \in ToSet(q) : k.id = Head(q).id => k = Head(q)
  <1>. DEFINE t == Tail(q)
              n == Len(q)
  <1>1. /\ DOMAIN t = 1..n - 1 /\ n \in Nat \ {0} /\ DOMAIN q = 1..n
        /\ Head(q) = q[1] /\ \A i \in 1..n - 1 : t[i] = q[i + 1]
        /\ ToSet(q) = {Head(q)} \cup ToSet(t) /\ Head(q) \in SyncMessages
    BY SetOfTail
  <1>. HIDE DEF t, n
  <1>2. ASSUME NEW i \in 1..n - 1, NEW j \in 1..n - 1, i < j
        PROVE  t[i].id < t[j].id
    <2>1. i + 1 \in 1..n /\ j + 1 \in 1..n /\ i + 1 < j + 1
      BY <1>1, <1>2
    <2>2. q[i + 1].id < q[j + 1].id
      BY <1>1, <2>1 DEF Increasing
    <2>. QED  BY <1>1, <2>2
  <1>3. Increasing(t)
    BY <1>1, <1>2 DEF Increasing
  <1>4. ASSUME NEW i \in 1..n - 1
        PROVE  Head(q).id < t[i].id
    <2>1. i + 1 \in 1..n /\ 1 \in 1..n /\ 1 < i + 1
      BY <1>1, <1>4
    <2>2. q[1].id < q[i + 1].id
      BY <1>1, <2>1 DEF Increasing
    <2>. QED  BY <1>1, <2>2
  <1>5. \A k \in ToSet(t) : Head(q).id < k.id
    BY <1>1, <1>4 DEF ToSet
  <1>6. Head(q).id \in Nat
    BY <1>1 DEF SyncMessages
  <1>7. \A k \in ToSet(q) : k.id = Head(q).id => k = Head(q)
    BY <1>1, <1>5, <1>6
  <1>. QED  BY <1>3, <1>5, <1>7 DEF t

\* What is forgotten is of no message that is queued: were it queued, the ids behind
\* it would all be newer, and more were sent since than the window remembers.
LEMMA RememberedIsEnough ==
    ASSUME NEW queued \in SUBSET SyncMessages, NEW a \in Seq(Nat), NEW last \in Nat,
           Recent(queued, last), NewerBehind(queued, a), \A x \in ToSet(a) : x <= last
    PROVE  /\ Forget(a) \in Seq(Nat)
           /\ ToSet(Forget(a)) \subseteq ToSet(a)
           /\ NewerBehind(queued, Forget(a))
           /\ \A m \in queued : m.id \in ToSet(a) => m.id \in ToSet(Forget(a))
  <1>1. CASE Forget(a) = a
    BY <1>1
  <1>2. CASE Forget(a) = Tail(a) /\ Len(a) > SeenCapacity
    <2>. DEFINE t == Tail(a)
                n == Len(a)
    <2>0. a # <<>> /\ SeenCapacity \in Nat /\ SeenCapacity > 0
      BY <1>2
    <2>1. /\ t \in Seq(Nat) /\ ToSet(a) = {a[1]} \cup ToSet(t) /\ DOMAIN t = 1..n - 1
          /\ n \in Nat \ {0} /\ DOMAIN a = 1..n /\ \A i \in 1..n - 1 : t[i] = a[i + 1]
      BY <2>0, SetOfTail
    <2>2. \A i \in 1..n : a[i] \in Nat /\ a[i] <= last
      BY <2>1 DEF ToSet
    <2>. HIDE DEF t, n
    <2>3. NewerBehind(queued, t)
      <3>. SUFFICES ASSUME NEW i \in 1..n - 1, NEW j \in 1..n - 1, i < j
                    PROVE  /\ t[i] # t[j]
                           /\ (\E m \in queued : m.id = t[i]) => t[i] < t[j]
        BY <2>1 DEF NewerBehind
      <3>1. i + 1 \in 1..n /\ j + 1 \in 1..n /\ i + 1 < j + 1
        BY <2>1
      <3>2. /\ a[i + 1] # a[j + 1]
            /\ (\E m \in queued : m.id = a[i + 1]) => a[i + 1] < a[j + 1]
        BY <2>1, <3>1 DEF NewerBehind
      <3>. QED  BY <2>1, <3>2
    <2>4. ASSUME NEW m \in queued, m.id = a[1]
          PROVE  FALSE
      <3>. DEFINE later == 2..n
                  o == a[1]
                  newer == (o + 1)..last
                  f == [j \in later |-> a[j]]
      <3>1. \A j \in later : j \in 1..n /\ 1 \in 1..n /\ 1 < j
        BY <2>1
      <3>2. \A j \in later : a[1] < a[j]
        BY <2>1, <2>4, <3>1 DEF NewerBehind
      <3>3. \A i, j \in later : a[i] = a[j] => i = j
        <4>. SUFFICES ASSUME NEW i \in later, NEW j \in later, i < j PROVE a[i] # a[j]
          BY <2>1
        <4>. QED  BY <2>1, <3>1 DEF NewerBehind
      <3>4. o \in Nat /\ o + 1 \in Int /\ last \in Int
        BY <2>1, <2>2
      <3>5. f \in [later -> newer]
        BY <2>2, <3>1, <3>2, <3>4
      <3>6. f \in Injection(later, newer)
        BY <3>3, <3>5 DEF Injection, IsInjective
      <3>. HIDE DEF o
      <3>7. /\ IsFiniteSet(newer)
            /\ Cardinality(newer) = IF o + 1 > last THEN 0 ELSE last - (o + 1) + 1
        BY <3>4, FS_Interval
      <3>8. Cardinality(later) = IF 2 > n THEN 0 ELSE n - 2 + 1
        BY <2>1, FS_Interval
      <3>. HIDE DEF later, newer, f
      <3>9. Cardinality(later) <= Cardinality(newer)
        BY <3>6, <3>7, FS_Injection
      <3>10. o <= last /\ last - o < SeenCapacity
        BY <2>4 DEF Recent, o
      <3>11. n > SeenCapacity /\ n \in Nat
        BY <1>2, <2>1 DEF n
      <3>12. Cardinality(later) >= SeenCapacity
        BY <2>0, <3>8, <3>11
      <3>13. Cardinality(newer) < SeenCapacity
        BY <2>0, <3>4, <3>7, <3>10
      <3>14. Cardinality(later) \in Int /\ Cardinality(newer) \in Int
        BY <3>4, <3>7, <3>8, <3>11
      <3>. HIDE DEF later, newer
      <3>. QED  BY <2>0, <3>9, <3>12, <3>13, <3>14
    <2>. QED  BY <1>2, <2>1, <2>3, <2>4 DEF t
  <1>. QED  BY <1>1, <1>2 DEF Forget

WindowAt(chan, evts, ids, done, last) ==
    /\ chan \in Seq(SyncMessages) /\ evts \in Seq(SyncMessages)
    /\ ids \in Seq(Nat) /\ done \in Seq(SyncMessages) /\ last \in Nat

\* The queues, a copy of m shorter.
WithoutIt(chan, evts, chan2, evts2, has, m) ==
    /\ m \in SyncMessages
    /\ chan2 \in Seq(SyncMessages) /\ evts2 \in Seq(SyncMessages)
    /\ Increasing(chan2) /\ Increasing(evts2) /\ (~ has => chan2 = <<>>)
    /\ ToSet(chan2) \subseteq ToSet(chan) /\ ToSet(evts2) \subseteq ToSet(evts)
    /\ \A k \in ToSet(chan) : k = m \/ k \in ToSet(chan2)
    /\ \A k \in ToSet(evts) : k = m \/ k \in ToSet(evts2)

Removes(pending2, pending, m) == pending2 = pending \ {m}

IsOldest(m, pending) == m \in pending /\ \A k \in pending : k = m \/ m.id < k.id

\* A window acts on the oldest message that is pending there.
LEMMA WindowActs ==
    ASSUME NEW chan, NEW evts, NEW chan2, NEW evts2, NEW ids, NEW done, NEW last, NEW has, NEW m,
           WindowAt(chan, evts, ids, done, last), WithoutIt(chan, evts, chan2, evts2, has, m),
           WindowInv(chan, evts, ids, done, last, has),
           IsOldest(m, Pending(ToSet(chan) \cup ToSet(evts), ids))
    PROVE  /\ WindowInv(chan2, evts2, Forget(Append(ids, m.id)), Append(done, m), last, has)
           /\ Removes(Pending(ToSet(chan2) \cup ToSet(evts2), Forget(Append(ids, m.id))),
                      Pending(ToSet(chan) \cup ToSet(evts), ids), m)
  <1>w. /\ m \in SyncMessages
        /\ chan2 \in Seq(SyncMessages) /\ evts2 \in Seq(SyncMessages)
        /\ Increasing(chan2) /\ Increasing(evts2) /\ (~ has => chan2 = <<>>)
        /\ ToSet(chan2) \subseteq ToSet(chan) /\ ToSet(evts2) \subseteq ToSet(evts)
        /\ \A k \in ToSet(chan) : k = m \/ k \in ToSet(chan2)
        /\ \A k \in ToSet(evts) : k = m \/ k \in ToSet(evts2)
    BY DEF WithoutIt
  <1>. USE <1>w
  <1>t. /\ chan \in Seq(SyncMessages) /\ evts \in Seq(SyncMessages)
        /\ ids \in Seq(Nat) /\ done \in Seq(SyncMessages) /\ last \in Nat
        /\ m \in Pending(ToSet(chan) \cup ToSet(evts), ids)
        /\ \A k \in Pending(ToSet(chan) \cup ToSet(evts), ids) : k = m \/ m.id < k.id
    BY DEF WindowAt, IsOldest
  <1>. USE <1>t
  <1>. DEFINE queued == ToSet(chan) \cup ToSet(evts)
              queued2 == ToSet(chan2) \cup ToSet(evts2)
              a == Append(ids, m.id)
              ids2 == Forget(a)
              done2 == Append(done, m)
              n == Len(ids)
  <1>1. queued \in SUBSET SyncMessages /\ queued2 \subseteq queued
        /\ \A k \in queued : k = m \/ k \in queued2
    <2>1. ToSet(chan) \subseteq SyncMessages /\ ToSet(evts) \subseteq SyncMessages
      BY SetOfSeq
    <2>. QED  BY <2>1
  <1>2. m \in queued /\ m.id \in Nat /\ m.id \notin ToSet(ids)
    BY DEF Pending, SyncMessages
  <1>3. a \in Seq(Nat) /\ ToSet(a) = ToSet(ids) \cup {m.id}
    <2>. DEFINE o == m.id
    <2>1. o \in Nat
      BY <1>2
    <2>. HIDE DEF o
    <2>2. Append(ids, o) \in Seq(Nat) /\ ToSet(Append(ids, o)) = ToSet(ids) \cup {o}
      BY <2>1, SetOfAppended
    <2>. QED  BY <2>2 DEF o
  <1>3a. /\ DOMAIN a = 1..n + 1 /\ \A i \in 1..n : a[i] = ids[i]
         /\ a[n + 1] = m.id /\ n \in Nat /\ DOMAIN ids = 1..n
    <2>. DEFINE o == m.id
    <2>1. o \in Nat
      BY <1>2
    <2>. HIDE DEF o
    <2>2. /\ DOMAIN Append(ids, o) = 1..n + 1 /\ \A i \in 1..n : Append(ids, o)[i] = ids[i]
          /\ Append(ids, o)[n + 1] = o /\ n \in Nat /\ DOMAIN ids = 1..n
      BY <2>1, SetOfAppended
    <2>. QED  BY <2>2 DEF o
  <1>4. done2 \in Seq(SyncMessages) /\ ToSet(done2) = ToSet(done) \cup {m}
    BY SetOfAppended
  <1>. DEFINE pending == Pending(queued, ids)
              pending2 == Pending(queued2, ids2)
  <1>5. /\ Increasing(done) /\ \A x \in ToSet(ids) : x <= last
        /\ \A d \in ToSet(done) : d.id <= last
        /\ Recent(queued, last)
        /\ pending \subseteq ToSet(evts)
        /\ has => pending \subseteq ToSet(chan)
        /\ NewerBehind(queued, ids) /\ PendingIsNewest(queued, ids, done)
    BY DEF WindowInv
  <1>6. m \in pending /\ \A k \in pending : k = m \/ m.id < k.id
    OBVIOUS
  <1>7. \A k \in pending : k \in queued /\ k.id \notin ToSet(ids)
    BY DEF Pending
  <1>8. \A k \in queued2 : k.id \notin ToSet(ids2) <=> k \in pending2
    BY DEF Pending
  <1>8a. pending2 \subseteq queued2 /\ \A k \in queued : k.id \notin ToSet(ids) => k \in pending
    BY DEF Pending
  <1>9. Recent(queued2, last)
    BY <1>1, <1>5 DEF Recent
  <1>. HIDE DEF queued, queued2, a, ids2, done2, n, pending, pending2
  <1>10. m.id <= last /\ \A x \in ToSet(a) : x <= last
    BY <1>2, <1>3, <1>5 DEF Recent
  <1>11. NewerBehind(queued, a)
    <2>. SUFFICES ASSUME NEW i \in 1..n + 1, NEW j \in 1..n + 1, i < j
                  PROVE  a[i] # a[j] /\ ((\E k \in queued : k.id = a[i]) => a[i] < a[j])
      BY <1>3a DEF NewerBehind
    <2>1. i \in 1..n /\ a[i] = ids[i] /\ ids[i] \in ToSet(ids)
      <3>1. i \in 1..n
        BY <1>3a
      <3>. QED  BY <1>3a, <3>1 DEF ToSet
    <2>2. CASE j = n + 1
      <3>1. a[j] = m.id
        BY <1>3a, <2>2
      <3>2. \A k \in queued : k.id \in ToSet(ids) => k.id < m.id
        BY <1>5, <1>6 DEF PendingIsNewest, pending
      <3>. QED  BY <1>2, <2>1, <3>1, <3>2
    <2>3. CASE j # n + 1
      <3>1. j \in 1..n /\ a[j] = ids[j]
        BY <1>3a, <2>3
      <3>. QED  BY <1>3a, <1>5, <2>1, <3>1 DEF NewerBehind
    <2>. QED  BY <2>2, <2>3
  <1>12. /\ ids2 \in Seq(Nat) /\ ToSet(ids2) \subseteq ToSet(a) /\ NewerBehind(queued, ids2)
         /\ \A k \in queued : k.id \in ToSet(a) => k.id \in ToSet(ids2)
    BY <1>1, <1>3, <1>5, <1>10, <1>11, RememberedIsEnough DEF ids2
  <1>13. pending2 = pending \ {m}
    <2>1. ASSUME NEW k \in pending2 PROVE k \in pending /\ k # m
      <3>1. k \in queued2 /\ k \in queued /\ k.id \notin ToSet(ids2)
        BY <1>1, <1>8, <1>8a, <2>1
      <3>2. k.id \notin ToSet(a)
        BY <1>12, <3>1
      <3>. QED  BY <1>3, <1>8a, <3>1, <3>2
    <2>2. ASSUME NEW k \in pending, k # m PROVE k \in pending2
      <3>1. k \in queued2 /\ k.id \notin ToSet(ids) /\ k.id # m.id
        BY <1>1, <1>2, <1>6, <1>7, <2>2
      <3>. QED  BY <1>3, <1>8, <1>12, <3>1
    <2>. QED  BY <2>1, <2>2
  <1>14. Increasing(done2)
    <2>1. \A d \in ToSet(done) : d.id < m.id
      BY <1>5, <1>6 DEF PendingIsNewest, pending
    <2>. QED  BY <1>5, <2>1, IncreasingAppended DEF done2
  <1>15. \A d \in ToSet(done2) : d.id <= last
    BY <1>4, <1>5, <1>10
  <1>16. \A x \in ToSet(ids2) : x <= last
    BY <1>10, <1>12
  <1>17. NewerBehind(queued2, ids2)
    BY <1>1, <1>12 DEF NewerBehind
  <1>18. PendingIsNewest(queued2, ids2, done2)
    <2>. SUFFICES ASSUME NEW k \in pending2
                  PROVE  /\ \A d \in ToSet(done2) : d.id < k.id
                         /\ \A l \in queued2 : l.id \in ToSet(ids2) => l.id < k.id
      BY DEF PendingIsNewest, pending2
    <2>1. k \in pending /\ m.id < k.id
      BY <1>6, <1>13
    <2>2. \A d \in ToSet(done) : d.id < k.id
      BY <1>5, <2>1 DEF PendingIsNewest, pending
    <2>3. ASSUME NEW l \in queued2, l.id \in ToSet(ids2) PROVE l.id < k.id
      <3>1. l \in queued /\ l.id \in ToSet(ids) \cup {m.id}
        BY <1>1, <1>3, <1>12, <2>3
      <3>2. l.id \in ToSet(ids) => l.id < k.id
        BY <1>5, <2>1, <3>1 DEF PendingIsNewest, pending
      <3>. QED  BY <2>1, <3>1, <3>2
    <2>. QED  BY <1>4, <2>1, <2>2, <2>3
  <1>19. pending2 \subseteq ToSet(evts2) /\ (has => pending2 \subseteq ToSet(chan2))
    BY <1>5, <1>13
  <1>20. WindowInv(chan2, evts2, ids2, done2, last, has)
    BY <1>9, <1>14, <1>15, <1>16, <1>17, <1>18, <1>19 DEF WindowInv, queued2, pending2
  <1>21. Removes(pending2, pending, m)
    BY <1>13 DEF Removes
  <1>. QED  BY <1>20, <1>21 DEF queued, queued2, ids2, done2, a, pending, pending2

\* A copy that was seen is passed over.
LEMMA WindowSkips ==
    ASSUME NEW chan, NEW evts, NEW chan2, NEW evts2, NEW ids, NEW done, NEW last, NEW has, NEW m,
           WithoutIt(chan, evts, chan2, evts2, has, m),
           WindowInv(chan, evts, ids, done, last, has), m.id \in ToSet(ids)
    PROVE  /\ WindowInv(chan2, evts2, ids, done, last, has)
           /\ Pending(ToSet(chan2) \cup ToSet(evts2), ids)
                = Pending(ToSet(chan) \cup ToSet(evts), ids)
  <1>w. /\ m \in SyncMessages
        /\ chan2 \in Seq(SyncMessages) /\ evts2 \in Seq(SyncMessages)
        /\ Increasing(chan2) /\ Increasing(evts2) /\ (~ has => chan2 = <<>>)
        /\ ToSet(chan2) \subseteq ToSet(chan) /\ ToSet(evts2) \subseteq ToSet(evts)
        /\ \A k \in ToSet(chan) : k = m \/ k \in ToSet(chan2)
        /\ \A k \in ToSet(evts) : k = m \/ k \in ToSet(evts2)
    BY DEF WithoutIt
  <1>. USE <1>w
  <1>. DEFINE queued == ToSet(chan) \cup ToSet(evts)
              queued2 == ToSet(chan2) \cup ToSet(evts2)
  <1>1. queued2 \subseteq queued
    OBVIOUS
  <1>2. Pending(queued2, ids) = Pending(queued, ids)
    BY DEF Pending
  <1>3. /\ Increasing(done) /\ \A x \in ToSet(ids) : x <= last
        /\ \A d \in ToSet(done) : d.id <= last
        /\ Recent(queued, last)
        /\ Pending(queued, ids) \subseteq ToSet(evts)
        /\ has => Pending(queued, ids) \subseteq ToSet(chan)
        /\ NewerBehind(queued, ids) /\ PendingIsNewest(queued, ids, done)
    BY DEF WindowInv
  <1>4. m \notin Pending(queued, ids)
    BY DEF Pending
  <1>. HIDE DEF queued, queued2
  <1>5. Recent(queued2, last) /\ NewerBehind(queued2, ids)
    BY <1>1, <1>3 DEF Recent, NewerBehind
  <1>6. PendingIsNewest(queued2, ids, done)
    BY <1>1, <1>2, <1>3 DEF PendingIsNewest
  <1>7. /\ Pending(queued2, ids) \subseteq ToSet(evts2)
        /\ has => Pending(queued2, ids) \subseteq ToSet(chan2)
    BY <1>2, <1>3, <1>4
  <1>8. WindowInv(chan2, evts2, ids, done, last, has)
    BY <1>3, <1>5, <1>6, <1>7 DEF WindowInv, queued2
  <1>. QED  BY <1>2, <1>8 DEF queued, queued2

NoneOld(queued, next) == \A m \in queued : next - m.id < SeenCapacity

ToldAt(chan, evts, ids, done, last, next) ==
    /\ chan \in Seq(SyncMessages) /\ evts \in Seq(SyncMessages)
    /\ ids \in Seq(Nat) /\ done \in Seq(SyncMessages)
    /\ last \in Nat /\ next \in Nat /\ next = last + 1

Arrives(chan, evts, chan2, evts2, has, m, next) ==
    /\ m \in SyncMessages /\ m.id = next
    /\ evts2 = Append(evts, m)
    /\ has => chan2 = Append(chan, m)
    /\ ~ has => chan2 = chan

LEMMA WindowClosed ==
    ASSUME NEW last \in Nat, NEW has \in BOOLEAN
    PROVE  WindowInv(<<>>, <<>>, <<>>, <<>>, last, has)
  <1>1. ToSet(<<>>) = {} /\ DOMAIN <<>> = {}
    BY DEF ToSet
  <1>. QED  BY <1>1 DEF WindowInv, Increasing, Recent, Pending, NewerBehind, PendingIsNewest

\* A window remembers a message of its own, the newest of all.
LEMMA WindowTells ==
    ASSUME NEW chan, NEW evts, NEW ids, NEW done, NEW last, NEW next, NEW has,
           ToldAt(chan, evts, ids, done, last, next),
           WindowInv(chan, evts, ids, done, last, has),
           NoneOld(ToSet(chan) \cup ToSet(evts), next)
    PROVE  /\ WindowInv(chan, evts, Append(ids, next), done, next, has)
           /\ Pending(ToSet(chan) \cup ToSet(evts), Append(ids, next))
                = Pending(ToSet(chan) \cup ToSet(evts), ids)
  <1>. DEFINE queued == ToSet(chan) \cup ToSet(evts)
              new == next
              a == Append(ids, new)
              n == Len(ids)
  <1>6. NoneOld(queued, new)
    OBVIOUS
  <1>0. /\ chan \in Seq(SyncMessages) /\ evts \in Seq(SyncMessages)
        /\ ids \in Seq(Nat) /\ done \in Seq(SyncMessages)
        /\ last \in Nat /\ next \in Nat /\ next = last + 1
    BY DEF ToldAt
  <1>1. new \in Nat /\ new > last /\ last \in Nat
    BY <1>0
  <1>2. \A k \in queued : k.id \in Nat
    <2>1. ToSet(chan) \subseteq SyncMessages /\ ToSet(evts) \subseteq SyncMessages
      BY <1>0, SetOfSeq
    <2>. QED  BY <2>1 DEF SyncMessages
  <1>. HIDE DEF new
  <1>3. a \in Seq(Nat) /\ ToSet(a) = ToSet(ids) \cup {new}
    BY <1>1, <1>0, SetOfAppended
  <1>4. /\ DOMAIN a = 1..n + 1 /\ \A i \in 1..n : a[i] = ids[i]
        /\ a[n + 1] = new /\ n \in Nat /\ DOMAIN ids = 1..n
    BY <1>1, <1>0, SetOfAppended
  <1>5. /\ Increasing(chan) /\ Increasing(evts) /\ Increasing(done)
        /\ \A x \in ToSet(ids) : x <= last
        /\ \A d \in ToSet(done) : d.id <= last
        /\ Recent(queued, last)
        /\ Pending(queued, ids) \subseteq ToSet(evts)
        /\ has => Pending(queued, ids) \subseteq ToSet(chan)
        /\ ~ has => chan = <<>>
        /\ NewerBehind(queued, ids) /\ PendingIsNewest(queued, ids, done)
    BY DEF WindowInv
  <1>. HIDE DEF queued, a, n
  <1>7. \A k \in queued : k.id <= last /\ k.id # new
    BY <1>1, <1>2, <1>5 DEF Recent
  <1>8. Pending(queued, a) = Pending(queued, ids)
    BY <1>3, <1>7 DEF Pending
  <1>9. Recent(queued, new)
    BY <1>1, <1>2, <1>6, <1>7 DEF Recent, NoneOld
  <1>10. \A x \in ToSet(ids) : x \in Nat /\ x < new
    BY <1>0, <1>1, <1>5, SetOfSeq
  <1>11. \A x \in ToSet(a) : x <= new
    BY <1>1, <1>3, <1>10
  <1>12. \A d \in ToSet(done) : d.id <= new
    <2>0. ToSet(done) \subseteq SyncMessages
      BY <1>0, SetOfSeq
    <2>1. \A d \in ToSet(done) : d.id \in Nat
      BY <2>0 DEF SyncMessages
    <2>. QED  BY <1>1, <1>5, <2>1
  <1>13. NewerBehind(queued, a)
    <2>. SUFFICES ASSUME NEW i \in 1..n + 1, NEW j \in 1..n + 1, i < j
                  PROVE  a[i] # a[j] /\ ((\E k \in queued : k.id = a[i]) => a[i] < a[j])
      BY <1>4 DEF NewerBehind
    <2>1. i \in 1..n /\ a[i] = ids[i] /\ ids[i] \in ToSet(ids)
      <3>1. i \in 1..n
        BY <1>4
      <3>. QED  BY <1>4, <3>1 DEF ToSet
    <2>2. CASE j = n + 1
      <3>1. a[j] = new
        BY <1>4, <2>2
      <3>. QED  BY <1>1, <1>10, <2>1, <3>1
    <2>3. CASE j # n + 1
      <3>1. j \in 1..n /\ a[j] = ids[j]
        BY <1>4, <2>3
      <3>. QED  BY <1>4, <1>5, <2>1, <3>1 DEF NewerBehind
    <2>. QED  BY <2>2, <2>3
  <1>14. PendingIsNewest(queued, a, done)
    <2>. SUFFICES ASSUME NEW k \in Pending(queued, ids)
                  PROVE  /\ \A d \in ToSet(done) : d.id < k.id
                         /\ \A l \in queued : l.id \in ToSet(a) => l.id < k.id
      BY <1>8 DEF PendingIsNewest
    <2>. QED  BY <1>3, <1>5, <1>7 DEF PendingIsNewest
  <1>15. WindowInv(chan, evts, a, done, new, has)
    BY <1>5, <1>8, <1>9, <1>11, <1>12, <1>13, <1>14 DEF WindowInv, queued
  <1>. QED  BY <1>8, <1>15 DEF queued, a, new

\* A message that was just sent is pending, and newer than all that is.
LEMMA WindowHears ==
    ASSUME NEW chan, NEW evts, NEW chan2, NEW evts2, NEW ids, NEW done, NEW last, NEW next,
           NEW has, NEW m,
           ToldAt(chan, evts, ids, done, last, next),
           Arrives(chan, evts, chan2, evts2, has, m, next),
           WindowInv(chan, evts, ids, done, last, has),
           NoneOld(ToSet(chan) \cup ToSet(evts), next)
    PROVE  /\ WindowInv(chan2, evts2, ids, done, next, has)
           /\ Pending(ToSet(chan2) \cup ToSet(evts2), ids)
                = Pending(ToSet(chan) \cup ToSet(evts), ids) \cup {m}
           /\ \A k \in Pending(ToSet(chan) \cup ToSet(evts), ids) : k.id < m.id
  <1>. DEFINE queued == ToSet(chan) \cup ToSet(evts)
              queued2 == ToSet(chan2) \cup ToSet(evts2)
              new == next
  <1>4. NoneOld(queued, new)
    OBVIOUS
  <1>0. /\ chan \in Seq(SyncMessages) /\ evts \in Seq(SyncMessages)
        /\ ids \in Seq(Nat) /\ done \in Seq(SyncMessages)
        /\ last \in Nat /\ next \in Nat /\ next = last + 1
    BY DEF ToldAt
  <1>0b. m \in SyncMessages /\ m.id = next
    BY DEF Arrives
  <1>0a. evts2 = Append(evts, m) /\ (has => chan2 = Append(chan, m)) /\ (~ has => chan2 = chan)
    BY DEF Arrives
  <1>1. new \in Nat /\ new > last /\ m.id = new /\ last \in Nat
    BY <1>0, <1>0b
  <1>2. \A k \in queued : k.id \in Nat
    <2>1. ToSet(chan) \subseteq SyncMessages /\ ToSet(evts) \subseteq SyncMessages
      BY <1>0, SetOfSeq
    <2>. QED  BY <2>1 DEF SyncMessages
  <1>3. /\ Increasing(chan) /\ Increasing(evts) /\ Increasing(done)
        /\ \A x \in ToSet(ids) : x <= last
        /\ \A d \in ToSet(done) : d.id <= last
        /\ Recent(queued, last)
        /\ Pending(queued, ids) \subseteq ToSet(evts)
        /\ has => Pending(queued, ids) \subseteq ToSet(chan)
        /\ ~ has => chan = <<>>
        /\ NewerBehind(queued, ids) /\ PendingIsNewest(queued, ids, done)
    BY DEF WindowInv
  <1>5. /\ ToSet(evts2) = ToSet(evts) \cup {m}
        /\ has => ToSet(chan2) = ToSet(chan) \cup {m}
        /\ ~ has => chan2 = <<>> /\ ToSet(chan2) = {} /\ ToSet(chan) = {}
    <2>1. ToSet(<<>>) = {}
      BY DEF ToSet
    <2>2. ToSet(evts2) = ToSet(evts) \cup {m}
      BY <1>0, <1>0a, <1>0b, SetOfAppended
    <2>3. ASSUME has PROVE ToSet(chan2) = ToSet(chan) \cup {m}
      <3>1. ToSet(Append(chan, m)) = ToSet(chan) \cup {m}
        BY <1>0, <1>0a, <1>0b, SetOfAppended
      <3>. QED  BY <1>0a, <1>0b, <2>3, <3>1
    <2>4. ASSUME ~ has PROVE chan2 = <<>> /\ chan = <<>>
      BY <1>0a, <1>0b, <1>3, <2>4
    <2>. QED  BY <2>1, <2>2, <2>3, <2>4
  <1>6. queued2 = queued \cup {m}
    BY <1>5
  <1>. HIDE DEF new
  <1>7. \A k \in queued : k.id < new
    BY <1>1, <1>2, <1>3 DEF Recent
  <1>8. Increasing(evts2)
    <2>1. \A k \in ToSet(evts) : k.id < m.id
      BY <1>1, <1>7
    <2>. QED  BY <1>0, <1>0a, <1>0b, <1>3, <2>1, IncreasingAppended
  <1>9. Increasing(chan2)
    <2>1. \A k \in ToSet(chan) : k.id < m.id
      BY <1>1, <1>7
    <2>2. CASE has
      BY <1>0, <1>0a, <1>0b, <1>3, <2>1, <2>2, IncreasingAppended
    <2>3. CASE ~ has
      BY <1>0a, <1>0b, <1>3, <2>3
    <2>. QED  BY <2>2, <2>3
  <1>. HIDE DEF queued, queued2
  <1>10. \A x \in ToSet(ids) : x \in Nat /\ x < new
    BY <1>0, <1>1, <1>3, SetOfSeq
  <1>11. Pending(queued2, ids) = Pending(queued, ids) \cup {m}
    BY <1>1, <1>6, <1>10 DEF Pending
  <1>12. Recent(queued2, new)
    <2>1. \A k \in queued : k.id <= new /\ new - k.id < SeenCapacity
      BY <1>1, <1>2, <1>4, <1>7 DEF NoneOld
    <2>2. m.id <= new /\ new - m.id < SeenCapacity
      BY <1>1
    <2>. QED  BY <1>6, <2>1, <2>2 DEF Recent
  <1>13. NewerBehind(queued2, ids)
    <2>1. \A i \in DOMAIN ids : ids[i] # m.id
      <3>. SUFFICES ASSUME NEW i \in DOMAIN ids PROVE ids[i] # m.id
        OBVIOUS
      <3>1. ids[i] \in ToSet(ids)
        BY DEF ToSet
      <3>. QED  BY <1>1, <1>10, <3>1
    <2>. QED  BY <1>3, <1>6, <2>1 DEF NewerBehind
  <1>14. \A x \in ToSet(ids) : x <= new
    BY <1>1, <1>10
  <1>15. \A d \in ToSet(done) : d.id < new
    <2>0. ToSet(done) \subseteq SyncMessages
      BY <1>0, SetOfSeq
    <2>1. \A d \in ToSet(done) : d.id \in Nat
      BY <2>0 DEF SyncMessages
    <2>. QED  BY <1>1, <1>3, <2>1
  <1>16. PendingIsNewest(queued2, ids, done)
    <2>. SUFFICES ASSUME NEW k \in Pending(queued2, ids)
                  PROVE  /\ \A d \in ToSet(done) : d.id < k.id
                         /\ \A l \in queued2 : l.id \in ToSet(ids) => l.id < k.id
      BY DEF PendingIsNewest
    <2>1. CASE k = m
      BY <1>1, <1>10, <1>15, <2>1
    <2>2. CASE k # m
      <3>1. k \in Pending(queued, ids)
        BY <1>11, <2>2
      <3>2. \A l \in queued2 : l.id \in ToSet(ids) => l \in queued
        BY <1>1, <1>6, <1>10
      <3>. QED  BY <1>3, <3>1, <3>2 DEF PendingIsNewest
    <2>. QED  BY <2>1, <2>2
  <1>17. /\ Pending(queued2, ids) \subseteq ToSet(evts2)
         /\ has => Pending(queued2, ids) \subseteq ToSet(chan2)
    BY <1>3, <1>5, <1>11
  <1>18. \A d \in ToSet(done) : d.id <= new
    <2>0. ToSet(done) \subseteq SyncMessages
      BY <1>0, SetOfSeq
    <2>1. \A d \in ToSet(done) : d.id \in Nat
      BY <2>0 DEF SyncMessages
    <2>. QED  BY <1>1, <1>15, <2>1
  <1>19. WindowInv(chan2, evts2, ids, done, new, has)
    BY <1>3, <1>5, <1>8, <1>9, <1>12, <1>13, <1>14, <1>16, <1>17, <1>18 DEF WindowInv, queued2
  <1>20. \A k \in Pending(queued, ids) : k.id < m.id
    BY <1>1, <1>7 DEF Pending
  <1>. QED  BY <1>11, <1>19, <1>20 DEF queued, queued2, new

Queued(w) == ToSet(channel[w]) \cup ToSet(events[w])

Sent(w, item, value) == [id |-> sent + 1, from |-> w, item |-> item, value |-> value]

LEMMA SyncTypes ==
    ASSUME SyncTypeOK, NEW w \in Windows
    PROVE  /\ sent \in Nat /\ hasChannel \in BOOLEAN
           /\ channel[w] \in Seq(SyncMessages) /\ events[w] \in Seq(SyncMessages)
           /\ seen[w] \in Seq(Nat) /\ applied[w] \in Seq(SyncMessages)
           /\ Queued(w) \subseteq SyncMessages /\ Unhandled(w) \subseteq SyncMessages
  <1>1. /\ channel[w] \in Seq(SyncMessages) /\ events[w] \in Seq(SyncMessages)
        /\ seen[w] \in Seq(Nat) /\ applied[w] \in Seq(SyncMessages)
        /\ sent \in Nat /\ hasChannel \in BOOLEAN
    BY DEF SyncTypeOK
  <1>2. /\ ToSet(channel[w]) \subseteq SyncMessages /\ ToSet(events[w]) \subseteq SyncMessages
    BY <1>1, SetOfSeq
  <1>3. Unhandled(w) \subseteq Queued(w) /\ Queued(w) \subseteq SyncMessages
    BY <1>2 DEF Unhandled, Queued
  <1>. QED  BY <1>1, <1>3

\* Whom a message reaches, and how.
LEMMA Published ==
    ASSUME SyncTypeOK, NEW w \in Windows, NEW item \in Items \cup {Closed}, NEW value \in BOOLEAN,
           Publish(w, item, value)
    PROVE  /\ Sent(w, item, value) \in SyncMessages
           /\ Sent(w, item, value).id = sent + 1
           /\ Sent(w, item, value).item = item /\ Sent(w, item, value).value = value
           /\ sent' = sent + 1 /\ sent' \in Nat
           /\ channel' \in [Windows -> Seq(SyncMessages)]
           /\ events' \in [Windows -> Seq(SyncMessages)]
           /\ \A v \in Windows : NoneOld(Queued(v), sent')
           /\ \A v \in Windows : v # w /\ session[v] # Closed =>
                /\ events'[v] = Append(events[v], Sent(w, item, value))
                /\ channel'[v] = IF hasChannel THEN Append(channel[v], Sent(w, item, value))
                                 ELSE channel[v]
           /\ \A v \in Windows : (v = w \/ session[v] = Closed) =>
                events'[v] = events[v] /\ channel'[v] = channel[v]
  <1>. DEFINE m == Sent(w, item, value)
              others == (OpenWindows \cup {w}) \ {w}
              queued(q) == [v \in Windows |-> IF v \in others THEN Append(q[v], m) ELSE q[v]]
  <1>1. sent \in Nat
    BY DEF SyncTypeOK
  <1>2. m \in SyncMessages
    <2>1. sent + 1 \in Nat \ {0}
      BY <1>1
    <2>. QED  BY <2>1 DEF Sent, SyncMessages
  <1>3. m.id = sent + 1 /\ m.item = item /\ m.value = value
    BY DEF Sent
  <1>4. sent' = sent + 1 /\ NoneIsOld
    BY DEF Publish
  <1>5. events' = queued(events) /\ channel' = IF hasChannel THEN queued(channel) ELSE channel
    BY DEF Publish, Sent
  <1>. HIDE DEF m
  <1>6. \A v \in Windows : v \in others <=> v # w /\ session[v] # Closed
    BY DEF OpenWindows
  <1>. HIDE DEF others
  <1>7. ASSUME NEW q \in [Windows -> Seq(SyncMessages)]
        PROVE  queued(q) \in [Windows -> Seq(SyncMessages)]
    <2>1. \A v \in Windows : Append(q[v], m) \in Seq(SyncMessages)
      BY <1>2, SetOfAppended
    <2>. QED  BY <2>1
  <1>8. channel' \in [Windows -> Seq(SyncMessages)] /\ events' \in [Windows -> Seq(SyncMessages)]
    <2>1. channel \in [Windows -> Seq(SyncMessages)] /\ events \in [Windows -> Seq(SyncMessages)]
      BY DEF SyncTypeOK
    <2>2. queued(channel) \in [Windows -> Seq(SyncMessages)]
      BY <1>7, <2>1
    <2>3. queued(events) \in [Windows -> Seq(SyncMessages)]
      BY <1>7, <2>1
    <2>. HIDE DEF queued
    <2>. QED  BY <1>5, <2>1, <2>2, <2>3
  <1>9. \A v \in Windows : NoneOld(Queued(v), sent')
    <2>1. \A v \in Windows : \A k \in Queued(v) : sent + 1 - k.id < SeenCapacity
      BY <1>4 DEF NoneIsOld, Queued
    <2>. DEFINE n == sent'
    <2>0. \A v \in Windows : \A k \in Queued(v) : k.id \in Nat
      <3>1. \A v \in Windows : Queued(v) \subseteq SyncMessages
        BY SyncTypes
      <3>. QED  BY <3>1 DEF SyncMessages
    <2>2. \A v \in Windows : \A k \in Queued(v) : n - k.id < SeenCapacity
      BY <1>1, <1>4, <2>0, <2>1
    <2>. HIDE DEF n
    <2>3. \A v \in Windows : NoneOld(Queued(v), n)
      BY <2>2 DEF NoneOld
    <2>. QED  BY <2>3 DEF n
  <1>10. ASSUME NEW v \in Windows, v # w, session[v] # Closed
         PROVE  /\ events'[v] = Append(events[v], m)
                /\ channel'[v] = IF hasChannel THEN Append(channel[v], m) ELSE channel[v]
    BY <1>5, <1>6, <1>10
  <1>11. ASSUME NEW v \in Windows, v = w \/ session[v] = Closed
         PROVE  events'[v] = events[v] /\ channel'[v] = channel[v]
    BY <1>5, <1>6, <1>11
  <1>. QED  BY <1>1, <1>2, <1>3, <1>4, <1>8, <1>9, <1>10, <1>11 DEF m

\* A window is told of what another one does.
LEMMA PublishReaches ==
    ASSUME SyncTypeOK, WindowsInv, NEW w \in Windows, NEW item \in Items \cup {Closed},
           NEW value \in BOOLEAN, Publish(w, item, value), hasChannel' = hasChannel,
           NEW v \in Windows, v # w,
           session'[v] = session[v], seen'[v] = seen[v], applied'[v] = applied[v]
    PROVE  /\ WindowInv(channel'[v], events'[v], seen'[v], applied'[v], sent', hasChannel')
           /\ session[v] = Closed =>
                 channel'[v] = <<>> /\ events'[v] = <<>> /\ seen'[v] = <<>> /\ applied'[v] = <<>>
           /\ session[v] # Closed =>
                 /\ Unhandled(v)' = Unhandled(v) \cup {Sent(w, item, value)}
                 /\ \A k \in Unhandled(v) : k.id < Sent(w, item, value).id
  <1>. DEFINE m == Sent(w, item, value)
  <1>1. /\ m \in SyncMessages /\ m.id = sent'
        /\ sent' = sent + 1 /\ sent' \in Nat /\ NoneOld(Queued(v), sent')
    BY Published
  <1>2. CASE session[v] = Closed
    <2>1. /\ channel[v] = <<>> /\ events[v] = <<>> /\ seen[v] = <<>> /\ applied[v] = <<>>
      BY <1>2 DEF WindowsInv
    <2>2. events'[v] = events[v] /\ channel'[v] = channel[v]
      BY <1>2, Published
    <2>3. WindowInv(<<>>, <<>>, <<>>, <<>>, sent', hasChannel)
      BY <1>1, SyncTypes, WindowClosed
    <2>. QED  BY <1>2, <2>1, <2>2, <2>3
  <1>3. CASE session[v] # Closed
    <2>1. /\ events'[v] = Append(events[v], m)
          /\ hasChannel => channel'[v] = Append(channel[v], m)
          /\ ~ hasChannel => channel'[v] = channel[v]
      <3>1. /\ events'[v] = Append(events[v], m)
            /\ channel'[v] = IF hasChannel THEN Append(channel[v], m) ELSE channel[v]
        BY <1>3, Published
      <3>. QED  BY <3>1
    <2>2. WindowInv(channel[v], events[v], seen[v], applied[v], sent, hasChannel)
      BY DEF WindowsInv
    <2>3. /\ channel[v] \in Seq(SyncMessages) /\ events[v] \in Seq(SyncMessages)
          /\ seen[v] \in Seq(Nat) /\ sent \in Nat /\ hasChannel \in BOOLEAN
          /\ applied[v] \in Seq(SyncMessages)
      BY SyncTypes
    <2>4. NoneOld(ToSet(channel[v]) \cup ToSet(events[v]), sent')
      BY <1>1 DEF Queued
    <2>. DEFINE old == Pending(ToSet(channel[v]) \cup ToSet(events[v]), seen[v])
                new == Pending(ToSet(channel'[v]) \cup ToSet(events'[v]), seen[v])
    <2>. HIDE DEF m
    <2>5. /\ WindowInv(channel'[v], events'[v], seen[v], applied[v], sent', hasChannel)
          /\ new = old \cup {m}
          /\ \A k \in old : k.id < m.id
      <3>. DEFINE c == channel[v]
                  e == events[v]
                  c2 == channel'[v]
                  e2 == events'[v]
                  s == seen[v]
                  d == applied[v]
                  l == sent
                  n == sent'
                  h == hasChannel
      <3>1. /\ c \in Seq(SyncMessages) /\ e \in Seq(SyncMessages) /\ s \in Seq(Nat)
            /\ d \in Seq(SyncMessages) /\ l \in Nat /\ n \in Nat /\ n = l + 1
            /\ h \in BOOLEAN /\ m \in SyncMessages /\ m.id = n
        BY <1>1, <2>3
      <3>0. ToldAt(c, e, s, d, l, n)
        BY <3>1 DEF ToldAt
      <3>a. Arrives(c, e, c2, e2, h, m, n)
        BY <2>1, <3>1 DEF Arrives
      <3>2. WindowInv(c, e, s, d, l, h)
        BY <2>2
      <3>3. NoneOld(ToSet(c) \cup ToSet(e), n)
        BY <2>4
      <3>4. e2 = Append(e, m) /\ (h => c2 = Append(c, m)) /\ (~ h => c2 = c)
        BY <2>1
      <3>. HIDE DEF c, e, c2, e2, s, d, l, n, h, m
      <3>5. /\ WindowInv(c2, e2, s, d, n, h)
            /\ Pending(ToSet(c2) \cup ToSet(e2), s) = Pending(ToSet(c) \cup ToSet(e), s) \cup {m}
            /\ \A k \in Pending(ToSet(c) \cup ToSet(e), s) : k.id < m.id
        BY <3>0, <3>a, <3>2, <3>3, WindowHears
      <3>. QED  BY <3>5 DEF c, e, c2, e2, s, d, l, n, h
    <2>. HIDE DEF m
    <2>6. Unhandled(v) = old /\ Unhandled(v)' = new
      BY DEF Unhandled, Pending
    <2>. HIDE DEF old, new
    <2>. QED  BY <1>1, <1>3, <2>5, <2>6 DEF m
  <1>. QED  BY <1>2, <1>3

\* A window that publishes remembers its own message.
LEMMA PublisherTells ==
    ASSUME SyncTypeOK, WindowsInv, NEW w \in Windows, NEW item \in Items \cup {Closed},
           NEW value \in BOOLEAN, Publish(w, item, value), hasChannel' = hasChannel,
           seen'[w] = Append(seen[w], sent'), applied'[w] = applied[w]
    PROVE  /\ WindowInv(channel'[w], events'[w], seen'[w], applied'[w], sent', hasChannel')
           /\ Unhandled(w)' = Unhandled(w)
  <1>1. /\ sent' = sent + 1 /\ sent' \in Nat /\ NoneOld(Queued(w), sent')
        /\ events'[w] = events[w] /\ channel'[w] = channel[w]
    BY Published
  <1>2. WindowInv(channel[w], events[w], seen[w], applied[w], sent, hasChannel)
    BY DEF WindowsInv
  <1>3. /\ channel[w] \in Seq(SyncMessages) /\ events[w] \in Seq(SyncMessages)
        /\ seen[w] \in Seq(Nat) /\ sent \in Nat
        /\ applied[w] \in Seq(SyncMessages)
    BY SyncTypes
  <1>4. NoneOld(ToSet(channel[w]) \cup ToSet(events[w]), sent')
    BY <1>1 DEF Queued
  <1>. DEFINE old == Pending(ToSet(channel[w]) \cup ToSet(events[w]), seen[w])
              new == Pending(ToSet(channel[w]) \cup ToSet(events[w]), Append(seen[w], sent'))
  <1>5. /\ WindowInv(channel[w], events[w], Append(seen[w], sent'), applied[w], sent', hasChannel)
        /\ new = old
    <2>. DEFINE c == channel[w]
                e == events[w]
                s == seen[w]
                d == applied[w]
                l == sent
                n == sent'
                h == hasChannel
    <2>1. /\ c \in Seq(SyncMessages) /\ e \in Seq(SyncMessages) /\ s \in Seq(Nat)
          /\ d \in Seq(SyncMessages) /\ l \in Nat /\ n \in Nat /\ n = l + 1
      BY <1>1, <1>3
    <2>0. ToldAt(c, e, s, d, l, n)
      BY <2>1 DEF ToldAt
    <2>2. WindowInv(c, e, s, d, l, h)
      BY <1>2
    <2>3. NoneOld(ToSet(c) \cup ToSet(e), n)
      BY <1>4
    <2>. HIDE DEF c, e, s, d, l, n, h
    <2>4. /\ WindowInv(c, e, Append(s, n), d, n, h)
          /\ Pending(ToSet(c) \cup ToSet(e), Append(s, n)) = Pending(ToSet(c) \cup ToSet(e), s)
      BY <2>0, <2>2, <2>3, WindowTells
    <2>. QED  BY <2>4 DEF c, e, s, d, l, n, h
  <1>6. Unhandled(w) = old
    BY DEF Unhandled, Pending
  <1>7. Unhandled(w)' = new
    BY <1>1 DEF Unhandled, Pending
  <1>. HIDE DEF old, new
  <1>. QED  BY <1>1, <1>5, <1>6, <1>7

LEMMA QueueTaken ==
    ASSUME NEW q \in Seq(SyncMessages), q # <<>>, Increasing(q)
    PROVE  /\ Tail(q) \in Seq(SyncMessages) /\ Head(q) \in SyncMessages /\ Head(q) \in ToSet(q)
           /\ Increasing(Tail(q)) /\ ToSet(Tail(q)) \subseteq ToSet(q)
           /\ \A k \in ToSet(q) : k = Head(q) \/ k \in ToSet(Tail(q))
           /\ \A k \in ToSet(q) : k = Head(q) \/ Head(q).id < k.id
  <1>1. /\ Tail(q) \in Seq(SyncMessages) /\ Head(q) \in SyncMessages
        /\ ToSet(q) = {Head(q)} \cup ToSet(Tail(q))
    BY SetOfTail
  <1>2. Increasing(Tail(q)) /\ \A k \in ToSet(Tail(q)) : Head(q).id < k.id
    BY IncreasingTail
  <1>. QED  BY <1>1, <1>2

Keeps(pending2, pending) == pending2 = pending

\* The head of a queue is delivered.
Takes(chan, evts, chan2, evts2, m) ==
    \/ chan # <<>> /\ m = Head(chan) /\ chan2 = Tail(chan) /\ evts2 = evts
    \/ evts # <<>> /\ m = Head(evts) /\ evts2 = Tail(evts) /\ chan2 = chan

LEMMA WindowTakes ==
    ASSUME NEW chan, NEW evts, NEW chan2, NEW evts2, NEW ids, NEW done, NEW last, NEW has, NEW m,
           WindowAt(chan, evts, ids, done, last),
           Takes(chan, evts, chan2, evts2, m),
           WindowInv(chan, evts, ids, done, last, has)
    PROVE  /\ m \in SyncMessages
           /\ m.id \in ToSet(ids) =>
                /\ WindowInv(chan2, evts2, ids, done, last, has)
                /\ Keeps(Pending(ToSet(chan2) \cup ToSet(evts2), ids),
                         Pending(ToSet(chan) \cup ToSet(evts), ids))
           /\ m.id \notin ToSet(ids) =>
                /\ WindowInv(chan2, evts2, Forget(Append(ids, m.id)), Append(done, m), last, has)
                /\ Removes(Pending(ToSet(chan2) \cup ToSet(evts2), Forget(Append(ids, m.id))),
                           Pending(ToSet(chan) \cup ToSet(evts), ids), m)
                /\ m \in Pending(ToSet(chan) \cup ToSet(evts), ids)
                /\ \A k \in Pending(ToSet(chan) \cup ToSet(evts), ids) : k = m \/ m.id < k.id
  <1>0. /\ chan \in Seq(SyncMessages) /\ evts \in Seq(SyncMessages)
        /\ ids \in Seq(Nat) /\ done \in Seq(SyncMessages) /\ last \in Nat
    BY DEF WindowAt
  <1>1. /\ Increasing(chan) /\ Increasing(evts)
        /\ Pending(ToSet(chan) \cup ToSet(evts), ids) \subseteq ToSet(evts)
        /\ has => Pending(ToSet(chan) \cup ToSet(evts), ids) \subseteq ToSet(chan)
        /\ ~ has => chan = <<>>
    BY DEF WindowInv
  <1>. DEFINE pending == Pending(ToSet(chan) \cup ToSet(evts), ids)
  <1>2. /\ chan2 \in Seq(SyncMessages) /\ evts2 \in Seq(SyncMessages)
        /\ m \in SyncMessages /\ m \in ToSet(chan) \cup ToSet(evts)
        /\ Increasing(chan2) /\ Increasing(evts2)
        /\ ToSet(chan2) \subseteq ToSet(chan) /\ ToSet(evts2) \subseteq ToSet(evts)
        /\ \A k \in ToSet(chan) : k = m \/ k \in ToSet(chan2)
        /\ \A k \in ToSet(evts) : k = m \/ k \in ToSet(evts2)
        /\ \A k \in pending : k = m \/ m.id < k.id
        /\ ~ has => chan2 = <<>>
    <2>1. CASE chan # <<>> /\ m = Head(chan) /\ chan2 = Tail(chan) /\ evts2 = evts
      <3>1. /\ Tail(chan) \in Seq(SyncMessages) /\ Head(chan) \in SyncMessages
            /\ Head(chan) \in ToSet(chan)
            /\ Increasing(Tail(chan)) /\ ToSet(Tail(chan)) \subseteq ToSet(chan)
            /\ \A k \in ToSet(chan) : k = Head(chan) \/ k \in ToSet(Tail(chan))
            /\ \A k \in ToSet(chan) : k = Head(chan) \/ Head(chan).id < k.id
        BY <1>0, <1>1, <2>1, QueueTaken
      <3>2. has
        BY <1>1, <2>1
      <3>3. pending \subseteq ToSet(chan)
        BY <1>1, <3>2
      <3>. HIDE DEF pending
      <3>. QED  BY <1>0, <1>1, <2>1, <3>1, <3>2, <3>3
    <2>2. CASE evts # <<>> /\ m = Head(evts) /\ evts2 = Tail(evts) /\ chan2 = chan
      <3>1. /\ Tail(evts) \in Seq(SyncMessages) /\ Head(evts) \in SyncMessages
            /\ Head(evts) \in ToSet(evts)
            /\ Increasing(Tail(evts)) /\ ToSet(Tail(evts)) \subseteq ToSet(evts)
            /\ \A k \in ToSet(evts) : k = Head(evts) \/ k \in ToSet(Tail(evts))
            /\ \A k \in ToSet(evts) : k = Head(evts) \/ Head(evts).id < k.id
        BY <1>0, <1>1, <2>2, QueueTaken
      <3>3. pending \subseteq ToSet(evts)
        BY <1>1
      <3>. HIDE DEF pending
      <3>4. ~ has => chan2 = <<>>
        BY <1>1, <2>2
      <3>. QED  BY <1>0, <1>1, <2>2, <3>1, <3>3, <3>4
    <2>. QED  BY <2>1, <2>2 DEF Takes
  <1>3. ASSUME m.id \in ToSet(ids)
        PROVE  /\ WindowInv(chan2, evts2, ids, done, last, has)
               /\ Keeps(Pending(ToSet(chan2) \cup ToSet(evts2), ids),
                        Pending(ToSet(chan) \cup ToSet(evts), ids))
    <2>1. WithoutIt(chan, evts, chan2, evts2, has, m)
      BY <1>2 DEF WithoutIt
    <2>. QED  BY <1>3, <2>1, WindowSkips DEF Keeps
  <1>4. ASSUME m.id \notin ToSet(ids)
        PROVE  /\ WindowInv(chan2, evts2, Forget(Append(ids, m.id)), Append(done, m), last, has)
               /\ Removes(Pending(ToSet(chan2) \cup ToSet(evts2), Forget(Append(ids, m.id))),
                          Pending(ToSet(chan) \cup ToSet(evts), ids), m)
               /\ m \in Pending(ToSet(chan) \cup ToSet(evts), ids)
    <2>1. m \in Pending(ToSet(chan) \cup ToSet(evts), ids)
      BY <1>2, <1>4 DEF Pending
    <2>2. IsOldest(m, Pending(ToSet(chan) \cup ToSet(evts), ids))
      BY <1>2, <2>1 DEF IsOldest
    <2>3. WithoutIt(chan, evts, chan2, evts2, has, m)
      BY <1>2 DEF WithoutIt
    <2>4. WindowInv(chan2, evts2, Forget(Append(ids, m.id)), Append(done, m), last, has)
      BY <2>2, <2>3, WindowActs
    <2>5. Removes(Pending(ToSet(chan2) \cup ToSet(evts2), Forget(Append(ids, m.id))),
                  Pending(ToSet(chan) \cup ToSet(evts), ids), m)
      BY <2>2, <2>3, WindowActs
    <2>. QED  BY <2>1, <2>4, <2>5
  <1>. QED  BY <1>2, <1>3, <1>4

-----------------------------------------------------------------------------
LEMMA NobodyIsClosed == \A s \in Session : s # Closed
  BY DEF SyncAssumption

LEMMA BecomesSettled ==
    ASSUME NEW s \in Session, NEW t \in Session, Becomes(s, {}, t)
    PROVE  s = t
  <1>1. \A i \in Items : s[i] = t[i]
    BY DEF Becomes
  <1>2. s \in [Items -> BOOLEAN] /\ t \in [Items -> BOOLEAN]
    BY DEF Session
  <1>. QED  BY <1>1, <1>2

LEMMA BecomesSame ==
    ASSUME NEW t
    PROVE  Becomes(t, {}, t)
  BY DEF Becomes

\* A message that sets nothing changes nothing.
LEMMA BecomesReady ==
    ASSUME NEW s, NEW t, NEW p, NEW m, m.item = Closed, Becomes(s, p, t)
    PROVE  Becomes(s, p \cup {m}, t)
  <1>1. \A i \in Items : m.item # i
    BY DEF SyncAssumption
  <1>. QED  BY <1>1 DEF Becomes

\* The last change of an item is what it comes to be.
LEMMA BecomesTold ==
    ASSUME NEW s, NEW t \in Session, NEW p \in SUBSET SyncMessages, NEW m \in SyncMessages,
           NEW i \in Items, m.item = i,
           \A k \in p : k.id < m.id, Becomes(s, p, t)
    PROVE  Becomes(s, p \cup {m}, [t EXCEPT ![i] = m.value])
  <1>. DEFINE u == [t EXCEPT ![i] = m.value]
              q == p \cup {m}
  <1>1. u[i] = m.value /\ \A j \in Items : j # i => u[j] = t[j]
    BY DEF Session
  <1>2. \A k \in q : k.id \in Nat
    BY DEF SyncMessages
  <1>3. m \in q /\ \A k \in q : k = m \/ (k \in p /\ k.id < m.id)
    OBVIOUS
  <1>3a. p \subseteq q
    OBVIOUS
  <1>. HIDE DEF u, q
  <1>4. ASSUME NEW j \in Items, \A k \in q : k.item # j
        PROVE  s[j] = u[j]
    <2>1. j # i
      BY <1>3, <1>4
    <2>2. s[j] = t[j]
      BY <1>3a, <1>4 DEF Becomes
    <2>. QED  BY <1>1, <2>1, <2>2
  <1>5. ASSUME NEW j \in Items, NEW l \in q, l.item = j,
               \A k \in q : k.item = j => k.id <= l.id
        PROVE  l.value = u[j]
    <2>1. CASE l = m
      BY <1>1, <1>5, <2>1
    <2>2. CASE l # m
      <3>1. l \in p /\ l.id < m.id
        BY <1>3, <2>2
      <3>2. j # i
        <4>1. m.item = j => m.id <= l.id
          BY <1>3, <1>5
        <4>. QED  BY <1>2, <1>3, <1>5, <3>1, <4>1
      <3>3. \A k \in p : k.item = j => k.id <= l.id
        BY <1>3a, <1>5
      <3>4. l.value = t[j]
        BY <1>5, <3>1, <3>3 DEF Becomes
      <3>. QED  BY <1>1, <3>2, <3>4
    <2>. QED  BY <2>1, <2>2
  <1>6. Becomes(s, q, u)
    BY <1>4, <1>5 DEF Becomes
  <1>. QED  BY <1>6 DEF q, u

\* To act on the oldest message leaves the later ones their say.
LEMMA BecomesActed ==
    ASSUME NEW s \in Session, NEW t \in Session, NEW p \in SUBSET SyncMessages, NEW m,
           IsOldest(m, p), Becomes(s, p, t)
    PROVE  Becomes(IF m.item = Closed THEN s ELSE [s EXCEPT ![m.item] = m.value], p \ {m}, t)
  <1>. DEFINE u == IF m.item = Closed THEN s ELSE [s EXCEPT ![m.item] = m.value]
              q == p \ {m}
  <1>1. /\ m \in p /\ m \in SyncMessages /\ \A k \in p : k = m \/ m.id < k.id
        /\ \A k \in p : k.id \in Nat
    BY DEF IsOldest, SyncMessages
  <1>2. \A i \in Items : (m.item = i => u[i] = m.value) /\ (m.item # i => u[i] = s[i])
    <2>1. s \in [Items -> BOOLEAN] /\ Closed \notin Items
      BY DEF Session, SyncAssumption
    <2>2. CASE m.item = Closed
      BY <2>1, <2>2
    <2>3. CASE m.item # Closed
      <3>1. u = [s EXCEPT ![m.item] = m.value]
        BY <2>3
      <3>. QED  BY <2>1, <3>1
    <2>. QED  BY <2>2, <2>3
  <1>3. q \subseteq p /\ m \notin q /\ \A k \in p : k = m \/ k \in q
    OBVIOUS
  <1>. HIDE DEF u, q
  <1>4. ASSUME NEW j \in Items, \A k \in q : k.item # j
        PROVE  u[j] = t[j]
    <2>1. CASE m.item = j
      <3>1. \A k \in p : k.item = j => k.id <= m.id
        BY <1>1, <1>3, <1>4
      <3>2. m.value = t[j]
        BY <1>1, <2>1, <3>1 DEF Becomes
      <3>. QED  BY <1>2, <2>1, <3>2
    <2>2. CASE m.item # j
      <3>1. \A k \in p : k.item # j
        BY <1>3, <1>4, <2>2
      <3>2. s[j] = t[j]
        BY <3>1 DEF Becomes
      <3>. QED  BY <1>2, <2>2, <3>2
    <2>. QED  BY <2>1, <2>2
  <1>5. ASSUME NEW j \in Items, NEW l \in q, l.item = j,
               \A k \in q : k.item = j => k.id <= l.id
        PROVE  l.value = t[j]
    <2>1. l \in p /\ l # m /\ m.id < l.id
      BY <1>1, <1>3
    <2>2. \A k \in p : k.item = j => k.id <= l.id
      BY <1>1, <1>3, <1>5, <2>1
    <2>. QED  BY <1>5, <2>1, <2>2 DEF Becomes
  <1>6. Becomes(u, q, t)
    BY <1>4, <1>5 DEF Becomes
  <1>. QED  BY <1>6 DEF q, u

-----------------------------------------------------------------------------
OneWindow(w) ==
    /\ WindowInv(channel[w], events[w], seen[w], applied[w], sent, hasChannel)
    /\ session[w] = Closed =>
          channel[w] = <<>> /\ events[w] = <<>> /\ seen[w] = <<>> /\ applied[w] = <<>>

LEMMA WindowsAreOne == WindowsInv <=> \A w \in Windows : OneWindow(w)
  BY DEF WindowsInv, OneWindow

LEMMA Untouched ==
    ASSUME WindowsInv, NEW v \in Windows, session'[v] = session[v], seen'[v] = seen[v],
           channel'[v] = channel[v], events'[v] = events[v], applied'[v] = applied[v],
           sent' = sent, hasChannel' = hasChannel
    PROVE  OneWindow(v)' /\ Unhandled(v)' = Unhandled(v)
  <1>1. OneWindow(v)
    BY WindowsAreOne
  <1>. QED  BY <1>1 DEF OneWindow, Unhandled

SyncInv == SyncTypeOK /\ WindowsInv /\ AgreementInv

LEMMA SyncInit_Inv == SyncInit => SyncInv
  <1>. SUFFICES ASSUME SyncInit PROVE SyncInv
    OBVIOUS
  <1>1. SyncTypeOK
    <2>1. saved \in Session
      BY DEF SyncInit, Session
    <2>2. <<>> \in Seq(Nat) /\ <<>> \in Seq(SyncMessages)
      OBVIOUS
    <2>. QED  BY <2>1, <2>2 DEF SyncInit, SyncTypeOK
  <1>2. ASSUME NEW w \in Windows PROVE OneWindow(w)
    <2>1. /\ channel[w] = <<>> /\ events[w] = <<>> /\ seen[w] = <<>> /\ applied[w] = <<>>
          /\ sent = 0 /\ hasChannel \in BOOLEAN
      BY DEF SyncInit
    <2>2. WindowInv(<<>>, <<>>, <<>>, <<>>, sent, hasChannel)
      BY <2>1, WindowClosed
    <2>. QED  BY <2>1, <2>2 DEF OneWindow
  <1>3. AgreementInv
    <2>1. saved \in Session /\ OpenWindows = {}
      BY <1>1 DEF SyncTypeOK, SyncInit, OpenWindows
    <2>. QED  BY <2>1 DEF AgreementInv
  <1>. QED  BY <1>1, <1>2, <1>3, WindowsAreOne DEF SyncInv

\* A window that opens has nothing pending and shows what is stored: if nobody was
\* behind, that is what all show.
LEMMA WindowOpens ==
    ASSUME SyncInv, NEW w \in Windows, OpenWindow(w)
    PROVE  SyncInv'
  <1>. DEFINE no == FALSE
              m == Sent(w, Closed, no)
  <1>0. SyncTypeOK /\ WindowsInv /\ AgreementInv
    BY DEF SyncInv
  <1>1. /\ Publish(w, Closed, no) /\ session[w] = Closed
        /\ session' = [session EXCEPT ![w] = saved]
        /\ seen' = [seen EXCEPT ![w] = <<sent'>>]
        /\ crossed' = (crossed \/ \E v \in OpenWindows : Unhandled(v) # {})
        /\ saved' = saved /\ hasChannel' = hasChannel /\ applied' = applied
    BY DEF OpenWindow, OpenWindows
  <1>2. Closed \in Items \cup {Closed} /\ no \in BOOLEAN
    OBVIOUS
  <1>. HIDE DEF no
  <1>3. /\ m \in SyncMessages /\ m.item = Closed /\ sent' \in Nat
        /\ channel' \in [Windows -> Seq(SyncMessages)]
        /\ events' \in [Windows -> Seq(SyncMessages)]
        /\ channel'[w] = channel[w] /\ events'[w] = events[w]
    <2>1. m \in SyncMessages /\ m.item = Closed
      BY <1>0, <1>1, <1>2, Published
    <2>2. /\ sent' \in Nat
          /\ channel' \in [Windows -> Seq(SyncMessages)]
          /\ events' \in [Windows -> Seq(SyncMessages)]
      BY <1>0, <1>1, <1>2, Published
    <2>3. channel'[w] = channel[w] /\ events'[w] = events[w]
      BY <1>0, <1>1, <1>2, Published
    <2>. QED  BY <2>1, <2>2, <2>3
  <1>4. /\ session \in [Windows -> Session \cup {Closed}] /\ saved \in Session
        /\ seen \in [Windows -> Seq(Nat)] /\ applied \in [Windows -> Seq(SyncMessages)]
        /\ hasChannel \in BOOLEAN /\ crossed \in BOOLEAN
    BY <1>0 DEF SyncTypeOK
  <1>5. /\ session'[w] = saved /\ seen'[w] = <<sent'>> /\ saved # Closed
        /\ \A v \in Windows : v # w => session'[v] = session[v] /\ seen'[v] = seen[v]
    BY <1>1, <1>4, NobodyIsClosed
  <1>6. channel[w] = <<>> /\ events[w] = <<>> /\ seen[w] = <<>> /\ applied[w] = <<>>
    BY <1>0, <1>1 DEF WindowsInv
  <1>7. SyncTypeOK'
    <2>1. session' \in [Windows -> Session \cup {Closed}]
      BY <1>1, <1>4
    <2>2. <<sent'>> \in Seq(Nat)
      BY <1>3
    <2>3. seen' \in [Windows -> Seq(Nat)]
      BY <1>1, <1>4, <2>2
    <2>4. crossed' \in BOOLEAN
      BY <1>1, <1>4
    <2>. QED  BY <1>1, <1>3, <1>4, <2>1, <2>3, <2>4 DEF SyncTypeOK
  <1>8. OneWindow(w)' /\ Unhandled(w)' = {}
    <2>1. seen'[w] = Append(seen[w], sent')
      BY <1>5, <1>6
    <2>2. applied'[w] = applied[w]
      BY <1>1
    <2>3. /\ WindowInv(channel'[w], events'[w], seen'[w], applied'[w], sent', hasChannel')
          /\ Unhandled(w)' = Unhandled(w)
      BY <1>0, <1>1, <1>2, <2>1, <2>2, PublisherTells
    <2>4. Unhandled(w) = {}
      BY <1>6 DEF Unhandled, ToSet
    <2>5. session'[w] # Closed
      BY <1>5
    <2>. QED  BY <2>3, <2>4, <2>5 DEF OneWindow
  <1>9. ASSUME NEW v \in Windows, v # w
        PROVE  /\ OneWindow(v)'
               /\ session[v] # Closed => Unhandled(v)' = Unhandled(v) \cup {m}
    <2>1. session'[v] = session[v] /\ seen'[v] = seen[v] /\ applied'[v] = applied[v]
      BY <1>1, <1>5, <1>9
    <2>. HIDE DEF m
    <2>2. WindowInv(channel'[v], events'[v], seen'[v], applied'[v], sent', hasChannel')
      BY <1>0, <1>1, <1>2, <1>9, <2>1, PublishReaches
    <2>3. session[v] = Closed =>
            channel'[v] = <<>> /\ events'[v] = <<>> /\ seen'[v] = <<>> /\ applied'[v] = <<>>
      BY <1>0, <1>1, <1>2, <1>9, <2>1, PublishReaches
    <2>4. session[v] # Closed => Unhandled(v)' = Unhandled(v) \cup {Sent(w, Closed, no)}
      BY <1>0, <1>1, <1>2, <1>9, <2>1, PublishReaches
    <2>. QED  BY <2>1, <2>2, <2>3, <2>4 DEF OneWindow, m
  <1>10. WindowsInv'
    <2>1. \A v \in Windows : OneWindow(v)'
      BY <1>8, <1>9
    <2>. QED  BY <2>1 DEF WindowsInv, OneWindow
  <1>11. AgreementInv'
    <2>. SUFFICES ASSUME ~ crossed'
                  PROVE  \E truth \in Session :
                            /\ \A v \in OpenWindows' : Becomes(session'[v], Unhandled(v)', truth)
                            /\ saved' = truth
      BY DEF AgreementInv
    <2>1. ~ crossed /\ \A v \in OpenWindows : Unhandled(v) = {}
      BY <1>1
    <2>2. PICK truth \in Session :
            /\ \A v \in OpenWindows : Becomes(session[v], Unhandled(v), truth)
            /\ saved = truth
      BY <1>0, <2>1 DEF AgreementInv
    <2>3. \A v \in OpenWindows' : v \in Windows /\ (v = w \/ (v # w /\ v \in OpenWindows))
      BY <1>5 DEF OpenWindows
    <2>4. ASSUME NEW v \in OpenWindows'
          PROVE  Becomes(session'[v], Unhandled(v)', truth)
      <3>1. CASE v = w
        BY <1>5, <1>8, <2>2, <3>1, BecomesSame
      <3>2. CASE v # w
        <4>1. v \in Windows /\ v \in OpenWindows /\ session[v] # Closed
          BY <2>3, <2>4, <3>2 DEF OpenWindows
        <4>2. Unhandled(v)' = Unhandled(v) \cup {m} /\ session'[v] = session[v]
          BY <1>5, <1>9, <3>2, <4>1
        <4>3. Becomes(session[v], Unhandled(v), truth)
          BY <2>2, <4>1
        <4>. HIDE DEF m
        <4>. DEFINE s == session[v]
                    p == Unhandled(v)
        <4>4. Becomes(s, p, truth)
          BY <4>3
        <4>. HIDE DEF s, p
        <4>5. Becomes(s, p \cup {m}, truth)
          BY <1>3, <4>4, BecomesReady
        <4>. QED  BY <4>2, <4>5 DEF s, p
      <3>. QED  BY <3>1, <3>2
    <2>. QED  BY <1>1, <2>2, <2>4
  <1>. QED  BY <1>7, <1>10, <1>11 DEF SyncInv

LEMMA WindowCloses ==
    ASSUME SyncInv, NEW w \in Windows, CloseWindow(w)
    PROVE  SyncInv'
  <1>0. SyncTypeOK /\ WindowsInv /\ AgreementInv
    BY DEF SyncInv
  <1>1. /\ w \in OpenWindows
        /\ session' = [session EXCEPT ![w] = Closed]
        /\ seen' = [seen EXCEPT ![w] = <<>>] /\ channel' = [channel EXCEPT ![w] = <<>>]
        /\ events' = [events EXCEPT ![w] = <<>>] /\ applied' = [applied EXCEPT ![w] = <<>>]
        /\ crossed' = (crossed \/ Unhandled(w) # {})
        /\ saved' = saved /\ hasChannel' = hasChannel /\ sent' = sent
    BY DEF CloseWindow
  <1>2. /\ session \in [Windows -> Session \cup {Closed}] /\ saved \in Session
        /\ seen \in [Windows -> Seq(Nat)] /\ applied \in [Windows -> Seq(SyncMessages)]
        /\ channel \in [Windows -> Seq(SyncMessages)]
        /\ events \in [Windows -> Seq(SyncMessages)]
        /\ hasChannel \in BOOLEAN /\ crossed \in BOOLEAN /\ sent \in Nat
    BY <1>0 DEF SyncTypeOK
  <1>3. SyncTypeOK'
    <2>1. crossed' \in BOOLEAN
      BY <1>1, <1>2
    <2>2. <<>> \in Seq(Nat) /\ <<>> \in Seq(SyncMessages)
      OBVIOUS
    <2>3. /\ session' \in [Windows -> Session \cup {Closed}]
          /\ seen' \in [Windows -> Seq(Nat)]
          /\ applied' \in [Windows -> Seq(SyncMessages)]
          /\ channel' \in [Windows -> Seq(SyncMessages)]
          /\ events' \in [Windows -> Seq(SyncMessages)]
      BY <1>1, <1>2, <2>2
    <2>. QED  BY <1>1, <1>2, <2>1, <2>3 DEF SyncTypeOK
  <1>4. OneWindow(w)' /\ session'[w] = Closed
    <2>1. /\ channel'[w] = <<>> /\ events'[w] = <<>> /\ seen'[w] = <<>> /\ applied'[w] = <<>>
          /\ session'[w] = Closed
      BY <1>1, <1>2
    <2>2. WindowInv(<<>>, <<>>, <<>>, <<>>, sent, hasChannel)
      BY <1>2, WindowClosed
    <2>3. WindowInv(channel'[w], events'[w], seen'[w], applied'[w], sent', hasChannel')
      BY <1>1, <2>1, <2>2
    <2>. QED  BY <2>1, <2>3 DEF OneWindow
  <1>5. ASSUME NEW v \in Windows, v # w
        PROVE  OneWindow(v)' /\ Unhandled(v)' = Unhandled(v) /\ session'[v] = session[v]
    <2>1. /\ session'[v] = session[v] /\ seen'[v] = seen[v] /\ channel'[v] = channel[v]
          /\ events'[v] = events[v] /\ applied'[v] = applied[v]
      BY <1>1, <1>2, <1>5
    <2>. QED  BY <1>0, <1>1, <2>1, Untouched
  <1>6. WindowsInv'
    <2>1. \A v \in Windows : OneWindow(v)'
      BY <1>4, <1>5
    <2>. QED  BY <2>1 DEF WindowsInv, OneWindow
  <1>7. AgreementInv'
    <2>. SUFFICES ASSUME ~ crossed'
                  PROVE  \E truth \in Session :
                            /\ \A v \in OpenWindows' : Becomes(session'[v], Unhandled(v)', truth)
                            /\ (\A v \in OpenWindows' : Unhandled(v)' = {}) => saved' = truth
      BY DEF AgreementInv
    <2>1. ~ crossed /\ Unhandled(w) = {}
      BY <1>1
    <2>2. PICK truth \in Session :
            /\ \A v \in OpenWindows : Becomes(session[v], Unhandled(v), truth)
            /\ (\A v \in OpenWindows : Unhandled(v) = {}) => saved = truth
      BY <1>0, <2>1 DEF AgreementInv
    <2>3. OpenWindows' = OpenWindows \ {w} /\ OpenWindows \subseteq Windows
      BY <1>4, <1>5 DEF OpenWindows
    <2>4. \A v \in OpenWindows' : Becomes(session'[v], Unhandled(v)', truth)
      BY <1>5, <2>2, <2>3
    <2>5. (\A v \in OpenWindows' : Unhandled(v)' = {}) => \A v \in OpenWindows : Unhandled(v) = {}
      BY <1>5, <2>1, <2>3
    <2>. QED  BY <1>1, <2>2, <2>4, <2>5
  <1>. QED  BY <1>3, <1>6, <1>7 DEF SyncInv

\* A change made by a window with nothing pending is the last word on the item.
LEMMA WindowChanges ==
    ASSUME SyncInv, NEW w \in Windows, NEW i \in Items, NEW value \in BOOLEAN, Change(w, i, value)
    PROVE  SyncInv'
  <1>. DEFINE m == Sent(w, i, value)
              s2 == [session[w] EXCEPT ![i] = value]
  <1>0. SyncTypeOK /\ WindowsInv /\ AgreementInv
    BY DEF SyncInv
  <1>1. /\ Publish(w, i, value) /\ w \in OpenWindows
        /\ session' = [session EXCEPT ![w] = s2]
        /\ saved' = session'[w]
        /\ seen' = [seen EXCEPT ![w] = Append(seen[w], sent')]
        /\ crossed' = (crossed \/ Unhandled(w) # {})
        /\ hasChannel' = hasChannel /\ applied' = applied
    BY DEF Change
  <1>2. i \in Items \cup {Closed}
    OBVIOUS
  <1>3. /\ m \in SyncMessages /\ m.item = i /\ m.value = value /\ sent' \in Nat
        /\ channel' \in [Windows -> Seq(SyncMessages)]
        /\ events' \in [Windows -> Seq(SyncMessages)]
        /\ channel'[w] = channel[w] /\ events'[w] = events[w]
    BY <1>0, <1>1, <1>2, Published
  <1>4. /\ session \in [Windows -> Session \cup {Closed}]
        /\ seen \in [Windows -> Seq(Nat)] /\ applied \in [Windows -> Seq(SyncMessages)]
        /\ hasChannel \in BOOLEAN /\ crossed \in BOOLEAN
    BY <1>0 DEF SyncTypeOK
  <1>5. session[w] \in Session
    BY <1>1, <1>4 DEF OpenWindows
  <1>6. s2 \in Session
    BY <1>5 DEF Session
  <1>. HIDE DEF s2
  <1>7. /\ session'[w] = s2 /\ saved' = s2 /\ s2 # Closed /\ seen'[w] = Append(seen[w], sent')
        /\ \A v \in Windows : v # w => session'[v] = session[v] /\ seen'[v] = seen[v]
    BY <1>1, <1>4, <1>6, NobodyIsClosed
  <1>8. SyncTypeOK'
    <2>1. session' \in [Windows -> Session \cup {Closed}]
      BY <1>1, <1>4, <1>6
    <2>2. Append(seen[w], sent') \in Seq(Nat)
      <3>1. seen[w] \in Seq(Nat)
        BY <1>4
      <3>. QED  BY <1>3, <3>1, SetOfAppended
    <2>3. seen' \in [Windows -> Seq(Nat)]
      BY <1>1, <1>4, <2>2
    <2>4. crossed' \in BOOLEAN
      BY <1>1, <1>4
    <2>5. saved' \in Session
      BY <1>6, <1>7
    <2>. QED  BY <1>1, <1>3, <1>4, <2>1, <2>3, <2>4, <2>5 DEF SyncTypeOK
  <1>. HIDE DEF m
  <1>9. OneWindow(w)' /\ Unhandled(w)' = Unhandled(w)
    <2>1. applied'[w] = applied[w]
      BY <1>1
    <2>2. WindowInv(channel'[w], events'[w], seen'[w], applied'[w], sent', hasChannel')
      BY <1>0, <1>1, <1>2, <1>7, <2>1, PublisherTells
    <2>3. Unhandled(w)' = Unhandled(w)
      BY <1>0, <1>1, <1>2, <1>7, <2>1, PublisherTells
    <2>. QED  BY <1>7, <2>2, <2>3 DEF OneWindow
  <1>10. ASSUME NEW v \in Windows, v # w
         PROVE  /\ OneWindow(v)'
                /\ session[v] # Closed =>
                     Unhandled(v)' = Unhandled(v) \cup {m} /\ \A k \in Unhandled(v) : k.id < m.id
    <2>1. session'[v] = session[v] /\ seen'[v] = seen[v] /\ applied'[v] = applied[v]
      BY <1>1, <1>7, <1>10
    <2>2. WindowInv(channel'[v], events'[v], seen'[v], applied'[v], sent', hasChannel')
      BY <1>0, <1>1, <1>2, <1>10, <2>1, PublishReaches
    <2>3. session[v] = Closed =>
            channel'[v] = <<>> /\ events'[v] = <<>> /\ seen'[v] = <<>> /\ applied'[v] = <<>>
      BY <1>0, <1>1, <1>2, <1>10, <2>1, PublishReaches
    <2>4. session[v] # Closed => Unhandled(v)' = Unhandled(v) \cup {Sent(w, i, value)}
      BY <1>0, <1>1, <1>2, <1>10, <2>1, PublishReaches
    <2>5. session[v] # Closed => \A k \in Unhandled(v) : k.id < Sent(w, i, value).id
      BY <1>0, <1>1, <1>2, <1>10, <2>1, PublishReaches
    <2>. QED  BY <2>1, <2>2, <2>3, <2>4, <2>5 DEF OneWindow, m
  <1>11. WindowsInv'
    <2>1. \A v \in Windows : OneWindow(v)'
      BY <1>9, <1>10
    <2>. QED  BY <2>1 DEF WindowsInv, OneWindow
  <1>12. AgreementInv'
    <2>. SUFFICES ASSUME ~ crossed'
                  PROVE  \E truth \in Session :
                            /\ \A v \in OpenWindows' : Becomes(session'[v], Unhandled(v)', truth)
                            /\ saved' = truth
      BY DEF AgreementInv
    <2>1. ~ crossed /\ Unhandled(w) = {}
      BY <1>1
    <2>2. PICK truth \in Session : \A v \in OpenWindows : Becomes(session[v], Unhandled(v), truth)
      BY <1>0, <2>1 DEF AgreementInv
    <2>3. session[w] = truth
      <3>1. Becomes(session[w], {}, truth)
        BY <1>1, <2>1, <2>2
      <3>. DEFINE s == session[w]
      <3>2. s \in Session /\ Becomes(s, {}, truth)
        BY <1>5, <3>1
      <3>. HIDE DEF s
      <3>3. s = truth
        BY <3>2, BecomesSettled
      <3>. QED  BY <3>3 DEF s
    <2>4. s2 = [truth EXCEPT ![i] = m.value]
      BY <1>3, <2>3 DEF s2
    <2>5. ASSUME NEW v \in OpenWindows'
          PROVE  Becomes(session'[v], Unhandled(v)', s2)
      <3>1. CASE v = w
        BY <1>7, <1>9, <2>1, <3>1, BecomesSame
      <3>2. CASE v # w
        <4>1. v \in Windows /\ v \in OpenWindows /\ session[v] # Closed
          BY <1>7, <2>5, <3>2 DEF OpenWindows
        <4>2. /\ Unhandled(v)' = Unhandled(v) \cup {m} /\ session'[v] = session[v]
              /\ \A k \in Unhandled(v) : k.id < m.id
          BY <1>7, <1>10, <3>2, <4>1
        <4>3. Becomes(session[v], Unhandled(v), truth)
          BY <2>2, <4>1
        <4>4. Unhandled(v) \in SUBSET SyncMessages
          BY <1>0, <4>1, SyncTypes
        <4>. DEFINE s == session[v]
                    p == Unhandled(v)
        <4>5. Becomes(s, p, truth) /\ p \in SUBSET SyncMessages /\ \A k \in p : k.id < m.id
          BY <4>2, <4>3, <4>4
        <4>. HIDE DEF s, p
        <4>6. Becomes(s, p \cup {m}, [truth EXCEPT ![i] = m.value])
          BY <1>3, <4>5, BecomesTold
        <4>7. Becomes(s, p \cup {m}, s2)
          BY <2>4, <4>6
        <4>. QED  BY <4>2, <4>7 DEF s, p
      <3>. QED  BY <3>1, <3>2
    <2>. QED  BY <1>6, <1>7, <2>5
  <1>. QED  BY <1>8, <1>11, <1>12 DEF SyncInv

\* Delivery, by either path: the head of a queue is acted on or passed over.
LEMMA WindowHandles ==
    ASSUME SyncInv, NEW w \in Windows, NEW m, Deliver(w, m),
           Takes(channel[w], events[w], channel'[w], events'[w], m),
           channel' \in [Windows -> Seq(SyncMessages)], events' \in [Windows -> Seq(SyncMessages)],
           \A v \in Windows : v # w => channel'[v] = channel[v] /\ events'[v] = events[v],
           hasChannel' = hasChannel, sent' = sent, crossed' = crossed
    PROVE  SyncInv'
  <1>0. SyncTypeOK /\ WindowsInv /\ AgreementInv
    BY DEF SyncInv
  <1>. DEFINE ids == seen[w]
              old == Unhandled(w)
  <1>1. /\ session \in [Windows -> Session \cup {Closed}] /\ saved \in Session
        /\ seen \in [Windows -> Seq(Nat)] /\ applied \in [Windows -> Seq(SyncMessages)]
        /\ hasChannel \in BOOLEAN /\ crossed \in BOOLEAN /\ sent \in Nat
    BY <1>0 DEF SyncTypeOK
  <1>2. /\ WindowAt(channel[w], events[w], ids, applied[w], sent)
        /\ WindowInv(channel[w], events[w], ids, applied[w], sent, hasChannel)
    BY <1>0, SyncTypes DEF WindowsInv, WindowAt
  <1>3. session[w] # Closed /\ w \in OpenWindows /\ session[w] \in Session
    <2>1. channel[w] # <<>> \/ events[w] # <<>>
      BY DEF Takes
    <2>2. session[w] # Closed
      BY <1>0, <2>1 DEF WindowsInv
    <2>. QED  BY <1>1, <2>2 DEF OpenWindows
  <1>4. m \in SyncMessages
    BY <1>2, WindowTakes
  <1>5. Unhandled(w) = Pending(ToSet(channel[w]) \cup ToSet(events[w]), ids)
    BY DEF Unhandled, Pending
  <1>6. CASE m.id \in ToSet(ids)
    <2>1. /\ saved' = saved /\ session' = session /\ seen' = seen /\ applied' = applied
      BY <1>6 DEF Deliver
    <2>2. WindowInv(channel'[w], events'[w], ids, applied[w], sent, hasChannel)
      BY <1>2, <1>6, WindowTakes
    <2>3. Pending(ToSet(channel'[w]) \cup ToSet(events'[w]), ids)
            = Pending(ToSet(channel[w]) \cup ToSet(events[w]), ids)
      <3>1. Keeps(Pending(ToSet(channel'[w]) \cup ToSet(events'[w]), ids),
                  Pending(ToSet(channel[w]) \cup ToSet(events[w]), ids))
        BY <1>2, <1>6, WindowTakes
      <3>. QED  BY <3>1 DEF Keeps
    <2>4. SyncTypeOK'
      BY <1>1, <2>1 DEF SyncTypeOK
    <2>5. OneWindow(w)'
      BY <1>3, <2>1, <2>2 DEF OneWindow
    <2>6. Unhandled(w)' = Unhandled(w)
      BY <1>5, <2>1, <2>3 DEF Unhandled, Pending
    <2>7. ASSUME NEW v \in Windows PROVE OneWindow(v)' /\ Unhandled(v)' = Unhandled(v)
      BY <1>0, <2>1, <2>5, <2>6, Untouched
    <2>8. WindowsInv'
      BY <2>7 DEF WindowsInv, OneWindow
    <2>9. AgreementInv'
      <3>1. OpenWindows' = OpenWindows /\ \A v \in OpenWindows : v \in Windows
        BY <2>1 DEF OpenWindows
      <3>. SUFFICES ASSUME ~ crossed
                    PROVE  \E truth \in Session :
                              /\ \A v \in OpenWindows' : Becomes(session'[v], Unhandled(v)', truth)
                              /\ (\A v \in OpenWindows' : Unhandled(v)' = {}) => saved' = truth
        BY DEF AgreementInv
      <3>2. PICK truth \in Session :
              /\ \A v \in OpenWindows : Becomes(session[v], Unhandled(v), truth)
              /\ (\A v \in OpenWindows : Unhandled(v) = {}) => saved = truth
        BY <1>0 DEF AgreementInv
      <3>3. \A v \in OpenWindows' : Becomes(session'[v], Unhandled(v)', truth)
        BY <2>1, <2>7, <3>1, <3>2
      <3>4. (\A v \in OpenWindows' : Unhandled(v)' = {}) => \A v \in OpenWindows : Unhandled(v) = {}
        BY <2>7, <3>1
      <3>. QED  BY <2>1, <3>2, <3>3, <3>4
    <2>. QED  BY <2>4, <2>8, <2>9 DEF SyncInv
  <1>7. CASE m.id \notin ToSet(ids)
    <2>. DEFINE ids2 == Forget(Append(ids, m.id))
                s2 == IF m.item = Closed THEN session[w]
                      ELSE [session[w] EXCEPT ![m.item] = m.value]
    <2>1. /\ seen' = [seen EXCEPT ![w] = ids2]
          /\ applied' = [applied EXCEPT ![w] = Append(applied[w], m)]
          /\ saved' = session'[w]
          /\ session' = IF m.item = Closed THEN session
                        ELSE [session EXCEPT ![w] = [session[w] EXCEPT ![m.item] = m.value]]
      BY <1>7 DEF Deliver
    <2>2. session' = [session EXCEPT ![w] = s2]
      <3>1. CASE m.item = Closed
        BY <1>1, <2>1, <3>1
      <3>2. CASE m.item # Closed
        BY <2>1, <3>2
      <3>. QED  BY <3>1, <3>2
    <2>3. s2 \in Session
      <3>1. CASE m.item = Closed
        BY <1>3, <3>1
      <3>2. CASE m.item # Closed
        <4>1. m.item \in Items /\ m.value \in BOOLEAN /\ session[w] \in [Items -> BOOLEAN]
          BY <1>3, <1>4, <3>2 DEF SyncMessages, Session
        <4>2. [session[w] EXCEPT ![m.item] = m.value] \in [Items -> BOOLEAN]
          BY <4>1
        <4>3. s2 = [session[w] EXCEPT ![m.item] = m.value]
          BY <3>2
        <4>. QED  BY <4>2, <4>3 DEF Session
      <3>. QED  BY <3>1, <3>2
    <2>4. WindowInv(channel'[w], events'[w], ids2, Append(applied[w], m), sent, hasChannel)
      BY <1>2, <1>7, WindowTakes
    <2>5. Pending(ToSet(channel'[w]) \cup ToSet(events'[w]), ids2) = old \ {m}
      <3>1. Removes(Pending(ToSet(channel'[w]) \cup ToSet(events'[w]), ids2),
                    Pending(ToSet(channel[w]) \cup ToSet(events[w]), ids), m)
        BY <1>2, <1>7, WindowTakes
      <3>. QED  BY <1>5, <3>1 DEF Removes
    <2>6. IsOldest(m, old)
      <3>1. /\ m \in Pending(ToSet(channel[w]) \cup ToSet(events[w]), ids)
            /\ \A k \in Pending(ToSet(channel[w]) \cup ToSet(events[w]), ids) : k = m \/ m.id < k.id
        BY <1>2, <1>7, WindowTakes
      <3>. QED  BY <1>5, <3>1 DEF IsOldest
    <2>7. ids2 \in Seq(Nat) /\ Append(applied[w], m) \in Seq(SyncMessages)
      <3>1. m.id \in Nat /\ ids \in Seq(Nat) /\ applied[w] \in Seq(SyncMessages)
        BY <1>1, <1>4 DEF SyncMessages
      <3>2. Append(applied[w], m) \in Seq(SyncMessages)
        BY <1>4, <3>1, SetOfAppended
      <3>. DEFINE o == m.id
                  a == Append(ids, o)
      <3>3. o \in Nat
        BY <3>1
      <3>. HIDE DEF o
      <3>4. a \in Seq(Nat) /\ Len(a) = Len(ids) + 1
        BY <3>1, <3>3
      <3>5. Len(ids) \in Nat
        BY <3>1
      <3>. HIDE DEF a, ids
      <3>6. a # <<>>
        BY <3>4, <3>5
      <3>7. Tail(a) \in Seq(Nat)
        BY <3>4, <3>6
      <3>8. Forget(a) \in Seq(Nat)
        BY <3>4, <3>7 DEF Forget
      <3>. QED  BY <3>2, <3>8 DEF a, o, ids
    <2>. HIDE DEF ids2, s2, ids, old
    <2>8. /\ session'[w] = s2 /\ saved' = s2 /\ seen'[w] = ids2 /\ s2 # Closed
          /\ applied'[w] = Append(applied[w], m)
          /\ \A v \in Windows : v # w =>
                session'[v] = session[v] /\ seen'[v] = seen[v] /\ applied'[v] = applied[v]
      BY <1>1, <2>1, <2>2, <2>3, NobodyIsClosed
    <2>9. SyncTypeOK'
      <3>1. /\ session' \in [Windows -> Session \cup {Closed}]
            /\ seen' \in [Windows -> Seq(Nat)] /\ applied' \in [Windows -> Seq(SyncMessages)]
        BY <1>1, <2>1, <2>2, <2>3, <2>7
      <3>. QED  BY <1>1, <2>3, <2>8, <3>1 DEF SyncTypeOK
    <2>10. OneWindow(w)'
      BY <2>4, <2>8 DEF OneWindow
    <2>11. Unhandled(w)' = old \ {m}
      BY <2>5, <2>8 DEF Unhandled, Pending
    <2>12. ASSUME NEW v \in Windows, v # w
           PROVE  OneWindow(v)' /\ Unhandled(v)' = Unhandled(v)
      BY <1>0, <2>8, <2>12, Untouched
    <2>13. WindowsInv'
      <3>1. \A v \in Windows : OneWindow(v)'
        BY <2>10, <2>12
      <3>. QED  BY <3>1 DEF WindowsInv, OneWindow
    <2>14. AgreementInv'
      <3>. SUFFICES ASSUME ~ crossed
                    PROVE  \E truth \in Session :
                              /\ \A v \in OpenWindows' : Becomes(session'[v], Unhandled(v)', truth)
                              /\ (\A v \in OpenWindows' : Unhandled(v)' = {}) => saved' = truth
        BY DEF AgreementInv
      <3>1. PICK truth \in Session :
              \A v \in OpenWindows : Becomes(session[v], Unhandled(v), truth)
        BY <1>0 DEF AgreementInv
      <3>2. w \in OpenWindows' /\ \A v \in OpenWindows' : v \in Windows /\ v \in OpenWindows
        BY <1>3, <2>8 DEF OpenWindows
      <3>3. Becomes(session'[w], Unhandled(w)', truth)
        <4>. DEFINE s == session[w]
        <4>1. s \in Session /\ Becomes(s, old, truth)
          BY <1>3, <3>1 DEF old
        <4>2. old \in SUBSET SyncMessages
          BY <1>0, SyncTypes DEF old
        <4>3. s2 = IF m.item = Closed THEN s ELSE [s EXCEPT ![m.item] = m.value]
          BY DEF s2
        <4>. HIDE DEF s
        <4>4. Becomes(IF m.item = Closed THEN s ELSE [s EXCEPT ![m.item] = m.value],
                      old \ {m}, truth)
          BY <2>6, <4>1, <4>2, BecomesActed
        <4>5. Becomes(s2, old \ {m}, truth)
          BY <4>3, <4>4
        <4>. QED  BY <2>8, <2>11, <4>5
      <3>4. ASSUME NEW v \in OpenWindows'
            PROVE  Becomes(session'[v], Unhandled(v)', truth)
        BY <2>8, <2>12, <3>1, <3>2, <3>3
      <3>5. ASSUME \A v \in OpenWindows' : Unhandled(v)' = {}
            PROVE  saved' = truth
        <4>1. Becomes(s2, {}, truth)
          BY <2>8, <3>2, <3>3, <3>5
        <4>2. s2 = truth
          BY <2>3, <4>1, BecomesSettled
        <4>. QED  BY <2>8, <4>2
      <3>. QED  BY <3>4, <3>5
    <2>. QED  BY <2>9, <2>13, <2>14 DEF SyncInv
  <1>. QED  BY <1>6, <1>7

LEMMA SyncNext_Inv == SyncInv /\ [SyncNext]_syncVars => SyncInv'
  <1>. SUFFICES ASSUME SyncInv, [SyncNext]_syncVars PROVE SyncInv'
    OBVIOUS
  <1>0. SyncTypeOK
    BY DEF SyncInv
  <1>1. ASSUME NEW w \in Windows, OpenWindow(w) PROVE SyncInv'
    BY <1>1, WindowOpens
  <1>2. ASSUME NEW w \in Windows, CloseWindow(w) PROVE SyncInv'
    BY <1>2, WindowCloses
  <1>3. ASSUME NEW w \in Windows, NEW i \in Items, Change(w, i, ~ session[w][i]) PROVE SyncInv'
    <2>. DEFINE value == ~ session[w][i]
    <2>1. value \in BOOLEAN
      OBVIOUS
    <2>2. Change(w, i, value)
      BY <1>3
    <2>. HIDE DEF value
    <2>. QED  BY <2>1, <2>2, WindowChanges
  <1>4. ASSUME NEW w \in Windows, ChannelDelivers(w) PROVE SyncInv'
    <2>. DEFINE m == Head(channel[w])
    <2>1. /\ channel[w] # <<>> /\ Deliver(w, m)
          /\ channel' = [channel EXCEPT ![w] = Tail(channel[w])] /\ events' = events
          /\ hasChannel' = hasChannel /\ sent' = sent /\ crossed' = crossed
      BY <1>4 DEF ChannelDelivers
    <2>2. /\ channel \in [Windows -> Seq(SyncMessages)] /\ events \in [Windows -> Seq(SyncMessages)]
      BY <1>0 DEF SyncTypeOK
    <2>3. Tail(channel[w]) \in Seq(SyncMessages)
      BY <2>1, <2>2
    <2>4. channel' \in [Windows -> Seq(SyncMessages)] /\ events' \in [Windows -> Seq(SyncMessages)]
      BY <2>1, <2>2, <2>3
    <2>5. \A v \in Windows : v # w => channel'[v] = channel[v] /\ events'[v] = events[v]
      BY <2>1, <2>2
    <2>6. Takes(channel[w], events[w], channel'[w], events'[w], m)
      BY <2>1, <2>2 DEF Takes
    <2>. HIDE DEF m
    <2>. QED  BY <2>1, <2>4, <2>5, <2>6, WindowHandles
  <1>5. ASSUME NEW w \in Windows, StorageDelivers(w) PROVE SyncInv'
    <2>. DEFINE m == Head(events[w])
    <2>1. /\ events[w] # <<>> /\ Deliver(w, m)
          /\ events' = [events EXCEPT ![w] = Tail(events[w])] /\ channel' = channel
          /\ hasChannel' = hasChannel /\ sent' = sent /\ crossed' = crossed
      BY <1>5 DEF StorageDelivers
    <2>2. /\ channel \in [Windows -> Seq(SyncMessages)] /\ events \in [Windows -> Seq(SyncMessages)]
      BY <1>0 DEF SyncTypeOK
    <2>3. Tail(events[w]) \in Seq(SyncMessages)
      BY <2>1, <2>2
    <2>4. channel' \in [Windows -> Seq(SyncMessages)] /\ events' \in [Windows -> Seq(SyncMessages)]
      BY <2>1, <2>2, <2>3
    <2>5. \A v \in Windows : v # w => channel'[v] = channel[v] /\ events'[v] = events[v]
      BY <2>1, <2>2
    <2>6. Takes(channel[w], events[w], channel'[w], events'[w], m)
      BY <2>1, <2>2 DEF Takes
    <2>. HIDE DEF m
    <2>. QED  BY <2>1, <2>4, <2>5, <2>6, WindowHandles
  <1>6. ASSUME UNCHANGED syncVars PROVE SyncInv'
    <2>1. /\ saved' = saved /\ session' = session /\ seen' = seen /\ channel' = channel
          /\ events' = events /\ hasChannel' = hasChannel /\ sent' = sent
          /\ applied' = applied /\ crossed' = crossed
      BY <1>6 DEF syncVars
    <2>. QED  BY <2>1 DEF SyncInv, SyncTypeOK, WindowsInv, AgreementInv, OpenWindows, Unhandled
  <1>. QED  BY <1>1, <1>2, <1>3, <1>4, <1>5, <1>6 DEF SyncNext

LEMMA SyncInvHolds == SyncSpec => []SyncInv
  BY SyncInit_Inv, SyncNext_Inv, PTL DEF SyncSpec

\* Both copies of a message together are acted on once, and what another window
\* sent in the order it was sent: a copy is acted on only while its id is not
\* remembered, and then its message is newer than all the window acted on.
THEOREM EachMessageOnceInOrder == SyncSpec => []OnceAndInOrder
  <1>1. ASSUME SyncInv PROVE OnceAndInOrder
    <2>1. \A w \in Windows : Increasing(applied[w])
      BY <1>1 DEF SyncInv, WindowsInv, WindowInv
    <2>. QED  BY <2>1 DEF OnceAndInOrder, Increasing
  <1>. QED  BY <1>1, SyncInvHolds, PTL

\* Without a message under way all open windows show the stored session, unless one
\* of them was changed, opened or closed behind the others.
THEOREM WindowsComeToAgree == SyncSpec => []WindowsAgree
  <1>1. ASSUME SyncInv PROVE WindowsAgree
    <2>. SUFFICES ASSUME ~ crossed, \A w \in OpenWindows : Unhandled(w) = {}, NEW w \in OpenWindows
                  PROVE  session[w] = saved
      BY DEF WindowsAgree
    <2>1. PICK truth \in Session :
            /\ \A v \in OpenWindows : Becomes(session[v], Unhandled(v), truth)
            /\ saved = truth
      BY <1>1 DEF SyncInv, AgreementInv
    <2>. DEFINE s == session[w]
    <2>2. s \in Session
      BY <1>1 DEF SyncInv, SyncTypeOK, OpenWindows
    <2>3. Becomes(s, {}, truth)
      BY <2>1
    <2>. HIDE DEF s
    <2>4. s = truth
      BY <2>2, <2>3, BecomesSettled
    <2>. QED  BY <2>1, <2>4 DEF s
  <1>. QED  BY <1>1, SyncInvHolds, PTL
=============================================================================
