------------------------------ MODULE SafeStorage ------------------------------
(***************************************************************************)
(* The storage every part of a page goes through: the browser's store      *)
(* behind a wrapper that keeps a copy in memory, and uses nothing but the  *)
(* copy from the first time that the browser refuses an operation.  Each   *)
(* caller has an instance of its own, and other pages have theirs.         *)
(*                                                                         *)
(* A value is known by the number of the write that stored it.             *)
(***************************************************************************)
EXTENDS Integers

CONSTANTS
    Instances,
    Names,
    NoItem,
    MaxWrites   \* bound on the writes and removals

ASSUME StorageAssumption == MaxWrites \in Nat /\ NoItem \notin Nat

VARIABLES
    primary,    \* primary[k]: the browser's store, shared
    fallback,   \* fallback[i][k]: the copy of instance i
    available,  \* instance i still uses the browser's store
    writes,     \* writes and removals so far
    known,      \* history: what i last read or stored, NoItem when it removed it
    newest      \* history: the newest write or removal that i has seen

storageVars == <<primary, fallback, available, writes, known, newest>>

Nothing == [k \in Names |-> NoItem]

\* What a read answers; works: the browser does not refuse it.
Reading(i, k, works) ==
    IF available[i] /\ works /\ primary[k] # NoItem THEN primary[k] ELSE fallback[i][k]

\* createSafeStorage: the probe decides; a reloaded page starts with no copy.
CreateSafeStorage(i) ==
    /\ fallback' = [fallback EXCEPT ![i] = Nothing]
    /\ \E probe \in BOOLEAN : available' = [available EXCEPT ![i] = probe]
    /\ known' = [known EXCEPT ![i] = Nothing]
    /\ newest' = [newest EXCEPT ![i] = [k \in Names |-> 0]]
    /\ UNCHANGED <<primary, writes>>

GetItem(i, k, works) ==
    LET r == Reading(i, k, works)
    IN  /\ fallback' = [fallback EXCEPT ![i][k] = r]
        /\ available' = [available EXCEPT ![i] = @ /\ works]
        /\ known' = [known EXCEPT ![i][k] = r]
        /\ newest' = [newest EXCEPT ![i][k] = IF r = NoItem THEN @ ELSE r]
        /\ UNCHANGED <<primary, writes>>

\* Variant: the copy is written when the browser's store was.
SetPrimaryFirst(i, k, works) ==
    /\ writes < MaxWrites
    /\ writes' = writes + 1
    /\ fallback' = IF works THEN [fallback EXCEPT ![i][k] = writes'] ELSE fallback
    /\ primary' = IF available[i] /\ works THEN [primary EXCEPT ![k] = writes'] ELSE primary
    /\ available' = [available EXCEPT ![i] = @ /\ works]
    /\ known' = [known EXCEPT ![i][k] = writes']
    /\ newest' = [newest EXCEPT ![i][k] = writes']

SetItem(i, k, works) ==
    /\ writes < MaxWrites
    /\ writes' = writes + 1
    /\ fallback' = [fallback EXCEPT ![i][k] = writes']
    /\ primary' = IF available[i] /\ works THEN [primary EXCEPT ![k] = writes'] ELSE primary
    /\ available' = [available EXCEPT ![i] = @ /\ works]
    /\ known' = [known EXCEPT ![i][k] = writes']
    /\ newest' = [newest EXCEPT ![i][k] = writes']

RemoveItem(i, k, works) ==
    /\ writes < MaxWrites
    /\ writes' = writes + 1
    /\ fallback' = [fallback EXCEPT ![i][k] = NoItem]
    /\ primary' = IF available[i] /\ works THEN [primary EXCEPT ![k] = NoItem] ELSE primary
    /\ available' = [available EXCEPT ![i] = @ /\ works]
    /\ known' = [known EXCEPT ![i][k] = NoItem]
    /\ newest' = [newest EXCEPT ![i][k] = writes']

StorageInit ==
    /\ primary = Nothing
    /\ fallback = [i \in Instances |-> Nothing]
    /\ available \in [Instances -> BOOLEAN]
    /\ writes = 0
    /\ known = [i \in Instances |-> Nothing]
    /\ newest = [i \in Instances |-> [k \in Names |-> 0]]

StorageNext ==
    \E i \in Instances :
        \/ CreateSafeStorage(i)
        \/ \E k \in Names, works \in BOOLEAN :
              GetItem(i, k, works) \/ SetItem(i, k, works) \/ RemoveItem(i, k, works)

StorageSpec == StorageInit /\ [][StorageNext]_storageVars

-----------------------------------------------------------------------------
(* Properties. *)

\* Whether the browser refuses the next read or not, an instance still finds what
\* it last read or stored, or something newer, and does not find again what it
\* removed: nothing is lost when the store fails between two operations.  Another
\* instance may find the older item: a failed store keeps nothing for the others.
KeepsWhatItKnew ==
    \A i \in Instances, k \in Names, works \in BOOLEAN :
        LET r == Reading(i, k, works)
        IN  IF r = NoItem THEN known[i][k] = NoItem ELSE r >= newest[i][k]
=============================================================================
