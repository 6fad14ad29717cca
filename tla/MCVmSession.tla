------------------------------ MODULE MCVmSession ------------------------------
(* Overlapping visits of one page, the windows of a companion, and the storage *)
(* under all of them, for TLC. A scene is chosen at first.                     *)
EXTENDS VmSession, SafeStorage, CompanionSync

CONSTANTS v1, v2
VARIABLE scene

VisitSymmetry == Permutations({v1, v2})

MCInit ==
    /\ scene \in {"visits", "windows", "storage"}
    /\ Init /\ SyncInit /\ StorageInit
    /\ scene # "windows" => ~hasChannel
    /\ scene # "storage" => \A i \in Instances : available[i]
MCNext ==
    /\ \/ scene = "visits" /\ Next /\ UNCHANGED <<syncVars, storageVars>>
       \/ scene = "windows" /\ SyncNext /\ UNCHANGED <<vars, storageVars>>
       \/ scene = "storage" /\ StorageNext /\ UNCHANGED <<vars, syncVars>>
    /\ UNCHANGED scene
MCSpec == MCInit /\ [][MCNext]_<<vars, syncVars, storageVars, scene>>
=============================================================================
