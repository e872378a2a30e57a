--------------------------- MODULE SnapshotStore ---------------------------
(***************************************************************************)
(* What the snapshot repository promises its callers                       *)
(* (include/contextsnap/storage/snapshot_repository.hpp): a map from ids   *)
(* to whole snapshots, in which a snapshot appears, is edited and          *)
(* disappears in one step each, and from which retention takes only        *)
(* snapshots that are not favourites.                                      *)
(***************************************************************************)
CONSTANTS Id, Meta, None

VARIABLE store  \* the metadata of each stored snapshot, None where there is none

Init == store = [i \in Id |-> None]

\* insert
Put(i, m) ==
    /\ store[i] = None
    /\ store' = [store EXCEPT ![i] = m]

\* update_metadata: the capture time is not editable
Edit(i, m) ==
    /\ store[i] # None
    /\ m.created = store[i].created
    /\ store' = [store EXCEPT ![i] = m]

\* remove
Delete(i) ==
    /\ store[i] # None
    /\ store' = [store EXCEPT ![i] = None]

\* prune
Retire(D) ==
    /\ \A i \in D : store[i] # None /\ ~store[i].favorite
    /\ store' = [i \in Id |-> IF i \in D THEN None ELSE store[i]]

Next ==
    \/ \E i \in Id, m \in Meta : Put(i, m) \/ Edit(i, m)
    \/ \E i \in Id : Delete(i)
    \/ \E D \in SUBSET Id : Retire(D)

Spec == Init /\ [][Next]_store
=============================================================================
