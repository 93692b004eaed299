--------------------------- MODULE AtomicCatalog ----------------------------
(***************************************************************************)
(* What the tools promise about the catalogue: whatever scans, hashers and  *)
(* clean-ups run at the same time, "filearr" and "hash" change only by      *)
(* whole statements, each applied to the table as it is at that moment.     *)
(* Nothing here knows of snapshots, locks or sessions.                      *)
(***************************************************************************)
EXTENDS Catalog

VARIABLES filearr, hash

vars == <<filearr, hash>>

Init ==
  /\ filearr = [i \in FileId |-> NoRow]
  /\ hash = {}

AddKnown(m, path) ==
  /\ filearr' = mirr_add_bypath_noins(filearr, m, path)
  /\ UNCHANGED hash

AddOrInsert(m, path) ==
  /\ \E new \in FileId \ Live(filearr) :
       filearr' = mirr_add_bypath(filearr, m, path, new)
  /\ UNCHANGED hash

Del(m, id) ==
  /\ filearr' = mirr_del_byid(filearr, m, id)
  /\ UNCHANGED hash

\* A file is hashed: its row is created on the first occasion.
RecordHash(path) ==
  \/ \E i \in IdsAt(filearr, path) :
       /\ hash' = hash \cup {i}
       /\ UNCHANGED filearr
  \/ /\ IdsAt(filearr, path) = {}
     /\ \E new \in FileId \ Live(filearr) :
          /\ filearr' = [filearr EXCEPT ![new] = NewRow(path)]
          /\ hash' = hash \cup {new}

\* Clean-up: only rows the master does not have now, and their hashes.
Clean ==
  \E ids \in SUBSET Doomed(filearr) :
    /\ filearr' = Deleted(filearr, ids)
    /\ hash' = hash \ ids

Next ==
  \/ \E m \in Mirror, path \in Path : AddKnown(m, path) \/ AddOrInsert(m, path)
  \/ \E m \in Mirror, id \in FileId : Del(m, id)
  \/ \E path \in Path : RecordHash(path)
  \/ Clean

Spec == Init /\ [][Next]_vars

=============================================================================
