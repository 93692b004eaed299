------------------------------ MODULE Catalog ------------------------------
(***************************************************************************)
(* The table "filearr" of server/sql/schema.sql and what the SQL of the     *)
(* repository does to it: the stored functions a mirror scan calls, the     *)
(* statements of makehashes and the DELETE of `cleandb syncmaster`.         *)
(*                                                                         *)
(* A row's smallint[] "mirrors" is the bag of its elements (how often each  *)
(* mirror id occurs): no statement of the repository reads the order of     *)
(* the array, but every one of them must keep it free of duplicates.  The   *)
(* column is nullable, and SQL's third truth value decides what a NULL      *)
(* array means to each statement, so NULL is kept.                          *)
(***************************************************************************)
EXTENDS Naturals

CONSTANTS Mirror,   \* ids of the rows of table "server"
          Path,     \* paths, standing for their rank in sort order
          FileId,   \* the ids the sequence filearr_id_seq can hand out
          Master,   \* id of the mirror given to syncmaster, NULL if unknown
          NULL,     \* the SQL NULL
          NoRow     \* no row of filearr has this id

Marks == [Mirror -> Nat]
Row == [path : Path, mirrors : Marks \cup {NULL}]

ASSUME NullAssumption ==
  /\ NULL \notin Marks
  /\ NULL \notin BOOLEAN
  /\ NULL \notin Mirror
  /\ NULL \notin Path

ASSUME NoRowAssumption == NoRow \notin Row

\* 0 is what the callers make of "no such row": Python tests `if file_id`.
ASSUME IdAssumption == FileId \subseteq Nat \ {0}

ASSUME PathAssumption == Path \subseteq Nat

ASSUME MasterAssumption == Master \in Mirror \cup {NULL}

Table == [FileId -> Row \cup {NoRow}]
EmptyMarks == [m \in Mirror |-> 0]

-----------------------------------------------------------------------------
(* SQL: `m = ANY(arr)`, NOT and the test of an IF or of a WHERE.           *)

\* An empty array has no element to compare with, so it answers FALSE even
\* to a NULL scalar; otherwise a NULL on either side makes the answer NULL.
AnyEq(m, arr) ==
  IF arr = NULL THEN NULL
  ELSE IF arr = EmptyMarks THEN FALSE
  ELSE IF m = NULL THEN NULL
  ELSE arr[m] > 0

\* Mutant of Not3: two-valued logic, "not known to hold" taken for "false".
Not3TwoValued(b) == b # TRUE

Not3(b) == IF b = NULL THEN NULL ELSE ~b

\* IF and WHERE take the branch only for TRUE.
IsTrue(b) == b = TRUE

ArrayAppend(arr, m) ==
  IF arr = NULL THEN [EmptyMarks EXCEPT ![m] = 1] ELSE [arr EXCEPT ![m] = @ + 1]

\* generate_series over a NULL array yields no row: the result is '{}'.
ArrayWithout(arr, m) ==
  IF arr = NULL THEN EmptyMarks ELSE [arr EXCEPT ![m] = 0]

-----------------------------------------------------------------------------
(* One row under the stored functions.                                     *)

Marked(row, m) == row.mirrors # NULL /\ row.mirrors[m] > 0

\* Mutant of DelWrites: NOT forgotten, an IF that takes the other branch.
DelWritesInverted(row, m) == ~IsTrue(AnyEq(m, row.mirrors))

\* Mutant of AddWrites: the mirror is appended without asking whether it is there.
AddWritesAlways(row, m) == TRUE

AddWrites(row, m) == ~IsTrue(AnyEq(m, row.mirrors))
DelWrites(row, m) == ~IsTrue(Not3(AnyEq(m, row.mirrors)))

WithMark(row, m) == [row EXCEPT !.mirrors = ArrayAppend(@, m)]
WithoutMark(row, m) == [row EXCEPT !.mirrors = ArrayWithout(@, m)]

NewRow(path) == [path |-> path, mirrors |-> NULL]
NewMarkedRow(path, m) ==
  [path |-> path, mirrors |-> [EmptyMarks EXCEPT ![m] = 1]]

-----------------------------------------------------------------------------
(* The table under whole statements, each as if it ran alone.              *)

Live(tab) == {i \in FileId : tab[i] # NoRow}
IdsAt(tab, path) == {i \in Live(tab) : tab[i].path = path}

\* SELECT id FROM filearr WHERE path = ...: "path" is UNIQUE.
FileIdOf(tab, path) ==
  IF IdsAt(tab, path) = {} THEN 0 ELSE CHOOSE i \in IdsAt(tab, path) : TRUE

\* files_in_db of a scan of m
FilesOf(tab, m) == {i \in Live(tab) : IsTrue(AnyEq(m, tab[i].mirrors))}

mirr_add_bypath_noins(tab, m, path) ==
  [i \in FileId |-> IF i \in IdsAt(tab, path) /\ AddWrites(tab[i], m)
                    THEN WithMark(tab[i], m) ELSE tab[i]]

mirr_add_bypath(tab, m, path, new) ==
  IF IdsAt(tab, path) = {} THEN [tab EXCEPT ![new] = NewMarkedRow(path, m)]
  ELSE mirr_add_bypath_noins(tab, m, path)

mirr_del_byid(tab, m, id) ==
  IF tab[id] # NoRow /\ DelWrites(tab[id], m)
  THEN [tab EXCEPT ![id] = WithoutMark(@, m)] ELSE tab

\* The rows of which the WHERE of `syncmaster` holds.
Doomed(tab) ==
  {i \in Live(tab) : IsTrue(Not3(AnyEq(Master, tab[i].mirrors)))}

Deleted(tab, ids) == [i \in FileId |-> IF i \in ids THEN NoRow ELSE tab[i]]

=============================================================================
