---------------------------- MODULE MirrorProofs ----------------------------
(***************************************************************************)
(* Theorems about MirrorRow, for any number of processes, command lines and *)
(* alert destinations: types, NeverDownUntold, EnabledFlipsAreMeant and     *)
(* DownHasStart.                                                           *)
(*                                                                         *)
(* The invariant behind the two action properties ties each process's copy  *)
(* of the row to the row itself: a scan that will save holds a copy that    *)
(* says online, a probe that will save offline has posted its alerts, and   *)
(* unless the process was overtaken, `enabled` in its copy is the row's or  *)
(* what the process was asked to make of it.                                *)
(***************************************************************************)
EXTENDS MirrorRow, TLAPS

Asked(p) == ~job[p].dry /\ (job[p].revive \/ job[p].enable)

Holding == {"request", "alert", "save", "scanning", "record"}

\* A process that will save says online, or has told of the failure.
AlertInv(p) ==
  /\ pc[p] = "request" => announced[p] = 0
  /\ pc[p] = "alert" /\ ~copy[p].status => announced[p] + due[p] = Destinations
  /\ pc[p] = "save" /\ ~copy[p].status => announced[p] = Destinations
  /\ pc[p] = "scanning" /\ ~job[p].only => copy[p].status
  /\ pc[p] = "record" => copy[p].status

\* A copy that was not overtaken differs from the row only as was asked.
CopyInv(p) ==
  pc[p] \in Holding /\ ~overtaken[p] /\ row # NoRow
    => \/ copy[p].enabled <=> row.enabled
       \/ copy[p].enabled /\ Asked(p)

RowInv ==
  /\ TypeOK
  /\ \A p \in Proc : AlertInv(p) /\ CopyInv(p)

-----------------------------------------------------------------------------
(* The records.                                                            *)

\* Assigning a Boolean to a column yields a row of the table.
LEMMA Assign ==
  ASSUME NEW r \in ServerRow, NEW v \in BOOLEAN
  PROVE  /\ [r EXCEPT !.status = v] = [enabled |-> r.enabled, status |-> v]
         /\ [r EXCEPT !.enabled = v] = [enabled |-> v, status |-> r.status]
         /\ [enabled |-> r.enabled, status |-> v] \in ServerRow
         /\ [enabled |-> v, status |-> r.status] \in ServerRow
<1>1. [r EXCEPT !.status = v] = [enabled |-> r.enabled, status |-> v]
  BY DEF ServerRow
<1>2. [r EXCEPT !.enabled = v] = [enabled |-> v, status |-> r.status]
  BY DEF ServerRow
<1>3. r.enabled \in BOOLEAN /\ r.status \in BOOLEAN
  BY DEF ServerRow
<1> QED
  BY <1>1, <1>2, <1>3 DEF ServerRow

LEMMA AssignBoth ==
  ASSUME NEW r \in ServerRow, NEW v \in BOOLEAN, NEW w \in BOOLEAN
  PROVE  [r EXCEPT !.status = v, !.enabled = w] = [enabled |-> w, status |-> v]
<1> DEFINE q == [r EXCEPT !.status = v]
<1>1. q = [enabled |-> r.enabled, status |-> v] /\ q \in ServerRow
  BY Assign
<1>2. [q EXCEPT !.enabled = w] = [enabled |-> w, status |-> q.status]
  BY <1>1, Assign
<1> QED
  BY <1>1, <1>2

LEMMA Columns ==
  ASSUME NEW r \in ServerRow
  PROVE  r.status \in BOOLEAN /\ r.enabled \in BOOLEAN /\ r # NoRow
  BY RowAssumption DEF ServerRow

LEMMA Flags ==
  ASSUME NEW j \in Job
  PROVE  /\ j.kind \in {"probe", "scan", "chain"}
         /\ j.dry \in BOOLEAN /\ j.revive \in BOOLEAN /\ j.v4 \in BOOLEAN
         /\ j.enable \in BOOLEAN /\ j.only \in BOOLEAN
  BY DEF Job

-----------------------------------------------------------------------------
(* One step.                                                               *)

LEMMA InitInv == Init => RowInv
<1> SUFFICES ASSUME Init PROVE RowInv
  OBVIOUS
<1>1. NoJob \in Job
  BY DEF NoJob, Job
<1>2. TypeOK
  <2>1. row \in ServerRow /\ incident \in BOOLEAN /\ health \in Health
    BY DEF Init
  <2>2. 0 \in 0..Destinations
    BY ProcAssumption
  <2> QED
    BY <1>1, <2>1, <2>2 DEF Init, TypeOK, Stages
<1>3. \A p \in Proc : AlertInv(p) /\ CopyInv(p)
  BY DEF Init, AlertInv, CopyInv, Holding
<1> QED
  BY <1>2, <1>3 DEF RowInv

\* A step of p that leaves the row alone, and of p's state only moves it on.
LEMMA MoveInv ==
  ASSUME RowInv, NEW p \in Proc, NEW stage \in {"idle", "probe", "scan"},
         Goto(p, stage), UNCHANGED <<row, copy, due, announced, overtaken>>,
         incident' \in BOOLEAN, health' \in Health, job' \in [Proc -> Job],
         crossed' \in BOOLEAN,
         \A q \in Proc \ {p} : job'[q] = job[q]
  PROVE  RowInv'
<1>1. TypeOK'
  BY DEF RowInv, TypeOK, Goto, Stages
<1>2. \A q \in Proc : AlertInv(q)' /\ CopyInv(q)'
  <2> TAKE q \in Proc
  <2>1. CASE q = p
    BY <2>1 DEF RowInv, TypeOK, Goto, AlertInv, CopyInv, Holding
  <2>2. CASE q # p
    BY <2>2 DEF RowInv, TypeOK, Goto, AlertInv, CopyInv, Asked
  <2> QED
    BY <2>1, <2>2
<1> QED
  BY <1>1, <1>2 DEF RowInv

LEMMA StartInv ==
  ASSUME RowInv, NEW p \in Proc, NEW j \in JobsOf[p], Start(p, j)
  PROVE  RowInv'
<1>1. j \in Job
  BY ProcAssumption
<1>2. PICK stage \in {"probe", "scan"} : Goto(p, stage)
  BY DEF Start
<1>3. job' \in [Proc -> Job] /\ \A q \in Proc \ {p} : job'[q] = job[q]
  BY <1>1 DEF Start, RowInv, TypeOK
<1> QED
  BY <1>2, <1>3, MoveInv DEF Start, RowInv, TypeOK, history

\* A step of p that reads the row.
LEMMA ReadInv ==
  ASSUME RowInv, NEW p \in Proc, row # NoRow, ReadRow(p),
         NEW stage \in {"request", "scanning"}, Goto(p, stage),
         stage = "scanning" /\ ~job[p].only => row.status,
         UNCHANGED <<row, incident, health, job, due, crossed>>
  PROVE  RowInv'
<1>1. row \in ServerRow
  BY DEF RowInv, TypeOK
<1>2. TypeOK'
  BY <1>1, ProcAssumption DEF RowInv, TypeOK, Goto, Stages, ReadRow
<1>3. \A q \in Proc : AlertInv(q)' /\ CopyInv(q)'
  <2> TAKE q \in Proc
  <2>1. CASE q = p
    BY <2>1, <1>1 DEF RowInv, TypeOK, Goto, ReadRow, AlertInv, CopyInv
  <2>2. CASE q # p
    BY <2>2 DEF RowInv, TypeOK, Goto, ReadRow, AlertInv, CopyInv, Asked
  <2> QED
    BY <2>1, <2>2
<1> QED
  BY <1>2, <1>3 DEF RowInv

LEMMA ProbeReadInv ==
  ASSUME RowInv, NEW p \in Proc, ProbeRead(p)
  PROVE  RowInv'
<1>1. CASE Goto(p, "idle") /\ UNCHANGED <<copy, announced, overtaken>>
  BY <1>1, MoveInv DEF ProbeRead, RowInv, TypeOK
<1>2. CASE row # NoRow /\ ReadRow(p) /\ Goto(p, "request")
  BY <1>2, ReadInv DEF ProbeRead
<1> QED
  BY <1>1, <1>2 DEF ProbeRead

LEMMA ScanReadInv ==
  ASSUME RowInv, NEW p \in Proc, ScanRead(p)
  PROVE  RowInv'
<1>1. CASE Goto(p, "idle") /\ UNCHANGED <<copy, announced, overtaken>>
  BY <1>1, MoveInv DEF ScanRead, RowInv, TypeOK
<1>2. CASE row # NoRow /\ Scannable(p) /\ ReadRow(p) /\ Goto(p, "scanning")
  BY <1>2, ReadInv DEF ScanRead, Scannable
<1> QED
  BY <1>1, <1>2 DEF ScanRead

LEMMA Crossing ==
  ASSUME RowInv, NEW p \in Proc, Announce(p)
  PROVE  crossed' \in BOOLEAN
  BY DEF Announce, RowInv, TypeOK

\* A step of p that changes its copy, to alert or to save next.
LEMMA DecideInv ==
  ASSUME RowInv, NEW p \in Proc, NEW r \in ServerRow,
         NEW stage \in {"alert", "save", "record"}, NEW d \in 0..Destinations,
         pc[p] \in Holding,
         copy' = [copy EXCEPT ![p] = r], due' = [due EXCEPT ![p] = d],
         Goto(p, stage),
         UNCHANGED <<row, incident, health, job, announced, overtaken>>,
         crossed' \in BOOLEAN,
         stage = "alert" => r.status \/ announced[p] + d = Destinations,
         stage # "alert" => r.status,
         (r.enabled <=> copy[p].enabled) \/ (r.enabled /\ Asked(p))
  PROVE  RowInv'
<1>1. TypeOK'
  BY ProcAssumption DEF RowInv, TypeOK, Goto, Stages
<1>2. \A q \in Proc : AlertInv(q)' /\ CopyInv(q)'
  <2> TAKE q \in Proc
  <2>1. CASE q = p
    <3>1. /\ copy'[q] = r /\ due'[q] = d /\ pc'[q] = stage
          /\ announced'[q] = announced[q] /\ overtaken'[q] = overtaken[q]
          /\ row' = row /\ job' = job
      BY <2>1 DEF RowInv, TypeOK, Goto
    <3>2. AlertInv(q)'
      BY <2>1, <3>1 DEF AlertInv
    <3>3. CopyInv(q)
      BY DEF RowInv
    <3>4. CopyInv(q)'
      BY <2>1, <3>1, <3>3 DEF CopyInv, Asked
    <3> QED
      BY <3>2, <3>4
  <2>2. CASE q # p
    BY <2>2 DEF RowInv, TypeOK, Goto, AlertInv, CopyInv, Asked
  <2> QED
    BY <2>1, <2>2
<1> QED
  BY <1>1, <1>2 DEF RowInv

LEMMA StillAliveInv ==
  ASSUME RowInv, NEW p \in Proc, StillAlive(p)
  PROVE  RowInv'
<1>1. copy[p] \in ServerRow /\ due[p] \in 0..Destinations
  BY DEF RowInv, TypeOK
<1>2. CASE ~copy[p].enabled /\ Revive(p)
  <2> DEFINE r == [enabled |-> TRUE, status |-> copy[p].status]
  <2>1. r \in ServerRow /\ [copy[p] EXCEPT !.enabled = TRUE] = r
    BY <1>1, Assign
  <2>2. copy' = [copy EXCEPT ![p] = r] /\ Goto(p, "save")
    BY <1>2, <2>1 DEF StillAlive
  <2>3. due' = [due EXCEPT ![p] = due[p]]
    BY DEF StillAlive, RowInv, TypeOK
  <2>4. r.enabled /\ r.status /\ Asked(p)
    BY <1>2 DEF StillAlive, Revive, Asked
  <2>5. pc[p] \in Holding
    BY DEF StillAlive, Holding
  <2> HIDE DEF r
  <2> QED
    BY <1>1, <2>1, <2>2, <2>3, <2>4, <2>5, DecideInv, Crossing, <1>2 DEF StillAlive
<1>3. CASE ~(~copy[p].enabled /\ Revive(p))
  <2>1. PICK stage \in {"idle", "scan"} : Goto(p, stage)
    BY <1>3 DEF StillAlive, AfterProbe
  <2> QED
    BY <1>3, <2>1, MoveInv DEF StillAlive, RowInv, TypeOK
<1> QED
  BY <1>2, <1>3

LEMMA JustFailedInv ==
  ASSUME RowInv, NEW p \in Proc, JustFailed(p)
  PROVE  RowInv'
<1>1. CASE job[p].dry
  BY <1>1, MoveInv DEF JustFailed, RowInv, TypeOK
<1>2. CASE ~job[p].dry
  <2> DEFINE r == [enabled |-> copy[p].enabled, status |-> FALSE]
  <2>1. copy[p] \in ServerRow /\ Destinations \in 0..Destinations
    BY ProcAssumption DEF RowInv, TypeOK
  <2>2. r \in ServerRow /\ [copy[p] EXCEPT !.status = FALSE] = r
    BY <2>1, Assign
  <2>3. copy' = [copy EXCEPT ![p] = r] /\ Goto(p, "alert")
    BY <1>2, <2>2 DEF JustFailed
  <2>4. due' = [due EXCEPT ![p] = Destinations]
    BY <1>2 DEF JustFailed
  <2>5. announced[p] + Destinations = Destinations
    BY ProcAssumption DEF JustFailed, RowInv, AlertInv
  <2>6. pc[p] \in Holding
    BY DEF JustFailed, Holding
  <2>7. r.enabled <=> copy[p].enabled
    OBVIOUS
  <2> HIDE DEF r
  <2> QED
    BY <2>1, <2>2, <2>3, <2>4, <2>5, <2>6, <2>7, DecideInv, Crossing, <1>2
       DEF JustFailed
<1> QED
  BY <1>1, <1>2

LEMMA RevivedInv ==
  ASSUME RowInv, NEW p \in Proc, Revived(p)
  PROVE  RowInv'
<1>1. CASE job[p].dry
  <2>1. PICK stage \in {"idle", "scan"} : Goto(p, stage)
    BY <1>1 DEF Revived, AfterProbe
  <2> QED
    BY <1>1, <2>1, MoveInv DEF Revived, RowInv, TypeOK
<1>2. CASE ~job[p].dry
  <2> DEFINE e == copy[p].enabled \/ Revive(p)
             r == [enabled |-> e, status |-> TRUE]
  <2>1. copy[p] \in ServerRow /\ Destinations \in 0..Destinations
    BY ProcAssumption DEF RowInv, TypeOK
  <2>2. r \in ServerRow
    BY DEF ServerRow
  <2>3. copy' = [copy EXCEPT ![p] = r]
    <3>1. e \in BOOLEAN
      OBVIOUS
    <3>2. [copy[p] EXCEPT !.status = TRUE, !.enabled = e] = r
      BY <2>1, <3>1, AssignBoth
    <3>3. copy' = [copy EXCEPT ![p] =
                     [copy[p] EXCEPT !.status = TRUE, !.enabled = e]]
      BY <1>2, <2>1 DEF Revived, RowInv, TypeOK, ServerRow
    <3> QED
      BY <3>2, <3>3
  <2>4. due' = [due EXCEPT ![p] = Destinations] /\ Goto(p, "alert")
    BY <1>2 DEF Revived
  <2>5. (r.enabled <=> copy[p].enabled) \/ (r.enabled /\ Asked(p))
    BY <1>2 DEF Revive, Asked
  <2>6. pc[p] \in Holding /\ r.status
    BY DEF Revived, Holding
  <2> HIDE DEF r
  <2> QED
    BY <2>1, <2>2, <2>3, <2>4, <2>5, <2>6, DecideInv, Crossing, <1>2
       DEF Revived
<1> QED
  BY <1>1, <1>2

LEMMA PostInv ==
  ASSUME RowInv, NEW p \in Proc, Post(p)
  PROVE  RowInv'
<1> USE DEF RowInv
<1>1. due[p] \in 1..Destinations /\ announced[p] \in 0..Destinations
  BY DEF Post, MorePosts, TypeOK
<1>2. ~copy[p].status => announced[p] + 1 \in 0..Destinations
  BY <1>1, ProcAssumption DEF Post, AlertInv
<1>3. copy[p].status \in BOOLEAN
  BY Columns DEF TypeOK
<1>4. due' = [due EXCEPT ![p] = due[p] - 1] /\ due[p] - 1 \in 0..Destinations
  BY <1>1, ProcAssumption DEF Post
<1>5. announced' \in [Proc -> 0..Destinations]
  BY <1>1, <1>2, <1>3 DEF Post, TypeOK
<1>6. TypeOK'
  BY <1>4, <1>5 DEF Post, TypeOK, IncidentAfter, history
<1>7. \A q \in Proc : AlertInv(q)' /\ CopyInv(q)'
  <2> TAKE q \in Proc
  <2>1. CopyInv(q)'
    BY DEF Post, CopyInv, Asked, history
  <2>2. CASE q = p
    <3>1. due'[p] = due[p] - 1 /\ copy' = copy /\ pc'[p] = "alert"
      BY <1>4 DEF Post, TypeOK
    <3>2. ~copy[p].status => announced'[p] = announced[p] + 1
      BY DEF Post, TypeOK
    <3>3. ~copy[p].status => announced'[p] + due'[p] = Destinations
      BY <1>1, <3>1, <3>2, ProcAssumption DEF Post, AlertInv
    <3> QED
      BY <2>1, <2>2, <3>1, <3>3 DEF AlertInv
  <2>3. CASE q # p
    BY <2>1, <2>3 DEF Post, TypeOK, AlertInv
  <2> QED
    BY <2>2, <2>3
<1> QED
  BY <1>6, <1>7

LEMMA AlertsDoneInv ==
  ASSUME RowInv, NEW p \in Proc, AlertsDone(p)
  PROVE  RowInv'
<1> USE DEF RowInv
<1>1. TypeOK'
  BY DEF AlertsDone, TypeOK, Goto, Stages, history
<1>2. \A q \in Proc : AlertInv(q)' /\ CopyInv(q)'
  <2> TAKE q \in Proc
  <2>1. CASE q = p
    BY <2>1 DEF AlertsDone, TypeOK, Goto, AlertInv, CopyInv, Holding, Asked,
       history
  <2>2. CASE q # p
    BY <2>2 DEF AlertsDone, TypeOK, Goto, AlertInv, CopyInv, Asked, history
  <2> QED
    BY <2>1, <2>2
<1> QED
  BY <1>1, <1>2

LEMMA ScanReturnsInv ==
  ASSUME RowInv, NEW p \in Proc, ScanReturns(p)
  PROVE  RowInv'
<1>1. CASE job[p].dry \/ job[p].only
  BY <1>1, MoveInv DEF ScanReturns, RowInv, TypeOK, history
<1>2. CASE ~(job[p].dry \/ job[p].only)
  <2>1. PICK found \in BOOLEAN :
          copy' = [copy EXCEPT ![p].enabled = @ \/ (found /\ Enable(p))]
    BY <1>2 DEF ScanReturns
  <2> DEFINE e == copy[p].enabled \/ (found /\ Enable(p))
             r == [enabled |-> e, status |-> copy[p].status]
  <2>2. copy[p] \in ServerRow /\ due[p] \in 0..Destinations
    BY DEF RowInv, TypeOK
  <2>3. r \in ServerRow /\ [copy[p] EXCEPT !.enabled = e] = r
    BY <2>2, Assign
  <2>4. copy' = [copy EXCEPT ![p] = r]
    BY <2>1, <2>3
  <2>5. due' = [due EXCEPT ![p] = due[p]] /\ Goto(p, "record")
    BY <1>2 DEF ScanReturns, RowInv, TypeOK
  <2>6. r.status
    BY <1>2 DEF ScanReturns, RowInv, AlertInv
  <2>7. (r.enabled <=> copy[p].enabled) \/ (r.enabled /\ Asked(p))
    BY DEF Enable, Asked
  <2>8. pc[p] \in Holding
    BY DEF ScanReturns, Holding
  <2> HIDE DEF r
  <2> QED
    BY <2>2, <2>3, <2>4, <2>5, <2>6, <2>7, <2>8, DecideInv
       DEF ScanReturns, RowInv, TypeOK, history
<1> QED
  BY <1>1, <1>2

\* Saving a copy that says online, or whose failure was told.
LEMMA SaveInv ==
  ASSUME RowInv, NEW p \in Proc, Save(p),
         NEW stage \in {"idle", "scan"}, Goto(p, stage),
         UNCHANGED <<incident, health, job, copy, due, announced, crossed>>
  PROVE  RowInv'
<1> USE DEF RowInv
<1>1. row' \in ServerRow \cup {NoRow} /\ (row = NoRow => row' = NoRow)
  BY DEF Save, SetRow, TypeOK
<1>2. overtaken' \in [Proc -> BOOLEAN]
  BY DEF Save, SetRow, TypeOK
<1>3. TypeOK'
  BY <1>1, <1>2 DEF TypeOK, Goto, Stages
<1>4. ASSUME NEW q \in Proc, ~overtaken'[q], row' # NoRow
      PROVE  ~overtaken[q] /\ row # NoRow /\ row'.enabled = row.enabled
  BY <1>1, <1>4 DEF Save, SetRow
<1>5. \A q \in Proc : AlertInv(q)' /\ CopyInv(q)'
  <2> TAKE q \in Proc
  <2>1. CASE q = p
    BY <2>1 DEF TypeOK, Goto, AlertInv, CopyInv, Holding
  <2>2. CASE q # p
    <3>1. pc'[q] = pc[q]
      BY <2>2 DEF Goto, TypeOK
    <3>2. AlertInv(q)'
      BY <3>1 DEF AlertInv
    <3>3. CopyInv(q)'
      BY <1>4, <3>1 DEF CopyInv, Asked
    <3> QED
      BY <3>2, <3>3
  <2> QED
    BY <2>1, <2>2
<1> QED
  BY <1>3, <1>5

LEMMA EditInv ==
  ASSUME RowInv, Toggle \/ DeleteRow
  PROVE  RowInv'
<1> USE DEF RowInv
<1>1. /\ row' \in ServerRow \cup {NoRow}
      /\ overtaken' \in [Proc -> BOOLEAN]
      /\ \A q \in Proc : ~overtaken'[q] /\ row' # NoRow =>
           ~overtaken[q] /\ row # NoRow /\ row'.enabled = row.enabled
  <2>1. CASE DeleteRow
    BY <2>1 DEF DeleteRow, SetRow, TypeOK
  <2>2. CASE Toggle
    <3>1. row \in ServerRow /\ row.enabled \in BOOLEAN
      BY <2>2, Columns DEF Toggle, TypeOK
    <3>2. [row EXCEPT !.enabled = ~row.enabled]
            = [enabled |-> ~row.enabled, status |-> row.status]
      BY <3>1, Assign
    <3>3. [enabled |-> ~row.enabled, status |-> row.status] \in ServerRow
      BY <3>1, Assign
    <3>4. row' = [enabled |-> ~row.enabled, status |-> row.status]
      BY <2>2, <3>2 DEF Toggle, SetRow
    <3>5. overtaken' = [q \in Proc |-> TRUE]
      <4>1. row' # NoRow /\ row'.enabled # row.enabled
        BY <3>1, <3>3, <3>4, Columns
      <4> QED
        BY <2>2, <4>1 DEF Toggle, SetRow
    <3> QED
      BY <3>3, <3>4, <3>5
  <2> QED
    BY <2>1, <2>2
<1>2. UNCHANGED <<incident, health, pc, job, copy, due, announced, crossed>>
  BY DEF Toggle, DeleteRow, procs
<1>3. TypeOK'
  BY <1>1, <1>2 DEF TypeOK
<1>4. \A q \in Proc : AlertInv(q)' /\ CopyInv(q)'
  BY <1>1, <1>2 DEF AlertInv, CopyInv, Asked
<1> QED
  BY <1>3, <1>4

LEMMA StepInv == RowInv /\ [Next]_vars => RowInv'
<1> SUFFICES ASSUME RowInv, [Next]_vars PROVE RowInv'
  OBVIOUS
<1>1. ASSUME NEW p \in Proc, NEW j \in JobsOf[p], Start(p, j) PROVE RowInv'
  BY <1>1, StartInv
<1>2. ASSUME NEW p \in Proc, Proceed(p) PROVE RowInv'
  <2>1. CASE ProbeRead(p)
    BY <2>1, ProbeReadInv
  <2>2. CASE ProbeRaises(p) \/ StillDead(p) \/ ScanFails(p)
    BY <2>2, MoveInv
       DEF ProbeRaises, StillDead, ScanFails, RowInv, TypeOK, history
  <2>3. CASE StillAlive(p)
    BY <2>3, StillAliveInv
  <2>4. CASE JustFailed(p)
    BY <2>4, JustFailedInv
  <2>5. CASE Revived(p)
    BY <2>5, RevivedInv
  <2>6. CASE Post(p)
    BY <2>6, PostInv
  <2>7. CASE AlertsDone(p)
    BY <2>7, AlertsDoneInv
  <2>8. CASE ProbeSave(p)
    <3>1. PICK stage \in {"idle", "scan"} : Goto(p, stage)
      BY <2>8 DEF ProbeSave, AfterProbe
    <3> QED
      BY <2>8, <3>1, SaveInv DEF ProbeSave
  <2>9. CASE ScanRead(p)
    BY <2>9, ScanReadInv
  <2>10. CASE ScanReturns(p)
    BY <2>10, ScanReturnsInv
  <2>11. CASE ScanSave(p)
    BY <2>11, SaveInv DEF ScanSave
  <2> QED
    BY <1>2, <2>1, <2>2, <2>3, <2>4, <2>5, <2>6, <2>7, <2>8, <2>9, <2>10, <2>11
       DEF Proceed
<1>3. ASSUME NEW p \in Proc, Kill(p) PROVE RowInv'
  <2>1. crossed' \in BOOLEAN
    BY <1>3 DEF Kill, RowInv, TypeOK
  <2> QED
    BY <1>3, <2>1, MoveInv DEF Kill, RowInv, TypeOK
<1>4. CASE Toggle \/ DeleteRow
  BY <1>4, EditInv
<1>5. CASE ChangeHealth
  <2>1. TypeOK'
    BY <1>5 DEF ChangeHealth, procs, history, RowInv, TypeOK
  <2>2. \A q \in Proc : AlertInv(q)' /\ CopyInv(q)'
    BY <1>5 DEF ChangeHealth, procs, history, RowInv, AlertInv, CopyInv, Asked
  <2> QED
    BY <2>1, <2>2 DEF RowInv
<1>6. CASE UNCHANGED vars
  <2>1. TypeOK'
    BY <1>6 DEF vars, procs, history, RowInv, TypeOK
  <2>2. \A q \in Proc : AlertInv(q)' /\ CopyInv(q)'
    BY <1>6 DEF vars, procs, history, RowInv, AlertInv, CopyInv, Asked
  <2> QED
    BY <2>1, <2>2 DEF RowInv
<1> QED
  BY <1>1, <1>2, <1>3, <1>4, <1>5, <1>6 DEF Next

-----------------------------------------------------------------------------
(* The theorems.                                                           *)

\* Whatever probes, scans and administrators interleave, the copies stay tied
\* to the row as RowInv says: the invariant the theorems below rest on.
THEOREM RowInvariant == Spec => []RowInv
<1> QED
  BY InitInv, StepInv, PTL DEF Spec

\* Every variable of MirrorRow keeps its type.
THEOREM RowTypeCorrect == Spec => []TypeOK
<1>1. RowInv => TypeOK
  BY DEF RowInv
<1> QED
  BY <1>1, RowInvariant, PTL

\* Only two kinds of step save a row.
LEMMA WhoChangesRow ==
  ASSUME RowInv, [Next]_vars, row # NoRow, row' # NoRow, row' # row
  PROVE  \/ Toggle
         \/ \E p \in Proc : row' = copy[p] /\ (ProbeSave(p) \/ ScanSave(p))
<1>1. Next
  BY DEF vars
<1>2. ASSUME NEW p \in Proc, NEW j \in JobsOf[p], Start(p, j) PROVE FALSE
  BY <1>2 DEF Start
<1>3. ASSUME NEW p \in Proc, Kill(p) PROVE FALSE
  BY <1>3 DEF Kill
<1>4. ~DeleteRow /\ ~ChangeHealth
  BY DEF DeleteRow, SetRow, ChangeHealth
<1>5. ASSUME NEW p \in Proc, Proceed(p)
      PROVE  row' = copy[p] /\ (ProbeSave(p) \/ ScanSave(p))
  BY <1>5 DEF Proceed, ProbeRead, ProbeRaises, StillDead, StillAlive, JustFailed,
     Revived, Post, AlertsDone, ProbeSave, ScanRead, ScanFails, ScanReturns,
     ScanSave, Save, SetRow
<1> QED
  BY <1>1, <1>2, <1>3, <1>4, <1>5 DEF Next

\* The redirector stops using a mirror only by the save of a probe that told
\* every destination.
THEOREM DownIsTold == Spec => NeverDownUntold
<1>1. ASSUME RowInv, [Next]_vars, row # NoRow, row' # NoRow,
             row.status, ~row'.status
      PROVE  \E p \in Proc : /\ pc[p] = "save" /\ pc'[p] # "save"
                             /\ announced[p] = Destinations
  <2>1. ~Toggle
    <3>1. SUFFICES ASSUME Toggle PROVE FALSE
      OBVIOUS
    <3>2. row \in ServerRow /\ (~row.enabled) \in BOOLEAN
      BY <1>1 DEF RowInv, TypeOK
    <3>3. row' = [enabled |-> ~row.enabled, status |-> row.status]
      BY <3>1, <3>2, Assign DEF Toggle, SetRow
    <3> QED
      BY <1>1, <3>3
  <2>2. PICK p \in Proc : row' = copy[p] /\ (ProbeSave(p) \/ ScanSave(p))
    BY <1>1, <2>1, WhoChangesRow
  <2>3. ~copy[p].status
    BY <1>1, <2>2
  <2>4. ~ScanSave(p)
    BY <1>1, <2>3 DEF ScanSave, RowInv, AlertInv
  <2>5. pc[p] = "save" /\ announced[p] = Destinations
    BY <1>1, <2>2, <2>3, <2>4 DEF ProbeSave, RowInv, AlertInv
  <2>6. pc'[p] # "save"
    BY <1>1, <2>2, <2>4 DEF ProbeSave, Goto, AfterProbe, RowInv, TypeOK
  <2> QED
    BY <2>5, <2>6
<1> QED
  BY <1>1, RowInvariant, PTL DEF Spec, NeverDownUntold

\* A process changes `enabled` only if it was asked to or was overtaken.
THEOREM EnabledIsMeant == Spec => EnabledFlipsAreMeant
<1> DEFINE A == \A p \in Proc :
       /\ pc[p] \in {"save", "record"} /\ pc'[p] # pc[p]
       /\ row # NoRow /\ row' # row /\ row'.enabled # row.enabled
       => \/ overtaken[p]
          \/ row'.enabled /\ ~job[p].dry /\ (job[p].revive \/ job[p].enable)
<1>1. ASSUME RowInv, [Next]_vars, NEW p \in Proc,
             pc[p] \in {"save", "record"}, pc'[p] # pc[p],
             row # NoRow, row' # row, row'.enabled # row.enabled
      PROVE  \/ overtaken[p]
             \/ row'.enabled /\ ~job[p].dry /\ (job[p].revive \/ job[p].enable)
  <2>1. row' = copy[p]
    <3>1. Next
      BY <1>1 DEF vars
    <3>2. ASSUME NEW q \in Proc, NEW j \in JobsOf[q], Start(q, j) PROVE FALSE
      BY <1>1, <3>2 DEF Start
    <3>3. ASSUME NEW q \in Proc, Kill(q) PROVE FALSE
      BY <1>1, <3>3 DEF Kill
    <3>4. ~Toggle /\ ~DeleteRow /\ ~ChangeHealth
      BY <1>1 DEF Toggle, DeleteRow, ChangeHealth, procs
    <3>5. ASSUME NEW q \in Proc, Proceed(q) PROVE row' = copy[p]
      <4>1. ProbeSave(q) \/ ScanSave(q)
        BY <1>1, <3>5 DEF Proceed, ProbeRead, ProbeRaises, StillDead, StillAlive,
           JustFailed, Revived, Post, AlertsDone, ScanRead, ScanFails, ScanReturns
      <4>2. q = p
        BY <1>1, <4>1 DEF ProbeSave, ScanSave, Goto, RowInv, TypeOK
      <4> QED
        BY <1>1, <4>1, <4>2 DEF ProbeSave, ScanSave, Save, SetRow
    <3> QED
      BY <3>1, <3>2, <3>3, <3>4, <3>5 DEF Next
  <2>2. CopyInv(p) /\ pc[p] \in Holding
    BY <1>1 DEF RowInv, Holding
  <2>3. row.enabled \in BOOLEAN /\ copy[p].enabled \in BOOLEAN
    BY <1>1, Columns DEF RowInv, TypeOK
  <2>4. CASE ~overtaken[p]
    BY <1>1, <2>1, <2>2, <2>3, <2>4 DEF CopyInv, Asked
  <2> QED
    BY <2>4
<1>2. RowInv /\ [Next]_vars => [A]_vars
  BY <1>1
<1>3. [][A]_vars => EnabledFlipsAreMeant
  BY DEF EnabledFlipsAreMeant
<1> QED
  BY <1>2, <1>3, RowInvariant, PTL DEF Spec

-----------------------------------------------------------------------------
(* The incident file.                                                      *)

\* While alerts do not cross: one process at a time is at them, what it saves
\* as offline has its file, and what is recorded as offline has it or is about
\* to be saved as online.
OutageInv ==
  ~crossed /\ Destinations > 0 =>
    /\ \A p, q \in Proc : pc[p] \in Announcing /\ pc[q] \in Announcing => p = q
    /\ \A p \in Proc :
         /\ pc[p] = "alert" /\ ~copy[p].status => due[p] = Destinations \/ incident
         /\ pc[p] = "save" /\ ~copy[p].status => incident
    /\ row # NoRow =>
         \/ row.status \/ incident
         \/ \E p \in Proc : pc[p] \in Announcing /\ copy[p].status

\* A step of p before or after its alerts, or of a process without any.
LEMMA AsideKeeps ==
  ASSUME RowInv, OutageInv, NEW p \in Proc, NEW stage \in Stages \ Announcing,
         Goto(p, stage), pc[p] \notin Announcing,
         \A q \in Proc \ {p} : copy'[q] = copy[q],
         UNCHANGED <<row, incident, due, crossed>>
  PROVE  OutageInv'
<1>1. \A q \in Proc : \/ pc'[q] \notin Announcing /\ pc[q] \notin Announcing
                      \/ pc'[q] = pc[q] /\ copy'[q] = copy[q] /\ due'[q] = due[q]
  BY DEF Goto, RowInv, TypeOK
<1> QED
  BY <1>1 DEF OutageInv, Announcing

\* A step that is the first of alerts: nobody else is at them, or they cross.
LEMMA AnnounceKeeps ==
  ASSUME RowInv, OutageInv, NEW p \in Proc, NEW stage \in Announcing,
         Goto(p, stage), Announce(p), pc[p] \notin Announcing,
         \A q \in Proc \ {p} : copy'[q] = copy[q],
         stage = "alert" => due'[p] = Destinations, stage = "save" => copy'[p].status,
         UNCHANGED <<row, incident>>
  PROVE  OutageInv'
<1> SUFFICES ASSUME ~crossed', Destinations > 0 PROVE OutageInv'
  BY DEF OutageInv
<1>1. ~crossed /\ \A q \in Proc \ {p} : pc[q] \notin Announcing
  BY DEF Announce
<1>2. /\ pc'[p] = stage
      /\ \A q \in Proc \ {p} : pc'[q] \notin Announcing
  BY <1>1 DEF Goto, RowInv, TypeOK
<1>3. row # NoRow => row.status \/ incident
  BY <1>1 DEF OutageInv
<1> QED
  BY <1>2, <1>3 DEF OutageInv, Announcing

LEMMA PostKeeps ==
  ASSUME RowInv, OutageInv, NEW p \in Proc, Post(p)
  PROVE  OutageInv'
<1> SUFFICES ASSUME ~crossed, Destinations > 0 PROVE OutageInv'
  BY DEF Post, history, OutageInv
<1>1. /\ \A q \in Proc : pc[q] \in Announcing => q = p
      /\ pc[p] = "alert" /\ UNCHANGED <<pc, copy, row>>
  BY DEF OutageInv, Post, Announcing
<1>2. ~copy[p].status => incident'
  BY DEF Post, IncidentAfter
<1> QED
  BY <1>1, <1>2 DEF OutageInv, Announcing

LEMMA AlertsDoneKeeps ==
  ASSUME RowInv, OutageInv, NEW p \in Proc, AlertsDone(p)
  PROVE  OutageInv'
<1> SUFFICES ASSUME ~crossed, Destinations > 0 PROVE OutageInv'
  BY DEF AlertsDone, history, OutageInv
<1>1. /\ \A q \in Proc : pc[q] \in Announcing => q = p
      /\ pc[p] = "alert" /\ due[p] = 0 /\ UNCHANGED <<copy, row, incident>>
      /\ pc'[p] = "save" /\ \A q \in Proc \ {p} : pc'[q] = pc[q]
  BY DEF OutageInv, AlertsDone, Announcing, Goto, RowInv, TypeOK
<1>2. ~copy[p].status => incident
  BY <1>1 DEF OutageInv
<1> QED
  BY <1>1, <1>2 DEF OutageInv, Announcing

\* What is saved says online, or has its file.
LEMMA SaveKeeps ==
  ASSUME RowInv, OutageInv, NEW p \in Proc, Save(p),
         NEW stage \in Stages \ Announcing, Goto(p, stage),
         pc[p] \in {"save", "record"},
         UNCHANGED <<incident, copy, due, crossed>>
  PROVE  OutageInv'
<1> SUFFICES ASSUME ~crossed, Destinations > 0 PROVE OutageInv'
  BY DEF OutageInv
<1>1. /\ pc'[p] \notin Announcing
      /\ \A q \in Proc : pc'[q] \in Announcing => pc'[q] = pc[q] /\ q # p
  BY DEF Goto, RowInv, TypeOK
<1>2. copy[p].status \/ incident
  BY DEF OutageInv, RowInv, AlertInv
<1>3. row' # NoRow => row' = copy[p]
  BY DEF Save, SetRow
<1>4. row' # NoRow => row'.status \/ incident
  BY <1>2, <1>3
<1> QED
  BY <1>1, <1>4 DEF OutageInv, Announcing

LEMMA ProceedKeeps ==
  ASSUME RowInv, OutageInv, NEW p \in Proc, Proceed(p)
  PROVE  OutageInv'
<1>1. CASE ProbeRead(p) \/ ScanRead(p)
  <2>1. PICK stage \in {"idle", "request", "scanning"} : Goto(p, stage)
    BY <1>1 DEF ProbeRead, ScanRead
  <2>2. \A q \in Proc \ {p} : copy'[q] = copy[q]
    BY <1>1 DEF ProbeRead, ScanRead, ReadRow, RowInv, TypeOK
  <2>3. UNCHANGED <<row, incident, due, crossed>> /\ pc[p] \notin Announcing
    BY <1>1 DEF ProbeRead, ScanRead, Announcing
  <2>4. stage \in Stages \ Announcing
    BY DEF Stages, Announcing
  <2> QED
    BY <2>1, <2>2, <2>3, <2>4, AsideKeeps
<1>2. CASE ProbeRaises(p) \/ StillDead(p) \/ ScanFails(p)
  <2>1. Goto(p, "idle") /\ pc[p] \notin Announcing
    BY <1>2 DEF ProbeRaises, StillDead, ScanFails, Announcing
  <2>2. UNCHANGED <<row, incident, due, copy, crossed>>
    BY <1>2 DEF ProbeRaises, StillDead, ScanFails, history
  <2>3. "idle" \in Stages \ Announcing
    BY DEF Stages, Announcing
  <2> QED
    BY <2>1, <2>2, <2>3, AsideKeeps
<1>3. CASE StillAlive(p)
  <2>1. /\ pc[p] \notin Announcing /\ UNCHANGED <<row, incident, due>>
        /\ copy[p].status /\ copy[p] \in ServerRow /\ copy \in [Proc -> ServerRow]
    BY <1>3 DEF StillAlive, Announcing, RowInv, TypeOK
  <2>2. CASE ~copy[p].enabled /\ Revive(p)
    <3>1. Goto(p, "save") /\ Announce(p)
      BY <1>3, <2>2 DEF StillAlive
    <3>2. copy' = [copy EXCEPT ![p].enabled = TRUE]
      BY <1>3, <2>2 DEF StillAlive
    <3>3. copy'[p] = [copy[p] EXCEPT !.enabled = TRUE]
      BY <2>1, <3>2
    <3>4. copy'[p].status
      BY <2>1, <3>3, Assign
    <3>5. \A q \in Proc \ {p} : copy'[q] = copy[q]
      BY <2>1, <3>2
    <3>6. "save" \in Announcing
      BY DEF Announcing
    <3> QED
      BY <2>1, <3>1, <3>4, <3>5, <3>6, AnnounceKeeps
  <2>3. CASE ~(~copy[p].enabled /\ Revive(p))
    <3>1. PICK stage \in {"idle", "scan"} : Goto(p, stage)
      BY <1>3, <2>3 DEF StillAlive, AfterProbe
    <3>2. UNCHANGED <<copy, crossed>>
      BY <1>3, <2>3 DEF StillAlive
    <3>3. stage \in Stages \ Announcing
      BY DEF Stages, Announcing
    <3> QED
      BY <2>1, <3>1, <3>2, <3>3, AsideKeeps
  <2> QED
    BY <2>2, <2>3
<1>4. CASE JustFailed(p) \/ Revived(p)
  <2>1. pc[p] \notin Announcing /\ UNCHANGED <<row, incident>>
    BY <1>4 DEF JustFailed, Revived, Announcing
  <2>2. CASE job[p].dry
    <3>1. PICK stage \in {"idle", "scan"} : Goto(p, stage)
      BY <1>4, <2>2 DEF JustFailed, Revived, AfterProbe
    <3>2. UNCHANGED <<copy, due, crossed>>
      BY <1>4, <2>2 DEF JustFailed, Revived
    <3>3. stage \in Stages \ Announcing
      BY DEF Stages, Announcing
    <3> QED
      BY <2>1, <3>1, <3>2, <3>3, AsideKeeps
  <2>3. CASE ~job[p].dry
    <3>1. Goto(p, "alert") /\ Announce(p)
      BY <1>4, <2>3 DEF JustFailed, Revived
    <3>2. due'[p] = Destinations
      BY <1>4, <2>3 DEF JustFailed, Revived, RowInv, TypeOK
    <3>3. \A q \in Proc \ {p} : copy'[q] = copy[q]
      BY <1>4, <2>3 DEF JustFailed, Revived, RowInv, TypeOK
    <3>4. "alert" \in Announcing
      BY DEF Announcing
    <3> QED
      BY <2>1, <3>1, <3>2, <3>3, <3>4, AnnounceKeeps
  <2> QED
    BY <2>2, <2>3
<1>5. CASE Post(p)
  BY <1>5, PostKeeps
<1>6. CASE AlertsDone(p)
  BY <1>6, AlertsDoneKeeps
<1>7. CASE ProbeSave(p) \/ ScanSave(p)
  <2>1. PICK stage \in {"idle", "scan"} : Goto(p, stage)
    BY <1>7 DEF ProbeSave, ScanSave, AfterProbe
  <2>2. /\ Save(p) /\ pc[p] \in {"save", "record"}
        /\ UNCHANGED <<incident, copy, due, crossed>>
    BY <1>7 DEF ProbeSave, ScanSave
  <2>3. stage \in Stages \ Announcing
    BY DEF Stages, Announcing
  <2> QED
    BY <2>1, <2>2, <2>3, SaveKeeps
<1>8. CASE ScanReturns(p)
  <2>1. PICK stage \in {"idle", "record"} : Goto(p, stage)
    BY <1>8 DEF ScanReturns
  <2>2. /\ pc[p] \notin Announcing /\ UNCHANGED <<row, incident, due, crossed>>
        /\ \A q \in Proc \ {p} : copy'[q] = copy[q]
    BY <1>8 DEF ScanReturns, Announcing, history, RowInv, TypeOK
  <2>3. stage \in Stages \ Announcing
    BY DEF Stages, Announcing
  <2> QED
    BY <2>1, <2>2, <2>3, AsideKeeps
<1> QED
  BY <1>1, <1>2, <1>3, <1>4, <1>5, <1>6, <1>7, <1>8 DEF Proceed

LEMMA OutageStep == RowInv /\ OutageInv /\ [Next]_vars => OutageInv'
<1> SUFFICES ASSUME RowInv, OutageInv, [Next]_vars PROVE OutageInv'
  OBVIOUS
<1>1. ASSUME NEW p \in Proc, NEW j \in JobsOf[p], Start(p, j) PROVE OutageInv'
  <2>1. PICK stage \in {"probe", "scan"} : Goto(p, stage)
    BY <1>1 DEF Start
  <2>2. pc[p] \notin Announcing /\ UNCHANGED <<row, incident, due, copy, crossed>>
    BY <1>1 DEF Start, Announcing, history
  <2>3. stage \in Stages \ Announcing
    BY DEF Stages, Announcing
  <2> QED
    BY <2>1, <2>2, <2>3, AsideKeeps
<1>2. ASSUME NEW p \in Proc, Proceed(p) PROVE OutageInv'
  BY <1>2, ProceedKeeps
<1>3. ASSUME NEW p \in Proc, Kill(p) PROVE OutageInv'
  <2>1. CASE pc[p] \in Announcing
    BY <1>3, <2>1 DEF Kill, OutageInv
  <2>2. CASE pc[p] \notin Announcing
    <3>1. crossed' = crossed
      BY <1>3, <2>2 DEF Kill, RowInv, TypeOK
    <3>2. "idle" \in Stages \ Announcing
      BY DEF Stages, Announcing
    <3> QED
      BY <1>3, <2>2, <3>1, <3>2, AsideKeeps DEF Kill
  <2> QED
    BY <2>1, <2>2
<1>4. CASE Toggle
  <2>1. row \in ServerRow /\ (~row.enabled) \in BOOLEAN
    BY <1>4 DEF Toggle, RowInv, TypeOK
  <2>2. row'.status = row.status
    BY <1>4, <2>1, Assign DEF Toggle, SetRow
  <2> QED
    BY <1>4, <2>2 DEF Toggle, procs, OutageInv
<1>5. CASE DeleteRow
  BY <1>5 DEF DeleteRow, SetRow, procs, OutageInv
<1>6. CASE ChangeHealth \/ UNCHANGED vars
  BY <1>6 DEF ChangeHealth, vars, procs, history, OutageInv
<1> QED
  BY <1>1, <1>2, <1>3, <1>4, <1>5, <1>6 DEF Next

\* A mirror recorded as offline has its incident file, whatever stale rows are
\* saved, as long as alerts neither cross nor are cut short.
THEOREM OutagesHaveStarts == Spec => []DownHasStart
<1>1. Init => OutageInv
  BY DEF Init, OutageInv, Announcing
<1>2. OutageInv => DownHasStart
  BY DEF OutageInv, DownHasStart
<1> QED
  BY <1>1, <1>2, OutageStep, RowInvariant, PTL DEF Spec
=============================================================================
