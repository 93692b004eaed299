----------------------------- MODULE MirrorRow -----------------------------
(***************************************************************************)
(* One mirror: its row of table "server", its incident file, and the        *)
(* processes that read the row, work for seconds (a probe) or hours (a      *)
(* scan) and save the whole row back: tools/probe.py, the frame of          *)
(* tools/scan.py (mirrorscan) and entrypoints/probe_then_scan.py, next to   *)
(* an administrator who edits the row.                                      *)
(*                                                                         *)
(* peewee's save() is UPDATE server SET every column WHERE id = ..., so a   *)
(* save also writes the columns the process never meant to change, as they  *)
(* were when it read them.  Of the columns only those remain that decide    *)
(* something: enabled and status_baseurl.  What a scan does to filearr is   *)
(* module Scan's.                                                           *)
(***************************************************************************)
EXTENDS Naturals

CONSTANTS Proc,          \* processes of the tools
          JobsOf,        \* the command lines each of them is started with
          Killable,      \* the processes that may be interrupted at any time
          Destinations,  \* number of valid slack destinations of --alert
          NoRow          \* the row was deleted

ServerRow == [enabled : BOOLEAN, status : BOOLEAN]

Job == [kind : {"probe", "scan", "chain"},
        dry : BOOLEAN,       \* --dry-run
        revive : BOOLEAN,    \* probe --enable-revived
        v4 : BOOLEAN,        \* probe without --ipv6
        enable : BOOLEAN,    \* scan --enable
        only : BOOLEAN]      \* scan --only-scan

NoJob == [kind |-> "probe", dry |-> FALSE, revive |-> FALSE, v4 |-> FALSE,
          enable |-> FALSE, only |-> FALSE]

\* The mirror itself.  Over IPv6 it may answer with an error status, or not
\* be reachable, which requests reports with a subclass of OSError; "torn" is
\* an error status over IPv4 next to that.
Health == {"up", "down", "v6_error", "v6_unreachable", "torn"}

ASSUME RowAssumption == NoRow \notin ServerRow

ASSUME ProcAssumption ==
  /\ JobsOf \in [Proc -> SUBSET Job]
  /\ Killable \subseteq Proc
  /\ Destinations \in Nat

VARIABLES
  row,        \* the row in the database
  incident,   \* the mirror's file in the incidents folder exists
  health,     \* what the mirror would answer
  pc, job,    \* where each process is, and how it was started
  copy,       \* the row as each process holds it in memory
  due,        \* destinations the process has still to alert
  announced,  \* history: FAILED alerts posted since the process read the row
  overtaken,  \* history: `enabled` changed since the process read the row
  crossed     \* history: alerts of two probes overlapped, or were cut short

procs == <<pc, job, copy, due, announced>>
history == <<overtaken, crossed>>
vars == <<row, incident, health, procs, history>>

Stages == {"idle", "probe", "request", "alert", "save",
           "scan", "scanning", "record"}

\* Mutant of Revive: the flag survives --dry-run.
ReviveEvenDry(p) == job[p].revive

\* A dry run neither revives nor enables, whatever else was asked.
Revive(p) == job[p].revive /\ ~job[p].dry

Enable(p) == job[p].enable /\ ~job[p].dry

Goto(p, stage) == pc' = [pc EXCEPT ![p] = stage]

\* A change of the row, with the history of whose copy it makes stale.
SetRow(new) ==
  /\ row' = new
  /\ overtaken' =
       IF new # NoRow /\ new.enabled # row.enabled
       THEN [q \in Proc |-> TRUE]
       ELSE overtaken

\* Server.select().where(identifier == ...).get()
ReadRow(p) ==
  /\ copy' = [copy EXCEPT ![p] = row]
  /\ announced' = [announced EXCEPT ![p] = 0]
  /\ overtaken' = [overtaken EXCEPT ![p] = FALSE]

\* A probe is about to alert and save.
Announcing == {"alert", "save"}
Announce(p) ==
  crossed' = (crossed \/ \E q \in Proc \ {p} : pc[q] \in Announcing)

\* Mutant of Save: the assignments are not followed by mirror.save().
SaveForgotten(p) == UNCHANGED <<row, overtaken>>

-----------------------------------------------------------------------------
(* Probing: mirrorprobe.                                                   *)

Start(p, j) ==
  /\ pc[p] = "idle" /\ j \in JobsOf[p]
  /\ job' = [job EXCEPT ![p] = j]
  /\ Goto(p, IF j.kind = "scan" THEN "scan" ELSE "probe")
  /\ UNCHANGED <<row, incident, health, copy, due, announced, history>>

\* A mirror that is not enabled is only probed to look, or to revive it.
ProbeRead(p) ==
  /\ pc[p] = "probe"
  /\ IF row # NoRow /\ (row.enabled \/ Revive(p) \/ job[p].dry)
     THEN ReadRow(p) /\ Goto(p, "request")
     ELSE Goto(p, "idle") /\ UNCHANGED <<copy, announced, overtaken>>
  /\ UNCHANGED <<row, incident, health, job, due, crossed>>

Raises(p) == health \in {"v6_unreachable", "torn"} /\ ~job[p].v4
Succeeds(p) ==
  \/ health = "up"
  \/ health \in {"v6_error", "v6_unreachable"} /\ job[p].v4
FailsNow(p) == ~Succeeds(p) /\ ~Raises(p)

\* What follows a probe that answers 0: the scan, in probe-then-scan.
AfterProbe(p) == IF job[p].kind = "chain" THEN "scan" ELSE "idle"

\* probe_mirror lets an OSError of the IPv6 request through: status 1.
ProbeRaises(p) ==
  /\ pc[p] = "request" /\ Raises(p)
  /\ Goto(p, "idle")
  /\ UNCHANGED <<row, incident, health, job, copy, due, announced, history>>

StillDead(p) ==
  /\ pc[p] = "request" /\ ~copy[p].status /\ FailsNow(p)
  /\ Goto(p, "idle")
  /\ UNCHANGED <<row, incident, health, job, copy, due, announced, history>>

StillAlive(p) ==
  /\ pc[p] = "request" /\ copy[p].status /\ Succeeds(p)
  /\ IF ~copy[p].enabled /\ Revive(p)
     THEN /\ copy' = [copy EXCEPT ![p].enabled = TRUE]
          /\ Goto(p, "save") /\ Announce(p)
     ELSE Goto(p, AfterProbe(p)) /\ UNCHANGED <<copy, crossed>>
  /\ UNCHANGED <<row, incident, health, job, due, announced, overtaken>>

JustFailed(p) ==
  /\ pc[p] = "request" /\ copy[p].status /\ FailsNow(p)
  /\ IF job[p].dry
     THEN Goto(p, "idle") /\ UNCHANGED <<copy, due, crossed>>
     ELSE /\ copy' = [copy EXCEPT ![p].status = FALSE]
          /\ due' = [due EXCEPT ![p] = Destinations]
          /\ Goto(p, "alert") /\ Announce(p)
  /\ UNCHANGED <<row, incident, health, job, announced, overtaken>>

Revived(p) ==
  /\ pc[p] = "request" /\ ~copy[p].status /\ Succeeds(p)
  /\ IF job[p].dry
     THEN Goto(p, AfterProbe(p)) /\ UNCHANGED <<copy, due, crossed>>
     ELSE /\ copy' = [copy EXCEPT ![p].status = TRUE,
                                  ![p].enabled = @ \/ Revive(p)]
          /\ due' = [due EXCEPT ![p] = Destinations]
          /\ Goto(p, "alert") /\ Announce(p)
  /\ UNCHANGED <<row, incident, health, job, announced, overtaken>>

\* Mutant of IncidentAfter: the start of the outage is noted once slack
\* accepted the message.
IncidentIfDelivered(p, delivered) ==
  IF delivered THEN ~copy[p].status ELSE incident

\* The file is created before the message goes out, and removed only after a
\* message that went out.
IncidentAfter(p, delivered) ==
  \/ ~copy[p].status
  \/ incident /\ ~delivered

\* Mutant of MorePosts: one destination too many.
MorePostsThanDue(p) == TRUE

MorePosts(p) == due[p] > 0

\* One destination of send_probe_status_change_alert; a message that cannot
\* be delivered is logged and forgotten.
Post(p) ==
  /\ pc[p] = "alert" /\ MorePosts(p)
  /\ \E delivered \in BOOLEAN : incident' = IncidentAfter(p, delivered)
  /\ due' = [due EXCEPT ![p] = @ - 1]
  /\ announced' = [announced EXCEPT ![p] = IF copy[p].status THEN @ ELSE @ + 1]
  /\ UNCHANGED <<row, health, pc, job, copy, history>>

AlertsDone(p) ==
  /\ pc[p] = "alert" /\ due[p] = 0
  /\ Goto(p, "save")
  /\ UNCHANGED <<row, incident, health, job, copy, due, announced, history>>

\* Every column is written; a row that is gone is not brought back.
Save(p) == SetRow(IF row = NoRow THEN NoRow ELSE copy[p])

\* A probe that failed answers 3, which ends probe-then-scan.
ProbeSave(p) ==
  /\ pc[p] = "save"
  /\ Save(p)
  /\ Goto(p, IF copy[p].status THEN AfterProbe(p) ELSE "idle")
  /\ UNCHANGED <<incident, health, job, copy, due, announced, crossed>>

-----------------------------------------------------------------------------
(* Scanning: mirrorscan.                                                   *)

\* Mutant of Scannable: an offline mirror is scanned.
ScannableOffline(p) == row.enabled \/ Enable(p) \/ job[p].only

\* Neither a disabled nor an offline mirror is scanned, except to list it.
Scannable(p) ==
  \/ job[p].only
  \/ row.status /\ (row.enabled \/ Enable(p))

ScanRead(p) ==
  /\ pc[p] = "scan"
  /\ IF row # NoRow /\ Scannable(p)
     THEN ReadRow(p) /\ Goto(p, "scanning")
     ELSE Goto(p, "idle") /\ UNCHANGED <<copy, announced, overtaken>>
  /\ UNCHANGED <<row, incident, health, job, due, crossed>>

\* run_mirror_scan raised.
ScanFails(p) ==
  /\ pc[p] = "scanning"
  /\ Goto(p, "idle")
  /\ UNCHANGED <<row, incident, health, job, copy, due, announced, history>>

\* It returned: found tells whether the listing had a file.
ScanReturns(p) ==
  /\ pc[p] = "scanning"
  /\ IF job[p].dry \/ job[p].only
     THEN Goto(p, "idle") /\ UNCHANGED copy
     ELSE /\ \E found \in BOOLEAN :
               copy' = [copy EXCEPT ![p].enabled = @ \/ (found /\ Enable(p))]
          /\ Goto(p, "record")
  /\ UNCHANGED <<row, incident, health, job, due, announced, history>>

ScanSave(p) ==
  /\ pc[p] = "record"
  /\ Save(p)
  /\ Goto(p, "idle")
  /\ UNCHANGED <<incident, health, job, copy, due, announced, crossed>>

-----------------------------------------------------------------------------
(* Around them.                                                            *)

\* A signal, a lost database connection.
Kill(p) ==
  /\ p \in Killable /\ pc[p] # "idle"
  /\ Goto(p, "idle")
  /\ crossed' = (crossed \/ pc[p] \in Announcing)
  /\ UNCHANGED <<row, incident, health, job, copy, due, announced, overtaken>>

\* The administrator enables or disables the mirror ...
Toggle ==
  /\ row # NoRow
  /\ SetRow([row EXCEPT !.enabled = ~@])
  /\ UNCHANGED <<incident, health, procs, crossed>>

\* ... or deletes it.
DeleteRow ==
  /\ row # NoRow
  /\ SetRow(NoRow)
  /\ UNCHANGED <<incident, health, procs, crossed>>

ChangeHealth ==
  /\ \E h \in Health \ {health} : health' = h
  /\ UNCHANGED <<row, incident, procs, history>>

\* What a process does once it is started, for better or worse.
Proceed(p) ==
  \/ ProbeRead(p) \/ ProbeRaises(p) \/ StillDead(p) \/ StillAlive(p)
  \/ JustFailed(p) \/ Revived(p) \/ Post(p) \/ AlertsDone(p) \/ ProbeSave(p)
  \/ ScanRead(p) \/ ScanFails(p) \/ ScanReturns(p) \/ ScanSave(p)

Next ==
  \/ \E p \in Proc : (\E j \in JobsOf[p] : Start(p, j)) \/ Proceed(p) \/ Kill(p)
  \/ Toggle \/ DeleteRow \/ ChangeHealth

\* A mirror as it is added: nothing known about it is wrong yet.
Init ==
  /\ row \in {r \in ServerRow : r.status}
  /\ incident = FALSE
  /\ health \in Health
  /\ pc = [p \in Proc |-> "idle"]
  /\ job = [p \in Proc |-> NoJob]
  /\ copy = [p \in Proc |-> row]
  /\ due = [p \in Proc |-> 0]
  /\ announced = [p \in Proc |-> 0]
  /\ overtaken = [p \in Proc |-> FALSE]
  /\ crossed = FALSE

Spec == Init /\ [][Next]_vars

\* All requests have timeouts, and cron starts probe-then-scan again and again,
\* whatever is run by hand in between.
StartChain(p) == \E j \in JobsOf[p] : j.kind = "chain" /\ Start(p, j)

FairSpec ==
  /\ Spec
  /\ \A p \in Proc : WF_vars(Proceed(p)) /\ SF_vars(StartChain(p))

-----------------------------------------------------------------------------
(* What must hold.                                                         *)

\* Every variable has its type; no destination is owed more than it is due.
TypeOK ==
  /\ row \in ServerRow \cup {NoRow}
  /\ incident \in BOOLEAN
  /\ health \in Health
  /\ pc \in [Proc -> Stages]
  /\ job \in [Proc -> Job]
  /\ copy \in [Proc -> ServerRow]
  /\ due \in [Proc -> 0..Destinations]
  /\ announced \in [Proc -> 0..Destinations]
  /\ overtaken \in [Proc -> BOOLEAN] /\ crossed \in BOOLEAN

\* The redirector stops using a mirror (status_baseurl becomes false) only by
\* the save of a probe that has told every destination of it since it read
\* the row.  Everybody writes that column: a scan, and a probe that only meant
\* to enable the mirror, save the status they read long before.
NeverDownUntold ==
  [][row # NoRow /\ row' # NoRow /\ row.status /\ ~row'.status
       => \E p \in Proc : /\ pc[p] = "save" /\ pc'[p] # "save"
                          /\ announced[p] = Destinations]_vars

\* A process changes `enabled` only because it was started to enable, outside
\* a dry run, or because somebody changed it after the process read the row:
\* what an administrator decides is undone by overlapping runs at most.
EnabledFlipsAreMeant ==
  [][\A p \in Proc :
       /\ pc[p] \in {"save", "record"} /\ pc'[p] # pc[p]
       /\ row # NoRow /\ row' # row /\ row'.enabled # row.enabled
       => \/ overtaken[p]
          \/ row'.enabled /\ ~job[p].dry /\ (job[p].revive \/ job[p].enable)]_vars

\* A mirror recorded as offline has its incident file, delivered or not, from
\* which the alert that ends the outage takes its duration: as long as no two
\* probes alerted at the same time and none died between its alerts and its
\* save, whatever scans and other probes saved in between.
DownHasStart ==
  /\ row # NoRow /\ Destinations > 0 /\ ~crossed
  /\ \A p \in Proc : pc[p] \notin Announcing
  => row.status \/ incident

Listed == row # NoRow /\ row.enabled
Unprobed == \E p \in Proc : pc[p] # "idle" /\ job[p].kind = "scan"

\* Once every scan is preceded by its own probe (probe-then-scan), an enabled
\* mirror that stays down ends up recorded as offline for good, and one that
\* stays up as online, however many stale rows were under way.
StatusSettles ==
  <>[]~Unprobed =>
    /\ <>[](health = "down" /\ Listed) => <>[](row # NoRow /\ ~row.status)
    /\ <>[](health = "up" /\ Listed) => <>[](row # NoRow /\ row.status)

=============================================================================
