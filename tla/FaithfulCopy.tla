---------------------------- MODULE FaithfulCopy ----------------------------
(***************************************************************************)
(* What a run of sparse-sync promises.  It takes the server's tree as it is *)
(* when the run begins, and from then on a path of the copy only goes from  *)
(* being behind that tree to being up to date with it.  A run may give up   *)
(* anywhere, but one that reports success has nothing left behind.          *)
(***************************************************************************)
CONSTANT Path

VARIABLES
  busy,     \* a run is going on
  behind,   \* the paths whose copy differs from the tree it works towards
  outcome   \* of the last run that ended

vars == <<busy, behind, outcome>>

Init ==
  /\ busy = FALSE
  /\ behind = {}
  /\ outcome = "none"

Begin ==
  /\ ~busy /\ busy' = TRUE
  /\ behind' \in SUBSET Path
  /\ outcome' = "none"

CatchUp ==
  /\ busy /\ busy' = TRUE
  /\ behind' \subseteq behind
  /\ UNCHANGED outcome

Succeed ==
  /\ busy /\ busy' = FALSE
  /\ behind = {} /\ behind' = {}
  /\ outcome' = "copied"

GiveUp ==
  /\ busy /\ busy' = FALSE
  /\ behind' = {}
  /\ outcome' = "failed"

\* A run of which nothing is promised, or that never got to begin.
Other ==
  /\ ~busy /\ busy' = FALSE
  /\ UNCHANGED behind
  /\ outcome' \in {"none", "failed"}

Next == Begin \/ CatchUp \/ Succeed \/ GiveUp \/ Other

Spec == Init /\ [][Next]_vars
=============================================================================
