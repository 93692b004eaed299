---------------------------- MODULE MCMirrorRow ----------------------------
(***************************************************************************)
(* Finite instances of MirrorRow for TLC.                                  *)
(***************************************************************************)
EXTENDS MirrorRow, TLC

CONSTANTS a, b

Chain(v4) == [NoJob EXCEPT !.kind = "chain", !.v4 = v4]
Probe(dry, revive, v4) == [NoJob EXCEPT !.dry = dry, !.revive = revive, !.v4 = v4]
Scan(dry, enable, only) ==
  [NoJob EXCEPT !.kind = "scan", !.dry = dry, !.enable = enable, !.only = only]

\* Two cron entries for one mirror.  Next to them, one is probed by hand, with
\* and without --dry-run, and one scanned by hand.
MCJobs ==
  (a :> {Chain(TRUE), Probe(FALSE, TRUE, FALSE), Probe(TRUE, TRUE, TRUE)})
  @@ (b :> {Chain(FALSE), Scan(FALSE, TRUE, FALSE)})
=============================================================================
