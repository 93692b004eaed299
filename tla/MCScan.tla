------------------------------- MODULE MCScan -------------------------------
(***************************************************************************)
(* Finite instances of Scan for TLC.                                       *)
(***************************************************************************)
EXTENDS Scan, TLC

CONSTANTS m1, m2, p1, p2, h1

OneScannerPerMirror == (p1 :> m1) @@ (p2 :> m2)
SameMirror == (p1 :> m1) @@ (p2 :> m1)
=============================================================================
