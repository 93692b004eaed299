----------------------------- MODULE MCHashTree -----------------------------
(* An instance of HashTree: a folder that may become a file, and a file in  *)
(* it.                                                                     *)
EXTENDS HashTree, TLC

CONSTANTS zim, file

\* "zim/file" is below "zim".
MCAbove == (zim :> {}) @@ (file :> {zim})

\* "zim/file" has two versions of one size, "zim" an empty one when it is a file.
MCMtimes == (zim :> {3}) @@ (file :> {1, 2})
MCSize == <<5, 5, 0>>
=============================================================================
