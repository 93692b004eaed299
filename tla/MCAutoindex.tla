----------------------------- MODULE MCAutoindex -----------------------------
(***************************************************************************)
(* An instance of Autoindex for TLC: a folder with a file, a link and a     *)
(* subfolder, whose names the four comparisons order in different ways, and *)
(* configurations of one to three scopes in which options are set, added    *)
(* and removed against each other.                                         *)
(***************************************************************************)
EXTENDS Autoindex, TLC

MCName == {"d", "f10", "F2"}

File(size, time) == [kind |-> "file", size |-> size, time |-> time, status |-> "ok"]
Broken == [kind |-> "broken", size |-> 0, time |-> 0, status |-> "missing"]
Dir == [kind |-> "dir", size |-> 9, time |-> 1, status |-> "ok"]
Closed == [Dir EXCEPT !.status = "forbidden"]

MCItems == ("d" :> {Dir, Closed}) @@ ("f10" :> {File(2, 3)})
           @@ ("F2" :> {File(1, 1), File(2, 2), Broken})

MCFolders ==
  {("d" :> Dir) @@ ("f10" :> File(2, 3)) @@ ("F2" :> File(2, 2)),
   ("d" :> Closed) @@ ("f10" :> NoItem) @@ ("F2" :> Broken)}

\* The second is "*0&F=2": a link gives back its first piece, and a format.
MCPattern == {"*[fF]*", "*0&F=2", "*0"}
MCMatches == ("*[fF]*" :> {"f10", "F2"}) @@ ("*0&F=2" :> {}) @@ ("*0" :> {"f10"})

Arg(k, v) == [key |-> k, value |-> v]

MCPieces == [p \in MCPattern |-> IF p = "*0&F=2" THEN <<Arg("P", "*0"), Arg("F", "2")>>
                                 ELSE <<Arg("P", p)>>]

MCQueries ==
  {<<Arg("C", "S"), Arg("P", ""), Arg("O", "D"), Arg("F", "0")>>,
   <<Arg("P", "*[fF]*"), Arg("V", "0")>>,
   <<Arg("F", "1"), Arg("P", "*0&F=2"), Arg("C", "M")>>,
   <<Arg("V", "1"), Arg("P", "*[fF]*"), Arg("P", "bad"), Arg("junk", ""), Arg("C", "D")>>}

Plus(o) == [sign |-> "+", option |-> o]
Minus(o) == [sign |-> "-", option |-> o]
Set(o) == [sign |-> "plain", option |-> o]
Says(words) == [words |-> words, order |-> None, ignore |-> {}]

MCConfigs ==
  {\* added at the top, removed below, added again: it stays off; and one that
   \* is set and removed by the outermost scope
   <<Says(<<Set("fancy"), Set("suppress_preamble"), Plus("version_sort"),
            Minus("ignore_case"), Minus("suppress_preamble")>>),
     Says(<<Minus("version_sort"), Plus("ignore_case"), Plus("folders_first")>>),
     [words |-> <<Plus("version_sort"), Plus("show_forbidden")>>,
      order |-> [keyid |-> "S", direction |-> "D"], ignore |-> {}]>>,
   \* None in the middle; a word that takes another back
   <<Says(<<Set("fancy"), Set("suppress_colsort")>>), Says(<<Set("none")>>),
     Says(<<Plus("table"), Plus("ignore_case"), Plus("version_sort"),
            Minus("folders_first"), Plus("folders_first"), Plus("suppress_preamble")>>)>>,
   \* plain options below others, with signs that say nothing
   <<Says(<<Plus("folders_first")>>),
     [words |-> <<Plus("fancy"), Set("table"), Plus("version_sort"), Set("ignore_case"),
                  Minus("ignore_case")>>,
      order |-> None, ignore |-> {"d", Parent}]>>,
   \* one scope only, and a client that is ignored
   <<Says(<<Set("fancy"), Plus("folders_first"), Set("ignore_client")>>)>>,
   \* two that are refused
   <<Says(<<>>), Says(<<Set("none"), Set("fancy")>>)>>,
   <<Says(<<Plus("none")>>)>>}

\* strnatcasecmp, strnatcmp, strcasecmp and strcmp on these names.
Place4 == ("natcase" :> <<1, 3, 2>>) @@ ("nat" :> <<2, 3, 1>>)
          @@ ("case" :> <<1, 2, 3>>) @@ ("plain" :> <<2, 3, 1>>)
Nth(n) == CASE n = "d" -> 1 [] n = "f10" -> 2 [] n = "F2" -> 3
MCRank == [c \in Comparison |->
             [n \in MCName |->
                [slash \in BOOLEAN |-> 2 * Place4[c][Nth(n)] + (IF slash THEN 1 ELSE 0)]]]

MCDesc == ("d" :> 0) @@ ("f10" :> 2) @@ ("F2" :> 1)

=============================================================================
