---------------------------- MODULE MirrorSelect ----------------------------
(***************************************************************************)
(* Which mirrors may serve a client, and in which order: the part of        *)
(* mb_handler (server/mod_mirrorbrain/mod_mirrorbrain.c) between the query  *)
(* for the mirrors of a file and the answer.  It keeps no state; module     *)
(* Redirect calls it.                                                       *)
(*                                                                         *)
(* Places are compared for equality only, so they are members of abstract   *)
(* sets.  A client's address lies in some network prefixes; its autonomous  *)
(* system, country and region come from a lookup or from the request.       *)
(***************************************************************************)
EXTENDS Integers, FiniteSets

CONSTANTS Mirror,            \* rows of table server
          Fallback,          \* mirrors named by MirrorBrainFallback
          FallbackCountry,   \* their countries and regions
          FallbackRegion,
          Prefix, AS, Country, Region,
          AnyCountry,        \* country "**" of a mirror
          DistancePrio       \* DISTANCE_PRIO

ASSUME PlaceAssumption ==
  /\ Mirror \cap Fallback = {}
  /\ AnyCountry \in Country
  /\ FallbackCountry \in [Fallback -> Country]
  /\ FallbackRegion \in [Fallback -> Region]
  /\ DistancePrio \in Nat

\* The columns prefix_only, as_only, country_only and region_only.
Flag == {"prefix", "as", "country", "region"}

Client == [nets : SUBSET Prefix, as : AS, country : Country \ {AnyCountry},
           region : Region, located : BOOLEAN]

\* A row of server as the query returns it, with its distance to the client.
\* A row without base URL is unusable.
Entry == [prefix : Prefix, as : AS, country : Country, region : Region,
          others : SUBSET Country, only : SUBSET Flag,
          maxsize : Nat, score : Nat, dist : Nat, usable : BOOLEAN]

-----------------------------------------------------------------------------
(* The classes, the nearest first.  A mirror that lists the client's        *)
(* country in other_countries waits in a class of its own.                  *)

SamePrefix == 1
SameAS == 2
SameCountry == 3
SameRegion == 4
Elsewhere == 5
OtherCountry == 6
Nowhere == 7

Class == 1..5

TooLarge(e, size) == e.maxsize > 0 /\ size > e.maxsize

Keeps(e, flags) == e.only \cap flags # {}

\* Mutant of ClassOf: a mirror for its autonomous system only is taken for
\* its whole country.
ClassIgnoringAS(e, c, size) ==
  IF TooLarge(e, size) THEN Elsewhere
  ELSE IF e.prefix \in c.nets THEN SamePrefix
  ELSE IF e.as = c.as /\ ~Keeps(e, {"prefix"}) THEN SameAS
  ELSE IF e.country = c.country /\ ~Keeps(e, {"prefix"}) THEN SameCountry
  ELSE IF e.country = AnyCountry THEN SameCountry
  ELSE IF c.country \in e.others THEN OtherCountry
  ELSE IF e.region = c.region /\ ~Keeps(e, {"prefix", "as", "country"})
       THEN SameRegion
  ELSE IF ~Keeps(e, Flag) THEN Elsewhere
  ELSE Nowhere

\* The chain of the first pass.
ClassOf(e, c, size) ==
  IF TooLarge(e, size) THEN Elsewhere
  ELSE IF e.prefix \in c.nets THEN SamePrefix
  ELSE IF e.as = c.as /\ ~Keeps(e, {"prefix"}) THEN SameAS
  ELSE IF e.country = c.country /\ ~Keeps(e, {"prefix", "as"})
       THEN SameCountry
  ELSE IF e.country = AnyCountry THEN SameCountry
  ELSE IF c.country \in e.others THEN OtherCountry
  ELSE IF e.region = c.region /\ ~Keeps(e, {"prefix", "as", "country"})
       THEN SameRegion
  ELSE IF ~Keeps(e, Flag) THEN Elsewhere
  ELSE Nowhere

\* `rows` is what the query returned: a function from mirrors to entries.
Usable(rows) == {m \in DOMAIN rows : rows[m].usable}

FirstPass(rows, c, size) ==
  [k \in Class \cup {OtherCountry} |->
     {m \in Usable(rows) : ClassOf(rows[m], c, size) = k}]

\* Mutant of SecondPass: the mirrors that handle the country are forgotten.
OthersForgotten(classes) == [k \in Class |-> classes[k]]

\* Mirrors that handle the country from elsewhere count if it has none.
SecondPass(classes) ==
  [k \in Class |-> IF k = SameCountry /\ classes[SameCountry] = {}
                   THEN classes[OtherCountry]
                   ELSE classes[k]]

FallbackClass(f, c) ==
  IF FallbackCountry[f] = c.country THEN SameCountry
  ELSE IF FallbackRegion[f] = c.region THEN SameRegion
  ELSE Elsewhere

\* Mutant of NeedsFallback: rows without base URL are counted.
NeedsFallbackIfNoRow(rows) == DOMAIN rows = {}

NeedsFallback(rows) == Usable(rows) = {}

\* All passes.  The fallbacks come in if no row at all was usable.
Classify(rows, c, size, fallbacks) ==
  IF NeedsFallback(rows)
  THEN [k \in Class |-> {f \in fallbacks : FallbackClass(f, c) = k}]
  ELSE SecondPass(FirstPass(rows, c, size))

-----------------------------------------------------------------------------
(* The choice.                                                             *)

Listed(classes) == UNION {classes[k] : k \in Class}

\* Mutant of NearestClass: the search starts from the other end.
FarthestClass(classes) ==
  UNION {classes[k] : k \in {j \in Class : \A i \in Class :
                                             i > j => classes[i] = {}}}

\* The first class that is not empty.
NearestClass(classes) ==
  UNION {classes[k] : k \in {j \in Class : \A i \in Class :
                                             i < j => classes[i] = {}}}

\* find_closest_dist: the distance and a handicap that shrinks with the score.
\* Fallbacks have distance 0 and score 1.
Cost(m, rows, n) ==
  IF m \in Fallback THEN DistancePrio \div n
  ELSE rows[m].dist + (DistancePrio \div n) \div rows[m].score

\* What find_best may return: a rank is random, whatever the score.
Best(S, rows, c) ==
  IF c.located /\ Cardinality(S) > 1
  THEN {m \in S : \A o \in S : Cost(m, rows, Cardinality(S))
                                 <= Cost(o, rows, Cardinality(S))}
  ELSE S

\* get_n_best_mirrors: the possible results, class by class.
FirstOf(n, classes) ==
  {S \in SUBSET Listed(classes) :
     /\ IF Cardinality(Listed(classes)) > n THEN Cardinality(S) = n
                                            ELSE S = Listed(classes)
     /\ \A k, j \in Class :
          k < j /\ S \cap classes[j] # {} => classes[k] \subseteq S}

\* Flags that keep a mirror of a class out of a metalink or a magnet link.
Barred ==
  [k \in Class |->
     CASE k = SamePrefix -> {}
       [] k = SameAS -> {"prefix"}
       [] k = SameCountry -> {"prefix", "as"}
       [] k = SameRegion -> {"prefix", "as", "country"}
       [] k = Elsewhere -> Flag]

Willing(rows, classes) ==
  UNION {{m \in classes[k] : m \in Mirror => ~Keeps(rows[m], Barred[k])}
         : k \in Class}

-----------------------------------------------------------------------------
(* The same said without the chain, for the properties: how near a mirror   *)
(* is, and how far its flags let it serve.                                  *)

Level(e, c) ==
  IF e.prefix \in c.nets THEN SamePrefix
  ELSE IF e.as = c.as THEN SameAS
  ELSE IF e.country \in {c.country, AnyCountry} \/ c.country \in e.others
       THEN SameCountry
  ELSE IF e.region = c.region THEN SameRegion
  ELSE Elsewhere

Reach == [prefix |-> SamePrefix, as |-> SameAS, country |-> SameCountry,
          region |-> SameRegion]

Admits(e, c) == \A f \in e.only : Level(e, c) <= Reach[f]

=============================================================================
