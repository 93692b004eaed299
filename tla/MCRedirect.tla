----------------------------- MODULE MCRedirect -----------------------------
(* Constants for TLC: two mirrors of every kind that matters, one client at  *)
(* home in one place, and requests that differ in one thing at a time.       *)
EXTENDS Redirect, TLC

CONSTANTS m1, m2, f1, f2, here, there, everywhere

MCFallbackCountry == (f1 :> here @@ f2 :> there)
MCFallbackRegion == (f1 :> there @@ f2 :> here)

MCSize == [v \in 0..MaxVersion |-> IF v = 0 THEN 0 ELSE 2]

MCParts == {{}, {"pieces", "zsync"}}

Home(located) == [nets |-> {here}, as |-> here, country |-> here,
                  region |-> here, located |-> located]

Far == [prefix |-> there, as |-> there, country |-> there, region |-> there,
        others |-> {}, only |-> {}, maxsize |-> 0, score |-> 1, dist |-> 1,
        usable |-> TRUE]

\* In the client's region, country, autonomous system and network, and the
\* special ones.
Near(places) == [p \in DOMAIN Far |-> IF p \in places THEN here ELSE Far[p]]
Region1 == Near({"region"})
Country1 == Near({"region", "country"})
AS1 == Near({"region", "country", "as"})
Prefix1 == Near({"prefix"})

For(e, flag) == [e EXCEPT !.only = {flag}]

\* Mirrors with and without flags that keep this client out.
Entries ==
  {Far, For(Far, "region"), Region1, For(Region1, "region"),
   For(Region1, "country"), For(Country1, "country"), For(Country1, "as"),
   For(AS1, "as"), For(AS1, "prefix"), For(Prefix1, "prefix"),
   For([Far EXCEPT !.country = everywhere], "country"),
   [Far EXCEPT !.others = {here}], [Far EXCEPT !.maxsize = 1],
   [For(Prefix1, "prefix") EXCEPT !.maxsize = 1],
   [Far EXCEPT !.dist = 3], [Far EXCEPT !.usable = FALSE],
   [Far EXCEPT !.score = 0]}

Up(e) == [entry |-> e, enabled |-> TRUE, status |-> TRUE]

MCServers ==
  {Up(e) : e \in Entries} \cup {[Up(Far) EXCEPT !.enabled = FALSE],
                                [Up(Far) EXCEPT !.status = FALSE]}

Get == [ours |-> TRUE, yum |-> "no", asked |-> "unknown", accept |-> "no",
        fake |-> FALSE, names |-> "file", ext |-> "unknown",
        excluded |-> FALSE, minsize |-> 1, trackers |-> TRUE,
        fallbacks |-> {}, client |-> Home(FALSE)]

Twins == Permutations(Mirror)

MCRequests ==
  {Get, [Get EXCEPT !.ours = FALSE], [Get EXCEPT !.client = Home(TRUE)],
   [Get EXCEPT !.fallbacks = {f1, f2}],
   [Get EXCEPT !.excluded = TRUE], [Get EXCEPT !.minsize = 3],
   [Get EXCEPT !.accept = "meta4"],
   [Get EXCEPT !.accept = "metalink", !.excluded = TRUE],
   [Get EXCEPT !.fake = TRUE, !.names = "dir"],
   [Get EXCEPT !.fake = TRUE, !.minsize = 3], [Get EXCEPT !.names = "dir"],
   [Get EXCEPT !.asked = "torrent", !.trackers = FALSE],
   [Get EXCEPT !.yum = "match"], [Get EXCEPT !.yum = "nomatch"],
   [Get EXCEPT !.yum = "faulty"]}
  \cup {[Get EXCEPT !.asked = r] :
          r \in {"md5", "btih", "metalink", "mirrorlist", "zsync"}}
  \cup {[Get EXCEPT !.names = "extended", !.ext = r] :
          r \in {"torrent", "magnet", "yumlist", "unknown"}}
=============================================================================
