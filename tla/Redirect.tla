------------------------------ MODULE Redirect ------------------------------
(***************************************************************************)
(* mb_handler of server/mod_mirrorbrain/mod_mirrorbrain.c: one request      *)
(* after the other for one file, while the file is replaced or removed,     *)
(* the makehashes tool records hashes, and the database comes and goes.     *)
(*                                                                         *)
(* A request holds a connection but no transaction, and requests share      *)
(* nothing they write, so one at a time stands for all.  Each read of       *)
(* something shared is a step: the stat of the file, realpath, the          *)
(* connection, the hashes, the mirrors.  What the query for the mirrors     *)
(* returns is any table of mirrors with any marks.  The module is built     *)
(* without memcache, as server/Dockerfile builds it.                        *)
(*                                                                         *)
(* A version of the file stands for its content, size and mtime; two        *)
(* versions differ in size or mtime.  0 is no file.                         *)
(***************************************************************************)
EXTENDS MirrorSelect

CONSTANTS Requests,     \* the requests, with the configuration of their folder
          Servers,      \* rows of table server
          Size,         \* size of a version
          Parts,        \* what a row of hashes may have besides digests
          MaxVersion,   \* bound: versions of the file
          LinkMax,      \* rel=duplicate links of a redirect (5 in the code)
          YumMax        \* mirrors in a yum list (10 in the code)

Digests == {"md5", "sha1", "sha256", "btih"}
HashBased == Digests \cup {"torrent", "zsync", "magnet"}
Metalinks == {"meta4", "metalink"}
Representation ==
  HashBased \cup Metalinks \cup {"redirect", "mirrorlist", "yumlist"}

Request ==
  [ours : BOOLEAN,     \* engine on, a GET (a HEAD if not handled locally),
                       \* no PATH_INFO
   yum : {"no", "match", "nomatch", "faulty"},  \* query against MirrorBrainYumDir
   asked : (Representation \ {"redirect", "yumlist"}) \cup {"unknown"},
   accept : Metalinks \cup {"no"},
   fake : BOOLEAN,     \* ?fakefile
   names : {"file", "extended", "dir"},
   ext : (Representation \ {"redirect"}) \cup {"unknown"},
                       \* with "extended": the file's name and .ext
   excluded : BOOLEAN, \* by file mask, address, network, mime type or agent
   minsize : Nat,      \* MirrorBrainMinSize
   trackers : BOOLEAN, \* MirrorBrainTorrentTrackerURL is set
   fallbacks : SUBSET Fallback,
   client : Client]

\* A row of table server for the query: entry, and what the WHERE tests.
Server == [entry : Entry, enabled : BOOLEAN, status : BOOLEAN]

ASSUME RequestAssumption ==
  /\ Requests \subseteq Request
  /\ Servers \subseteq Server
  /\ MaxVersion \in Nat
  /\ Size \in [0..MaxVersion -> Nat]
  /\ Parts \subseteq SUBSET {"pieces", "zsync"}
  /\ LinkMax \in Nat \ {0} /\ YumMax \in Nat \ {0}

VARIABLES
  disk,     \* version of the file on disk
  newest,   \* number of versions so far
  hash,     \* the file's row in the view hexhash
  pc,       \* where the request is
  req,
  rep,      \* the representation to send
  finfo,    \* version that was stat()ed
  db,       \* a database connection is in use
  bag,      \* the hashes read
  rows,     \* the mirrors the query returned
  classes,
  answer

request == <<req, rep, finfo, db, bag, rows, classes>>
world == <<disk, newest, hash>>
vars == <<world, pc, request, answer>>

Version == 1..MaxVersion
NoBag == [data |-> 0, parts |-> {}]
Bag == [data : 0..MaxVersion, parts : SUBSET {"pieces", "zsync"}]
NoHash == [stamp |-> 0, bag |-> NoBag]
NoRows == [m \in {} |-> m]
NoClasses == [k \in Class |-> {}]

Answer == [kind : Representation \cup
                   {"none", "declined", "notfound", "error", "crash"},
           target : SUBSET (Mirror \cup Fallback),
           named : SUBSET (Mirror \cup Fallback),
           digest : 0..MaxVersion]

Plain(kind) == [kind |-> kind, target |-> {}, named |-> {}, digest |-> 0]

Reply(a) == answer' = a /\ pc' = "done"
Goto(stage) == pc' = stage /\ UNCHANGED answer

-----------------------------------------------------------------------------
(* Receiving a request: what is wanted, and what is declined, which leaves  *)
(* the answer to the rest of Apache.                                       *)

ByQuery(q) == IF q.yum = "match" THEN "yumlist" ELSE q.asked

Negotiated(q) == ByQuery(q) = "unknown" /\ q.accept # "no"

Wanted(q) == IF Negotiated(q) THEN q.accept ELSE ByQuery(q)

\* No such file: the extension may name a representation of one.
ByExtension(q) ==
  /\ ~q.fake /\ Wanted(q) # "yumlist"
  /\ q.names # "file" \/ disk = 0

NoRepresentation(q) == q.names # "extended" \/ q.ext = "unknown"

RepOf(q) ==
  IF ByExtension(q) THEN q.ext
  ELSE IF Wanted(q) = "unknown" THEN "redirect" ELSE Wanted(q)

\* An extension .yumlist leaves the file information as it was.
Stat(q) ==
  IF q.names = "file" \/ (ByExtension(q) /\ q.ext # "yumlist")
  THEN disk ELSE 0

\* Only redirections, and what would be one without negotiation, can be
\* excluded.
StaysHere(q) ==
  /\ RepOf(q) = "redirect" \/ Negotiated(q)
  /\ q.excluded \/ (~q.fake /\ Size[Stat(q)] < q.minsize)

\* The early returns in their order.
EarlyAnswer(q) ==
  IF ~q.ours THEN "declined"
  ELSE IF q.yum = "faulty" THEN "error"
  ELSE IF q.yum = "nomatch" THEN "notfound"
  ELSE IF ByExtension(q) /\ NoRepresentation(q) THEN "declined"
  ELSE IF ByExtension(q) /\ q.ext # "yumlist" /\ disk = 0 THEN "notfound"
  ELSE IF StaysHere(q) THEN "declined"
  ELSE "none"

Receive(q) ==
  /\ pc = "idle"
  /\ req' = q
  /\ IF EarlyAnswer(q) # "none"
     THEN Reply(Plain(EarlyAnswer(q))) /\ UNCHANGED <<rep, finfo>>
     ELSE rep' = RepOf(q) /\ finfo' = Stat(q) /\ Goto("locate")
  /\ UNCHANGED <<world, db, bag, rows, classes>>

\* realpath() of the file, or of the marker file of a yum query.
Exists ==
  \/ rep # "yumlist" /\ req.names = "dir"
  \/ disk # 0 /\ (rep = "yumlist" \/ ~(req.fake /\ req.names = "extended"))

\* The base folder may be gone, and "file.yumlist" has no yum rule to follow.
Locate ==
  /\ pc = "locate"
  /\ \/ Reply(Plain("error"))
     \/ rep = "yumlist" /\ req.yum # "match" /\ Reply(Plain("crash"))
     \/ /\ ~(rep = "yumlist" /\ req.yum # "match")
        /\ IF Exists THEN Goto("connect") ELSE Reply(Plain("notfound"))
  /\ UNCHANGED <<world, request>>

\* ap_dbd_acquire().
Connect(up) ==
  /\ pc = "connect"
  /\ db' = up
  /\ IF ~up /\ req.fallbacks = {}
     THEN Reply(Plain("declined"))
     ELSE Goto(IF rep \in HashBased THEN "hashes" ELSE "mirrors")
  /\ UNCHANGED <<world, req, rep, finfo, bag, rows, classes>>

-----------------------------------------------------------------------------
(* The hashes.                                                             *)

\* Mutant of HashOf: whatever hashes there are for the path.
HashOfPath == hash.bag

\* The query for the hashes: path, size and mtime.
HashOf == IF hash.stamp = finfo THEN hash.bag ELSE NoBag

\* hashbag_fill: the query may fail.
Fill == {NoBag} \cup (IF db THEN {HashOf} ELSE {})

ReadHashes ==
  /\ pc = "hashes"
  /\ bag' \in Fill
  /\ IF bag' = NoBag THEN Reply(Plain("notfound"))
     ELSE IF rep = "btih" /\ "pieces" \notin bag'.parts
     THEN Reply(Plain("notfound"))
     ELSE IF rep \in Digests
     THEN Reply([Plain(rep) EXCEPT !.digest = bag'.data])
     ELSE Goto("mirrors")
  /\ UNCHANGED <<world, req, rep, finfo, db, rows, classes>>

\* Once the mirrors are known, the others have use for hashes, too.
ReadMoreHashes ==
  /\ pc = "more"
  /\ bag' \in IF rep = "yumlist" \/ bag # NoBag THEN {bag} ELSE Fill
  /\ Goto("send")
  /\ UNCHANGED <<world, req, rep, finfo, db, rows, classes>>

-----------------------------------------------------------------------------
(* The mirrors.                                                            *)

\* Mutant of Found: without the test of the score, which is a divisor later.
FoundWithoutScore(table, marked) ==
  [m \in {m \in marked : table[m].enabled /\ table[m].status}
     |-> table[m].entry]

\* The query: the mirrors marked for the path that can be used now.
Found(table, marked) ==
  [m \in {m \in marked : /\ table[m].enabled /\ table[m].status
                         /\ table[m].entry.score > 0}
     |-> table[m].entry]

\* With the mirrors known, a metalink that would be empty is not sent.
Judge(found) ==
  /\ rows' = found
  /\ classes' = Classify(found, req.client, Size[finfo], req.fallbacks)
  /\ IF Listed(classes') = {} /\ req.fallbacks = {} /\ rep \in Metalinks
     THEN Reply(Plain(IF Negotiated(req) THEN "declined" ELSE "notfound"))
     ELSE Goto("more")

\* The connection has no such prepared statement, or there is no connection.
NoStatement ==
  /\ pc = "mirrors"
  /\ db' = FALSE
  /\ IF req.fallbacks = {}
     THEN Reply(Plain("declined")) /\ UNCHANGED <<rows, classes>>
     ELSE Judge(NoRows)
  /\ UNCHANGED <<world, req, rep, finfo, bag>>

\* With fallbacks the handler goes on, and counts the rows of no result.
SelectFails ==
  /\ pc = "mirrors" /\ db
  /\ Reply(Plain(IF req.fallbacks = {} THEN "declined" ELSE "crash"))
  /\ UNCHANGED <<world, request>>

FindMirrors(table, marked) ==
  /\ pc = "mirrors" /\ db
  /\ req.names = "dir" /\ rep # "yumlist" => marked = {}
  /\ Judge(Found(table, marked))
  /\ UNCHANGED <<world, req, rep, finfo, db, bag>>

ReadRowFails ==
  /\ pc = "mirrors" /\ db
  /\ Reply(Plain("error"))
  /\ UNCHANGED <<world, request>>

-----------------------------------------------------------------------------
(* The answer.                                                             *)

Sends(kinds) ==
  /\ pc = "send" /\ rep \in kinds
  /\ UNCHANGED <<world, request>>

SendRedirect ==
  /\ Sends({"redirect"})
  /\ IF Listed(classes) = {}
     THEN Reply(Plain("notfound"))
     ELSE \E m \in Best(NearestClass(classes), rows, req.client),
             links \in FirstOf(LinkMax, classes) :
            Reply([kind |-> "redirect", target |-> {m}, named |-> links,
                   digest |-> bag.data])

SendMetalink ==
  /\ Sends(Metalinks \cup {"magnet"})
  /\ Reply([kind |-> rep, target |-> {}, named |-> Willing(rows, classes),
            digest |-> bag.data])

\* Fallbacks are not listed: the number of rows is tested as well.
SendMirrorlist ==
  /\ Sends({"mirrorlist"})
  /\ Reply([kind |-> rep, target |-> {},
            named |-> IF rows = NoRows THEN {} ELSE Listed(classes),
            digest |-> bag.data])

\* Clients of these try all mirrors alike: only the nearest are named.
SendNearest ==
  /\ Sends({"torrent", "zsync"})
  /\ IF rep = "torrent" /\ ("pieces" \notin bag.parts \/ ~req.trackers)
     THEN Reply(Plain("notfound"))
     ELSE IF rep = "zsync" /\ "zsync" \notin bag.parts
     THEN Reply(Plain("notfound"))
     ELSE Reply([kind |-> rep, target |-> {}, named |-> NearestClass(classes),
                 digest |-> bag.data])

SendYumlist ==
  /\ Sends({"yumlist"})
  /\ \E S \in FirstOf(YumMax, classes) :
       Reply([Plain(rep) EXCEPT !.named = S])

\* The next request.
Finish ==
  /\ pc = "done"
  /\ pc' = "idle" /\ answer' = Plain("none")
  /\ finfo' = 0 /\ db' = FALSE /\ bag' = NoBag
  /\ rows' = NoRows /\ classes' = NoClasses
  /\ UNCHANGED <<world, req, rep>>

-----------------------------------------------------------------------------
(* The world.                                                              *)

Publish ==
  /\ newest < MaxVersion
  /\ newest' = newest + 1 /\ disk' = newest'
  /\ UNCHANGED <<hash, pc, request, answer>>

Remove ==
  /\ disk # 0
  /\ disk' = 0
  /\ UNCHANGED <<newest, hash, pc, request, answer>>

\* makehashes: the size and mtime are those of stat(), the content what was
\* read afterwards, perhaps from a later version.
RecordHash(stamp, data, parts) ==
  /\ stamp <= data /\ data <= newest
  /\ hash' = [stamp |-> stamp, bag |-> [data |-> data, parts |-> parts]]
  /\ UNCHANGED <<disk, newest, pc, request, answer>>

Init ==
  /\ disk = 0 /\ newest = 0 /\ hash = NoHash
  /\ pc = "idle" /\ answer = Plain("none")
  /\ req \in Requests /\ rep = "redirect"
  /\ finfo = 0 /\ db = FALSE /\ bag = NoBag
  /\ rows = NoRows /\ classes = NoClasses

Handler ==
  \/ \E q \in Requests : Receive(q)
  \/ Locate
  \/ \E up \in BOOLEAN : Connect(up)
  \/ ReadHashes
  \/ NoStatement
  \/ SelectFails
  \/ \E table \in [Mirror -> Servers], marked \in SUBSET Mirror :
       FindMirrors(table, marked)
  \/ ReadRowFails
  \/ ReadMoreHashes
  \/ SendRedirect
  \/ SendMetalink
  \/ SendMirrorlist
  \/ SendNearest
  \/ SendYumlist
  \/ Finish

World ==
  \/ Publish
  \/ Remove
  \/ \E stamp, data \in Version, parts \in Parts :
       RecordHash(stamp, data, parts)

Next == Handler \/ World

Spec == Init /\ [][Next]_vars

-----------------------------------------------------------------------------
(* Properties.                                                             *)

TypeOK ==
  /\ disk \in 0..MaxVersion /\ newest \in 0..MaxVersion
  /\ hash \in [stamp : 0..MaxVersion, bag : Bag]
  /\ pc \in {"idle", "locate", "connect", "hashes", "mirrors", "more",
             "send", "done"}
  /\ req \in Requests /\ rep \in Representation
  /\ finfo \in 0..MaxVersion /\ db \in BOOLEAN /\ bag \in Bag
  /\ DOMAIN rows \subseteq Mirror
  /\ \A m \in DOMAIN rows : rows[m] \in Entry /\ rows[m].score > 0
  /\ classes \in [Class -> SUBSET (Mirror \cup Fallback)]
  /\ answer \in Answer

Fits(m) == ~TooLarge(rows[m], Size[finfo])

\* The mirrors that could and may serve this client this file.
Suitable == {m \in Usable(rows) : Fits(m) /\ Admits(rows[m], req.client)}

Chosen == (answer.target \cup
             (IF answer.kind \in {"torrent", "zsync"} THEN answer.named
                                                     ELSE {})) \cap Mirror

\* No suitable mirror is nearer to the client than one it is sent to, or than
\* one of those a torrent or zsync file names, whose clients do not prefer the
\* first: the chain of tests in mb_handler puts every mirror in the first
\* class it belongs to, whatever its flags.
NearestServes ==
  \A t \in Chosen, m \in Suitable :
    Level(rows[t], req.client) <= Level(rows[m], req.client)

HandlesAbroad(e, c) == e.country = AnyCountry \/ c.country \in e.others

\* No mirror is named to a client it is not for.  A mirror for every country,
\* or for this one besides its own, is for this client whatever its flags, and
\* so is one whose size limit makes it the reserve; but even those keep their
\* flags in a metalink and a magnet link, which name all mirrors.
OnlyWhereAdmitted ==
  \A m \in (answer.target \cup answer.named) \cap Mirror :
    /\ m \in Usable(rows)
    /\ \/ Admits(rows[m], req.client)
       \/ /\ answer.kind \notin Metalinks \cup {"magnet"}
          /\ HandlesAbroad(rows[m], req.client) \/ ~Fits(m)

InCountry(m) == rows[m].country \in {req.client.country, AnyCountry}

\* If there is a suitable mirror, a client is redirected to a mirror, and a
\* metalink or magnet link names all of them; but those that handle the
\* country besides their own are not needed when there is one of the country.
SuitableIsNamed ==
  /\ pc = "done" /\ rep = "redirect" /\ Suitable # {}
       => answer.kind = "redirect" /\ answer.target \subseteq Mirror
  /\ answer.kind \in Metalinks \cup {"magnet"}
       => \A m \in Suitable \ answer.named :
            /\ req.client.country \in rows[m].others
            /\ \E o \in Usable(rows) : InCountry(o)

\* When fallbacks are configured, a client is redirected to one of them if
\* and only if no mirror can be used, database or not, and to one of its
\* country if there is one.
FallbackServes ==
  [][pc = "send" /\ pc' = "done" /\ rep = "redirect" /\ req.fallbacks # {} =>
       IF Usable(rows) = {}
       THEN /\ answer'.kind = "redirect"
            /\ answer'.target \subseteq req.fallbacks
            /\ \A f \in req.fallbacks, t \in answer'.target :
                 FallbackCountry[f] = req.client.country
                   => FallbackCountry[t] = req.client.country
       ELSE answer'.target \cap Fallback = {}]_vars

\* The digests sent with an answer are those of the file as it was when the
\* request came in, unless it was replaced while the request was answered,
\* although the hashes are another process's and may be older or newer.
DigestsMatch ==
  answer.digest # 0 /\ disk = finfo => answer.digest = finfo

\* mod_mirrorbrain.c:2245 on a mirror that does not take files as large:
\* "but keep it as reserve - after all, it could be the only one".
ReserveIsLast ==
  \A t \in answer.target \cap Mirror : ~Fits(t) => Suitable = {}

=============================================================================
