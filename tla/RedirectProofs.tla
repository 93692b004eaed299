--------------------------- MODULE RedirectProofs ---------------------------
(***************************************************************************)
(* What Redirect promises of an answer, for any mirrors, places, requests   *)
(* and versions of the file.                                               *)
(*                                                                         *)
(* The first part is about the operators of MirrorSelect: the chain of      *)
(* tests against Level and Admits, which say the same without a chain, and  *)
(* the passes.  The second is the inductive invariant RedirectInv: types,   *)
(* hashes, and how classes and answer come from the mirrors found.          *)
(***************************************************************************)
EXTENDS Redirect, TLAPS

(* The chain of tests.                                                     *)

\* Admits and Keeps, flag by flag.
LEMMA FlagByFlag ==
  ASSUME NEW e \in Entry, NEW c \in Client
  PROVE  /\ Admits(e, c) <=> /\ "prefix" \in e.only => Level(e, c) <= 1
                             /\ "as" \in e.only => Level(e, c) <= 2
                             /\ "country" \in e.only => Level(e, c) <= 3
                             /\ "region" \in e.only => Level(e, c) <= 4
         /\ Keeps(e, {"prefix"}) <=> "prefix" \in e.only
         /\ Keeps(e, {"prefix", "as"}) <=> e.only \cap {"prefix", "as"} # {}
         /\ Keeps(e, Flag) <=> e.only # {}
<1> e.only \subseteq Flag
  BY DEF Entry
<1> Reach["prefix"] = 1 /\ Reach["as"] = 2 /\ Reach["country"] = 3
      /\ Reach["region"] = 4
  BY DEF Reach, SamePrefix, SameAS, SameCountry, SameRegion
<1> QED
  BY DEF Admits, Flag, Keeps

\* A mirror that may serve the client is put where it is: the chain hides none.
LEMMA ClassIsLevel ==
  ASSUME NEW e \in Entry, NEW c \in Client, NEW size \in Nat,
         ~TooLarge(e, size), Admits(e, c)
  PROVE  \/ ClassOf(e, c, size) = Level(e, c)
         \/ /\ ClassOf(e, c, size) = OtherCountry
            /\ Level(e, c) = SameCountry
            /\ c.country \in e.others
<1> e.only \subseteq Flag
  BY DEF Entry
<1> /\ "prefix" \in e.only => Level(e, c) <= 1
    /\ "as" \in e.only => Level(e, c) <= 2
    /\ "country" \in e.only => Level(e, c) <= 3
    /\ "region" \in e.only => Level(e, c) <= 4
  BY FlagByFlag
<1> QED
  BY DEF Level, ClassOf, Keeps, Flag, SamePrefix, SameAS, SameCountry,
         SameRegion, Elsewhere, OtherCountry, Nowhere

\* No mirror is put nearer to the client than it is.
LEMMA LevelWithinClass ==
  ASSUME NEW e \in Entry, NEW c \in Client, NEW size \in Nat
  PROVE  /\ ClassOf(e, c, size) \in Class => Level(e, c) <= ClassOf(e, c, size)
         /\ ClassOf(e, c, size) = OtherCountry => Level(e, c) <= SameCountry
         /\ Level(e, c) \in Class
BY DEF Level, ClassOf, Class, SamePrefix, SameAS, SameCountry, SameRegion,
       Elsewhere, OtherCountry, Nowhere

\* Whom the chain puts in a class, it may serve, but for the exceptions.
LEMMA ClassAdmits ==
  ASSUME NEW e \in Entry, NEW c \in Client, NEW size \in Nat,
         ClassOf(e, c, size) \in Class \cup {OtherCountry},
         ~TooLarge(e, size), ~HandlesAbroad(e, c)
  PROVE  Admits(e, c)
<1> e.only \subseteq Flag
  BY DEF Entry
<1>1. /\ "prefix" \in e.only => Level(e, c) <= 1
      /\ "as" \in e.only => Level(e, c) <= 2
      /\ "country" \in e.only => Level(e, c) <= 3
      /\ "region" \in e.only => Level(e, c) <= 4
  BY DEF Level, ClassOf, Keeps, Flag, SamePrefix, SameAS, SameCountry,
         SameRegion, Elsewhere, OtherCountry, Nowhere, Class, HandlesAbroad
<1> QED
  BY <1>1, FlagByFlag

\* What Barred lists, class by class.
LEMMA BarredFlags ==
  /\ Barred[1] = {} /\ Barred[2] = {"prefix"} /\ Barred[3] = {"prefix", "as"}
  /\ Barred[4] = {"prefix", "as", "country"} /\ Barred[5] = Flag
BY DEF Barred, Class, SamePrefix, SameAS, SameCountry, SameRegion, Elsewhere

\* What Barred keeps out is what Admits does.
LEMMA BarredIsEnough ==
  ASSUME NEW e \in Entry, NEW c \in Client, NEW k \in Class,
         Level(e, c) <= k, ~Keeps(e, Barred[k])
  PROVE  Admits(e, c)
<1> e.only \subseteq Flag /\ Level(e, c) \in Class
  BY LevelWithinClass DEF Entry
<1>1. /\ "prefix" \in e.only => k = 1
      /\ "as" \in e.only => k <= 2
      /\ "country" \in e.only => k <= 3
      /\ "region" \in e.only => k <= 4
  BY BarredFlags DEF Keeps, Class, Flag
<1> QED
  BY <1>1, FlagByFlag DEF Class

\* And it keeps nobody out who may serve.
LEMMA BarredIsNeeded ==
  ASSUME NEW e \in Entry, NEW c \in Client, NEW k \in Class,
         k <= Level(e, c), Admits(e, c)
  PROVE  ~Keeps(e, Barred[k])
<1> e.only \subseteq Flag /\ Level(e, c) \in Class
  BY LevelWithinClass DEF Entry
<1>1. /\ "prefix" \in e.only => k = 1
      /\ "as" \in e.only => k <= 2
      /\ "country" \in e.only => k <= 3
      /\ "region" \in e.only => k <= 4
  BY FlagByFlag DEF Class
<1> QED
  BY <1>1, BarredFlags DEF Keeps, Class, Flag

-----------------------------------------------------------------------------
(* The passes.  T is what the query returned.                              *)

IsTable(T) == DOMAIN T \subseteq Mirror /\ \A m \in DOMAIN T : T[m] \in Entry

\* The classes after both passes, one at a time.
LEMMA Passes ==
  ASSUME NEW T, NEW c, NEW size, NEW fb, ~NeedsFallback(T),
         NEW k \in Class
  PROVE  Classify(T, c, size, fb)[k] =
           {m \in Usable(T) :
              \/ ClassOf(T[m], c, size) = k
              \/ /\ k = SameCountry
                 /\ ClassOf(T[m], c, size) = OtherCountry
                 /\ \A o \in Usable(T) : ClassOf(T[o], c, size) # SameCountry}
<1> DEFINE F(j) == {m \in Usable(T) : ClassOf(T[m], c, size) = j}
<1> /\ SameCountry \in Class /\ k \in Class \cup {OtherCountry}
    /\ SameCountry \in Class \cup {OtherCountry}
    /\ OtherCountry \in Class \cup {OtherCountry}
  BY DEF SameCountry, OtherCountry, Class
<1>1. /\ FirstPass(T, c, size)[k] = F(k)
      /\ FirstPass(T, c, size)[SameCountry] = F(SameCountry)
      /\ FirstPass(T, c, size)[OtherCountry] = F(OtherCountry)
  BY DEF FirstPass
<1>2. Classify(T, c, size, fb)[k] =
        IF k = SameCountry /\ F(SameCountry) = {} THEN F(OtherCountry) ELSE F(k)
  BY <1>1 DEF Classify, SecondPass
<1> QED
  BY <1>2

LEMMA FallbackPass ==
  ASSUME NEW T, NEW c, NEW size, NEW fb, NeedsFallback(T), NEW k \in Class
  PROVE  Classify(T, c, size, fb)[k] = {f \in fb : FallbackClass(f, c) = k}
BY DEF Classify

\* Who is in which class: only those the query returned, no nearer to the
\* client than they are, or only fallbacks.
LEMMA ClassMembers ==
  ASSUME NEW T, IsTable(T), NEW c \in Client, NEW size \in Nat,
         NEW fb \in SUBSET Fallback, NEW k \in Class,
         NEW m \in Classify(T, c, size, fb)[k]
  PROVE  \/ Usable(T) = {} /\ m \in fb /\ FallbackClass(m, c) = k
         \/ /\ m \in Usable(T) /\ m \in Mirror /\ T[m] \in Entry
            /\ ClassOf(T[m], c, size) \in Class \cup {OtherCountry}
            /\ Level(T[m], c) <= k
<1>1. CASE NeedsFallback(T)
  BY <1>1, FallbackPass DEF NeedsFallback
<1>2. CASE ~NeedsFallback(T)
  <2>1. /\ m \in Usable(T)
        /\ \/ ClassOf(T[m], c, size) = k
           \/ k = SameCountry /\ ClassOf(T[m], c, size) = OtherCountry
    BY <1>2, Passes
  <2>2. m \in Mirror /\ T[m] \in Entry
    BY <2>1 DEF Usable, IsTable
  <2> QED
    BY <2>1, <2>2, LevelWithinClass
<1> QED
  BY <1>1, <1>2

\* A suitable mirror is in the class of its level, or waits behind others of
\* the client's country.
LEMMA SuitableIsListed ==
  ASSUME NEW T, IsTable(T), NEW c \in Client, NEW size \in Nat, NEW fb,
         NEW m \in Usable(T), ~TooLarge(T[m], size), Admits(T[m], c)
  PROVE  LET cl == Classify(T, c, size, fb)
         IN  /\ cl[Level(T[m], c)] # {} /\ Level(T[m], c) \in Class
             /\ \/ m \in cl[Level(T[m], c)]
                \/ /\ c.country \in T[m].others
                   /\ \E o \in Usable(T) : ClassOf(T[o], c, size) = SameCountry
<1> DEFINE cl == Classify(T, c, size, fb)
           l == Level(T[m], c)
<1>1. ~NeedsFallback(T) /\ T[m] \in Entry
  BY DEF NeedsFallback, Usable, IsTable
<1>2. l \in Class
  BY <1>1, LevelWithinClass
<1>3. cl[l] = {o \in Usable(T) :
                 \/ ClassOf(T[o], c, size) = l
                 \/ /\ l = SameCountry
                    /\ ClassOf(T[o], c, size) = OtherCountry
                    /\ \A n \in Usable(T) : ClassOf(T[n], c, size) # SameCountry}
  BY <1>1, <1>2, Passes
<1>4. \/ ClassOf(T[m], c, size) = l
      \/ /\ ClassOf(T[m], c, size) = OtherCountry /\ l = SameCountry
         /\ c.country \in T[m].others
  BY <1>1, ClassIsLevel
<1> HIDE DEF cl, l
<1>5. CASE \E o \in Usable(T) : ClassOf(T[o], c, size) = SameCountry
  BY <1>2, <1>3, <1>4, <1>5 DEF cl, l
<1>6. CASE \A o \in Usable(T) : ClassOf(T[o], c, size) # SameCountry
  <2>1. m \in cl[l]
    BY <1>3, <1>4, <1>6
  <2> QED
    BY <1>2, <2>1 DEF cl, l
<1> QED
  BY <1>5, <1>6

\* Whoever is in the nearest class is in none behind another that has members.
LEMMA NearestIsFirst ==
  ASSUME NEW cl, NEW t \in NearestClass(cl), NEW k \in Class, cl[k] # {}
  PROVE  \E j \in Class : j <= k /\ t \in cl[j]
<1>1. PICK j \in Class : /\ \A i \in Class : i < j => cl[i] = {}
                         /\ t \in cl[j]
  BY DEF NearestClass
<1> QED
  BY <1>1 DEF Class

LEMMA NearestIsListed ==
  ASSUME NEW cl
  PROVE  NearestClass(cl) \subseteq Listed(cl)
BY DEF NearestClass, Listed

LEMMA ClassesTyped ==
  ASSUME NEW T, IsTable(T), NEW c, NEW size, NEW fb \in SUBSET Fallback
  PROVE  Classify(T, c, size, fb) \in [Class -> SUBSET (Mirror \cup Fallback)]
<1>1. CASE NeedsFallback(T)
  BY <1>1 DEF Classify
<1>2. CASE ~NeedsFallback(T)
  <2> DEFINE cl == Classify(T, c, size, fb)
  <2>1. \A k \in Class : cl[k] \subseteq Mirror
    BY <1>2, Passes DEF Usable, IsTable
  <2>2. cl = [k \in Class |-> cl[k]]
    BY <1>2 DEF Classify, SecondPass
  <2> QED
    BY <2>1, <2>2
<1> QED
  BY <1>1, <1>2

-----------------------------------------------------------------------------
(* Types.                                                                  *)

LEMMA FoundIsTable ==
  ASSUME NEW table \in [Mirror -> Servers], NEW marked \in SUBSET Mirror
  PROVE  /\ IsTable(Found(table, marked))
         /\ \A m \in DOMAIN Found(table, marked) :
              Found(table, marked)[m].score > 0
<1>1. \A m \in Mirror : table[m].entry \in Entry
  BY RequestAssumption DEF Server
<1> QED
  BY <1>1 DEF Found, IsTable

LEMMA FirstOfIsListed ==
  ASSUME NEW n, NEW cl, NEW S \in FirstOf(n, cl)
  PROVE  S \subseteq Listed(cl)
BY DEF FirstOf

LEMMA BestIsOf ==
  ASSUME NEW S, NEW T, NEW c, NEW m \in Best(S, T, c)
  PROVE  m \in S
BY DEF Best

LEMMA WillingIsListed ==
  ASSUME NEW T, NEW cl
  PROVE  Willing(T, cl) \subseteq Listed(cl)
BY DEF Willing, Listed

LEMMA PlainAnswer ==
  ASSUME NEW kind \in Representation \cup
                        {"none", "declined", "notfound", "error", "crash"}
  PROVE  Plain(kind) \in Answer
BY RequestAssumption DEF Plain, Answer

LEMMA JudgeTyped ==
  ASSUME TypeOK, NEW T, Judge(T), IsTable(T),
         \A m \in DOMAIN T : T[m].score > 0
  PROVE  /\ DOMAIN rows' \subseteq Mirror
         /\ \A m \in DOMAIN rows' : rows'[m] \in Entry /\ rows'[m].score > 0
         /\ classes' \in [Class -> SUBSET (Mirror \cup Fallback)]
         /\ answer' \in Answer
         /\ pc' \in {"done", "more"}
<1>1. rows' = T /\ classes' = Classify(T, req.client, Size[finfo], req.fallbacks)
  BY DEF Judge
<1>2. req.fallbacks \in SUBSET Fallback
  BY RequestAssumption DEF TypeOK, Request
<1>3. classes' \in [Class -> SUBSET (Mirror \cup Fallback)]
  BY <1>1, <1>2, ClassesTyped
<1>4. answer' \in Answer /\ pc' \in {"done", "more"}
  BY PlainAnswer DEF Judge, Reply, Goto, TypeOK
<1> QED
  BY <1>1, <1>3, <1>4 DEF IsTable

LEMMA TypeInit == Init => TypeOK
<1> SUFFICES ASSUME Init PROVE TypeOK
  OBVIOUS
<1>1. Plain("none") \in Answer
  BY PlainAnswer
<1>2. NoBag \in Bag /\ NoHash \in [stamp : 0..MaxVersion, bag : Bag]
  BY RequestAssumption DEF NoBag, NoHash, Bag
<1>3. NoClasses \in [Class -> SUBSET (Mirror \cup Fallback)]
  BY DEF NoClasses
<1>4. DOMAIN NoRows = {}
  BY DEF NoRows
<1>5. 0 \in 0..MaxVersion /\ "redirect" \in Representation
  BY RequestAssumption DEF Representation
<1> QED
  BY <1>1, <1>2, <1>3, <1>4, <1>5 DEF Init, TypeOK

LEMMA RepTyped ==
  ASSUME NEW q \in Requests, EarlyAnswer(q) = "none"
  PROVE  RepOf(q) \in Representation
<1>1. q \in Request
  BY RequestAssumption
<1>2. ~(ByExtension(q) /\ NoRepresentation(q))
  BY DEF EarlyAnswer
<1>3. /\ q.ext \in (Representation \ {"redirect"}) \cup {"unknown"}
      /\ q.asked \in (Representation \ {"redirect", "yumlist"}) \cup {"unknown"}
      /\ q.accept \in Metalinks \cup {"no"}
  BY <1>1 DEF Request
<1>4. "redirect" \in Representation /\ "yumlist" \in Representation
      /\ Metalinks \subseteq Representation
  BY DEF Representation
<1>5. Wanted(q) \in Representation \cup {"unknown"}
  BY <1>3, <1>4 DEF Wanted, Negotiated, ByQuery
<1> QED
  BY <1>2, <1>3, <1>4, <1>5 DEF RepOf, NoRepresentation

\* A plain answer leaves every type as it was.
LEMMA PlainReplyTyped ==
  ASSUME TypeOK, NEW kind \in Representation \cup
                    {"none", "declined", "notfound", "error", "crash"},
         Reply(Plain(kind))
  PROVE  answer' \in Answer /\ pc' = "done"
BY PlainAnswer DEF Reply

\* The actions that find mirrors.
LEMMA TypeJudging ==
  ASSUME TypeOK, NEW T, Judge(T), IsTable(T),
         \A m \in DOMAIN T : T[m].score > 0,
         db' \in BOOLEAN, UNCHANGED <<world, req, rep, finfo, bag>>
  PROVE  TypeOK'
<1>1. /\ DOMAIN rows' \subseteq Mirror
      /\ \A m \in DOMAIN rows' : rows'[m] \in Entry /\ rows'[m].score > 0
      /\ classes' \in [Class -> SUBSET (Mirror \cup Fallback)]
      /\ answer' \in Answer
      /\ pc' \in {"done", "more"}
  BY JudgeTyped
<1> QED
  BY <1>1 DEF TypeOK, world

\* The actions that answer and leave all else alone.
LEMMA TypeAnswering ==
  ASSUME TypeOK, answer' \in Answer, pc' = "done", UNCHANGED <<world, request>>
  PROVE  TypeOK'
BY DEF TypeOK, world, request

LEMMA FillTyped ==
  ASSUME TypeOK
  PROVE  Fill \subseteq Bag
BY RequestAssumption DEF Fill, HashOf, NoBag, Bag, TypeOK

LEMMA StatTyped ==
  ASSUME TypeOK, NEW q
  PROVE  Stat(q) \in 0..MaxVersion
BY RequestAssumption DEF Stat, TypeOK

LEMMA TypeReceive ==
  ASSUME TypeOK, NEW q \in Requests, Receive(q)
  PROVE  TypeOK'
<1>1. CASE EarlyAnswer(q) # "none"
  <2>1. EarlyAnswer(q) \in {"declined", "notfound", "error"}
    BY <1>1 DEF EarlyAnswer
  <2>2. answer' \in Answer /\ pc' = "done" /\ UNCHANGED <<rep, finfo>>
    BY <1>1, <2>1, PlainReplyTyped DEF Receive
  <2> QED
    BY <2>2 DEF Receive, TypeOK, world
<1>2. CASE EarlyAnswer(q) = "none"
  <2>1. RepOf(q) \in Representation /\ Stat(q) \in 0..MaxVersion
    BY <1>2, RepTyped, StatTyped
  <2>2. pc' = "locate" /\ rep' = RepOf(q) /\ finfo' = Stat(q)
          /\ UNCHANGED answer
    BY <1>2 DEF Receive, Goto
  <2> QED
    BY <2>1, <2>2 DEF Receive, TypeOK, world
<1> QED
  BY <1>1, <1>2

LEMMA TypeLocate ==
  ASSUME TypeOK, Locate
  PROVE  TypeOK'
<1>1. answer' \in Answer /\ pc' \in {"done", "connect"}
  BY PlainAnswer DEF Locate, Reply, Goto, TypeOK
<1> QED
  BY <1>1 DEF Locate, TypeOK, world, request

LEMMA TypeConnect ==
  ASSUME TypeOK, NEW up \in BOOLEAN, Connect(up)
  PROVE  TypeOK'
<1>1. answer' \in Answer /\ pc' \in {"done", "hashes", "mirrors"}
  BY PlainAnswer DEF Connect, Reply, Goto, TypeOK
<1> QED
  BY <1>1 DEF Connect, TypeOK, world

LEMMA TypeReadHashes ==
  ASSUME TypeOK, ReadHashes
  PROVE  TypeOK'
<1>1. bag' \in Bag
  BY FillTyped DEF ReadHashes
<1>2. [Plain(rep) EXCEPT !.digest = bag'.data] \in Answer
  BY <1>1 DEF Plain, Answer, Bag, TypeOK
<1>3. answer' \in Answer /\ pc' \in {"done", "mirrors"}
  BY <1>2, PlainAnswer DEF ReadHashes, Reply, Goto, TypeOK
<1> QED
  BY <1>1, <1>3 DEF ReadHashes, TypeOK, world

LEMMA TypeReadMoreHashes ==
  ASSUME TypeOK, ReadMoreHashes
  PROVE  TypeOK'
<1>1. bag' \in Bag
  BY FillTyped DEF ReadMoreHashes, TypeOK
<1> QED
  BY <1>1 DEF ReadMoreHashes, Goto, TypeOK, world

LEMMA TypeFinding ==
  ASSUME TypeOK,
         \/ NoStatement
         \/ SelectFails
         \/ \E table \in [Mirror -> Servers], marked \in SUBSET Mirror :
              FindMirrors(table, marked)
         \/ ReadRowFails
  PROVE  TypeOK'
<1>1. CASE NoStatement
  <2>1. CASE req.fallbacks = {}
    <3>1. answer' \in Answer /\ pc' = "done"
      BY <1>1, <2>1, PlainReplyTyped DEF NoStatement
    <3> QED
      BY <1>1, <2>1, <3>1 DEF NoStatement, TypeOK, world
  <2>2. CASE req.fallbacks # {}
    <3>1. Judge(NoRows) /\ db' \in BOOLEAN
            /\ UNCHANGED <<world, req, rep, finfo, bag>>
      BY <1>1, <2>2 DEF NoStatement
    <3>2. DOMAIN NoRows = {}
      BY DEF NoRows
    <3> QED
      BY <3>1, <3>2, TypeJudging DEF IsTable
  <2> QED
    BY <2>1, <2>2
<1>2. CASE SelectFails
  BY <1>2, PlainAnswer, TypeAnswering DEF SelectFails, Reply
<1>3. CASE \E table \in [Mirror -> Servers], marked \in SUBSET Mirror :
             FindMirrors(table, marked)
  <2>1. PICK table \in [Mirror -> Servers], marked \in SUBSET Mirror :
               FindMirrors(table, marked)
    BY <1>3
  <2>2. Judge(Found(table, marked)) /\ db' = db /\ db \in BOOLEAN
          /\ UNCHANGED <<world, req, rep, finfo, bag>>
    BY <2>1 DEF FindMirrors, TypeOK
  <2> QED
    BY <2>2, FoundIsTable, TypeJudging
<1>4. CASE ReadRowFails
  BY <1>4, PlainAnswer, TypeAnswering DEF ReadRowFails, Reply
<1> QED
  BY <1>1, <1>2, <1>3, <1>4

LEMMA TypeSending ==
  ASSUME TypeOK,
         \/ SendRedirect \/ SendMetalink \/ SendMirrorlist
         \/ SendNearest \/ SendYumlist
  PROVE  TypeOK'
<1> DEFINE All == SUBSET (Mirror \cup Fallback)
<1>1. Listed(classes) \in All
  BY DEF Listed, TypeOK
<1>2. NearestClass(classes) \in All /\ Willing(rows, classes) \in All
        /\ \A n, S : S \in FirstOf(n, classes) => S \in All
  BY <1>1, NearestIsListed, WillingIsListed, FirstOfIsListed
<1>3. bag.data \in 0..MaxVersion /\ rep \in Representation
  BY DEF TypeOK, Bag
<1>4. \A kind \in Representation, t \in All, n \in All,
          d \in {0, bag.data} :
        [kind |-> kind, target |-> t, named |-> n, digest |-> d] \in Answer
  BY <1>3, RequestAssumption DEF Answer
<1>5. CASE SendRedirect
  <2>1. CASE Listed(classes) = {}
    BY <1>5, <2>1, PlainAnswer, TypeAnswering DEF SendRedirect, Sends, Reply
  <2>2. CASE Listed(classes) # {}
    <3>1. PICK m \in Best(NearestClass(classes), rows, req.client),
               links \in FirstOf(LinkMax, classes) :
             Reply([kind |-> "redirect", target |-> {m}, named |-> links,
                    digest |-> bag.data])
      BY <1>5, <2>2 DEF SendRedirect
    <3>2. {m} \in All /\ links \in All /\ "redirect" \in Representation
      BY <1>2, BestIsOf DEF Representation
    <3>3. answer' \in Answer /\ pc' = "done"
      BY <3>1, <3>2, <1>4 DEF Reply
    <3> QED
      BY <1>5, <3>3, TypeAnswering DEF SendRedirect, Sends
  <2> QED
    BY <2>1, <2>2
<1>6. CASE SendMetalink
  BY <1>2, <1>3, <1>4, <1>6, TypeAnswering DEF SendMetalink, Sends, Reply
<1>7. CASE SendMirrorlist
  BY <1>1, <1>3, <1>4, <1>7, TypeAnswering DEF SendMirrorlist, Sends, Reply
<1>8. CASE SendNearest
  BY <1>2, <1>3, <1>4, <1>8, PlainAnswer, TypeAnswering
  DEF SendNearest, Sends, Reply
<1>9. CASE SendYumlist
  <2>1. PICK S \in FirstOf(YumMax, classes) :
          Reply([Plain(rep) EXCEPT !.named = S])
    BY <1>9 DEF SendYumlist
  <2>2. [Plain(rep) EXCEPT !.named = S] =
          [kind |-> rep, target |-> {}, named |-> S, digest |-> 0]
    BY DEF Plain
  <2>3. {} \in All /\ S \in All
    BY <1>2
  <2>4. [kind |-> rep, target |-> {}, named |-> S, digest |-> 0] \in Answer
    BY <1>3, <1>4, <2>3
  <2>5. answer' \in Answer /\ pc' = "done"
    BY <2>1, <2>2, <2>4 DEF Reply
  <2> QED
    BY <1>9, <2>5, TypeAnswering DEF SendYumlist, Sends
<1> QED
  BY <1>5, <1>6, <1>7, <1>8, <1>9

LEMMA TypeFinish ==
  ASSUME TypeOK, Finish
  PROVE  TypeOK'
<1>1. Plain("none") \in Answer /\ NoBag \in Bag /\ 0 \in 0..MaxVersion
        /\ NoClasses \in [Class -> SUBSET (Mirror \cup Fallback)]
        /\ DOMAIN NoRows = {}
  BY PlainAnswer, RequestAssumption DEF NoBag, Bag, NoClasses, NoRows
<1> QED
  BY <1>1 DEF Finish, TypeOK, world

LEMMA TypeWorld ==
  ASSUME TypeOK, World
  PROVE  TypeOK'
<1>1. CASE Publish \/ Remove
  BY <1>1, RequestAssumption DEF Publish, Remove, TypeOK, request
<1>2. CASE \E stamp, data \in Version, parts \in Parts :
             RecordHash(stamp, data, parts)
  BY <1>2, RequestAssumption
  DEF RecordHash, Version, Bag, TypeOK, request
<1> QED
  BY <1>1, <1>2 DEF World

LEMMA TypeStep ==
  ASSUME TypeOK, [Next]_vars
  PROVE  TypeOK'
<1>1. CASE Handler
  BY <1>1, TypeReceive, TypeLocate, TypeConnect, TypeReadHashes, TypeFinding,
     TypeReadMoreHashes, TypeSending, TypeFinish DEF Handler
<1>2. CASE World
  BY <1>2, TypeWorld
<1>3. CASE UNCHANGED vars
  BY <1>3 DEF vars, world, request, TypeOK
<1> QED
  BY <1>1, <1>2, <1>3 DEF Next

\* Every variable keeps its type, and no mirror found has score 0, by which
\* mb_handler divides.
THEOREM RedirectTypeCorrect == Spec => []TypeOK
<1>1. Init => TypeOK
  BY TypeInit
<1>2. TypeOK /\ [Next]_vars => TypeOK'
  BY TypeStep
<1> QED
  BY <1>1, <1>2, PTL DEF Spec

-----------------------------------------------------------------------------
(* Digests.                                                                *)

\* Hashes in the database, and those read, are of a version no older than the
\* one whose size and mtime they go with.
DigestInv ==
  /\ disk \in {0, newest} /\ finfo <= newest
  /\ hash.bag.data # 0 => /\ 0 < hash.stamp /\ hash.stamp <= hash.bag.data
                          /\ hash.bag.data <= newest
  /\ bag.data # 0 => 0 < finfo /\ finfo <= bag.data /\ bag.data <= newest
  /\ answer.digest \in {0, bag.data}
  /\ pc \in {"idle", "locate", "connect", "hashes"} => bag = NoBag

LEMMA PlainFields ==
  ASSUME NEW kind
  PROVE  /\ Plain(kind).kind = kind /\ Plain(kind).target = {}
         /\ Plain(kind).named = {} /\ Plain(kind).digest = 0
BY DEF Plain

LEMMA DigestInit == Init => DigestInv
BY PlainFields DEF Init, DigestInv, NoHash, NoBag

\* Steps that read neither the file nor hashes.
LEMMA DigestQuiet ==
  ASSUME DigestInv, UNCHANGED <<world, finfo, bag>>,
         answer'.digest \in {0, bag.data},
         bag # NoBag => pc' \notin {"idle", "locate", "connect", "hashes"}
  PROVE  DigestInv'
BY DEF DigestInv, world

LEMMA DigestReceive ==
  ASSUME TypeOK, DigestInv, NEW q \in Requests, Receive(q)
  PROVE  DigestInv'
<1>1. pc = "idle" /\ bag = NoBag /\ bag' = bag /\ UNCHANGED world
  BY DEF Receive, DigestInv
<1>2. CASE EarlyAnswer(q) # "none"
  <2>1. finfo' = finfo /\ answer'.digest = 0
    BY <1>2, PlainFields DEF Receive, Reply
  <2> QED
    BY <1>1, <2>1, DigestQuiet
<1>3. CASE EarlyAnswer(q) = "none"
  <2>1. finfo' \in {0, disk} /\ UNCHANGED answer
    BY <1>3 DEF Receive, Stat, Goto
  <2> QED
    BY <1>1, <2>1 DEF DigestInv, NoBag, world, TypeOK
<1> QED
  BY <1>2, <1>3

\* Hashes that are found are of the file stat()ed or of a later version.
LEMMA FillHonest ==
  ASSUME TypeOK, DigestInv, NEW b \in Fill, b.data # 0
  PROVE  0 < finfo /\ finfo <= b.data /\ b.data <= newest
BY DEF Fill, HashOf, NoBag, DigestInv

LEMMA DigestReadHashes ==
  ASSUME TypeOK, DigestInv, ReadHashes
  PROVE  DigestInv'
<1>1. answer.digest = 0 /\ UNCHANGED <<world, finfo>> /\ bag' \in Fill
  BY DEF ReadHashes, DigestInv, NoBag
<1>2. answer'.digest \in {0, bag'.data}
  BY <1>1, PlainFields DEF ReadHashes, Reply, Goto, Plain
<1>3. pc' \in {"done", "mirrors"}
  BY DEF ReadHashes, Reply, Goto
<1>4. bag'.data # 0 => 0 < finfo /\ finfo <= bag'.data /\ bag'.data <= newest
  BY <1>1, FillHonest
<1> QED
  BY <1>1, <1>2, <1>3, <1>4 DEF DigestInv, world

LEMMA DigestReadMoreHashes ==
  ASSUME TypeOK, DigestInv, ReadMoreHashes
  PROVE  DigestInv'
<1>1. CASE bag' = bag
  BY <1>1, DigestQuiet DEF ReadMoreHashes, Goto, DigestInv
<1>2. CASE bag' # bag
  <2>1. bag = NoBag /\ bag' \in Fill /\ pc' = "send" /\ answer' = answer
          /\ UNCHANGED <<world, finfo>>
    BY <1>2 DEF ReadMoreHashes, Goto
  <2>2. answer'.digest = 0
    BY <2>1 DEF DigestInv, NoBag
  <2>3. bag'.data # 0 => 0 < finfo /\ finfo <= bag'.data /\ bag'.data <= newest
    BY <2>1, FillHonest
  <2> QED
    BY <2>1, <2>2, <2>3 DEF DigestInv, world
<1> QED
  BY <1>1, <1>2

LEMMA DigestWorld ==
  ASSUME TypeOK, DigestInv, World
  PROVE  DigestInv'
<1>1. CASE Publish
  BY <1>1 DEF Publish, DigestInv, TypeOK, request, Bag
<1>2. CASE Remove
  BY <1>2 DEF Remove, DigestInv, request
<1>3. CASE \E stamp, data \in Version, parts \in Parts :
             RecordHash(stamp, data, parts)
  BY <1>3, RequestAssumption
  DEF RecordHash, Version, DigestInv, TypeOK, request
<1> QED
  BY <1>1, <1>2, <1>3 DEF World

LEMMA DigestStep ==
  ASSUME TypeOK, DigestInv, [Next]_vars
  PROVE  DigestInv'
<1>1. ASSUME Locate PROVE DigestInv'
  <2>1. /\ UNCHANGED <<world, finfo, bag>> /\ bag = NoBag
        /\ answer'.digest \in {0, answer.digest}
    BY <1>1, PlainFields DEF Locate, Reply, Goto, DigestInv, request
  <2> QED
    BY <2>1, DigestQuiet DEF DigestInv
<1>2. ASSUME NEW up \in BOOLEAN, Connect(up) PROVE DigestInv'
  <2>1. /\ UNCHANGED <<world, finfo, bag>> /\ bag = NoBag
        /\ answer'.digest \in {0, answer.digest}
    BY <1>2, PlainFields DEF Connect, Reply, Goto, DigestInv
  <2> QED
    BY <2>1, DigestQuiet DEF DigestInv
<1>3. ASSUME \/ NoStatement \/ SelectFails \/ ReadRowFails
             \/ \E table \in [Mirror -> Servers], marked \in SUBSET Mirror :
                  FindMirrors(table, marked)
      PROVE  DigestInv'
  <2>1. /\ UNCHANGED <<world, finfo, bag>> /\ pc' \in {"done", "more"}
        /\ answer'.digest \in {0, answer.digest}
    BY <1>3, PlainFields DEF NoStatement, SelectFails, ReadRowFails,
       FindMirrors, Judge, Reply, Goto, request
  <2> QED
    BY <2>1, DigestQuiet DEF DigestInv
<1>4. ASSUME \/ SendRedirect \/ SendMetalink \/ SendMirrorlist
             \/ SendNearest \/ SendYumlist
      PROVE  DigestInv'
  <2>1. UNCHANGED <<world, finfo, bag>>
    BY <1>4 DEF SendRedirect, SendMetalink, SendMirrorlist, SendNearest,
       SendYumlist, Sends, request
  <2>2. pc' = "done" /\ answer'.digest \in {0, bag.data}
    BY <1>4, PlainFields DEF SendRedirect, SendMetalink, SendMirrorlist,
       SendNearest, SendYumlist, Sends, Reply, Plain
  <2> QED
    BY <2>1, <2>2, DigestQuiet
<1>5. ASSUME Finish PROVE DigestInv'
  BY <1>5, PlainFields DEF Finish, DigestInv, NoBag, world, TypeOK
<1>6. CASE UNCHANGED vars
  BY <1>6 DEF vars, world, request, DigestInv
<1> QED
  BY <1>1, <1>2, <1>3, <1>4, <1>5, <1>6, DigestReceive, DigestReadHashes,
     DigestReadMoreHashes, DigestWorld DEF Next, Handler

\* Digests are those of the file as the request found it, unless it was
\* replaced since.
THEOREM DigestsAreTheFiles == Spec => []DigestsMatch
<1>1. ASSUME TypeOK, DigestInv PROVE DigestsMatch
  <2>1. /\ newest \in Nat /\ finfo \in Nat /\ bag.data \in Nat
    BY <1>1, RequestAssumption DEF TypeOK, Bag
  <2> QED
    BY <1>1, <2>1 DEF DigestInv, DigestsMatch
<1>2. Init => TypeOK /\ DigestInv
  BY TypeInit, DigestInit
<1>3. TypeOK /\ DigestInv /\ [Next]_vars => (TypeOK /\ DigestInv)'
  BY TypeStep, DigestStep
<1> QED
  BY <1>1, <1>2, <1>3, PTL DEF Spec

-----------------------------------------------------------------------------
(* Answers.                                                                *)

Early == {"idle", "locate", "connect", "hashes", "mirrors"}

\* The classes are those of the mirrors found, or no use was made of any.
Judged == classes = Classify(rows, req.client, Size[finfo], req.fallbacks)

Unjudged ==
  /\ rows = NoRows /\ pc \notin {"more", "send"}
  /\ answer.target = {} /\ answer.named = {}
  /\ answer.kind \notin Metalinks \cup {"magnet"}

AnswerInv ==
  /\ pc \in Early => rows = NoRows
  /\ pc # "done" => answer = Plain("none")
  /\ Judged \/ Unjudged
  /\ answer.target \subseteq NearestClass(classes)
  /\ answer.named \subseteq Listed(classes)
  /\ answer.kind \in {"torrent", "zsync"}
       => answer.named \subseteq NearestClass(classes)
  /\ answer.kind \in Metalinks \cup {"magnet"}
       => answer.target = {} /\ answer.named = Willing(rows, classes)
  /\ pc = "done" /\ rep = "redirect" /\ rows # NoRows /\ Listed(classes) # {}
       => answer.kind = "redirect"

\* Before and without judging: nobody is named.
LEMMA AnswerUnjudged ==
  ASSUME rows = NoRows, pc \notin {"more", "send"},
         answer.target = {}, answer.named = {},
         answer.kind \notin Metalinks \cup {"magnet"},
         pc # "done" => answer = Plain("none")
  PROVE  AnswerInv
BY DEF AnswerInv, Unjudged

LEMMA AnswerInit == Init => AnswerInv
<1> SUFFICES ASSUME Init PROVE AnswerInv
  OBVIOUS
<1> QED
  BY AnswerUnjudged, PlainFields DEF Init, Metalinks

LEMMA AnswerEarly ==
  ASSUME rows' = NoRows, pc' \notin {"more", "send"},
         answer'.target = {}, answer'.named = {},
         answer'.kind \notin Metalinks \cup {"magnet"},
         pc' # "done" => answer' = Plain("none")
  PROVE  AnswerInv'
BY DEF AnswerInv, Unjudged

LEMMA AnswerReceive ==
  ASSUME AnswerInv, NEW q \in Requests, Receive(q)
  PROVE  AnswerInv'
<1>1. rows' = NoRows /\ answer = Plain("none")
  BY DEF Receive, AnswerInv, Early
<1>2. CASE EarlyAnswer(q) # "none"
  <2>1. EarlyAnswer(q) \in {"declined", "notfound", "error"}
    BY <1>2 DEF EarlyAnswer
  <2>2. answer' = Plain(EarlyAnswer(q)) /\ pc' = "done"
    BY <1>2 DEF Receive, Reply
  <2> QED
    BY <1>1, <2>1, <2>2, PlainFields, AnswerEarly DEF Metalinks
<1>3. CASE EarlyAnswer(q) = "none"
  <2>1. pc' = "locate" /\ answer' = Plain("none")
    BY <1>1, <1>3 DEF Receive, Goto
  <2> QED
    BY <1>1, <2>1, PlainFields, AnswerEarly DEF Metalinks
<1> QED
  BY <1>2, <1>3

LEMMA AnswerLocating ==
  ASSUME AnswerInv, Locate \/ \E up \in BOOLEAN : Connect(up)
  PROVE  AnswerInv'
<1>1. rows' = NoRows /\ answer = Plain("none")
  BY DEF Locate, Connect, AnswerInv, Early, request
<1>2. PICK kind \in {"none", "error", "crash", "notfound", "declined"} :
        answer' = Plain(kind)
  BY <1>1 DEF Locate, Connect, Reply, Goto
<1>3. /\ pc' \in {"done", "connect", "hashes", "mirrors"}
      /\ pc' # "done" => answer' = Plain("none")
  BY <1>1 DEF Locate, Connect, Reply, Goto
<1> QED
  BY <1>1, <1>2, <1>3, PlainFields, AnswerEarly DEF Metalinks

LEMMA AnswerReadHashes ==
  ASSUME AnswerInv, ReadHashes
  PROVE  AnswerInv'
<1>1. rows' = NoRows /\ answer = Plain("none")
  BY DEF ReadHashes, AnswerInv, Early
<1>2. /\ answer'.target = {} /\ answer'.named = {}
      /\ answer'.kind \in {"none", "notfound"} \cup Digests
  BY <1>1, PlainFields DEF ReadHashes, Reply, Goto, Plain
<1>3. /\ pc' \in {"done", "mirrors"}
      /\ pc' # "done" => answer' = Plain("none")
  BY <1>1 DEF ReadHashes, Reply, Goto
<1> QED
  BY <1>1, <1>2, <1>3, AnswerEarly DEF Metalinks, Digests

LEMMA AnswerReadMoreHashes ==
  ASSUME AnswerInv, ReadMoreHashes
  PROVE  AnswerInv'
BY DEF ReadMoreHashes, Goto, AnswerInv, Judged, Unjudged, Early

LEMMA AnswerJudging ==
  ASSUME AnswerInv, pc = "mirrors", NEW T, Judge(T),
         UNCHANGED <<req, rep, finfo>>
  PROVE  AnswerInv'
<1>1. answer = Plain("none")
  BY DEF AnswerInv
<1>2. Judged'
  BY DEF Judge, Judged
<1>3. \/ /\ pc' = "done" /\ rep \in Metalinks
         /\ answer' = Plain("declined") \/ answer' = Plain("notfound")
      \/ pc' = "more" /\ answer' = Plain("none")
  BY <1>1 DEF Judge, Reply, Goto
<1>4. /\ answer'.target = {} /\ answer'.named = {}
      /\ answer'.kind \in {"none", "declined", "notfound"}
  BY <1>3, PlainFields
<1> QED
  BY <1>2, <1>3, <1>4 DEF AnswerInv, Early, Metalinks

LEMMA AnswerFinding ==
  ASSUME AnswerInv,
         \/ NoStatement
         \/ SelectFails
         \/ \E table \in [Mirror -> Servers], marked \in SUBSET Mirror :
              FindMirrors(table, marked)
         \/ ReadRowFails
  PROVE  AnswerInv'
<1>1. pc = "mirrors" /\ rows = NoRows
  BY DEF NoStatement, SelectFails, FindMirrors, ReadRowFails, AnswerInv, Early
<1>2. ASSUME NEW T, Judge(T), UNCHANGED <<req, rep, finfo>>
      PROVE  AnswerInv'
  BY <1>1, <1>2, AnswerJudging
<1>3. ASSUME NEW kind \in {"declined", "crash", "error"}, Reply(Plain(kind)),
             UNCHANGED rows
      PROVE  AnswerInv'
  BY <1>1, <1>3, PlainFields, AnswerEarly DEF Reply, Metalinks
<1>4. CASE NoStatement
  BY <1>2, <1>3, <1>4 DEF NoStatement
<1>5. CASE SelectFails
  BY <1>3, <1>5 DEF SelectFails, request
<1>6. CASE \E table \in [Mirror -> Servers], marked \in SUBSET Mirror :
             FindMirrors(table, marked)
  BY <1>2, <1>6 DEF FindMirrors
<1>7. CASE ReadRowFails
  BY <1>3, <1>7 DEF ReadRowFails, request
<1> QED
  BY <1>4, <1>5, <1>6, <1>7

\* What it takes of an answer that names mirrors.
LEMMA AnswerSent ==
  ASSUME AnswerInv, pc = "send", UNCHANGED request, pc' = "done",
         answer'.target \subseteq NearestClass(classes),
         answer'.named \subseteq Listed(classes),
         answer'.kind \in {"torrent", "zsync"}
           => answer'.named \subseteq NearestClass(classes),
         answer'.kind \in Metalinks \cup {"magnet"}
           => answer'.target = {} /\ answer'.named = Willing(rows, classes),
         rep = "redirect" /\ Listed(classes) # {} => answer'.kind = "redirect"
  PROVE  AnswerInv'
BY DEF AnswerInv, Judged, Unjudged, Early, request

LEMMA AnswerSending ==
  ASSUME AnswerInv,
         \/ SendRedirect \/ SendMetalink \/ SendMirrorlist
         \/ SendNearest \/ SendYumlist
  PROVE  AnswerInv'
<1>1. pc = "send" /\ UNCHANGED request
  BY DEF SendRedirect, SendMetalink, SendMirrorlist, SendNearest, SendYumlist,
     Sends
<1>2. NearestClass(classes) \subseteq Listed(classes)
        /\ Willing(rows, classes) \subseteq Listed(classes)
        /\ \A n, S : S \in FirstOf(n, classes) => S \subseteq Listed(classes)
  BY NearestIsListed, WillingIsListed, FirstOfIsListed
<1>3. CASE SendRedirect
  <2>1. CASE Listed(classes) = {}
    <3>1. answer' = Plain("notfound") /\ pc' = "done"
      BY <1>3, <2>1 DEF SendRedirect, Reply
    <3> QED
      BY <1>1, <2>1, <3>1, PlainFields, AnswerSent DEF Metalinks
  <2>2. CASE Listed(classes) # {}
    <3>1. PICK m \in Best(NearestClass(classes), rows, req.client),
               links \in FirstOf(LinkMax, classes) :
             Reply([kind |-> "redirect", target |-> {m}, named |-> links,
                    digest |-> bag.data])
      BY <1>3, <2>2 DEF SendRedirect
    <3>2. {m} \subseteq NearestClass(classes) /\ links \subseteq Listed(classes)
      BY <1>2, BestIsOf
    <3>3. /\ answer'.kind = "redirect" /\ answer'.target = {m}
          /\ answer'.named = links /\ pc' = "done"
      BY <3>1 DEF Reply
    <3> QED
      BY <1>1, <3>2, <3>3, AnswerSent DEF Metalinks
  <2> QED
    BY <2>1, <2>2
<1>4. CASE SendMetalink
  <2>1. /\ answer'.kind = rep /\ answer'.target = {} /\ pc' = "done"
        /\ answer'.named = Willing(rows, classes)
        /\ rep \in Metalinks \cup {"magnet"}
    BY <1>4 DEF SendMetalink, Sends, Reply
  <2> QED
    BY <1>1, <1>2, <2>1, AnswerSent DEF Metalinks
<1>5. CASE SendMirrorlist
  <2>1. /\ answer'.kind = "mirrorlist" /\ answer'.target = {} /\ pc' = "done"
        /\ answer'.named \subseteq Listed(classes) /\ rep = "mirrorlist"
    BY <1>5 DEF SendMirrorlist, Sends, Reply
  <2> QED
    BY <1>1, <2>1, AnswerSent DEF Metalinks
<1>6. CASE SendNearest
  <2>1. /\ answer'.kind \in {"notfound", "torrent", "zsync"}
        /\ answer'.target = {} /\ pc' = "done"
        /\ answer'.named \subseteq NearestClass(classes)
        /\ rep \in {"torrent", "zsync"}
    BY <1>6, PlainFields DEF SendNearest, Sends, Reply
  <2> QED
    BY <1>1, <1>2, <2>1, AnswerSent DEF Metalinks
<1>7. CASE SendYumlist
  <2>1. /\ answer'.kind = "yumlist" /\ answer'.target = {} /\ pc' = "done"
        /\ answer'.named \subseteq Listed(classes) /\ rep = "yumlist"
    BY <1>2, <1>7 DEF SendYumlist, Sends, Reply, Plain
  <2> QED
    BY <1>1, <2>1, AnswerSent DEF Metalinks
<1> QED
  BY <1>3, <1>4, <1>5, <1>6, <1>7

LEMMA AnswerStep ==
  ASSUME AnswerInv, [Next]_vars
  PROVE  AnswerInv'
<1>1. ASSUME Finish PROVE AnswerInv'
  BY <1>1, PlainFields, AnswerEarly DEF Finish, Metalinks
<1>2. CASE World
  <2>1. UNCHANGED <<pc, request, answer>>
    BY <1>2 DEF World, Publish, Remove, RecordHash
  <2> QED
    BY <2>1 DEF AnswerInv, Judged, Unjudged, request
<1>3. CASE UNCHANGED vars
  BY <1>3 DEF AnswerInv, Judged, Unjudged, request, vars
<1> QED
  BY <1>1, <1>2, <1>3, AnswerReceive, AnswerLocating, AnswerReadHashes,
     AnswerFinding, AnswerReadMoreHashes, AnswerSending DEF Next, Handler

\* The inductive invariant of the theorems below.
RedirectInv == TypeOK /\ AnswerInv

\* Classes and answer always come from the mirrors found for the request.
THEOREM RedirectInvariant == Spec => []RedirectInv
<1>1. Init => RedirectInv
  BY TypeInit, AnswerInit DEF RedirectInv
<1>2. RedirectInv /\ [Next]_vars => RedirectInv'
  BY TypeStep, AnswerStep DEF RedirectInv
<1> QED
  BY <1>1, <1>2, PTL DEF Spec

-----------------------------------------------------------------------------
(* Who is named to whom.                                                   *)

\* What the lemmas on the passes ask for.
LEMMA Arguments ==
  ASSUME TypeOK
  PROVE  /\ IsTable(rows) /\ req.client \in Client /\ Size[finfo] \in Nat
         /\ req.fallbacks \in SUBSET Fallback
BY RequestAssumption DEF TypeOK, IsTable, Request

\* A mirror in a class is one of those found, and at least as near.
LEMMA MirrorInClass ==
  ASSUME TypeOK, Judged, NEW k \in Class, NEW m \in classes[k], m \in Mirror
  PROVE  /\ m \in Usable(rows) /\ rows[m] \in Entry
         /\ Level(rows[m], req.client) <= k
         /\ Level(rows[m], req.client) \in Class
         /\ ClassOf(rows[m], req.client, Size[finfo])
              \in Class \cup {OtherCountry}
<1>1. m \notin Fallback
  BY PlaceAssumption
<1>2. /\ m \in Usable(rows) /\ rows[m] \in Entry
      /\ Level(rows[m], req.client) <= k
      /\ ClassOf(rows[m], req.client, Size[finfo])
           \in Class \cup {OtherCountry}
  BY <1>1, Arguments, ClassMembers DEF Judged
<1> QED
  BY <1>2, Arguments, LevelWithinClass

\* A suitable mirror makes the class of its level one with members.
LEMMA SuitableInClass ==
  ASSUME TypeOK, Judged, NEW m \in Suitable
  PROVE  LET l == Level(rows[m], req.client)
         IN  /\ l \in Class /\ classes[l] # {} /\ rows[m] \in Entry
             /\ \/ m \in classes[l]
                \/ /\ req.client.country \in rows[m].others
                   /\ \E o \in Usable(rows) :
                        ClassOf(rows[o], req.client, Size[finfo]) = SameCountry
<1>1. /\ m \in Usable(rows) /\ ~TooLarge(rows[m], Size[finfo])
      /\ Admits(rows[m], req.client)
  BY DEF Suitable, Fits
<1>2. rows[m] \in Entry
  BY <1>1 DEF Usable, TypeOK
<1> QED
  BY <1>1, <1>2, Arguments, SuitableIsListed DEF Judged

\* Without judging, no mirror is found.
LEMMA UnjudgedIsEmpty ==
  ASSUME Unjudged
  PROVE  Usable(rows) = {} /\ Suitable = {} /\ Chosen = {}
BY DEF Unjudged, NoRows, Usable, Suitable, Chosen

LEMMA NearestServesHolds == RedirectInv => NearestServes
<1> SUFFICES ASSUME RedirectInv, NEW t \in Chosen, NEW m \in Suitable
             PROVE  Level(rows[t], req.client) <= Level(rows[m], req.client)
  BY DEF NearestServes
<1>1. TypeOK /\ Judged
  BY UnjudgedIsEmpty DEF RedirectInv, AnswerInv
<1>2. t \in NearestClass(classes) /\ t \in Mirror
  BY DEF Chosen, RedirectInv, AnswerInv
<1> DEFINE l == Level(rows[m], req.client)
<1>3. l \in Class /\ classes[l] # {}
  BY <1>1, SuitableInClass
<1>4. PICK k \in Class : k <= l /\ t \in classes[k]
  BY <1>2, <1>3, NearestIsFirst
<1>5. Level(rows[t], req.client) <= k /\ Level(rows[t], req.client) \in Class
  BY <1>1, <1>2, <1>4, MirrorInClass
<1> QED
  BY <1>3, <1>4, <1>5 DEF Class

LEMMA OnlyWhereAdmittedHolds == RedirectInv => OnlyWhereAdmitted
<1> SUFFICES ASSUME RedirectInv,
                    NEW m \in (answer.target \cup answer.named) \cap Mirror
             PROVE  /\ m \in Usable(rows)
                    /\ \/ Admits(rows[m], req.client)
                       \/ /\ answer.kind \notin Metalinks \cup {"magnet"}
                          /\ HandlesAbroad(rows[m], req.client) \/ ~Fits(m)
  BY DEF OnlyWhereAdmitted
<1>1. TypeOK /\ Judged
  BY DEF RedirectInv, AnswerInv, Unjudged
<1>2. CASE answer.kind \in Metalinks \cup {"magnet"}
  <2>1. m \in Willing(rows, classes)
    BY <1>2 DEF RedirectInv, AnswerInv
  <2>2. PICK k \in Class : m \in classes[k] /\ ~Keeps(rows[m], Barred[k])
    BY <2>1 DEF Willing
  <2>3. m \in Usable(rows) /\ rows[m] \in Entry
          /\ Level(rows[m], req.client) <= k
    BY <1>1, <2>2, MirrorInClass
  <2>4. Admits(rows[m], req.client)
    BY <1>1, <2>2, <2>3, Arguments, BarredIsEnough
  <2> QED
    BY <2>3, <2>4
<1>3. CASE answer.kind \notin Metalinks \cup {"magnet"}
  <2>1. m \in Listed(classes)
    BY NearestIsListed DEF RedirectInv, AnswerInv
  <2>2. PICK k \in Class : m \in classes[k]
    BY <2>1 DEF Listed
  <2>3. /\ m \in Usable(rows) /\ rows[m] \in Entry
        /\ ClassOf(rows[m], req.client, Size[finfo])
             \in Class \cup {OtherCountry}
    BY <1>1, <2>2, MirrorInClass
  <2>4. CASE ~HandlesAbroad(rows[m], req.client) /\ Fits(m)
    BY <1>1, <2>3, <2>4, Arguments, ClassAdmits DEF Fits
  <2> QED
    BY <1>3, <2>3, <2>4
<1> QED
  BY <1>2, <1>3

LEMMA SuitableIsNamedHolds == RedirectInv => SuitableIsNamed
<1> SUFFICES ASSUME RedirectInv PROVE SuitableIsNamed
  OBVIOUS
<1>1. ASSUME pc = "done", rep = "redirect", Suitable # {}
      PROVE  answer.kind = "redirect" /\ answer.target \subseteq Mirror
  <2>1. TypeOK /\ Judged
    BY <1>1, UnjudgedIsEmpty DEF RedirectInv, AnswerInv
  <2>2. PICK m : m \in Suitable
    BY <1>1
  <2>3. Listed(classes) # {}
    BY <2>1, <2>2, SuitableInClass DEF Listed
  <2>4. m \in DOMAIN rows /\ Usable(rows) # {}
    BY <2>2 DEF Suitable, Usable
  <2>5. rows # NoRows
    BY <2>4 DEF NoRows
  <2>6. answer.kind = "redirect"
    BY <1>1, <2>3, <2>5 DEF RedirectInv, AnswerInv
  <2>7. ASSUME NEW t \in answer.target PROVE t \in Mirror
    <3>1. t \in NearestClass(classes)
      BY DEF RedirectInv, AnswerInv
    <3>2. PICK k \in Class : t \in classes[k]
      BY <3>1 DEF NearestClass
    <3> QED
      BY <2>1, <2>4, <3>2, Arguments, ClassMembers DEF Judged
  <2> QED
    BY <2>6, <2>7
<1>2. ASSUME answer.kind \in Metalinks \cup {"magnet"},
             NEW m \in Suitable \ answer.named
      PROVE  /\ req.client.country \in rows[m].others
             /\ \E o \in Usable(rows) : InCountry(o)
  <2> DEFINE l == Level(rows[m], req.client)
  <2>1. TypeOK /\ Judged
    BY <1>2 DEF RedirectInv, AnswerInv, Unjudged
  <2>2. /\ l \in Class /\ rows[m] \in Entry
        /\ \/ m \in classes[l]
           \/ /\ req.client.country \in rows[m].others
              /\ \E o \in Usable(rows) :
                   ClassOf(rows[o], req.client, Size[finfo]) = SameCountry
    BY <2>1, SuitableInClass
  <2>3. m \notin Willing(rows, classes)
    BY <1>2 DEF RedirectInv, AnswerInv
  <2>4. m \notin classes[l]
    <3>1. ~Keeps(rows[m], Barred[l])
      BY <2>1, <2>2, Arguments, BarredIsNeeded DEF Suitable, Class
    <3> QED
      BY <2>2, <2>3, <3>1 DEF Willing
  <2>5. PICK o \in Usable(rows) :
               ClassOf(rows[o], req.client, Size[finfo]) = SameCountry
    BY <2>2, <2>4
  <2>6. InCountry(o)
    BY <2>5 DEF ClassOf, InCountry, SamePrefix, SameAS, SameCountry,
       SameRegion, Elsewhere, OtherCountry, Nowhere
  <2> QED
    BY <2>2, <2>4, <2>6
<1> QED
  BY <1>1, <1>2 DEF SuitableIsNamed

\* No suitable mirror is nearer than one that is chosen.
THEOREM NearestIsChosen == Spec => []NearestServes
BY RedirectInvariant, NearestServesHolds, PTL

\* Mirrors are named to clients they are for, with the exceptions the property
\* states.
THEOREM RestrictionsHold == Spec => []OnlyWhereAdmitted
BY RedirectInvariant, OnlyWhereAdmittedHolds, PTL

\* Suitable mirrors are used: the answer is no error and no fallback.
THEOREM SuitableIsUsed == Spec => []SuitableIsNamed
BY RedirectInvariant, SuitableIsNamedHolds, PTL

\* The redirect among fallbacks: one is chosen, of the client's country if
\* there is one.
LEMMA FallbackChosen ==
  ASSUME TypeOK, Judged, Usable(rows) = {}, req.fallbacks # {}
  PROVE  /\ Listed(classes) # {}
         /\ \A t \in NearestClass(classes) :
              /\ t \in req.fallbacks
              /\ \A f \in req.fallbacks :
                   FallbackCountry[f] = req.client.country
                     => FallbackCountry[t] = req.client.country
<1> DEFINE c == req.client
<1>1. \A k \in Class :
        classes[k] = {f \in req.fallbacks : FallbackClass(f, c) = k}
  BY FallbackPass DEF Judged, NeedsFallback
<1>2. \A f : /\ FallbackClass(f, c) \in Class
             /\ FallbackClass(f, c) >= SameCountry
             /\ FallbackClass(f, c) = SameCountry
                  <=> FallbackCountry[f] = c.country
  BY DEF FallbackClass, Class, SameCountry, SameRegion, Elsewhere
<1>3. Listed(classes) # {}
  BY <1>1, <1>2 DEF Listed
<1>4. ASSUME NEW t \in NearestClass(classes)
      PROVE  t \in req.fallbacks
  BY <1>1 DEF NearestClass
<1>5. ASSUME NEW t \in NearestClass(classes), NEW f \in req.fallbacks,
             FallbackCountry[f] = c.country
      PROVE  FallbackCountry[t] = c.country
  <2>1. SameCountry \in Class /\ f \in classes[SameCountry]
    BY <1>1, <1>2, <1>5
  <2>2. PICK j \in Class : j <= SameCountry /\ t \in classes[j]
    BY <2>1, NearestIsFirst
  <2>3. FallbackClass(t, c) = j
    BY <1>1, <2>2
  <2> QED
    BY <1>2, <2>2, <2>3 DEF Class, SameCountry
<1> QED
  BY <1>3, <1>4, <1>5

\* With fallbacks, a redirect goes to one of them if and only if no mirror is
\* usable.
THEOREM FallbacksServe == Spec => FallbackServes
<1> DEFINE A == pc = "send" /\ pc' = "done" /\ rep = "redirect"
                  /\ req.fallbacks # {} =>
       IF Usable(rows) = {}
       THEN /\ answer'.kind = "redirect"
            /\ answer'.target \subseteq req.fallbacks
            /\ \A f \in req.fallbacks, t \in answer'.target :
                 FallbackCountry[f] = req.client.country
                   => FallbackCountry[t] = req.client.country
       ELSE answer'.target \cap Fallback = {}
<1>1. RedirectInv /\ [Next]_vars => [A]_vars
  <2> SUFFICES ASSUME RedirectInv, Next, pc = "send", pc' = "done",
                      rep = "redirect", req.fallbacks # {}
               PROVE  IF Usable(rows) = {}
                      THEN /\ answer'.kind = "redirect"
                           /\ answer'.target \subseteq req.fallbacks
                           /\ \A f \in req.fallbacks, t \in answer'.target :
                                FallbackCountry[f] = req.client.country
                                  => FallbackCountry[t] = req.client.country
                      ELSE answer'.target \cap Fallback = {}
    OBVIOUS
  <2>1. SendRedirect
    BY DEF Next, Handler, World, Receive, Locate, Connect, ReadHashes,
       NoStatement, SelectFails, FindMirrors, ReadRowFails, ReadMoreHashes,
       SendMetalink, SendMirrorlist, SendNearest, SendYumlist, Sends, Finish,
       Publish, Remove, RecordHash, Metalinks
  <2>2. TypeOK /\ Judged
    BY DEF RedirectInv, AnswerInv, Unjudged
  <2>3. CASE Listed(classes) = {}
    <3>1. Usable(rows) # {}
      BY <2>2, <2>3, FallbackChosen
    <3>2. answer'.target = {}
      BY <2>1, <2>3, PlainFields DEF SendRedirect, Reply
    <3> QED
      BY <3>1, <3>2
  <2>4. CASE Listed(classes) # {}
    <3>1. PICK m \in Best(NearestClass(classes), rows, req.client),
               links \in FirstOf(LinkMax, classes) :
             Reply([kind |-> "redirect", target |-> {m}, named |-> links,
                    digest |-> bag.data])
      BY <2>1, <2>4 DEF SendRedirect
    <3>2. /\ answer'.kind = "redirect" /\ answer'.target = {m}
          /\ m \in NearestClass(classes)
      BY <3>1, BestIsOf DEF Reply
    <3>3. CASE Usable(rows) = {}
      BY <2>2, <3>2, <3>3, FallbackChosen
    <3>4. CASE Usable(rows) # {}
      <4>1. PICK k \in Class : m \in classes[k]
        BY <3>2 DEF NearestClass
      <4>2. m \in Mirror
        BY <2>2, <3>4, <4>1, Arguments, ClassMembers DEF Judged
      <4> QED
        BY <3>2, <3>4, <4>2, PlaceAssumption
    <3> QED
      BY <3>3, <3>4
  <2> QED
    BY <2>3, <2>4
<1> QED
  BY <1>1, RedirectInvariant, PTL DEF Spec, FallbackServes

=============================================================================
