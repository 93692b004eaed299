--------------------------- MODULE AutoindexProofs ---------------------------
(***************************************************************************)
(* Proofs about the directory index.                                       *)
(***************************************************************************)
EXTENDS Autoindex, FiniteSetTheorems, TLAPS

\* While the configuration is read, the scope and its next word are there.
ReadingInv ==
  pc = "config" => scope \in DOMAIN said /\ word \in 0..Len(said[scope].words)

TypeInv == TypeOK /\ ReadingInv

LEMMA Assumed ==
  /\ MaxChanges \in Nat
  /\ Queries \subseteq Seq(Argument)
  /\ Items \in [Name -> SUBSET Item]
  /\ Folders \subseteq [Name -> Item \cup {NoItem}]
  /\ Parent \notin Name
  /\ None \notin Pattern /\ None \notin Format
  /\ Pieces \in [Pattern -> Seq(Argument)]
BY IndexAssumption, Zenon

LEMMA ScopeHasType ==
  ASSUME NEW s \in Configs
  PROVE  /\ s \in Seq(Scope) /\ s # <<>>
         /\ \A i \in DOMAIN s :
              /\ s[i].words \in Seq(Word) /\ s[i].order \in Order \cup {None}
              /\ s[i].ignore \in SUBSET (Name \cup {Parent})
<1>1. s \in Seq(Scope) /\ s # <<>>
  BY IndexAssumption
<1>2. \A i \in DOMAIN s : s[i] \in Scope
  BY <1>1
<1> QED BY <1>1, <1>2 DEF Scope

LEMMA AddWordHasType ==
  ASSUME NEW c, NEW w \in Word,
         c \in [opts : SUBSET (Option \cup {"none"}), add : SUBSET Option,
                remove : SUBSET Option, order : {None}, ignore : {{}}]
  PROVE  AddWord(c, w) \in [opts : SUBSET (Option \cup {"none"}), add : SUBSET Option,
                            remove : SUBSET Option, order : {None}, ignore : {{}}]
<1>1. w.sign \in {"plain", "+", "-"} /\ w.option \in Option \cup {"none"}
  BY DEF Word
<1>2. CASE w.option = "none"
  BY <1>2 DEF AddWord
<1>3. CASE w.option # "none" /\ w.sign = "plain"
  BY <1>3, <1>1 DEF AddWord
<1>4. CASE w.option # "none" /\ w.sign = "+"
  BY <1>4, <1>1 DEF AddWord
<1>5. CASE w.option # "none" /\ w.sign = "-"
  BY <1>5, <1>1 DEF AddWord
<1> QED BY <1>1, <1>2, <1>3, <1>4, <1>5

LEMMA MergeHasType ==
  ASSUME NEW base \in Conf, NEW new \in Conf
  PROVE  Merge(base, new) \in Conf
BY DEF Merge, Conf

LEMMA IfHasType ==
  ASSUME NEW S, NEW part \in S, NEW b
  PROVE  If(b, part) \in Seq(S)
BY DEF If

LEMMA FirstViewHasType ==
  ASSUME TypeOK
  PROVE  FirstView \in View
<1>1. conf.order \in Order \cup {None} /\ conf.opts \in SUBSET (Option \cup {"none"})
  BY DEF TypeOK, Conf
<1>2. DefaultOrder \in Order
  BY DEF DefaultOrder, Order
<1>3. \A o \in Order : o.keyid \in {"N", "M", "S", "D"} /\ o.direction \in {"A", "D"}
  BY DEF Order
<1>4. "suppress_colsort" \in Option
  BY DEF Option
<1> QED BY <1>1, <1>2, <1>3, <1>4 DEF FirstView, View

LEMMA WithArgumentHasType ==
  ASSUME NEW vw \in View, NEW a \in Argument
  PROVE  WithArgument(vw, a) \in View
<1>1. /\ vw.opts \in SUBSET (Option \cup {"none"}) /\ {"fancy", "table", "version_sort"} \subseteq Option
      /\ DOMAIN vw = {"opts", "keyid", "direction", "pattern", "f", "v", "p"}
  BY DEF View, Option
<1>2. \A f \in Format : Formatted(vw.opts, f) \in SUBSET (Option \cup {"none"})
  BY <1>1 DEF Formatted, Format
<1>3. CASE a.key = "C"
  BY <1>3 DEF WithArgument, View, Argument
<1>4. CASE a.key = "O"
  BY <1>4 DEF WithArgument, View, Argument
<1>5. CASE a.key = "F"
  BY <1>5, <1>2 DEF WithArgument, View, Argument
<1>6. CASE a.key = "V"
  BY <1>6, <1>1 DEF WithArgument, View, Argument
<1>7. CASE a.key = "P" /\ a.value \in Pattern
  BY <1>7 DEF WithArgument, View
<1>8. CASE a.key \notin {"C", "O", "F", "V"} /\ ~(a.key = "P" /\ a.value \in Pattern)
  BY <1>8 DEF WithArgument, View
<1> QED BY <1>3, <1>4, <1>5, <1>6, <1>7, <1>8

LEMMA LinkHasType ==
  ASSUME TypeOK, NEW column \in {"N", "M", "S", "D"}
  PROVE  Link(column) \in Seq(Argument)
<1>1. view.f \in Format \cup {None} /\ view.v \in Flag \cup {None} /\ view.p \in Pattern \cup {None}
  BY DEF TypeOK, View
<1>2. /\ [key |-> "C", value |-> column] \in Argument
      /\ \A o \in {"A", "D"} : [key |-> "O", value |-> o] \in Argument
      /\ \A f \in Format : [key |-> "F", value |-> f] \in Argument
      /\ \A v \in Flag : [key |-> "V", value |-> v] \in Argument
  BY DEF Argument
<1>3. If(view.f # None, [key |-> "F", value |-> view.f]) \in Seq(Argument)
  BY <1>1, <1>2 DEF If
<1>4. If(view.v # None, [key |-> "V", value |-> view.v]) \in Seq(Argument)
  BY <1>1, <1>2 DEF If
<1>5. PatternArguments(view.p) \in Seq(Argument)
  BY <1>1, Assumed DEF PatternArguments
<1> DEFINE d == IF view.keyid = column /\ view.direction = "A" THEN "D" ELSE "A"
<1>6. <<[key |-> "C", value |-> column], [key |-> "O", value |-> d]>> \in Seq(Argument)
  <2>1. d \in {"A", "D"}
    OBVIOUS
  <2> HIDE DEF d
  <2> QED BY <1>2, <2>1
<1> QED BY <1>3, <1>4, <1>5, <1>6 DEF Link

Part == {"preamble", "header", "h1", "list", "readme", "signature", "postamble"}

LEMMA PartsHaveType ==
  ASSUME NEW outcome \in Outcome
  PROVE  HeadParts(outcome) \in Seq(Part) /\ TailParts(outcome) \in Seq(Part)
<1>1. \A b : \A part \in Part : If(b, part) \in Seq(Part)
  BY IfHasType
<1>2. {"preamble", "header", "h1", "readme", "signature", "postamble"} \subseteq Part
  BY DEF Part
<1> HIDE DEF Part
<1>3. HeadParts(outcome) \in Seq(Part)
  <2>1. /\ If(outcome \in {"html", "html_fails"} /\ ~Suppressed, "preamble") \in Seq(Part)
        /\ If(outcome = "text", "preamble") \in Seq(Part)
        /\ If(outcome \in {"html", "text"}, "header") \in Seq(Part)
        /\ If(outcome \in {"none", "text_fails"} \/ (outcome = "html_fails" /\ Suppressed),
              "preamble") \in Seq(Part)
        /\ If(outcome \notin {"html", "text"}, "h1") \in Seq(Part)
    BY <1>1, <1>2
  <2> QED BY <2>1 DEF HeadParts
<1>4. TailParts(outcome) \in Seq(Part)
  <2>1. /\ If(outcome \in {"html", "text"}, "readme") \in Seq(Part)
        /\ If(outcome \notin {"html", "text"}, "signature") \in Seq(Part)
        /\ If(~(outcome = "html" /\ Suppressed), "postamble") \in Seq(Part)
    BY <1>1, <1>2
  <2> QED BY <2>1 DEF TailParts
<1> QED BY <1>3, <1>4

LEMMA EntriesHaveType ==
  ASSUME TypeOK
  PROVE  /\ ParentEntry \in Ent
         /\ \A n \in Name, item \in Item : Entry(n, item) \in Ent
<1>1. ParentEntry \in Ent
  BY DEF ParentEntry, Ent
<1>2. ASSUME NEW n \in Name, NEW item \in Item
      PROVE  Entry(n, item) \in Ent
  <2>1. item.size \in Nat /\ item.time \in Nat /\ Desc[n] \in Nat
    BY IndexAssumption DEF Item
  <2>2. Columns \in BOOLEAN
    BY DEF Columns
  <2>3. CASE item.kind = "dir"
    <3>1. CASE Columns
      BY <2>1, <2>3, <3>1 DEF Entry, Ent
    <3>2. CASE ~Columns
      BY <2>1, <2>3, <3>2 DEF Entry, Ent
    <3> QED BY <3>1, <3>2
  <2>4. CASE item.kind # "dir"
    <3>1. CASE Columns
      BY <2>1, <2>4, <3>1 DEF Entry, Ent
    <3>2. CASE ~Columns
      BY <2>1, <2>4, <3>2 DEF Entry, Ent
    <3> QED BY <3>1, <3>2
  <2> QED BY <2>3, <2>4
<1> QED BY <1>1, <1>2

LEMMA TypeInit == Init => TypeInv
<1> SUFFICES ASSUME Init PROVE TypeInv
  OBVIOUS
<1>1. said \in Configs /\ said \in Seq(Scope) /\ said # <<>>
      /\ said[1].words \in Seq(Word)
  BY ScopeHasType DEF Init
<1>2. NewConf \in Conf /\ NewConf \in [opts : SUBSET (Option \cup {"none"}), add : SUBSET Option,
                 remove : SUBSET Option, order : {None}, ignore : {{}}]
  BY DEF NewConf, Conf
<1>3. view \in View
  BY DEF Init, View
<1>4. /\ folder \in [Name -> Item \cup {NoItem}]
      /\ was \in [Name -> SUBSET (Item \cup {NoItem})]
  <2>1. folder \in [Name -> Item \cup {NoItem}]
    BY Assumed DEF Init
  <2>2. was = [n \in Name |-> {folder[n]}]
    BY DEF Init
  <2> QED BY <2>1, <2>2
<1>5. files \in [header : Outcome, readme : Outcome] /\ out \in Seq(Part)
  BY DEF Init, Outcome
<1>6. changes \in 0..MaxChanges
  BY Assumed DEF Init
<1>7. list \in Seq(Ent) /\ page \in Seq(Ent) /\ query \in Seq(Argument)
  BY DEF Init
<1>8. ReadingInv
  BY <1>1 DEF Init, ReadingInv
<1>9. cut \in BOOLEAN /\ unread \subseteq Name /\ promised = None
  BY DEF Init
<1>10. TypeOK
  BY <1>1, <1>2, <1>3, <1>4, <1>5, <1>6, <1>7, <1>9 DEF Init, TypeOK, Part
<1> QED BY <1>8, <1>10 DEF TypeInv

LEMMA TypeBegin ==
  ASSUME TypeOK, NEW q \in Seq(Argument), Begin(q),
         promised' = None \/ promised' \in
           [keyid : {"N", "M", "S", "D"}, direction : {"A", "D"},
            opts : SUBSET (Option \cup {"none"}), pattern : Pattern \cup {None}]
  PROVE  TypeInv'
<1>1. view' \in View
  BY FirstViewHasType DEF Begin
<1>2. was' \in [Name -> SUBSET (Item \cup {NoItem})]
  <2>1. was' = [n \in Name |-> {folder[n]}]
    BY DEF Begin
  <2>2. folder \in [Name -> Item \cup {NoItem}]
    BY DEF TypeOK
  <2> QED BY <2>1, <2>2
<1>3. files' \in [header : Outcome, readme : Outcome]
  BY DEF Begin, Outcome
<1>4. list' \in Seq(Ent) /\ page' \in Seq(Ent) /\ out' \in Seq(Part)
  BY DEF Begin
<1>5. pc' \in {"arguments", "head"} /\ arg' \in 0..Len(q) /\ query' = q
  BY DEF Begin
<1> QED BY <1>1, <1>2, <1>3, <1>4, <1>5 DEF Begin, config, TypeInv, TypeOK, ReadingInv, Part

LEMMA TypeStep == TypeInv /\ [Next]_vars => TypeInv'
<1> SUFFICES ASSUME TypeInv, [Next]_vars PROVE TypeInv'
  OBVIOUS
<1> USE DEF TypeInv
<1>1. CASE ReadWord
  <2> DEFINE w == said[scope].words[word + 1]
  <2>0. /\ said \in Configs /\ scope \in DOMAIN said /\ word \in Nat
        /\ word < Len(said[scope].words)
    BY <1>1 DEF ReadWord, TypeOK, ReadingInv
  <2>a. said[scope].words \in Seq(Word)
    BY <2>0, ScopeHasType
  <2>1. w \in Word
    <3> DEFINE words == said[scope].words
    <3>1. words \in Seq(Word) /\ word + 1 \in 1..Len(words)
      BY <2>0, <2>a
    <3> HIDE DEF words
    <3>2. words[word + 1] \in Word
      BY <3>1
    <3> QED BY <3>2 DEF words
  <2>2. AddWord(record, w) \in [opts : SUBSET (Option \cup {"none"}), add : SUBSET Option,
                 remove : SUBSET Option, order : {None}, ignore : {{}}]
    BY <2>1, AddWordHasType DEF TypeOK
  <2>3. record' \in [opts : SUBSET (Option \cup {"none"}), add : SUBSET Option,
                 remove : SUBSET Option, order : {None}, ignore : {{}}]
        /\ pc' \in {"config", "refused"}
    BY <1>1, <2>2 DEF ReadWord, Refuse, TypeOK
  <2>4. ReadingInv'
    <3>1. said' = said /\ scope' = scope /\ word' = word + 1
      BY <1>1 DEF ReadWord
    <3>2. Len(said[scope].words) \in Nat
      BY <2>a
    <3> QED BY <2>0, <3>1, <3>2 DEF ReadingInv
  <2>5. UNCHANGED <<said, scope, conf, request, reading, document, disk>> /\ word' = word + 1
    BY <1>1 DEF ReadWord
  <2>6. word' \in Nat
    BY <2>0, <2>5
  <2> QED BY <2>3, <2>4, <2>5, <2>6 DEF TypeOK, request, reading, document, disk
<1>2. CASE EndScope
  <2>1. CASE "none" \in record.opts /\ record.opts # {"none"}
    BY <1>2, <2>1 DEF EndScope, Refuse, TypeOK, ReadingInv, request, reading, document, disk
  <2>2. CASE ~("none" \in record.opts /\ record.opts # {"none"})
    <3> DEFINE new == [record EXCEPT !.order = said[scope].order,
                                     !.ignore = said[scope].ignore]
    <3>1. new \in Conf
      BY <1>2, ScopeHasType DEF EndScope, TypeOK, ReadingInv, Conf
    <3>2. conf' \in Conf
      BY <1>2, <2>2, <3>1, MergeHasType DEF EndScope, TypeOK
    <3>3. record' \in [opts : SUBSET (Option \cup {"none"}), add : SUBSET Option,
                   remove : SUBSET Option, order : {None}, ignore : {{}}]
      BY <1>2, <2>2 DEF EndScope, NewConf
    <3>4. pc' \in {"config", "idle"} /\ scope' \in Nat /\ word' = 0
      BY <1>2, <2>2 DEF EndScope, TypeOK
    <3>5. ReadingInv'
      BY <1>2, <2>2, ScopeHasType DEF EndScope, TypeOK, ReadingInv
    <3> QED BY <1>2, <3>2, <3>3, <3>4, <3>5
            DEF EndScope, TypeOK, request, reading, document, disk
  <2> QED BY <2>1, <2>2
<1>3. CASE Reconfigure
  <2>1. said' \in Configs /\ said' \in Seq(Scope) /\ said' # <<>>
        /\ said'[1].words \in Seq(Word)
    BY <1>3, ScopeHasType DEF Reconfigure
  <2>2. record' \in [opts : SUBSET (Option \cup {"none"}), add : SUBSET Option,
                 remove : SUBSET Option, order : {None}, ignore : {{}}]
        /\ conf' \in Conf
    BY <1>3 DEF Reconfigure, NewConf, Conf
  <2>3. ReadingInv'
    BY <1>3, <2>1 DEF Reconfigure, ReadingInv
  <2> QED BY <1>3, <2>1, <2>2, <2>3
          DEF Reconfigure, TypeOK, request, reading, document, disk
<1>4. CASE Receive
  BY <1>4, TypeBegin, Assumed DEF Receive
<1>5. CASE ParseArgument
  <2>1. CASE query[arg + 1].key = "junk"
    BY <1>5, <2>1 DEF ParseArgument, TypeOK, ReadingInv, config, reading, document, disk
  <2>2. CASE query[arg + 1].key # "junk"
    <3>1. query[arg + 1] \in Argument
      BY <1>5 DEF ParseArgument, TypeOK
    <3>2. view' \in View /\ arg' \in 0..Len(query)
      BY <1>5, <2>2, <3>1, WithArgumentHasType DEF ParseArgument, TypeOK
    <3> QED BY <1>5, <3>2 DEF ParseArgument, TypeOK, ReadingInv, config, reading, document, disk
  <2> QED BY <2>1, <2>2
<1>6. CASE EndArguments
  BY <1>6 DEF EndArguments, TypeOK, ReadingInv, config, request, reading, document, disk
<1>7. CASE EmitHead
  <2>1. PICK outcome \in Outcome :
          out' = HeadParts(outcome) /\ files' = [files EXCEPT !.header = outcome]
    BY <1>7 DEF EmitHead
  <2>2. out' \in Seq(Part) /\ files' \in [header : Outcome, readme : Outcome]
    BY <2>1, PartsHaveType DEF TypeOK
  <2> QED BY <1>7, <2>2 DEF EmitHead, TypeOK, ReadingInv, config, request, reading, disk, Part
<1>8. CASE AddParent
  <2>1. list' \in Seq(Ent)
    BY <1>8, EntriesHaveType DEF AddParent
  <2> QED BY <1>8, <2>1 DEF AddParent, TypeOK, ReadingInv, config, request, document, disk
<1>9. ASSUME NEW n \in Name, ReadEntry(n) PROVE TypeInv'
  <2>1. list' \in Seq(Ent)
    <3>1. folder[n] \in Item
      BY <1>9 DEF ReadEntry, TypeOK
    <3>2. Entry(n, folder[n]) \in Ent
      BY <3>1, EntriesHaveType
    <3> QED BY <1>9, <3>2 DEF ReadEntry, TypeOK
  <2>2. unread' \subseteq Name
    BY <1>9 DEF ReadEntry, AfterEntry, TypeOK
  <2> QED BY <1>9, <2>1, <2>2 DEF ReadEntry, TypeOK, ReadingInv, config, request, document, disk
<1>10. CASE EndRead
  BY <1>10 DEF EndRead, TypeOK, ReadingInv, config, request, document, disk
<1>11. CASE Sort
  <2>1. PICK p \in [DOMAIN list -> DOMAIN list] : page' = [i \in DOMAIN list |-> list[p[i]]]
    BY <1>11 DEF Sort
  <2>2. page' \in Seq(Ent)
    <3>1. list \in Seq(Ent) /\ DOMAIN list = 1..Len(list) /\ Len(list) \in Nat
      BY DEF TypeOK
    <3>2. \A i \in DOMAIN list : list[p[i]] \in Ent
      BY <3>1
    <3> QED BY <2>1, <3>1, <3>2
  <2>3. out' \in Seq(Part)
    BY <1>11 DEF Sort, TypeOK, Part
  <2> QED BY <1>11, <2>2, <2>3 DEF Sort, TypeOK, ReadingInv, config, request, disk, Part
<1>12. CASE EmitTail
  <2>1. PICK outcome \in Outcome :
          out' = out \o TailParts(outcome) /\ files' = [files EXCEPT !.readme = outcome]
    BY <1>12 DEF EmitTail
  <2>2. out \in Seq(Part) /\ TailParts(outcome) \in Seq(Part)
    BY PartsHaveType DEF TypeOK, Part
  <2>3. out' \in Seq(Part)
    BY <2>1, <2>2
  <2>4. files' \in [header : Outcome, readme : Outcome]
    BY <2>1 DEF TypeOK
  <2> QED BY <1>12, <2>4, <2>3 DEF EmitTail, TypeOK, ReadingInv, config, request, reading, disk, Part
<1>13. ASSUME NEW column \in {"N", "M", "S", "D"}, Click(column) PROVE TypeInv'
  <2>1. Link(column) \in Seq(Argument)
    BY LinkHasType
  <2>2. view \in View
    BY DEF TypeOK
  <2>3. promised' = None \/ promised' \in
           [keyid : {"N", "M", "S", "D"}, direction : {"A", "D"},
            opts : SUBSET (Option \cup {"none"}), pattern : Pattern \cup {None}]
    BY <1>13, <2>2 DEF Click, Promise, View
  <2> QED BY <1>13, <2>1, <2>3, TypeBegin DEF Click
<1>14. ASSUME NEW n \in Name, Change(n) PROVE TypeInv'
  <2>1. PICK item \in (Items[n] \cup {NoItem}) \ {folder[n]} :
          /\ folder' = [folder EXCEPT ![n] = item]
          /\ was' = [was EXCEPT ![n] = @ \cup {item}]
          /\ unread' \in IF item = NoItem THEN {unread} ELSE {unread, unread \cup {n}}
    BY <1>14 DEF Change
  <2>2. item \in Item \cup {NoItem}
    BY Assumed
  <2>3. /\ folder' \in [Name -> Item \cup {NoItem}]
        /\ was' \in [Name -> SUBSET (Item \cup {NoItem})]
        /\ unread' \subseteq Name
    <3>1. was \in [Name -> SUBSET (Item \cup {NoItem})]
      BY DEF TypeOK
    <3>2. was[n] \cup {item} \in SUBSET (Item \cup {NoItem})
      BY <2>2, <3>1
    <3> QED BY <2>1, <2>2, <3>1, <3>2 DEF TypeOK
  <2>4. changes' \in 0..MaxChanges
    BY <1>14, Assumed DEF Change, TypeOK
  <2> QED BY <1>14, <2>3, <2>4 DEF Change, TypeOK, ReadingInv, config, request, document
<1>15. CASE UNCHANGED vars
  BY <1>15 DEF vars, config, request, reading, document, disk, TypeOK, ReadingInv
<1> QED BY <1>1, <1>2, <1>3, <1>4, <1>5, <1>6, <1>7, <1>8, <1>9, <1>10, <1>11, <1>12,
           <1>13, <1>14, <1>15 DEF Next

\* Every variable of Autoindex keeps its type, whatever is configured, asked
\* for and changed.
THEOREM IndexTypeCorrect == Spec => []TypeOK
<1>1. TypeInv => TypeOK
  BY DEF TypeInv
<1> QED BY <1>1, TypeInit, TypeStep, PTL DEF Spec

-----------------------------------------------------------------------------
(* The links at the head of the columns.                                   *)

\* Options as F= and V= change them.
Shaped(opts, f, v) ==
  LET formatted == IF f = None THEN opts ELSE Formatted(opts, f)
  IN IF v = None THEN formatted
     ELSE IF v = "1" THEN formatted \cup {"version_sort"}
     ELSE formatted \ {"version_sort"}

Answering == {"arguments", "head", "parent", "read", "sort", "tail", "sent"}

\* What the links repeat is what was asked for.
ViewInv == pc \in Answering => view.opts = Shaped(FirstView.opts, view.f, view.v)

Width(x) == IF x = None THEN 0 ELSE 1
LinkOf(column, direction, f, v, p) ==
  <<[key |-> "C", value |-> column], [key |-> "O", value |-> direction]>>
  \o If(f # None, [key |-> "F", value |-> f])
  \o If(v # None, [key |-> "V", value |-> v])
  \o If(p # None, [key |-> "P", value |-> p])

\* How far the arguments of a link are read.
LinkRead(column, direction, f, v, p) ==
  /\ query = LinkOf(column, direction, f, v, p)
  /\ promised = [keyid |-> column, direction |-> direction,
                 opts |-> Shaped(FirstView.opts, f, v), pattern |-> p]
  /\ arg >= 1 => view.keyid = column
  /\ arg >= 2 => view.direction = direction
  /\ view.f = IF arg >= 2 + Width(f) THEN f ELSE None
  /\ view.v = IF arg >= 2 + Width(f) + Width(v) THEN v ELSE None
  /\ view.p = IF arg >= 2 + Width(f) + Width(v) + Width(p) THEN p ELSE None
  /\ view.pattern = view.p

PromiseInv ==
  promised # None /\ pc = "arguments" =>
    \E column \in {"N", "M", "S", "D"}, direction \in {"A", "D"},
       f \in Format \cup {None}, v \in Flag \cup {None}, p \in Pattern \cup {None} :
         LinkRead(column, direction, f, v, p)

LinksInv == TypeInv /\ ViewInv /\ PromiseInv /\ LinksKeepTheView

\* The arguments of a link, by their places.
LEMMA LinkPlaces ==
  ASSUME NEW column, NEW direction, NEW f, NEW v, NEW p
  PROVE  LET q == LinkOf(column, direction, f, v, p)
         IN /\ Len(q) = 2 + Width(f) + Width(v) + Width(p)
            /\ q[1] = [key |-> "C", value |-> column]
            /\ q[2] = [key |-> "O", value |-> direction]
            /\ f # None => q[3] = [key |-> "F", value |-> f]
            /\ v # None => q[3 + Width(f)] = [key |-> "V", value |-> v]
            /\ p # None => q[3 + Width(f) + Width(v)] = [key |-> "P", value |-> p]
<1> DEFINE C == [key |-> "C", value |-> column]
           O == [key |-> "O", value |-> direction]
           F == [key |-> "F", value |-> f]
           V == [key |-> "V", value |-> v]
           P == [key |-> "P", value |-> p]
<1> HIDE DEF C, O, F, V, P
<1>1. LinkOf(column, direction, f, v, p)
        = <<C, O>> \o If(f # None, F) \o If(v # None, V) \o If(p # None, P)
  BY DEF LinkOf, C, O, F, V, P
<1>2. CASE f = None
  <2>1. CASE v = None
    BY <1>1, <1>2, <2>1 DEF If, Width, C, O, F, V, P
  <2>2. CASE v # None
    BY <1>1, <1>2, <2>2 DEF If, Width, C, O, F, V, P
  <2> QED BY <2>1, <2>2
<1>3. CASE f # None
  <2>1. CASE v = None
    BY <1>1, <1>3, <2>1 DEF If, Width, C, O, F, V, P
  <2>2. CASE v # None
    BY <1>1, <1>3, <2>2 DEF If, Width, C, O, F, V, P
  <2> QED BY <2>1, <2>2
<1> QED BY <1>2, <1>3

\* A column link is made only where the client is listened to.
LEMMA ClickListens ==
  ASSUME TypeOK, ViewInv, NEW column \in {"N", "M", "S", "D"}, Click(column)
  PROVE  "ignore_client" \notin conf.opts
<1>1. view.opts = Shaped(FirstView.opts, view.f, view.v)
  BY DEF ViewInv, Click, Answering
<1>2. \A opts, f, v : "suppress_colsort" \in opts => "suppress_colsort" \in Shaped(opts, f, v)
  BY DEF Shaped, Formatted
<1>3. "suppress_colsort" \notin FirstView.opts
  BY <1>1, <1>2 DEF Click
<1> QED BY <1>3 DEF FirstView

LEMMA ViewParsed ==
  ASSUME TypeOK, ViewInv, ParseArgument
  PROVE  ViewInv'
<1>1. CASE query[arg + 1].key = "junk"
  BY <1>1 DEF ParseArgument, ViewInv, FirstView, config, DefaultOrder
<1>2. CASE query[arg + 1].key # "junk"
  <2> DEFINE a == query[arg + 1]
  <2>1. a \in Argument /\ view \in View /\ view' = WithArgument(view, a) /\ UNCHANGED config
    BY <1>2 DEF ParseArgument, TypeOK
  <2>2. view.opts = Shaped(FirstView.opts, view.f, view.v)
    BY DEF ViewInv, ParseArgument, Answering
  <2>3. FirstView.opts' = FirstView.opts
    BY <2>1 DEF FirstView, DefaultOrder, config
  <2> HIDE DEF a
  <2>4. view'.opts = Shaped(FirstView.opts, view'.f, view'.v)
    <3>1. CASE a.key = "F"
      <4>1. a.value # None
        BY <2>1, <3>1, Assumed DEF Argument
      <4>2. a.value \in Format /\ view'.f = a.value /\ view'.v = view.v
            /\ view'.opts = Formatted(view.opts, a.value)
        BY <2>1, <3>1 DEF WithArgument, View, Argument
      <4>3. \A opts : \A f \in Format : Formatted(Formatted(opts, f), a.value) = Formatted(opts, a.value)
        BY <4>2 DEF Formatted, Format
      <4>4. \A opts : /\ Formatted(opts \cup {"version_sort"}, a.value)
                          = Formatted(opts, a.value) \cup {"version_sort"}
                      /\ Formatted(opts \ {"version_sort"}, a.value)
                          = Formatted(opts, a.value) \ {"version_sort"}
        BY <4>2 DEF Formatted, Format
      <4>5. view.f \in Format \cup {None}
        BY <2>1 DEF View
      <4> DEFINE O == FirstView.opts
                 base == IF view.f = None THEN O ELSE Formatted(O, view.f)
      <4>6. Formatted(base, a.value) = Formatted(O, a.value)
        BY <4>3, <4>5
      <4>7. view.opts = IF view.v = None THEN base
                        ELSE IF view.v = "1" THEN base \cup {"version_sort"}
                        ELSE base \ {"version_sort"}
        BY <2>2 DEF Shaped
      <4>8. Shaped(O, view'.f, view'.v)
              = IF view.v = None THEN Formatted(O, a.value)
                ELSE IF view.v = "1" THEN Formatted(O, a.value) \cup {"version_sort"}
                ELSE Formatted(O, a.value) \ {"version_sort"}
        BY <4>1, <4>2 DEF Shaped
      <4> HIDE DEF base, O
      <4>9. view'.opts = Shaped(O, view'.f, view'.v)
        BY <4>2, <4>4, <4>6, <4>7, <4>8, Zenon
      <4> QED BY <4>9 DEF O
    <3>2. CASE a.key = "V"
      <4>1. a.value # None
        BY <2>1, <3>2, Assumed DEF Argument, Flag, Format
      <4> DEFINE O == FirstView.opts
                 base == IF view.f = None THEN O ELSE Formatted(O, view.f)
      <4>2. /\ view'.f = view.f /\ view'.v = a.value
            /\ view'.opts = IF a.value = "1" THEN view.opts \cup {"version_sort"}
                           ELSE view.opts \ {"version_sort"}
        BY <2>1, <3>2 DEF WithArgument, View
      <4>3. view.opts \in {base, base \cup {"version_sort"}, base \ {"version_sort"}}
        BY <2>2 DEF Shaped
      <4>4. Shaped(O, view'.f, view'.v)
              = IF a.value = "1" THEN base \cup {"version_sort"}
                ELSE base \ {"version_sort"}
        BY <4>1, <4>2 DEF Shaped
      <4> HIDE DEF base
      <4>5. view'.opts = IF a.value = "1" THEN base \cup {"version_sort"}
                         ELSE base \ {"version_sort"}
        BY <4>2, <4>3
      <4> QED BY <4>4, <4>5
    <3>3. CASE a.key \notin {"F", "V"}
      BY <2>1, <2>2, <3>3 DEF WithArgument, View
    <3> QED BY <3>1, <3>2, <3>3
  <2> QED BY <2>3, <2>4 DEF ViewInv
<1> QED BY <1>1, <1>2

LEMMA LinkLength ==
  ASSUME NEW column, NEW direction, NEW f, NEW v, NEW p,
         LinkRead(column, direction, f, v, p)
  PROVE  Len(query) = 2 + Width(f) + Width(v) + Width(p)
<1>1. /\ Len(query) = 2 + Width(f) + Width(v) + Width(p)
      /\ query[1] = [key |-> "C", value |-> column]
      /\ query[2] = [key |-> "O", value |-> direction]
      /\ f # None => query[3] = [key |-> "F", value |-> f]
      /\ v # None => query[3 + Width(f)] = [key |-> "V", value |-> v]
      /\ p # None => query[3 + Width(f) + Width(v)] = [key |-> "P", value |-> p]
  BY LinkPlaces DEF LinkRead
<1> QED BY <1>1

LEMMA LinkParsed ==
  ASSUME TypeOK, ParseArgument,
         NEW column \in {"N", "M", "S", "D"}, NEW direction \in {"A", "D"},
         NEW f \in Format \cup {None}, NEW v \in Flag \cup {None},
         NEW p \in Pattern \cup {None}, LinkRead(column, direction, f, v, p)
  PROVE  LinkRead(column, direction, f, v, p)'
<1> DEFINE a == query[arg + 1]
<1>1. /\ Len(query) = 2 + Width(f) + Width(v) + Width(p)
      /\ query[1] = [key |-> "C", value |-> column]
      /\ query[2] = [key |-> "O", value |-> direction]
      /\ f # None => query[3] = [key |-> "F", value |-> f]
      /\ v # None => query[3 + Width(f)] = [key |-> "V", value |-> v]
      /\ p # None => query[3 + Width(f) + Width(v)] = [key |-> "P", value |-> p]
  BY LinkPlaces DEF LinkRead
<1>2. arg \in Nat /\ arg < Len(query) /\ view \in View
  BY DEF ParseArgument, TypeOK
<1>3. Width(f) \in {0, 1} /\ Width(v) \in {0, 1} /\ Width(p) \in {0, 1}
  BY DEF Width
<1>4. a.key # "junk"
  <2>1. CASE arg = 0
    BY <1>1, <2>1
  <2>2. CASE arg = 1
    BY <1>1, <2>2
  <2>3. CASE arg >= 2 /\ arg < 2 + Width(f)
    <3>1. arg = 2 /\ f # None
      BY <1>2, <1>3, <2>3 DEF Width
    <3> QED BY <1>1, <3>1
  <2>4. CASE arg >= 2 + Width(f) /\ arg < 2 + Width(f) + Width(v)
    <3>1. arg = 2 + Width(f) /\ v # None
      BY <1>2, <1>3, <2>4 DEF Width
    <3>2. arg + 1 = 3 + Width(f)
      BY <1>2, <1>3, <3>1
    <3> QED BY <1>1, <3>1, <3>2
  <2>5. CASE arg >= 2 + Width(f) + Width(v)
    <3>1. arg = 2 + Width(f) + Width(v) /\ p # None
      BY <1>1, <1>2, <1>3, <2>5 DEF Width
    <3>2. arg + 1 = 3 + Width(f) + Width(v)
      BY <1>2, <1>3, <3>1
    <3> QED BY <1>1, <3>1, <3>2
  <2> QED BY <1>2, <1>3, <2>1, <2>2, <2>3, <2>4, <2>5
<1>5. /\ arg' = arg + 1 /\ view' = WithArgument(view, a)
      /\ query' = query /\ promised' = promised /\ conf' = conf
  BY <1>4 DEF ParseArgument, config
<1>6. FirstView' = FirstView
  BY <1>5 DEF FirstView, DefaultOrder
<1> DEFINE Read(n, vw) ==
      /\ n >= 1 => vw.keyid = column
      /\ n >= 2 => vw.direction = direction
      /\ vw.f = IF n >= 2 + Width(f) THEN f ELSE None
      /\ vw.v = IF n >= 2 + Width(f) + Width(v) THEN v ELSE None
      /\ vw.p = IF n >= 2 + Width(f) + Width(v) + Width(p) THEN p ELSE None
      /\ vw.pattern = vw.p
<1>7. Read(arg, view)
  BY DEF LinkRead
<1>8. Read(arg + 1, WithArgument(view, a))
  <2>1. CASE arg = 0
    <3>1. WithArgument(view, a) = [view EXCEPT !.keyid = column]
      BY <1>1, <2>1 DEF WithArgument
    <3> QED BY <1>2, <1>3, <1>7, <2>1, <3>1 DEF View
  <2>2. CASE arg = 1
    <3>1. WithArgument(view, a) = [view EXCEPT !.direction = direction]
      BY <1>1, <2>2 DEF WithArgument
    <3> QED BY <1>2, <1>3, <1>7, <2>2, <3>1 DEF View, Width
  <2>3. CASE arg >= 2 /\ arg < 2 + Width(f)
    <3>1. arg = 2 /\ f # None /\ Width(f) = 1
      BY <1>2, <1>3, <2>3 DEF Width
    <3>3. a = [key |-> "F", value |-> f]
      BY <1>1, <3>1
    <3> HIDE DEF a
    <3>4. a.key = "F" /\ a.value = f
      BY <3>3
    <3>2. WithArgument(view, a) = [view EXCEPT !.opts = Formatted(@, f), !.f = f]
      BY <3>4 DEF WithArgument
    <3> QED BY <1>2, <1>3, <1>7, <3>1, <3>2 DEF View, Width
  <2>4. CASE arg >= 2 + Width(f) /\ arg < 2 + Width(f) + Width(v)
    <3>1. arg = 2 + Width(f) /\ v # None /\ Width(v) = 1
      BY <1>2, <1>3, <2>4 DEF Width
    <3>2. arg + 1 = 3 + Width(f)
      BY <1>2, <1>3, <3>1
    <3>3. a = [key |-> "V", value |-> v]
      BY <1>1, <3>1, <3>2
    <3> HIDE DEF a
    <3>5. a.key = "V" /\ a.value = v
      BY <3>3
    <3>6. WithArgument(view, a)
            = [view EXCEPT !.opts = IF v = "1" THEN @ \cup {"version_sort"}
                                    ELSE @ \ {"version_sort"}, !.v = v]
      BY <3>5 DEF WithArgument
    <3>4. /\ WithArgument(view, a).v = v
          /\ WithArgument(view, a).keyid = view.keyid
          /\ WithArgument(view, a).direction = view.direction
          /\ WithArgument(view, a).f = view.f
          /\ WithArgument(view, a).p = view.p
          /\ WithArgument(view, a).pattern = view.pattern
      BY <1>2, <3>6 DEF View
    <3> QED BY <1>2, <1>3, <1>7, <3>1, <3>2, <3>4 DEF Width
  <2>5. CASE arg >= 2 + Width(f) + Width(v)
    <3>1. arg = 2 + Width(f) + Width(v) /\ p # None /\ Width(p) = 1
      BY <1>1, <1>2, <1>3, <2>5 DEF Width
    <3>2. arg + 1 = 3 + Width(f) + Width(v)
      BY <1>2, <1>3, <3>1
    <3>3. a = [key |-> "P", value |-> p]
      BY <1>1, <3>1, <3>2
    <3>4. WithArgument(view, a) = [view EXCEPT !.pattern = p, !.p = p]
      BY <3>1, <3>3 DEF WithArgument
    <3> QED BY <1>2, <1>3, <1>7, <3>1, <3>2, <3>4 DEF View, Width
  <2> QED BY <1>2, <1>3, <2>1, <2>2, <2>3, <2>4, <2>5
<1> QED BY <1>5, <1>6, <1>8 DEF LinkRead

LEMMA LinkBegun ==
  ASSUME TypeOK, ViewInv, NEW column \in {"N", "M", "S", "D"}, Click(column)
  PROVE  PromiseInv' /\ pc' = "arguments"
<1>1. pc' = "arguments"
  BY ClickListens DEF Click, Begin
<1>2. CASE view.p # view.pattern \/ ~Whole(view.p)
  BY <1>1, <1>2 DEF Click, Promise, PromiseInv
<1>3. CASE view.p = view.pattern /\ Whole(view.p)
  <2> DEFINE direction == IF view.keyid = column /\ view.direction = "A" THEN "D" ELSE "A"
  <2>1. /\ view.opts = Shaped(FirstView.opts, view.f, view.v)
        /\ view.f \in Format \cup {None} /\ view.v \in Flag \cup {None}
        /\ view.p \in Pattern \cup {None}
    BY DEF TypeOK, View, ViewInv, Click, Answering
  <2>2. FirstView' = FirstView
    BY DEF Click, Begin, FirstView, DefaultOrder, config
  <2>3. /\ view' = FirstView /\ arg' = 0
        /\ query' = LinkOf(column, direction, view.f, view.v, view.p)
    <3>1. PatternArguments(view.p) = If(view.p # None, [key |-> "P", value |-> view.p])
      BY <1>3 DEF PatternArguments, Whole, If
    <3> QED BY <3>1 DEF Click, Begin, Link, LinkOf
  <2>4. promised' = [keyid |-> column, direction |-> direction,
                     opts |-> Shaped(FirstView.opts, view.f, view.v), pattern |-> view.p]
    BY <1>3, <2>1 DEF Click, Promise
  <2>5. FirstView.f = None /\ FirstView.v = None /\ FirstView.p = None
        /\ FirstView.pattern = None
    BY DEF FirstView
  <2>6. direction \in {"A", "D"}
    OBVIOUS
  <2> HIDE DEF direction
  <2>7. PICK d \in {"A", "D"}, f \in Format \cup {None}, v \in Flag \cup {None},
             p \in Pattern \cup {None} :
          d = direction /\ f = view.f /\ v = view.v /\ p = view.p
    BY <2>1, <2>6, Zenon
  <2>8. /\ query' = LinkOf(column, d, f, v, p)
        /\ promised' = [keyid |-> column, direction |-> d,
                        opts |-> Shaped(FirstView.opts, f, v), pattern |-> p]
    BY <2>3, <2>4, <2>7
  <2>9. /\ 0 < 2 + Width(f) /\ 0 < 2 + Width(f) + Width(v)
        /\ 0 < 2 + Width(f) + Width(v) + Width(p)
    BY DEF Width
  <2>10. LinkRead(column, d, f, v, p)'
    <3>1. /\ LinkOf(column, d, f, v, p)' = LinkOf(column, d, f, v, p)
          /\ Width(f)' = Width(f) /\ Width(v)' = Width(v) /\ Width(p)' = Width(p)
      BY DEF LinkOf, If, Width
    <3>2. Shaped(FirstView.opts, f, v)' = Shaped(FirstView.opts, f, v)
      BY <2>2 DEF Shaped, Formatted
    <3>3. /\ view'.f = None /\ view'.v = None /\ view'.p = None /\ view'.pattern = None
          /\ ~(arg' >= 2 + Width(f)) /\ ~(arg' >= 2 + Width(f) + Width(v))
          /\ ~(arg' >= 2 + Width(f) + Width(v) + Width(p))
          /\ ~(arg' >= 1) /\ ~(arg' >= 2)
      BY <2>3, <2>5, <2>9 DEF Width
    <3> QED BY <2>8, <3>1, <3>2, <3>3 DEF LinkRead
  <2> QED BY <1>1, <2>10 DEF PromiseInv
<1> QED BY <1>1, <1>2, <1>3

\* Nothing else touches what is asked for.
LEMMA LinksAside ==
  ASSUME ViewInv, PromiseInv, LinksKeepTheView,
         UNCHANGED <<conf, request>>,
         \/ pc' = pc
         \/ pc # "arguments" /\ pc' # "arguments" /\ (pc' \in Answering => pc \in Answering)
  PROVE  ViewInv' /\ PromiseInv' /\ LinksKeepTheView'
<1>1. FirstView' = FirstView
  BY DEF FirstView, DefaultOrder
<1>2. ViewInv'
  <2>1. Shaped(FirstView.opts, view.f, view.v)' = Shaped(FirstView.opts, view.f, view.v)
    BY <1>1 DEF Shaped, Formatted, request
  <2>2. pc' \in Answering => pc \in Answering
    BY DEF Answering
  <2>3. view' = view
    BY DEF request
  <2> QED BY <2>1, <2>2, <2>3 DEF ViewInv, Answering
<1>3. PromiseInv'
  <2>1. CASE pc' = "arguments" /\ pc = "arguments" /\ promised # None
    <3>1. PICK column \in {"N", "M", "S", "D"}, direction \in {"A", "D"},
               f \in Format \cup {None}, v \in Flag \cup {None}, p \in Pattern \cup {None} :
            LinkRead(column, direction, f, v, p)
      BY <2>1 DEF PromiseInv
    <3>2. /\ LinkOf(column, direction, f, v, p)' = LinkOf(column, direction, f, v, p)
          /\ Width(f)' = Width(f) /\ Width(v)' = Width(v) /\ Width(p)' = Width(p)
          /\ Shaped(FirstView.opts, f, v)' = Shaped(FirstView.opts, f, v)
      BY <1>1 DEF LinkOf, If, Width, Shaped, Formatted
    <3>3. LinkRead(column, direction, f, v, p)'
      BY <3>1, <3>2 DEF LinkRead, request
    <3> QED BY <3>3 DEF PromiseInv
  <2>2. CASE ~(pc' = "arguments" /\ pc = "arguments" /\ promised # None)
    <3>1. promised' = promised
      BY DEF request
    <3> QED BY <2>2, <3>1 DEF PromiseInv
  <2> QED BY <2>1, <2>2
<1>4. LinksKeepTheView'
  <2>1. view' = view /\ promised' = promised
    BY DEF request
  <2>2. pc' \in {"head", "parent", "read", "sort", "tail", "sent"}
          => pc \in {"head", "parent", "read", "sort", "tail", "sent"}
    BY DEF Answering
  <2> QED BY <2>1, <2>2 DEF LinksKeepTheView
<1> QED BY <1>2, <1>3, <1>4

LEMMA LinksStep == LinksInv /\ [Next]_vars => LinksInv'
<1> SUFFICES ASSUME LinksInv, [Next]_vars PROVE ViewInv' /\ PromiseInv' /\ LinksKeepTheView'
  BY TypeStep DEF LinksInv
<1>0. TypeOK /\ ViewInv /\ PromiseInv /\ LinksKeepTheView
  BY DEF LinksInv, TypeInv
<1>1. CASE ReadWord
  <2>1. pc = "config" /\ pc' \in {"config", "refused"} /\ UNCHANGED <<conf, request>>
    BY <1>1 DEF ReadWord, Refuse
  <2> QED BY <1>0, <2>1, LinksAside DEF Answering
<1>2. CASE EndScope
  <2>1. pc' \in {"config", "refused", "idle"}
    BY <1>2 DEF EndScope, Refuse
  <2> QED BY <2>1 DEF ViewInv, PromiseInv, LinksKeepTheView, Answering
<1>3. CASE Reconfigure
  BY <1>3 DEF Reconfigure, ViewInv, PromiseInv, LinksKeepTheView, Answering
<1>4. ASSUME NEW q, Begin(q) PROVE ViewInv' /\ pc' \in {"arguments", "head"}
  <2>1. FirstView' = FirstView /\ view' = FirstView
    BY <1>4 DEF Begin, config, FirstView, DefaultOrder
  <2>2. Shaped(FirstView.opts, view.f, view.v)' = FirstView.opts
    <3>1. view'.f = None /\ view'.v = None
      BY <2>1 DEF FirstView
    <3> QED BY <2>1, <3>1 DEF Shaped
  <2> QED BY <1>4, <2>1, <2>2 DEF ViewInv, Begin
<1>5. CASE Receive
  <2>1. promised' = None
    BY <1>5 DEF Receive
  <2> QED BY <1>4, <1>5, <2>1 DEF Receive, PromiseInv, LinksKeepTheView
<1>6. CASE ParseArgument
  <2>1. ViewInv'
    BY <1>0, <1>6, ViewParsed
  <2>2. pc' = "arguments" /\ promised' = promised /\ pc = "arguments"
    BY <1>6 DEF ParseArgument
  <2>3. PromiseInv'
    <3>1. CASE promised = None
      BY <2>2, <3>1 DEF PromiseInv
    <3>2. CASE promised # None
      <4>1. PICK column \in {"N", "M", "S", "D"}, direction \in {"A", "D"},
                 f \in Format \cup {None}, v \in Flag \cup {None}, p \in Pattern \cup {None} :
              LinkRead(column, direction, f, v, p)
        BY <1>0, <2>2, <3>2 DEF PromiseInv
      <4>2. LinkRead(column, direction, f, v, p)'
        BY <1>0, <1>6, <4>1, LinkParsed
      <4> QED BY <4>2 DEF PromiseInv
    <3> QED BY <3>1, <3>2
  <2> QED BY <2>1, <2>2, <2>3 DEF LinksKeepTheView
<1>7. CASE EndArguments
  <2>1. pc = "arguments" /\ arg = Len(query) /\ pc' = "head" /\ UNCHANGED <<conf, request>>
    BY <1>7 DEF EndArguments, config
  <2>2. ViewInv'
    <3>1. FirstView' = FirstView /\ view' = view
      BY <2>1 DEF FirstView, DefaultOrder, request
    <3>2. Shaped(FirstView.opts, view.f, view.v)' = Shaped(FirstView.opts, view.f, view.v)
      BY <3>1 DEF Shaped, Formatted
    <3> QED BY <1>0, <2>1, <3>1, <3>2 DEF ViewInv, Answering
  <2>3. promised' = promised /\ view' = view
    BY <2>1 DEF request
  <2>4. promised # None => promised = [keyid |-> view.keyid, direction |-> view.direction,
                                       opts |-> view.opts, pattern |-> view.pattern]
    <3> SUFFICES ASSUME promised # None
                 PROVE  promised = [keyid |-> view.keyid, direction |-> view.direction,
                                    opts |-> view.opts, pattern |-> view.pattern]
      OBVIOUS
    <3>1. PICK column \in {"N", "M", "S", "D"}, direction \in {"A", "D"},
               f \in Format \cup {None}, v \in Flag \cup {None}, p \in Pattern \cup {None} :
            LinkRead(column, direction, f, v, p)
      BY <1>0, <2>1 DEF PromiseInv
    <3>2. Len(query) = 2 + Width(f) + Width(v) + Width(p)
      BY <3>1, LinkLength
    <3>3. Width(f) \in {0, 1} /\ Width(v) \in {0, 1} /\ Width(p) \in {0, 1}
      BY DEF Width
    <3>4. /\ view.keyid = column /\ view.direction = direction
          /\ view.f = f /\ view.v = v /\ view.pattern = p
      <4>1. /\ arg >= 1 /\ arg >= 2 /\ arg >= 2 + Width(f)
            /\ arg >= 2 + Width(f) + Width(v)
            /\ arg >= 2 + Width(f) + Width(v) + Width(p)
        BY <2>1, <3>2, <3>3
      <4>2. /\ arg >= 1 => view.keyid = column
            /\ arg >= 2 => view.direction = direction
            /\ view.f = IF arg >= 2 + Width(f) THEN f ELSE None
            /\ view.v = IF arg >= 2 + Width(f) + Width(v) THEN v ELSE None
            /\ view.p = IF arg >= 2 + Width(f) + Width(v) + Width(p) THEN p ELSE None
            /\ view.pattern = view.p
        BY <3>1 DEF LinkRead
      <4> QED BY <4>1, <4>2
    <3>5. view.opts = Shaped(FirstView.opts, f, v)
      BY <1>0, <2>1, <3>4 DEF ViewInv, Answering
    <3> QED BY <3>1, <3>4, <3>5 DEF LinkRead
  <2> QED BY <2>1, <2>2, <2>3, <2>4 DEF PromiseInv, LinksKeepTheView
<1>8. CASE EmitHead
  <2>1. pc = "head" /\ pc' = "parent" /\ UNCHANGED <<conf, request>>
    BY <1>8 DEF EmitHead, config
  <2> QED BY <1>0, <2>1, LinksAside DEF Answering
<1>9. CASE AddParent
  <2>1. pc = "parent" /\ pc' = "read" /\ UNCHANGED <<conf, request>>
    BY <1>9 DEF AddParent, config
  <2> QED BY <1>0, <2>1, LinksAside DEF Answering
<1>10. ASSUME NEW n \in Name, ReadEntry(n) PROVE ViewInv' /\ PromiseInv' /\ LinksKeepTheView'
  <2>1. pc' = pc /\ UNCHANGED <<conf, request>>
    BY <1>10 DEF ReadEntry, config
  <2> QED BY <1>0, <2>1, LinksAside
<1>11. CASE EndRead
  <2>1. pc = "read" /\ pc' = "sort" /\ UNCHANGED <<conf, request>>
    BY <1>11 DEF EndRead, config
  <2> QED BY <1>0, <2>1, LinksAside DEF Answering
<1>12. CASE Sort
  <2>1. pc = "sort" /\ pc' = "tail" /\ UNCHANGED <<conf, request>>
    BY <1>12 DEF Sort, config
  <2> QED BY <1>0, <2>1, LinksAside DEF Answering
<1>13. CASE EmitTail
  <2>1. pc = "tail" /\ pc' = "sent" /\ UNCHANGED <<conf, request>>
    BY <1>13 DEF EmitTail, config
  <2> QED BY <1>0, <2>1, LinksAside DEF Answering
<1>14. ASSUME NEW column \in {"N", "M", "S", "D"}, Click(column)
       PROVE  ViewInv' /\ PromiseInv' /\ LinksKeepTheView'
  <2>1. PromiseInv' /\ pc' = "arguments"
    BY <1>0, <1>14, LinkBegun
  <2>2. ViewInv'
    BY <1>4, <1>14 DEF Click
  <2> QED BY <2>1, <2>2 DEF LinksKeepTheView
<1>15. ASSUME NEW n \in Name, Change(n) PROVE ViewInv' /\ PromiseInv' /\ LinksKeepTheView'
  <2>1. pc' = pc /\ UNCHANGED <<conf, request>>
    BY <1>15 DEF Change, config
  <2> QED BY <1>0, <2>1, LinksAside
<1>16. CASE UNCHANGED vars
  <2>1. pc' = pc /\ UNCHANGED <<conf, request>>
    BY <1>16 DEF vars, config
  <2> QED BY <1>0, <2>1, LinksAside
<1> QED BY <1>1, <1>2, <1>3, <1>5, <1>6, <1>7, <1>8, <1>9, <1>10, <1>11, <1>12,
           <1>13, <1>14, <1>15, <1>16 DEF Next

\* Whatever a client asked for, the page behind a column link shows what the
\* page with the link showed, sorted as the link says.
THEOREM LinksKeep == Spec => []LinksKeepTheView
<1>1. Init => LinksInv
  BY TypeInit DEF Init, LinksInv, ViewInv, PromiseInv, LinksKeepTheView, Answering
<1>2. LinksInv => LinksKeepTheView
  BY DEF LinksInv
<1> QED BY <1>1, <1>2, LinksStep, PTL DEF Spec

-----------------------------------------------------------------------------
(* The document.                                                           *)

\* What is sent so far.
DocumentInv ==
  /\ pc \in {"parent", "read", "sort"} => out = HeadParts(files.header)
  /\ pc = "tail" => out = Append(HeadParts(files.header), "list")
  /\ pc = "sent" =>
       out = Append(HeadParts(files.header), "list") \o TailParts(files.readme)

\* The first parts, then the last ones, place by place.
LEMMA HeadIs ==
  ASSUME NEW outcome \in Outcome
  PROVE  LET h == HeadParts(outcome)
         IN /\ outcome = "html" /\ Suppressed => Len(h) = 1 /\ h[1] = "header"
            /\ outcome \in {"html", "text"} /\ ~(outcome = "html" /\ Suppressed) =>
                 Len(h) = 2 /\ h[1] = "preamble" /\ h[2] = "header"
            /\ outcome \notin {"html", "text"} =>
                 Len(h) = 2 /\ h[1] = "preamble" /\ h[2] = "h1"
<1>1. CASE outcome = "html"
  <2>1. CASE Suppressed
    BY <1>1, <2>1 DEF HeadParts, If
  <2>2. CASE ~Suppressed
    BY <1>1, <2>2 DEF HeadParts, If
  <2> QED BY <2>1, <2>2
<1>2. CASE outcome = "html_fails"
  <2>1. CASE Suppressed
    BY <1>2, <2>1 DEF HeadParts, If
  <2>2. CASE ~Suppressed
    BY <1>2, <2>2 DEF HeadParts, If
  <2> QED BY <2>1, <2>2
<1>3. CASE outcome = "text"
  BY <1>3 DEF HeadParts, If
<1>4. CASE outcome \in {"none", "text_fails"}
  BY <1>4 DEF HeadParts, If
<1> QED BY <1>1, <1>2, <1>3, <1>4 DEF Outcome

LEMMA TailIs ==
  ASSUME NEW outcome \in Outcome
  PROVE  LET t == TailParts(outcome)
         IN /\ outcome = "html" /\ Suppressed => Len(t) = 1 /\ t[1] = "readme"
            /\ outcome \in {"html", "text"} /\ ~(outcome = "html" /\ Suppressed) =>
                 Len(t) = 2 /\ t[1] = "readme" /\ t[2] = "postamble"
            /\ outcome \notin {"html", "text"} =>
                 Len(t) = 2 /\ t[1] = "signature" /\ t[2] = "postamble"
<1>1. CASE outcome = "html"
  <2>1. CASE Suppressed
    BY <1>1, <2>1 DEF TailParts, If
  <2>2. CASE ~Suppressed
    BY <1>1, <2>2 DEF TailParts, If
  <2> QED BY <2>1, <2>2
<1>2. CASE outcome # "html"
  BY <1>2 DEF TailParts, If
<1> QED BY <1>1, <1>2

LEMMA DocumentFits == TypeOK /\ DocumentInv => DocumentIsWhole
<1> SUFFICES ASSUME TypeOK, DocumentInv, pc = "sent" PROVE DocumentIsWhole
  BY DEF DocumentIsWhole
<1> DEFINE h == files.header
           r == files.readme
           first == HeadParts(h)
           last == TailParts(r)
<1>1. h \in Outcome /\ r \in Outcome
  BY DEF TypeOK
<1>2. /\ Len(out) = Len(first) + 1 + Len(last)
      /\ DOMAIN out = 1..Len(out)
      /\ \A i \in 1..Len(first) : out[i] = first[i]
      /\ out[Len(first) + 1] = "list"
      /\ \A i \in 1..Len(last) : out[Len(first) + 1 + i] = last[i]
  <2>1. first \in Seq(Part) /\ last \in Seq(Part) /\ "list" \in Part
    BY <1>1, PartsHaveType DEF Part
  <2>2. out = Append(first, "list") \o last
    BY DEF DocumentInv
  <2> HIDE DEF first, last
  <2> QED BY <2>1, <2>2
<1> HIDE DEF first, last
<1>3. CASE h = "html" /\ Suppressed
  <2>1. Len(first) = 1 /\ first[1] = "header"
    BY <1>1, <1>3, HeadIs DEF first
  <2>2. CASE r = "html" /\ Suppressed
    <3>1. Len(last) = 1 /\ last[1] = "readme"
      BY <1>1, <2>2, TailIs DEF last
    <3>2. DOMAIN out = 1..3 /\ Len(out) = 3 /\ out[1] = "header" /\ out[2] = "list" /\ out[3] = "readme"
      BY <1>2, <2>1, <3>1
    <3> QED BY <1>3, <2>2, <3>2 DEF DocumentIsWhole, At, Once
  <2>3. CASE r \in {"html", "text"} /\ ~(r = "html" /\ Suppressed)
    <3>1. Len(last) = 2 /\ last[1] = "readme" /\ last[2] = "postamble"
      BY <1>1, <2>3, TailIs DEF last
    <3>2. DOMAIN out = 1..4 /\ Len(out) = 4 /\ out[1] = "header" /\ out[2] = "list" /\ out[3] = "readme" /\ out[4] = "postamble"
      BY <1>2, <2>1, <3>1
    <3> QED BY <1>3, <2>3, <3>2 DEF DocumentIsWhole, At, Once
  <2>4. CASE r \notin {"html", "text"}
    <3>1. Len(last) = 2 /\ last[1] = "signature" /\ last[2] = "postamble"
      BY <1>1, <2>4, TailIs DEF last
    <3>2. DOMAIN out = 1..4 /\ Len(out) = 4 /\ out[1] = "header" /\ out[2] = "list" /\ out[3] = "signature" /\ out[4] = "postamble"
      BY <1>2, <2>1, <3>1
    <3> QED BY <1>3, <2>4, <3>2 DEF DocumentIsWhole, At, Once
  <2> QED BY <2>2, <2>3, <2>4
<1>4. CASE h \in {"html", "text"} /\ ~(h = "html" /\ Suppressed)
  <2>1. Len(first) = 2 /\ first[1] = "preamble" /\ first[2] = "header"
    BY <1>1, <1>4, HeadIs DEF first
  <2>2. CASE r = "html" /\ Suppressed
    <3>1. Len(last) = 1 /\ last[1] = "readme"
      BY <1>1, <2>2, TailIs DEF last
    <3>2. DOMAIN out = 1..4 /\ Len(out) = 4 /\ out[1] = "preamble" /\ out[2] = "header" /\ out[3] = "list" /\ out[4] = "readme"
      BY <1>2, <2>1, <3>1
    <3> QED BY <1>4, <2>2, <3>2 DEF DocumentIsWhole, At, Once
  <2>3. CASE r \in {"html", "text"} /\ ~(r = "html" /\ Suppressed)
    <3>1. Len(last) = 2 /\ last[1] = "readme" /\ last[2] = "postamble"
      BY <1>1, <2>3, TailIs DEF last
    <3>2. DOMAIN out = 1..5 /\ Len(out) = 5 /\ out[1] = "preamble" /\ out[2] = "header" /\ out[3] = "list" /\ out[4] = "readme" /\ out[5] = "postamble"
      BY <1>2, <2>1, <3>1
    <3> QED BY <1>4, <2>3, <3>2 DEF DocumentIsWhole, At, Once
  <2>4. CASE r \notin {"html", "text"}
    <3>1. Len(last) = 2 /\ last[1] = "signature" /\ last[2] = "postamble"
      BY <1>1, <2>4, TailIs DEF last
    <3>2. DOMAIN out = 1..5 /\ Len(out) = 5 /\ out[1] = "preamble" /\ out[2] = "header" /\ out[3] = "list" /\ out[4] = "signature" /\ out[5] = "postamble"
      BY <1>2, <2>1, <3>1
    <3> QED BY <1>4, <2>4, <3>2 DEF DocumentIsWhole, At, Once
  <2> QED BY <2>2, <2>3, <2>4
<1>5. CASE h \notin {"html", "text"}
  <2>1. Len(first) = 2 /\ first[1] = "preamble" /\ first[2] = "h1"
    BY <1>1, <1>5, HeadIs DEF first
  <2>2. CASE r = "html" /\ Suppressed
    <3>1. Len(last) = 1 /\ last[1] = "readme"
      BY <1>1, <2>2, TailIs DEF last
    <3>2. DOMAIN out = 1..4 /\ Len(out) = 4 /\ out[1] = "preamble" /\ out[2] = "h1" /\ out[3] = "list" /\ out[4] = "readme"
      BY <1>2, <2>1, <3>1
    <3> QED BY <1>5, <2>2, <3>2 DEF DocumentIsWhole, At, Once
  <2>3. CASE r \in {"html", "text"} /\ ~(r = "html" /\ Suppressed)
    <3>1. Len(last) = 2 /\ last[1] = "readme" /\ last[2] = "postamble"
      BY <1>1, <2>3, TailIs DEF last
    <3>2. DOMAIN out = 1..5 /\ Len(out) = 5 /\ out[1] = "preamble" /\ out[2] = "h1" /\ out[3] = "list" /\ out[4] = "readme" /\ out[5] = "postamble"
      BY <1>2, <2>1, <3>1
    <3> QED BY <1>5, <2>3, <3>2 DEF DocumentIsWhole, At, Once
  <2>4. CASE r \notin {"html", "text"}
    <3>1. Len(last) = 2 /\ last[1] = "signature" /\ last[2] = "postamble"
      BY <1>1, <2>4, TailIs DEF last
    <3>2. DOMAIN out = 1..5 /\ Len(out) = 5 /\ out[1] = "preamble" /\ out[2] = "h1" /\ out[3] = "list" /\ out[4] = "signature" /\ out[5] = "postamble"
      BY <1>2, <2>1, <3>1
    <3> QED BY <1>5, <2>4, <3>2 DEF DocumentIsWhole, At, Once
  <2> QED BY <2>2, <2>3, <2>4
<1> QED BY <1>3, <1>4, <1>5

LEMMA DocumentStep == TypeInv /\ DocumentInv /\ [Next]_vars => DocumentInv'
<1> SUFFICES ASSUME TypeInv, DocumentInv, [Next]_vars PROVE DocumentInv'
  OBVIOUS
<1> DEFINE Done == {"parent", "read", "sort", "tail", "sent"}
<1>1. ASSUME pc' \notin Done PROVE DocumentInv'
  BY <1>1 DEF DocumentInv
<1>2. ASSUME UNCHANGED <<view, out, files>>,
             pc' = pc \/ (pc \in {"parent", "read"} /\ pc' \in {"read", "sort"})
      PROVE  DocumentInv'
  <2>1. /\ HeadParts(files.header)' = HeadParts(files.header)
        /\ TailParts(files.readme)' = TailParts(files.readme)
    BY <1>2 DEF HeadParts, TailParts, If, Suppressed
  <2> QED BY <1>2, <2>1 DEF DocumentInv
<1>3. CASE ReadWord
  BY <1>1, <1>3 DEF ReadWord, Refuse
<1>4. CASE EndScope
  BY <1>1, <1>4 DEF EndScope, Refuse
<1>5. CASE Reconfigure
  BY <1>1, <1>5 DEF Reconfigure
<1>6. CASE Receive
  BY <1>1, <1>6 DEF Receive, Begin
<1>7. CASE ParseArgument
  BY <1>1, <1>7 DEF ParseArgument
<1>8. CASE EndArguments
  BY <1>1, <1>8 DEF EndArguments
<1>9. CASE EmitHead
  <2>1. PICK outcome \in Outcome :
          out' = HeadParts(outcome) /\ files' = [files EXCEPT !.header = outcome]
    BY <1>9 DEF EmitHead
  <2>2. pc' = "parent" /\ view' = view
    BY <1>9 DEF EmitHead, request
  <2>3. files'.header = outcome
    BY <2>1 DEF TypeInv, TypeOK
  <2>4. HeadParts(files.header)' = HeadParts(outcome)
    BY <2>2, <2>3 DEF HeadParts, If, Suppressed
  <2> QED BY <2>1, <2>2, <2>4 DEF DocumentInv
<1>10. CASE AddParent
  BY <1>2, <1>10 DEF AddParent, request, document
<1>11. ASSUME NEW n \in Name, ReadEntry(n) PROVE DocumentInv'
  BY <1>2, <1>11 DEF ReadEntry, request, document
<1>12. CASE EndRead
  BY <1>2, <1>12 DEF EndRead, request, document
<1>13. CASE Sort
  <2>1. /\ out' = Append(out, "list") /\ pc = "sort" /\ pc' = "tail"
        /\ UNCHANGED <<view, files>>
    BY <1>13 DEF Sort, request
  <2>2. HeadParts(files.header)' = HeadParts(files.header)
    BY <2>1 DEF HeadParts, If, Suppressed
  <2> QED BY <2>1, <2>2 DEF DocumentInv
<1>14. CASE EmitTail
  <2>1. PICK outcome \in Outcome :
          out' = out \o TailParts(outcome) /\ files' = [files EXCEPT !.readme = outcome]
    BY <1>14 DEF EmitTail
  <2>2. pc = "tail" /\ pc' = "sent" /\ view' = view
    BY <1>14 DEF EmitTail, request
  <2>3. files'.readme = outcome /\ files'.header = files.header
    BY <2>1 DEF TypeInv, TypeOK
  <2>4. TailParts(files.readme)' = TailParts(outcome)
    BY <2>2, <2>3 DEF TailParts, If, Suppressed
  <2>5. HeadParts(files.header)' = HeadParts(files.header)
    BY <2>2, <2>3 DEF HeadParts, If, Suppressed
  <2> QED BY <2>1, <2>2, <2>4, <2>5 DEF DocumentInv
<1>15. ASSUME NEW column \in {"N", "M", "S", "D"}, Click(column) PROVE DocumentInv'
  BY <1>1, <1>15 DEF Click, Begin
<1>16. ASSUME NEW n \in Name, Change(n) PROVE DocumentInv'
  BY <1>2, <1>16 DEF Change, request, document
<1>17. CASE UNCHANGED vars
  BY <1>2, <1>17 DEF vars, request, document
<1> QED BY <1>3, <1>4, <1>5, <1>6, <1>7, <1>8, <1>9, <1>10, <1>11, <1>12, <1>13,
           <1>14, <1>15, <1>16, <1>17 DEF Next

\* Every page has its elements as the source lists them, whatever becomes of the
\* header and the readme.
THEOREM DocumentsAreWhole == Spec => []DocumentIsWhole
<1>1. Init => TypeInv /\ DocumentInv
  BY TypeInit DEF Init, DocumentInv
<1>2. TypeInv /\ DocumentInv => DocumentIsWhole
  BY DocumentFits DEF TypeInv
<1>3. TypeInv /\ DocumentInv /\ [Next]_vars => (TypeInv /\ DocumentInv)'
  BY TypeStep, DocumentStep
<1> QED BY <1>1, <1>2, <1>3, PTL DEF Spec

-----------------------------------------------------------------------------
(* The order of the page.                                                  *)

LEMMA KeysAreSigned ==
  ASSUME TypeOK, NEW a \in Ent, NEW b \in Ent
  PROVE  /\ Column(a) \in Int /\ Column(b) \in Int
         /\ CompareKeys(a, b) = Sign(Column(a), Column(b))
<1>1. view.keyid \in {"N", "M", "S", "D"}
  BY DEF TypeOK, View
<1>2. /\ a.lm \in Int /\ a.size \in Int /\ a.desc \in Int
      /\ b.lm \in Int /\ b.size \in Int /\ b.desc \in Int
  BY DEF Ent
<1>3. CASE view.keyid = "M"
  BY <1>2, <1>3 DEF CompareKeys, Column
<1>4. CASE view.keyid = "S"
  BY <1>2, <1>4 DEF CompareKeys, Column
<1>5. CASE view.keyid = "D"
  BY <1>2, <1>5 DEF CompareKeys, Column
<1>6. CASE view.keyid = "N"
  BY <1>6 DEF CompareKeys, Column, Sign
<1> QED BY <1>1, <1>3, <1>4, <1>5, <1>6

\* One criterion after the other.
LEMMA OneAfterTheOther ==
  ASSUME NEW p \in [1..6 -> Int], NEW q \in [1..6 -> Int],
         \/ p[1] < q[1]
         \/ p[1] = q[1] /\ p[2] < q[2]
         \/ p[1] = q[1] /\ p[2] = q[2] /\ p[3] < q[3]
         \/ p[1] = q[1] /\ p[2] = q[2] /\ p[3] = q[3] /\ p[4] < q[4]
         \/ p[1] = q[1] /\ p[2] = q[2] /\ p[3] = q[3] /\ p[4] = q[4] /\ p[5] < q[5]
         \/ p[1] = q[1] /\ p[2] = q[2] /\ p[3] = q[3] /\ p[4] = q[4] /\ p[5] = q[5]
              /\ p[6] <= q[6]
  PROVE  NotAfter(p, q)
<1>1. CASE p = q
  BY <1>1 DEF NotAfter
<1>2. CASE p # q
  <2>1. PICK m \in 1..6 : p[m] < q[m] /\ \A l \in 1..6 : l < m => p[l] = q[l]
    <3>1. CASE p[1] < q[1]
      BY <3>1
    <3>2. CASE p[1] = q[1] /\ p[2] < q[2]
      BY <3>2
    <3>3. CASE p[1] = q[1] /\ p[2] = q[2] /\ p[3] < q[3]
      BY <3>3
    <3>4. CASE p[1] = q[1] /\ p[2] = q[2] /\ p[3] = q[3] /\ p[4] < q[4]
      BY <3>4
    <3>5. CASE p[1] = q[1] /\ p[2] = q[2] /\ p[3] = q[3] /\ p[4] = q[4] /\ p[5] < q[5]
      BY <3>5
    <3>6. CASE p[1] = q[1] /\ p[2] = q[2] /\ p[3] = q[3] /\ p[4] = q[4] /\ p[5] = q[5]
                 /\ p[6] <= q[6]
      <4>1. p[6] # q[6]
        <5> SUFFICES ASSUME p[6] = q[6] PROVE FALSE
          OBVIOUS
        <5>1. \A l \in 1..6 : p[l] = q[l]
          BY <3>6
        <5> QED BY <1>2, <5>1
      <4>2. p[6] < q[6]
        BY <3>6, <4>1
      <4> QED BY <3>6, <4>2
    <3> QED BY <3>1, <3>2, <3>3, <3>4, <3>5, <3>6
  <2>2. DOMAIN p = 1..6 /\ \A l \in 1..m - 1 : l \in 1..6 /\ l < m
    OBVIOUS
  <2> QED BY <2>1, <2>2 DEF NotAfter
<1> QED BY <1>1, <1>2

\* What does not compare as greater by dsortf does not belong farther down.
LEMMA DsortfIsPlace ==
  ASSUME TypeOK, NEW e1 \in Ent, NEW e2 \in Ent, Dsortf(e1, e2) <= 0,
         e1.name # Parent
  PROVE  e2.name # Parent /\ NotAfter(Place(e1), Place(e2))
<1>1. e2.name # Parent
  BY DEF Dsortf
<1>2. /\ e1.name \in Name /\ e2.name \in Name /\ e1.slash \in BOOLEAN /\ e2.slash \in BOOLEAN
      /\ e1.isdir \in BOOLEAN /\ e2.isdir \in BOOLEAN
  BY <1>1 DEF Ent
<1> DEFINE rank(c, e) == Rank[c][e.name][e.slash]
           version == "version_sort" \in view.opts
           ignoreCase == "ignore_case" \in view.opts
           turn == IF view.direction = "A" THEN 1 ELSE -1
<1>3. /\ Column(e1) \in Int /\ Column(e2) \in Int
      /\ CompareKeys(e1, e2) = Sign(Column(e1), Column(e2))
      /\ CompareKeys(e2, e1) = Sign(Column(e2), Column(e1))
  BY KeysAreSigned
<1>4. \A c \in Comparison : rank(c, e1) \in Nat /\ rank(c, e2) \in Nat
  BY <1>2, RankAssumption
<1> DEFINE nc1 == rank("natcase", e1)
           nc2 == rank("natcase", e2)
           nt1 == rank("nat", e1)
           nt2 == rank("nat", e2)
           cs1 == rank("case", e1)
           cs2 == rank("case", e2)
           pl1 == rank("plain", e1)
           pl2 == rank("plain", e2)
           k1 == Column(e1)
           k2 == Column(e2)
<1>5. nc1 \in Nat /\ nc2 \in Nat /\ nt1 \in Nat /\ nt2 \in Nat /\ cs1 \in Nat /\ cs2 \in Nat
      /\ pl1 \in Nat /\ pl2 \in Nat /\ k1 \in Int /\ k2 \in Int
  BY <1>3, <1>4 DEF Comparison
\* The names, first up, then down.
<1> DEFINE Chain(a1, a2, b1, b2, x1, x2, y1, y2) ==
             LET natural == IF ~version THEN 0
                            ELSE IF ignoreCase /\ Sign(a1, a2) # 0 THEN Sign(a1, a2)
                            ELSE Sign(b1, b2)
                 caseless == IF natural = 0 /\ ignoreCase THEN Sign(x1, x2) ELSE natural
             IN IF caseless = 0 THEN Sign(y1, y2) ELSE caseless
<1>6. /\ CompareNames(e1, e2) = Chain(nc1, nc2, nt1, nt2, cs1, cs2, pl1, pl2)
      /\ CompareNames(e2, e1) = Chain(nc2, nc1, nt2, nt1, cs2, cs1, pl2, pl1)
  BY DEF CompareNames
<1> DEFINE p == Place(e1)
           q == Place(e2)
<1>7. /\ p = <<IF e1.isdir THEN 0 ELSE 1, turn * k1,
               IF version /\ ignoreCase THEN turn * nc1 ELSE 0,
               IF version THEN turn * nt1 ELSE 0, IF ignoreCase THEN turn * cs1 ELSE 0,
               turn * pl1>>
      /\ q = <<IF e2.isdir THEN 0 ELSE 1, turn * k2,
               IF version /\ ignoreCase THEN turn * nc2 ELSE 0,
               IF version THEN turn * nt2 ELSE 0, IF ignoreCase THEN turn * cs2 ELSE 0,
               turn * pl2>>
  BY DEF Place
<1>8. p \in [1..6 -> Int] /\ q \in [1..6 -> Int]
  <2> HIDE DEF nc1, nc2, nt1, nt2, cs1, cs2, pl1, pl2, k1, k2, p, q
  <2> QED BY <1>5, <1>7
<1>9. CASE view.direction = "A"
  <2>1. \/ e1.isdir /\ ~e2.isdir
        \/ /\ e1.isdir = e2.isdir
           /\ \/ Sign(k1, k2) < 0
              \/ Sign(k1, k2) = 0 /\ Chain(nc1, nc2, nt1, nt2, cs1, cs2, pl1, pl2) <= 0
    <3>1. Dsortf(e1, e2) = IF e1.isdir # e2.isdir THEN IF e1.isdir THEN -1 ELSE 1
                           ELSE IF CompareKeys(e1, e2) # 0 THEN CompareKeys(e1, e2)
                           ELSE CompareNames(e1, e2)
      BY <1>1, <1>9 DEF Dsortf
    <3> HIDE DEF Chain, nc1, nc2, nt1, nt2, cs1, cs2, pl1, pl2
    <3>2. CASE e1.isdir # e2.isdir
      BY <1>2, <3>1, <3>2
    <3>3. CASE e1.isdir = e2.isdir /\ CompareKeys(e1, e2) # 0
      BY <1>3, <1>5, <3>1, <3>3 DEF Sign
    <3>4. CASE e1.isdir = e2.isdir /\ CompareKeys(e1, e2) = 0
      BY <1>3, <1>6, <3>1, <3>4
    <3> QED BY <3>2, <3>3, <3>4
  <2> HIDE DEF nc1, nc2, nt1, nt2, cs1, cs2, pl1, pl2, k1, k2, p, q
  <2>2. \/ p[1] < q[1]
        \/ p[1] = q[1] /\ p[2] < q[2]
        \/ p[1] = q[1] /\ p[2] = q[2] /\ p[3] < q[3]
        \/ p[1] = q[1] /\ p[2] = q[2] /\ p[3] = q[3] /\ p[4] < q[4]
        \/ p[1] = q[1] /\ p[2] = q[2] /\ p[3] = q[3] /\ p[4] = q[4] /\ p[5] < q[5]
        \/ p[1] = q[1] /\ p[2] = q[2] /\ p[3] = q[3] /\ p[4] = q[4] /\ p[5] = q[5]
             /\ p[6] <= q[6]
    BY <1>2, <1>5, <1>7, <1>9, <2>1 DEF Sign
  <2> QED BY <1>1, <1>8, <2>2, OneAfterTheOther DEF p, q
<1>10. CASE view.direction # "A"
  <2>1. \/ e1.isdir /\ ~e2.isdir
        \/ /\ e1.isdir = e2.isdir
           /\ \/ Sign(k2, k1) < 0
              \/ Sign(k2, k1) = 0 /\ Chain(nc2, nc1, nt2, nt1, cs2, cs1, pl2, pl1) <= 0
    <3>1. Dsortf(e1, e2) = IF e1.isdir # e2.isdir THEN IF e1.isdir THEN -1 ELSE 1
                           ELSE IF CompareKeys(e2, e1) # 0 THEN CompareKeys(e2, e1)
                           ELSE CompareNames(e2, e1)
      BY <1>1, <1>10 DEF Dsortf
    <3> HIDE DEF Chain, nc1, nc2, nt1, nt2, cs1, cs2, pl1, pl2
    <3>2. CASE e1.isdir # e2.isdir
      BY <1>2, <3>1, <3>2
    <3>3. CASE e1.isdir = e2.isdir /\ CompareKeys(e2, e1) # 0
      BY <1>3, <1>5, <3>1, <3>3 DEF Sign
    <3>4. CASE e1.isdir = e2.isdir /\ CompareKeys(e2, e1) = 0
      BY <1>3, <1>6, <3>1, <3>4
    <3> QED BY <3>2, <3>3, <3>4
  <2> HIDE DEF nc1, nc2, nt1, nt2, cs1, cs2, pl1, pl2, k1, k2, p, q
  <2>2. \/ p[1] < q[1]
        \/ p[1] = q[1] /\ p[2] < q[2]
        \/ p[1] = q[1] /\ p[2] = q[2] /\ p[3] < q[3]
        \/ p[1] = q[1] /\ p[2] = q[2] /\ p[3] = q[3] /\ p[4] < q[4]
        \/ p[1] = q[1] /\ p[2] = q[2] /\ p[3] = q[3] /\ p[4] = q[4] /\ p[5] < q[5]
        \/ p[1] = q[1] /\ p[2] = q[2] /\ p[3] = q[3] /\ p[4] = q[4] /\ p[5] = q[5]
             /\ p[6] <= q[6]
    BY <1>2, <1>5, <1>7, <1>10, <2>1 DEF Sign
  <2> QED BY <1>1, <1>8, <2>2, OneAfterTheOther DEF p, q
<1> QED BY <1>9, <1>10

-----------------------------------------------------------------------------
(* What the page lists.                                                    *)

HasName(entries, n) == \E i \in DOMAIN entries : entries[i].name = n
Seen(e) == e.name # Parent =>
             /\ e.name \in Name
             /\ \E item \in was[e.name] : Shown(e.name, item) /\ e = Entry(e.name, item)

\* The entries collected, or as arranged: of the names left alone only those
\* that are read and may be shown are there, once, and all of them if the list
\* is complete; and all were seen since the opening.
Collected(entries, still, complete) ==
  /\ \A n \in steady : HasName(entries, n) => n \notin still /\ Shown(n, folder[n])
  /\ complete =>
       \A n \in steady : n \notin still /\ Shown(n, folder[n]) => HasName(entries, n)
  /\ \A i, j \in DOMAIN entries :
       entries[i].name = entries[j].name /\ entries[i].name \in steady \cup {Parent} => i = j
  /\ \A i \in DOMAIN entries : Seen(entries[i])

Opening == {"arguments", "head", "parent"}

CollectedInv ==
  /\ \A n \in Name : folder[n] \in was[n]
  /\ pc \in Opening => list = <<>> /\ steady \subseteq unread
  /\ pc = "read" => Collected(list, unread, TRUE)
  /\ pc = "sort" => Collected(list, {}, ~cut)
  /\ pc \in {"tail", "sent"} => Collected(page, {}, ~cut)

LEMMA CollectedIsFaithful == TypeOK /\ CollectedInv => PageIsFaithful
<1> SUFFICES ASSUME TypeOK, CollectedInv, pc \in {"tail", "sent"} PROVE PageIsFaithful
  BY DEF PageIsFaithful
<1>1. Collected(page, {}, ~cut)
  BY DEF CollectedInv
<1>2. /\ \A n \in steady : n \in Listed => Shown(n, folder[n])
      /\ ~cut => \A n \in steady : Shown(n, folder[n]) => n \in Listed
  BY <1>1 DEF Collected, HasName, Listed
<1>3. \A i \in DOMAIN page : page[i].name # Parent =>
         \E item \in was[page[i].name] :
           Shown(page[i].name, item) /\ page[i] = Entry(page[i].name, item)
  BY <1>1 DEF Collected, Seen
<1>4. \A i, j \in DOMAIN page :
         page[i].name = page[j].name /\ page[i].name \in steady \cup {Parent} => i = j
  BY <1>1 DEF Collected
<1> QED BY <1>2, <1>3, <1>4 DEF PageIsFaithful

\* A step that leaves the request alone and may change the folder at some names.
LEMMA CollectedAside ==
  ASSUME NEW CONSTANT entries, NEW CONSTANT S, NEW CONSTANT T, Collected(entries, S, TRUE),
         UNCHANGED <<view, conf>>,
         \A n \in Name : was[n] \subseteq was'[n],
         steady' \subseteq steady, \A n \in steady' : folder'[n] = folder[n],
         \A n \in steady' : n \in S <=> n \in T
  PROVE  Collected(entries, T, TRUE)'
<1>1. Columns' = Columns
  BY DEF Columns
<1>2. \A n \in steady' : Shown(n, folder[n])' <=> Shown(n, folder[n])
  BY DEF Shown
<1>3. \A n \in steady' : HasName(entries, n)' <=> n \notin T /\ Shown(n, folder[n])'
  BY <1>2 DEF Collected, HasName
<1>4. ASSUME NEW CONSTANT i \in DOMAIN entries PROVE Seen(entries[i])'
  <2>1. SUFFICES ASSUME entries[i].name # Parent
        PROVE /\ entries[i].name \in Name
              /\ \E item \in was'[entries[i].name] :
                   Shown(entries[i].name, item)' /\ entries[i] = Entry(entries[i].name, item)'
    BY DEF Seen
  <2>2. Seen(entries[i])
    BY DEF Collected
  <2>3. PICK item \in was[entries[i].name] :
          Shown(entries[i].name, item) /\ entries[i] = Entry(entries[i].name, item)
    BY <2>1, <2>2 DEF Seen
  <2>4. entries[i].name \in Name
    BY <2>1, <2>2 DEF Seen
  <2>5. Shown(entries[i].name, item)' /\ Entry(entries[i].name, item)' = Entry(entries[i].name, item)
    BY <1>1, <2>3 DEF Shown, Entry
  <2> QED BY <2>3, <2>4, <2>5
<1> QED BY <1>3, <1>4 DEF Collected

\* What is read is added.
LEMMA ReadCollects ==
  ASSUME TypeOK, CollectedInv, NEW n \in Name, ReadEntry(n)
  PROVE  Collected(list', unread', TRUE)
<1>1. Collected(list, unread, TRUE) /\ folder[n] \in was[n] /\ n \in unread
  BY DEF ReadEntry, CollectedInv
<1>2. unread' = unread \ {n}
  BY DEF ReadEntry, AfterEntry
<1>3. list \in Seq(Ent) /\ n # Parent
  BY Assumed DEF TypeOK
<1>4. CASE ~Shown(n, folder[n])
  <2>1. list' = list
    BY <1>4 DEF ReadEntry
  <2> QED BY <1>1, <1>2, <1>4, <2>1 DEF Collected
<1>5. CASE Shown(n, folder[n])
  <2> DEFINE e == Entry(n, folder[n])
             last == Len(list) + 1
  <2>1. list' = Append(list, e)
    BY <1>5 DEF ReadEntry
  <2>2. e.name = n
    BY DEF Entry
  <2> HIDE DEF e
  <2>3. /\ DOMAIN list' = 1..last /\ DOMAIN list = 1..Len(list) /\ Len(list) \in Nat
        /\ list'[last] = e
        /\ \A i \in DOMAIN list : i # last /\ list'[i] = list[i]
        /\ \A i \in DOMAIN list' : i = last \/ i \in DOMAIN list
    BY <1>3, <2>1
  <2>4. \A m : HasName(list', m) <=> HasName(list, m) \/ m = n
    BY <2>2, <2>3 DEF HasName
  <2>5. \A m \in steady : HasName(list', m) <=> m \notin unread' /\ Shown(m, folder[m])
    BY <1>1, <1>2, <1>5, <2>4 DEF Collected
  <2>6. n \in steady => ~HasName(list, n)
    BY <1>1 DEF Collected
  <2>7. ASSUME NEW i \in DOMAIN list', NEW j \in DOMAIN list',
               list'[i].name = list'[j].name, list'[i].name \in steady \cup {Parent}
        PROVE  i = j
    <3>1. CASE i = last /\ j = last
      BY <3>1
    <3>2. CASE i = last /\ j \in DOMAIN list
      <4>1. list[j].name = n /\ n \in steady
        BY <1>3, <2>2, <2>3, <2>7, <3>2
      <4> QED BY <2>6, <3>2, <4>1 DEF HasName
    <3>3. CASE i \in DOMAIN list /\ j = last
      <4>1. list[i].name = n /\ n \in steady
        BY <1>3, <2>2, <2>3, <2>7, <3>3
      <4> QED BY <2>6, <3>3, <4>1 DEF HasName
    <3>4. CASE i \in DOMAIN list /\ j \in DOMAIN list
      BY <1>1, <2>3, <2>7, <3>4 DEF Collected
    <3> QED BY <2>3, <3>1, <3>2, <3>3, <3>4
  <2>8. Seen(e)
    BY <1>1, <1>5, <2>2 DEF Seen, e
  <2>9. \A i \in DOMAIN list' : Seen(list'[i])
    BY <1>1, <2>3, <2>8 DEF Collected
  <2> QED BY <2>5, <2>7, <2>9 DEF Collected
<1> QED BY <1>4, <1>5

\* Arranging leaves out and adds nothing.
LEMMA SortCollects ==
  ASSUME TypeOK, CollectedInv, Sort
  PROVE  /\ Collected(page', {}, ~cut)
         /\ \A i, j \in DOMAIN page' : i < j =>
              /\ Dsortf(page'[i], page'[j]) <= 0
              /\ page'[i].name = Parent => page'[j].name # Parent
         /\ \A i \in DOMAIN page' : page'[i] \in Ent
<1>1. PICK p \in [DOMAIN list -> DOMAIN list] :
        /\ \A i, j \in DOMAIN list :
             i < j => p[i] # p[j] /\ Dsortf(list[p[i]], list[p[j]]) <= 0
        /\ page' = [i \in DOMAIN list |-> list[p[i]]]
  BY DEF Sort
<1>2. Collected(list, {}, ~cut)
  BY DEF CollectedInv, Sort
<1>3. list \in Seq(Ent) /\ DOMAIN list = 1..Len(list) /\ Len(list) \in Nat
  BY DEF TypeOK
<1>4. \A i, j \in DOMAIN list : p[i] = p[j] => i = j
  <2>1. \A i, j \in DOMAIN list : i < j \/ j < i \/ i = j
    BY <1>3
  <2> QED BY <1>1, <2>1
<1>5. \A k \in DOMAIN list : \E i \in DOMAIN list : p[i] = k
  <2>1. p \in Injection(DOMAIN list, DOMAIN list)
    BY <1>4 DEF Injection, IsInjective
  <2>2. IsFiniteSet(DOMAIN list)
    BY <1>3, FS_Interval
  <2>3. p \in Surjection(DOMAIN list, DOMAIN list)
    BY <2>1, <2>2, FS_Injection
  <2> QED BY <2>3 DEF Surjection
<1>6. DOMAIN page' = DOMAIN list /\ \A i \in DOMAIN list : page'[i] = list[p[i]] /\ p[i] \in DOMAIN list
  BY <1>1
<1>7. \A n : HasName(page', n) <=> HasName(list, n)
  BY <1>5, <1>6 DEF HasName
<1>8. \A i, j \in DOMAIN page' :
        page'[i].name = page'[j].name /\ page'[i].name \in steady \cup {Parent} => i = j
  BY <1>2, <1>4, <1>6 DEF Collected
<1>9. Collected(page', {}, ~cut)
  BY <1>2, <1>6, <1>7, <1>8 DEF Collected
<1>10. ASSUME NEW i \in DOMAIN page', NEW j \in DOMAIN page', i < j
       PROVE  /\ Dsortf(page'[i], page'[j]) <= 0
              /\ page'[i].name = Parent => page'[j].name # Parent
  <2>1. i # j
    BY <1>3, <1>6, <1>10
  <2> QED BY <1>1, <1>6, <1>8, <1>10, <2>1
<1>11. \A i \in DOMAIN page' : page'[i] \in Ent
  BY <1>3, <1>6
<1> QED BY <1>9, <1>10, <1>11

\* Where entries belong depends on the view only.
LEMMA SortedKept ==
  ASSUME view' = view,
         \A i, j \in DOMAIN page' : i < j =>
           /\ page'[j].name # Parent
           /\ page'[i].name # Parent => NotAfter(Place(page'[i]), Place(page'[j]))
  PROVE  PageIsSorted'
<1>1. ASSUME NEW CONSTANT a, NEW CONSTANT b
      PROVE  NotAfter(Place(a), Place(b))' <=> NotAfter(Place(a), Place(b))
  <2>1. Place(a)' = Place(a) /\ Place(b)' = Place(b)
    BY DEF Place, Column
  <2> QED BY <2>1 DEF NotAfter
<1>2. ASSUME NEW CONSTANT i \in DOMAIN page', NEW CONSTANT j \in DOMAIN page', i < j
      PROVE  /\ page'[j].name # Parent
             /\ page'[i].name # Parent => NotAfter(Place(page[i]), Place(page[j]))'
  <2>1. PICK a, b : a = page'[i] /\ b = page'[j]
    OBVIOUS
  <2>2. a.name # Parent => NotAfter(Place(a), Place(b))
    BY <1>2, <2>1
  <2>3. a.name # Parent => NotAfter(Place(a), Place(b))'
    BY <1>1, <2>2
  <2>4. NotAfter(Place(a), Place(b))' <=> NotAfter(Place(page[i]), Place(page[j]))'
    BY <2>1 DEF NotAfter, Place, Column
  <2> QED BY <1>2, <2>1, <2>3, <2>4
<1> QED BY <1>2 DEF PageIsSorted

\* Nothing of what is listed, of how, and of the folder changes.
Kept == UNCHANGED <<list, page, unread, cut, view, conf, folder, steady, was>>

LEMMA CollectedKept ==
  ASSUME CollectedInv, PageIsSorted, Kept,
         \/ pc' = pc
         \/ pc' \notin {"read", "sort", "tail", "sent"}
            /\ (pc' \in Opening => pc \in Opening)
         \/ pc = "tail" /\ pc' = "sent"
  PROVE  CollectedInv' /\ PageIsSorted'
<1>1. /\ list' = list /\ page' = page /\ unread' = unread /\ cut' = cut
      /\ view' = view /\ conf' = conf
      /\ folder' = folder /\ steady' = steady /\ was' = was
  BY DEF Kept
<1>2. CollectedInv'
  <2>1. \A entries, still, complete :
          Collected(entries, still, complete) => Collected(entries, still, complete)'
    BY <1>1 DEF Collected, Seen, HasName, Shown, Entry, Columns
  <2>2. /\ Collected(list, unread, TRUE) => Collected(list, unread, TRUE)'
        /\ Collected(list, {}, ~cut) => Collected(list, {}, ~cut)'
        /\ Collected(page, {}, ~cut) => Collected(page, {}, ~cut)'
    BY <1>1 DEF Collected, Seen, HasName, Shown, Entry, Columns
  <2> QED BY <1>1, <2>2 DEF CollectedInv, Opening
<1>3. PageIsSorted'
  <2>1. CASE pc' \in {"tail", "sent"}
    BY <1>1, <2>1, SortedKept DEF PageIsSorted
  <2>2. CASE pc' \notin {"tail", "sent"}
    BY <2>2 DEF PageIsSorted
  <2> QED BY <2>1, <2>2
<1> QED BY <1>2, <1>3

\* The page is collected and sorted by every step.
LEMMA CollectedStep ==
  ASSUME TypeOK, CollectedInv, PageIsSorted, [Next]_vars
  PROVE  CollectedInv' /\ PageIsSorted'
<1>1. ASSUME NEW q, Begin(q) PROVE CollectedInv' /\ PageIsSorted'
  <2>1. pc' \in {"arguments", "head"} /\ list' = <<>> /\ unread' = Name /\ steady' = Name
        /\ was' = [n \in Name |-> {folder[n]}] /\ folder' = folder
    BY <1>1 DEF Begin
  <2> QED BY <2>1 DEF CollectedInv, PageIsSorted, Opening
<1>2. CASE ReadWord
  BY <1>2, CollectedKept
     DEF ReadWord, Refuse, Kept, Opening, request, reading, document, disk
<1>3. CASE EndScope
  <2>1. pc' \in {"config", "idle", "refused"}
    BY <1>3 DEF EndScope, Refuse
  <2>2. UNCHANGED <<folder, was>>
    BY <1>3 DEF EndScope, disk
  <2> QED BY <2>1, <2>2 DEF CollectedInv, PageIsSorted, Opening
<1>4. CASE Reconfigure
  <2>1. pc' = "config" /\ UNCHANGED <<folder, was>>
    BY <1>4 DEF Reconfigure, disk
  <2> QED BY <2>1 DEF CollectedInv, PageIsSorted, Opening
<1>5. CASE Receive
  BY <1>1, <1>5 DEF Receive
<1>6. CASE ParseArgument
  <2>1. pc' = "arguments" /\ pc = "arguments"
        /\ UNCHANGED <<list, unread, folder, steady, was>>
    BY <1>6 DEF ParseArgument, reading, disk
  <2> QED BY <2>1 DEF CollectedInv, PageIsSorted, Opening
<1>7. CASE EndArguments
  BY <1>7, CollectedKept
     DEF EndArguments, Kept, Opening, config, request, reading, document, disk
<1>8. CASE EmitHead
  BY <1>8, CollectedKept DEF EmitHead, Kept, Opening, config, request, reading, disk
<1>9. CASE AddParent
  <2>1. pc = "parent" /\ pc' = "read" /\ unread' = unread
        /\ UNCHANGED <<folder, steady, was>>
    BY <1>9 DEF AddParent, disk
  <2>2. steady \subseteq unread /\ \A n \in Name : folder[n] \in was[n]
    BY <2>1 DEF CollectedInv, Opening
  <2>3. list' = <<>> \/ list' = <<ParentEntry>>
    BY <1>9 DEF AddParent
  <2>4. \A i \in DOMAIN list' : i = 1 /\ list'[i].name = Parent
    BY <2>3 DEF ParentEntry
  <2>5. Collected(list, unread, TRUE)'
    <3>1. \A n \in steady' : n \in unread' /\ ~HasName(list', n)
      BY <2>1, <2>2, <2>4, Assumed DEF HasName, TypeOK
    <3> QED BY <2>4, <3>1 DEF Collected, HasName, Seen
  <2> QED BY <2>1, <2>2, <2>5 DEF CollectedInv, PageIsSorted, Opening
<1>10. ASSUME NEW n \in Name, ReadEntry(n) PROVE CollectedInv' /\ PageIsSorted'
  <2>1. pc = "read" /\ pc' = "read" /\ UNCHANGED <<view, conf, folder, steady, was>>
    BY <1>10 DEF ReadEntry, config, request, disk
  <2>2. Collected(list', unread', TRUE)
    BY <1>10, ReadCollects
  <2>3. Collected(list, unread, TRUE)'
    BY <2>1, <2>2 DEF Collected, Seen, HasName, Shown, Entry, Columns
  <2> QED BY <2>1, <2>3 DEF CollectedInv, PageIsSorted, Opening
<1>11. CASE EndRead
  <2>1. /\ pc = "read" /\ pc' = "sort"
        /\ UNCHANGED <<list, unread, view, conf, folder, steady, was>>
    BY <1>11 DEF EndRead, config, request, disk
  <2>2. cut' \/ \A m \in unread \cap steady : ~Shown(m, folder[m])
    BY <1>11 DEF EndRead, Shown, NoItem
  <2>3. Collected(list, {}, ~cut')
    BY <2>1, <2>2 DEF CollectedInv, Collected
  <2>4. Collected(list, {}, ~cut)'
    BY <2>1, <2>3 DEF Collected, Seen, HasName, Shown, Entry, Columns
  <2> QED BY <2>1, <2>4 DEF CollectedInv, PageIsSorted, Opening
<1>12. CASE Sort
  <2>1. pc' = "tail" /\ UNCHANGED <<view, conf, folder, steady, was, cut>>
    BY <1>12 DEF Sort, config, request, disk
  <2>2. /\ Collected(page', {}, ~cut)
        /\ \A i, j \in DOMAIN page' : i < j =>
             /\ Dsortf(page'[i], page'[j]) <= 0
             /\ page'[i].name = Parent => page'[j].name # Parent
        /\ \A i \in DOMAIN page' : page'[i] \in Ent
    BY <1>12, SortCollects
  <2>3. Collected(page, {}, ~cut)'
    BY <2>1, <2>2 DEF Collected, Seen, HasName, Shown, Entry, Columns
  <2>4. ASSUME NEW i \in DOMAIN page', NEW j \in DOMAIN page', i < j
        PROVE  /\ page'[j].name # Parent
               /\ page'[i].name # Parent => NotAfter(Place(page'[i]), Place(page'[j]))
    BY <2>2, <2>4, DsortfIsPlace
  <2>5. PageIsSorted'
    BY <2>1, <2>4, SortedKept
  <2> QED BY <2>1, <2>3, <2>5 DEF CollectedInv, Opening
<1>13. CASE EmitTail
  BY <1>13, CollectedKept DEF EmitTail, Kept, Opening, config, request, reading, disk
<1>14. ASSUME NEW column \in {"N", "M", "S", "D"}, Click(column)
       PROVE  CollectedInv' /\ PageIsSorted'
  BY <1>1, <1>14 DEF Click
<1>15. ASSUME NEW n \in Name, Change(n) PROVE CollectedInv' /\ PageIsSorted'
  <2>1. /\ pc' = pc /\ pc \in {"idle", "arguments", "head", "parent", "read"}
        /\ steady' = steady \ {n} /\ list' = list /\ UNCHANGED <<view, conf>>
    BY <1>15 DEF Change, config, request
  <2>2. PICK item \in (Items[n] \cup {NoItem}) \ {folder[n]} :
          /\ folder' = [folder EXCEPT ![n] = item]
          /\ was' = [was EXCEPT ![n] = @ \cup {item}]
          /\ unread' \in IF item = NoItem THEN {unread} ELSE {unread, unread \cup {n}}
    BY <1>15 DEF Change
  <2>3. /\ \A m \in Name : was[m] \subseteq was'[m]
        /\ \A m \in steady' : folder'[m] = folder[m]
        /\ \A m \in steady' : m \in unread <=> m \in unread'
        /\ unread \subseteq unread'
        /\ steady' \subseteq steady
    BY <2>1, <2>2 DEF TypeOK
  <2>4. \A m \in Name : folder'[m] \in was'[m]
    BY <2>2 DEF CollectedInv, TypeOK
  <2>5. ASSUME pc = "read" PROVE Collected(list, unread, TRUE)'
    <3>1. Collected(list, unread, TRUE)
      BY <2>5 DEF CollectedInv
    <3>2. PICK entries, S, T : entries = list /\ S = unread /\ T = unread'
      OBVIOUS
    <3>3. Collected(entries, S, TRUE)
      BY <3>1, <3>2
    <3>4. Collected(entries, T, TRUE)'
      BY <2>1, <2>3, <3>2, <3>3, CollectedAside
    <3> QED BY <2>1, <3>2, <3>4 DEF Collected, HasName
  <2> QED BY <2>1, <2>3, <2>4, <2>5 DEF CollectedInv, PageIsSorted, Opening
<1>16. CASE UNCHANGED vars
  BY <1>16, CollectedKept
     DEF vars, Kept, config, request, reading, document, disk
<1> QED BY <1>2, <1>3, <1>4, <1>5, <1>6, <1>7, <1>8, <1>9, <1>10, <1>11, <1>12, <1>13,
           <1>14, <1>15, <1>16 DEF Next

LEMMA CollectedInit == Init => CollectedInv /\ PageIsSorted
BY DEF Init, CollectedInv, PageIsSorted, Opening

LEMMA CollectedAlways == Spec => [](CollectedInv /\ PageIsSorted)
<1>1. TypeInv /\ (CollectedInv /\ PageIsSorted) /\ [Next]_vars
        => (CollectedInv /\ PageIsSorted)'
  BY CollectedStep DEF TypeInv
<1>2. Spec => []TypeInv
  BY TypeInit, TypeStep, PTL DEF Spec
<1> QED BY CollectedInit, <1>1, <1>2, PTL DEF Spec

\* Every page lists what was there, untouched, from the opening of the folder on,
\* once and as it is, and nothing that was not there meanwhile, whatever folder,
\* configuration, request and changes: the loop over readdir.
THEOREM PagesAreFaithful == Spec => []PageIsFaithful
<1>1. TypeInv /\ CollectedInv => PageIsFaithful
  BY CollectedIsFaithful DEF TypeInv
<1>2. Spec => []TypeInv
  BY TypeInit, TypeStep, PTL DEF Spec
<1> QED BY CollectedAlways, <1>1, <1>2, PTL

\* Every page is sorted as asked, under any four comparisons of names that put
\* them in some order and of which the last tells all names apart: dsortf, which
\* qsort asks about pairs only.
THEOREM PagesAreSorted == Spec => []PageIsSorted
BY CollectedAlways, PTL

-----------------------------------------------------------------------------
(* The options in force.                                                   *)

\* What the first n words say with a sign, and have not taken back; what they
\* say without one.
SignedIn(words, n, sign) ==
  {o \in Option : \E j \in 1..n :
     /\ words[j] = [sign |-> sign, option |-> o]
     /\ \A k \in 1..n : k > j => words[k].sign # "plain" /\
          (words[k].option = o => words[k].sign = sign)}
NoneIn(words, n) == \E j \in 1..n : words[j].option = "none"
PlainIn(words, n) == {words[j].option : j \in {k \in 1..n : words[k].sign = "plain"}}

\* A record after the first n words.
Said(c, words, n) ==
  /\ c.add = SignedIn(words, n, "+")
  /\ c.remove = SignedIn(words, n, "-")
  /\ "none" \in c.opts <=> NoneIn(words, n)
  /\ "none" \notin c.opts => c.opts = PlainIn(words, n)

\* The record of a scope says what the words read so far say.
RecordInv == pc = "config" => Said(record, said[scope].words, word)

\* Scope k is the innermost of the first n with plain options, or the outermost.
Rules(k, n) ==
  /\ k \in 1..n
  /\ k = 1 \/ Plain(k) # {}
  /\ \A i \in 1..n : i > k => Plain(i) = {}
Under(k, n) == {i \in 1..n : i > k \/ (i = 1 /\ k = 1)}
Asked(k, n, sign) == UNION {Signed(i, sign) : i \in Under(k, n)}

\* c is the merge of the first n scopes.
Merged(c, n) ==
  \E k \in 1..n :
    /\ Rules(k, n)
    /\ c.remove = Asked(k, n, "-")
    /\ c.add \ c.remove = Asked(k, n, "+") \ c.remove
    /\ c.opts = IF k = n THEN Plain(k)
                ELSE ((Plain(k) \ {"none"}) \cup Asked(k, n, "+")) \ Asked(k, n, "-")

OptionsInv ==
  /\ RecordInv
  /\ pc = "config" /\ scope > 1 => Merged(conf, scope - 1)
  /\ pc \notin {"config", "refused"} => Merged(conf, Len(said))

\* One word more.
LEMMA SignedNext ==
  ASSUME NEW words \in Seq(Word), NEW n \in Nat, n < Len(words),
         NEW s \in {"+", "-"}
  PROVE  LET w == words[n + 1]
         IN /\ w.sign = "plain" => SignedIn(words, n + 1, s) = {}
            /\ w.sign = s /\ w.option \in Option =>
                 SignedIn(words, n + 1, s) = SignedIn(words, n, s) \cup {w.option}
            /\ w.sign \notin {"plain", s} =>
                 SignedIn(words, n + 1, s) = SignedIn(words, n, s) \ {w.option}
<1> DEFINE w == words[n + 1]
           Last(o, j, m) == /\ words[j] = [sign |-> s, option |-> o]
                            /\ \A k \in 1..m : k > j => words[k].sign # "plain" /\
                                 (words[k].option = o => words[k].sign = s)
<1>1. /\ 1..n + 1 = 1..n \cup {n + 1} /\ \A j \in 1..n : ~(j > n + 1) /\ n + 1 > j
      /\ ~(n + 1 > n + 1)
  OBVIOUS
<1>2. \A j \in 1..n + 1 : words[j] \in Word
  OBVIOUS
<1>3. w = [sign |-> w.sign, option |-> w.option]
  BY <1>2 DEF Word
<1>4. ASSUME NEW o, NEW j \in 1..n
      PROVE  Last(o, j, n + 1) <=>
               Last(o, j, n) /\ w.sign # "plain" /\ (w.option = o => w.sign = s)
  BY <1>1
<1>5. ASSUME NEW o PROVE Last(o, n + 1, n + 1) <=> w.sign = s /\ w.option = o
  <2>1. \A k \in 1..n + 1 : ~(k > n + 1)
    BY <1>1
  <2> QED BY <1>3, <2>1
<1>6. \A m : SignedIn(words, m, s) = {o \in Option : \E j \in 1..m : Last(o, j, m)}
  BY DEF SignedIn
<1> HIDE DEF w, Last
<1>7. \A o \in Option :
        o \in SignedIn(words, n + 1, s) <=>
          \/ o \in SignedIn(words, n, s) /\ w.sign # "plain" /\ (w.option = o => w.sign = s)
          \/ w.sign = s /\ w.option = o
  BY <1>1, <1>4, <1>5, <1>6
<1>8. /\ SignedIn(words, n + 1, s) \subseteq Option
      /\ SignedIn(words, n, s) \subseteq Option
  BY DEF SignedIn
<1>9. w.sign = "plain" => SignedIn(words, n + 1, s) = {}
  BY <1>7, <1>8
<1>10. w.sign = s /\ w.option \in Option =>
         SignedIn(words, n + 1, s) = SignedIn(words, n, s) \cup {w.option}
  BY <1>7, <1>8
<1>11. w.sign \notin {"plain", s} =>
         SignedIn(words, n + 1, s) = SignedIn(words, n, s) \ {w.option}
  BY <1>7, <1>8
<1> QED BY <1>9, <1>10, <1>11 DEF w

\* add_opts, one word more: a sign on None is an error and has been refused.
LEMMA WordSaid ==
  ASSUME NEW words \in Seq(Word), NEW n \in Nat, n < Len(words),
         NEW c, c \in [opts : SUBSET (Option \cup {"none"}), add : SUBSET Option,
                       remove : SUBSET Option, order : {None}, ignore : {{}}],
         Said(c, words, n),
         words[n + 1].option = "none" => words[n + 1].sign = "plain"
  PROVE  Said(AddWord(c, words[n + 1]), words, n + 1)
<1> DEFINE w == words[n + 1]
           d == AddWord(c, w)
<1>1. w.sign \in {"plain", "+", "-"} /\ w.option \in Option \cup {"none"} /\ "none" \notin Option
  <2>1. w \in Word
    OBVIOUS
  <2> QED BY <2>1 DEF Word, Option
<1>2. /\ NoneIn(words, n + 1) <=> NoneIn(words, n) \/ w.option = "none"
      /\ PlainIn(words, n + 1) = PlainIn(words, n) \cup (IF w.sign = "plain" THEN {w.option} ELSE {})
  <2>1. 1..n + 1 = 1..n \cup {n + 1}
    OBVIOUS
  <2>2. NoneIn(words, n + 1) <=> NoneIn(words, n) \/ w.option = "none"
    BY <2>1 DEF NoneIn
  <2>3. PlainIn(words, n + 1) = PlainIn(words, n) \cup (IF w.sign = "plain" THEN {w.option} ELSE {})
    BY <2>1 DEF PlainIn
  <2> QED BY <2>2, <2>3
<1>3. \A s \in {"+", "-"} :
        /\ w.sign = "plain" => SignedIn(words, n + 1, s) = {}
        /\ w.sign = s /\ w.option \in Option =>
             SignedIn(words, n + 1, s) = SignedIn(words, n, s) \cup {w.option}
        /\ w.sign \notin {"plain", s} =>
             SignedIn(words, n + 1, s) = SignedIn(words, n, s) \ {w.option}
  BY SignedNext
<1> HIDE DEF w
<1>4. CASE w.option = "none"
  BY <1>2, <1>3, <1>4 DEF Said, AddWord, w
<1>5. CASE w.option # "none" /\ w.sign = "plain"
  <2>1. d = [c EXCEPT !.opts = @ \cup {w.option}, !.add = {}, !.remove = {}]
    BY <1>5 DEF AddWord
  <2> QED BY <1>2, <1>3, <1>5, <2>1 DEF Said, w
<1>6. CASE w.option # "none" /\ w.sign = "+"
  <2>1. d = [c EXCEPT !.add = @ \cup {w.option}, !.remove = @ \ {w.option}]
    BY <1>6 DEF AddWord
  <2> QED BY <1>1, <1>2, <1>3, <1>6, <2>1 DEF Said, w
<1>7. CASE w.option # "none" /\ w.sign = "-"
  <2>1. d = [c EXCEPT !.remove = @ \cup {w.option}, !.add = @ \ {w.option}]
    BY <1>7 DEF AddWord
  <2> QED BY <1>1, <1>2, <1>3, <1>7, <2>1 DEF Said, w
<1> QED BY <1>1, <1>4, <1>5, <1>6, <1>7 DEF w

\* A scope before its first word, and after its last, unless it is refused.
LEMMA ScopeSaid ==
  ASSUME NEW c
  PROVE  /\ \A words : Said(NewConf, words, 0)
         /\ \A i \in DOMAIN said :
              /\ said[i].words \in Seq(Word)
              /\ Said(c, said[i].words, Len(said[i].words))
              /\ ~("none" \in c.opts /\ c.opts # {"none"})
              => /\ c.opts = Plain(i)
                 /\ c.add = Signed(i, "+") /\ c.remove = Signed(i, "-")
<1>1. ASSUME NEW words PROVE Said(NewConf, words, 0)
  <2>1. 1..0 = {}
    OBVIOUS
  <2> QED BY <2>1 DEF Said, NewConf, SignedIn, NoneIn, PlainIn
<1>2. ASSUME NEW i \in DOMAIN said, said[i].words \in Seq(Word),
             Said(c, said[i].words, Len(said[i].words)),
             ~("none" \in c.opts /\ c.opts # {"none"})
      PROVE  /\ c.opts = Plain(i)
             /\ c.add = Signed(i, "+") /\ c.remove = Signed(i, "-")
  <2> DEFINE words == said[i].words
  <2>1. DOMAIN words = 1..Len(words)
    BY <1>2
  <2>2. /\ SignedIn(words, Len(words), "+") = Signed(i, "+")
        /\ SignedIn(words, Len(words), "-") = Signed(i, "-")
    BY <2>1 DEF SignedIn, Signed
  <2>3. Plain(i) = IF NoneIn(words, Len(words)) THEN {"none"}
                   ELSE PlainIn(words, Len(words))
    BY <2>1 DEF Plain, NoneIn, PlainIn
  <2> QED BY <1>2, <2>2, <2>3 DEF Said
<1> QED BY <1>1, <1>2

\* The outermost scope.
LEMMA MergedFirst ==
  ASSUME NEW c, c.opts = Plain(1), c.add = Signed(1, "+"), c.remove = Signed(1, "-")
  PROVE  Merged(c, 1)
<1>1. 1..1 = {1}
  OBVIOUS
<1>2. Under(1, 1) = {1} /\ Rules(1, 1)
  BY <1>1 DEF Under, Rules
<1>3. \A sign : Asked(1, 1, sign) = Signed(1, sign)
  BY <1>2 DEF Asked
<1> QED BY <1>1, <1>2, <1>3 DEF Merged

\* merge_autoindex_configs, one scope farther in.
LEMMA MergedNext ==
  ASSUME NEW n \in Nat \ {0}, NEW base, Merged(base, n),
         NEW new, new.opts = Plain(n + 1),
         new.add = Signed(n + 1, "+"), new.remove = Signed(n + 1, "-")
  PROVE  Merged(Merge(base, new), n + 1)
<1> DEFINE c == Merge(base, new)
<1>1. /\ 1..n + 1 = 1..n \cup {n + 1} /\ n + 1 \notin 1..n
      /\ n + 1 \in 1..n + 1 /\ n + 1 # 1
      /\ \A k \in 1..n : k # n + 1 /\ n + 1 > k /\ ~(k > n + 1)
      /\ ~(n + 1 > n + 1)
  OBVIOUS
<1>2. CASE Plain(n + 1) # {}
  <2>1. c.opts = Plain(n + 1) /\ c.add = {} /\ c.remove = {}
    BY <1>2 DEF Merge
  <2>2. Rules(n + 1, n + 1)
    BY <1>1, <1>2 DEF Rules
  <2>3. Under(n + 1, n + 1) = {}
    BY <1>1 DEF Under
  <2>4. \A sign : Asked(n + 1, n + 1, sign) = {}
    BY <2>3 DEF Asked
  <2> HIDE DEF c
  <2>5. Merged(c, n + 1)
    BY <1>1, <2>1, <2>2, <2>4 DEF Merged
  <2> QED BY <2>5 DEF c
<1>3. CASE Plain(n + 1) = {}
  <2>1. PICK k \in 1..n :
          /\ Rules(k, n)
          /\ base.remove = Asked(k, n, "-")
          /\ base.add \ base.remove = Asked(k, n, "+") \ base.remove
          /\ base.opts = IF k = n THEN Plain(k)
                         ELSE ((Plain(k) \ {"none"}) \cup Asked(k, n, "+"))
                              \ Asked(k, n, "-")
    BY DEF Merged
  <2>2. /\ c.opts = ((base.opts \ {"none"}) \cup ((base.add \cup new.add) \ new.remove))
                    \ (base.remove \cup new.remove)
        /\ c.add = (base.add \cup new.add) \ new.remove
        /\ c.remove = base.remove \cup new.remove
    BY <1>3 DEF Merge
  <2>3. Rules(k, n + 1)
    BY <1>1, <1>3, <2>1 DEF Rules
  <2>4. Under(k, n + 1) = Under(k, n) \cup {n + 1}
    BY <1>1 DEF Under
  <2>5. \A sign : Asked(k, n + 1, sign) = Asked(k, n, sign) \cup Signed(n + 1, sign)
    BY <2>4 DEF Asked
  <2>6. \A sign : "none" \notin Asked(k, n, sign)
    BY DEF Asked, Signed, Option
  <2> HIDE DEF c
  <2>7. c.remove = Asked(k, n + 1, "-")
    BY <2>1, <2>2, <2>5
  <2>8. c.add \ c.remove = Asked(k, n + 1, "+") \ c.remove
    BY <2>1, <2>2, <2>5
  <2>9. c.opts = ((Plain(k) \ {"none"}) \cup Asked(k, n + 1, "+")) \ Asked(k, n + 1, "-")
    BY <2>1, <2>2, <2>5, <2>6
  <2>10. Merged(c, n + 1)
    BY <1>1, <2>3, <2>7, <2>8, <2>9 DEF Merged
  <2> QED BY <2>10 DEF c
<1> QED BY <1>2, <1>3

\* The scopes do not change while they are merged.
LEMMA MergedKept ==
  ASSUME said' = said
  PROVE  /\ \A n : Merged(conf, n)' <=> Merged(conf', n)
  BY DEF Merged, Rules, Under, Asked, Plain, Signed

LEMMA OptionsInit == Init => OptionsInv
<1> SUFFICES ASSUME Init PROVE OptionsInv
  OBVIOUS
<1>1. pc = "config" /\ scope = 1 /\ word = 0 /\ record = NewConf
  BY DEF Init
<1> QED BY <1>1, ScopeSaid DEF OptionsInv, RecordInv

LEMMA OptionsStep == TypeInv /\ OptionsInv /\ [Next]_vars => OptionsInv'
<1> SUFFICES ASSUME TypeInv, OptionsInv, [Next]_vars PROVE OptionsInv'
  OBVIOUS
<1>1. CASE ReadWord
  <2> DEFINE words == said[scope].words
  <2>1. /\ pc = "config" /\ word \in Nat /\ word < Len(words) /\ word' = word + 1
        /\ words \in Seq(Word) /\ Said(record, words, word)
        /\ UNCHANGED <<said, scope, conf>>
    BY <1>1, ScopeHasType DEF ReadWord, TypeInv, ReadingInv, TypeOK, OptionsInv, RecordInv
  <2>2. scope > 1 => Merged(conf, scope - 1)'
    BY <2>1, MergedKept DEF OptionsInv
  <2>3. CASE words[word + 1].option = "none" /\ words[word + 1].sign # "plain"
    <3>1. pc' = "refused"
      BY <1>1, <2>3 DEF ReadWord, Refuse
    <3> QED BY <3>1 DEF OptionsInv, RecordInv
  <2>4. CASE ~(words[word + 1].option = "none" /\ words[word + 1].sign # "plain")
    <3>1. pc' = "config" /\ record' = AddWord(record, words[word + 1])
      BY <1>1, <2>1, <2>4 DEF ReadWord
    <3>2. Said(record', words, word + 1)
      BY <2>1, <2>4, <3>1, WordSaid DEF TypeInv, TypeOK
    <3> HIDE DEF words
    <3>3. Said(record, said[scope].words, word)'
      BY <2>1, <3>2 DEF Said, words
    <3> QED BY <2>1, <2>2, <3>1, <3>3 DEF OptionsInv, RecordInv
  <2> QED BY <2>3, <2>4
<1>2. CASE EndScope
  <2>1. /\ pc = "config" /\ scope \in DOMAIN said /\ word = Len(said[scope].words)
        /\ said \in Seq(Scope) /\ said[scope].words \in Seq(Word)
        /\ Said(record, said[scope].words, word)
        /\ said' = said
    BY <1>2, ScopeHasType DEF EndScope, TypeInv, ReadingInv, TypeOK, OptionsInv, RecordInv
  <2>2. CASE "none" \in record.opts /\ record.opts # {"none"}
    <3>1. pc' = "refused"
      BY <1>2, <2>2 DEF EndScope, Refuse
    <3> QED BY <3>1 DEF OptionsInv, RecordInv
  <2>3. CASE ~("none" \in record.opts /\ record.opts # {"none"})
    <3> DEFINE new == [record EXCEPT !.order = said[scope].order,
                                     !.ignore = said[scope].ignore]
    <3>1. /\ conf' = IF scope = 1 THEN new ELSE Merge(conf, new)
          /\ record' = NewConf /\ word' = 0 /\ scope' = scope + 1
          /\ pc' = IF scope = Len(said) THEN "idle" ELSE "config"
      BY <1>2, <2>3 DEF EndScope
    <3>2. new.opts = record.opts /\ new.add = record.add /\ new.remove = record.remove
      BY DEF TypeInv, TypeOK
    <3> HIDE DEF new
    <3>3. /\ new.opts = Plain(scope)
          /\ new.add = Signed(scope, "+") /\ new.remove = Signed(scope, "-")
      BY <2>1, <2>3, <3>2, ScopeSaid
    <3>4. scope \in 1..Len(said)
      BY <2>1
    <3>5. Merged(conf', scope)
      <4>1. CASE scope = 1
        BY <3>1, <3>3, <4>1, MergedFirst
      <4>2. CASE scope # 1
        <5>1. /\ scope > 1 /\ scope - 1 \in Nat \ {0} /\ (scope - 1) + 1 = scope
          BY <3>4, <4>2
        <5>2. Merged(conf, scope - 1)
          BY <2>1, <5>1 DEF OptionsInv
        <5>3. Merged(Merge(conf, new), (scope - 1) + 1)
          BY <3>3, <5>1, <5>2, MergedNext
        <5> QED BY <3>1, <4>2, <5>1, <5>3
      <4> QED BY <4>1, <4>2
    <3>6. CASE scope = Len(said)
      <4>1. pc' = "idle" /\ Len(said') = scope
        BY <2>1, <3>1, <3>6
      <4>2. Merged(conf, Len(said))'
        BY <2>1, <3>5, <4>1, MergedKept
      <4> QED BY <4>1, <4>2 DEF OptionsInv, RecordInv
    <3>7. CASE scope # Len(said)
      <4>1. pc' = "config" /\ scope' - 1 = scope
        BY <3>1, <3>4, <3>7
      <4>2. Merged(conf, scope - 1)'
        BY <2>1, <3>5, <4>1, MergedKept
      <4>3. Said(record, said[scope].words, word)'
        BY <3>1, ScopeSaid DEF Said
      <4> QED BY <4>1, <4>2, <4>3 DEF OptionsInv, RecordInv
    <3> QED BY <3>6, <3>7
  <2> QED BY <2>2, <2>3
<1>3. CASE Reconfigure
  <2>1. pc' = "config" /\ scope' = 1 /\ word' = 0 /\ record' = NewConf
    BY <1>3 DEF Reconfigure
  <2>2. Said(record, said[scope].words, word)'
    BY <2>1, ScopeSaid DEF Said
  <2> QED BY <2>1, <2>2 DEF OptionsInv, RecordInv
<1>4. CASE /\ pc \notin {"config", "refused"} /\ pc' \notin {"config", "refused"}
           /\ UNCHANGED <<said, conf>>
  <2>1. Merged(conf, Len(said))
    BY <1>4 DEF OptionsInv
  <2>2. Merged(conf, Len(said))'
    BY <1>4, <2>1, MergedKept
  <2> QED BY <1>4, <2>2 DEF OptionsInv, RecordInv
<1>5. CASE UNCHANGED vars
  <2>1. UNCHANGED <<said, scope, word, record, conf, pc>>
    BY <1>5 DEF vars, config
  <2>2. scope > 1 /\ Merged(conf, scope - 1) => Merged(conf, scope - 1)'
    BY <2>1, MergedKept
  <2>3. Merged(conf, Len(said)) => Merged(conf, Len(said))'
    BY <2>1, MergedKept
  <2>4. Said(record, said[scope].words, word) => Said(record, said[scope].words, word)'
    BY <2>1 DEF Said
  <2> QED BY <2>1, <2>2, <2>3, <2>4 DEF OptionsInv, RecordInv
<1>6. ASSUME Next, ~ReadWord, ~EndScope, ~Reconfigure
      PROVE  /\ pc \notin {"config", "refused"} /\ pc' \notin {"config", "refused"}
             /\ UNCHANGED <<said, conf>>
  BY <1>6 DEF Next, Receive, Begin, ParseArgument, EndArguments, EmitHead, AddParent,
              ReadEntry, EndRead, Sort, EmitTail, Click, Change, config
<1> QED BY <1>1, <1>2, <1>3, <1>4, <1>5, <1>6

\* The options in force are those the scopes ask for, whatever their number and
\* their words: merge_autoindex_configs folds two scopes at a time and keeps only
\* what was added and removed last, which says the same as looking at them all.
THEOREM OptionsAreMerged == Spec => []OptionsAsDirected
<1>1. TypeInv /\ OptionsInv => OptionsAsDirected
  <2> SUFFICES ASSUME TypeInv, OptionsInv, pc \notin {"config", "refused"}
               PROVE  OptionsAsDirected
    BY DEF OptionsAsDirected
  <2>1. DOMAIN said = 1..Len(said) /\ Len(said) \in Nat
    BY ScopeHasType DEF TypeInv, TypeOK
  <2>2. PICK k \in 1..Len(said) :
          /\ Rules(k, Len(said))
          /\ conf.opts = IF k = Len(said) THEN Plain(k)
                         ELSE ((Plain(k) \ {"none"}) \cup Asked(k, Len(said), "+"))
                              \ Asked(k, Len(said), "-")
    BY DEF OptionsInv, Merged
  <2>3. /\ k \in DOMAIN said
        /\ k = 1 \/ Plain(k) # {}
        /\ \A i \in DOMAIN said : i > k => Plain(i) = {}
    BY <2>1, <2>2 DEF Rules
  <2>4. "none" \in conf.opts <=> k = Len(said) /\ "none" \in Plain(k)
    <3>1. \A sign : "none" \notin Asked(k, Len(said), sign)
      BY DEF Asked, Signed, Option
    <3> QED BY <2>2, <3>1
  <2>5. ASSUME k # Len(said), NEW o \in Option
        PROVE  o \in conf.opts <=>
                 /\ o \in Plain(k) \/ \E i \in Below(k) : o \in Signed(i, "+")
                 /\ \A i \in Below(k) : o \notin Signed(i, "-")
    <3>1. k < Len(said)
      <4>1. \A l \in Nat : \A m \in 1..l : m # l => m < l
        OBVIOUS
      <4> QED BY <2>1, <2>5, <4>1, Zenon
    <3>2. Under(k, Len(said)) = Below(k)
      <4>1. Below(k) = {i \in DOMAIN said : i > k \/ (i = 1 /\ k = 1)}
        BY <3>1 DEF Below
      <4> QED BY <2>1, <4>1, Zenon DEF Under
    <3>3. o # "none"
      BY DEF Option
    <3> QED BY <2>2, <2>5, <3>2, <3>3 DEF Asked
  <2> DEFINE adds == UNION {Signed(i, "+") \X {i} : i \in Below(k)}
             removes == UNION {Signed(i, "-") \X {i} : i \in Below(k)}
             saying(o) == {i \in Below(k) : <<o, i>> \in adds \cup removes}
  <2>6. \A o : \A i \in Below(k) : /\ <<o, i>> \in adds <=> o \in Signed(i, "+")
                                   /\ <<o, i>> \in removes <=> o \in Signed(i, "-")
    OBVIOUS
  <2>7. ASSUME NEW o \in Option
        PROVE  /\ saying(o) = {} => (o \in conf.opts <=> o \in Plain(k))
               /\ \A i \in saying(o) : (\A j \in saying(o) : j <= i) =>
                    /\ <<o, i>> \in removes => o \notin conf.opts
                    /\ <<o, i>> \in adds =>
                         o \in conf.opts \/ \E j \in saying(o) : <<o, j>> \in removes
    <3>1. CASE k = Len(said)
      <4>1. Below(k) = {}
        BY <2>1, <3>1 DEF Below
      <4> QED BY <2>2, <3>1, <4>1
    <3>2. CASE k # Len(said)
      <4>1. saying(o) = {i \in Below(k) : o \in Signed(i, "+") \cup Signed(i, "-")}
        BY <2>6
      <4> HIDE DEF adds, removes
      <4> QED BY <2>5, <2>6, <3>2, <4>1
    <3> QED BY <3>1, <3>2
  <2>8. Directed(k)
    BY <2>4, <2>7, Zenon DEF Directed
  <2> QED BY <2>3, <2>8 DEF OptionsAsDirected
<1>2. Spec => []TypeInv
  BY TypeInit, TypeStep, PTL DEF Spec
<1> QED BY OptionsInit, OptionsStep, <1>1, <1>2, PTL DEF Spec

=============================================================================
