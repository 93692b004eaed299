------------------------------ MODULE Autoindex ------------------------------
(***************************************************************************)
(* server/mod_autoindex_mb/mod_autoindex_mb.c: the index of a folder.  The  *)
(* scopes of the configuration the folder is in (server, <Directory>,       *)
(* .htaccess) are read and merged, outermost first; then requests for the   *)
(* folder are answered, while entries of it come, go and change.            *)
(*                                                                         *)
(* Apache merges at each request.  The configuration does not change here,  *)
(* so that once is enough.                                                  *)
(***************************************************************************)
EXTENDS Integers, Sequences, FiniteSets

CONSTANTS
  Name,        \* names of entries the folder may have
  Parent,      \* the name of the entry that leads up
  Items,       \* what may be at each name
  Pattern,     \* the patterns a client may ask for (P=)
  Matches,     \* the names each matches
  Pieces,      \* what each is in a link, as arguments: see PatternArguments
  Queries,     \* the query strings of requests, as sequences of arguments
  Configs,     \* configurations of the folder: scopes, outermost first
  Folders,     \* what the folder may hold at first
  Rank,        \* the order of names under each comparison
  Desc,        \* the description of each name, as its rank; 0 is none
  MaxChanges,  \* bound on changes of the folder
  None

\* The options that decide something.
Option == {"fancy", "table", "folders_first", "version_sort", "ignore_case",
           "ignore_client", "show_forbidden", "suppress_preamble",
           "suppress_colsort"}
Word == [sign : {"plain", "+", "-"}, option : Option \cup {"none"}]
Order == [keyid : {"N", "M", "S", "D"}, direction : {"A", "D"}]
\* The words of IndexOptions, IndexOrderDefault, and the names IndexIgnore matches.
Scope == [words : Seq(Word), order : Order \cup {None},
          ignore : SUBSET (Name \cup {Parent})]
Conf == [opts : SUBSET (Option \cup {"none"}), add : SUBSET Option,
         remove : SUBSET Option, order : Order \cup {None},
         ignore : SUBSET (Name \cup {Parent})]
NewConf == [opts |-> {}, add |-> {}, remove |-> {}, order |-> None, ignore |-> {}]

\* An entry of the folder as lookups find it: links are followed, "broken" is
\* one that leads nowhere.
Item == [kind : {"file", "dir", "broken"}, size : Nat, time : Nat,
         status : {"ok", "forbidden", "missing"}]
NoItem == [kind |-> "none", size |-> 0, time |-> 0, status |-> "ok"]

\* F=: plain list, <pre> or table.  V=.
Format == {"0", "1", "2"}
Flag == {"0", "1"}

\* "bad" does not unescape; "junk" stands for all that is no argument.
Argument ==
  [key : {"C"}, value : {"N", "M", "S", "D"}] \cup [key : {"O"}, value : {"A", "D"}]
  \cup [key : {"F"}, value : Format] \cup [key : {"V"}, value : Flag]
  \cup [key : {"P"}, value : Pattern \cup {"", "bad"}] \cup [key : {"junk"}, value : {""}]

\* struct ent.  A folder's name has a slash at its end.
Ent == [name : Name \cup {Parent}, slash : BOOLEAN, isdir : BOOLEAN,
        size : Int, lm : Int, desc : Nat]

View == [opts : SUBSET (Option \cup {"none"}), keyid : {"N", "M", "S", "D"},
         direction : {"A", "D"}, pattern : Pattern \cup {None},
         f : Format \cup {None}, v : Flag \cup {None}, p : Pattern \cup {None}]

Comparison == {"natcase", "nat", "case", "plain"}

ASSUME IndexAssumption ==
  /\ Parent \notin Name /\ IsFiniteSet(Name)
  /\ Items \in [Name -> SUBSET Item]
  /\ Matches \in [Pattern -> SUBSET Name] /\ None \notin Pattern
  /\ "" \notin Pattern /\ "bad" \notin Pattern
  /\ Pieces \in [Pattern -> Seq(Argument)]
  /\ \A p \in Pattern : Pieces[p] # <<>> /\ Pieces[p][1].key = "P"
  /\ Queries \subseteq Seq(Argument)
  /\ Configs \subseteq Seq(Scope) /\ <<>> \notin Configs
  /\ Folders \subseteq [Name -> Item \cup {NoItem}]
  /\ None \notin Order /\ None \notin Format
  /\ Desc \in [Name -> Nat]
  /\ MaxChanges \in Nat

\* apr_strnatcasecmp, apr_strnatcmp, strcasecmp and strcmp; the last tells
\* all names apart.
ASSUME RankAssumption ==
  /\ Rank \in [Comparison -> [Name -> [BOOLEAN -> Nat]]]
  /\ \A n, m \in Name : \A s, t \in BOOLEAN :
       Rank["plain"][n][s] = Rank["plain"][m][t] => n = m /\ s = t

VARIABLES
  said,    \* what the configuration says, scope by scope
  scope, word,   \* the scope being read, and its word
  record,  \* the scope's own autoindex_config_rec
  conf,    \* the scopes merged so far
  pc,
  query, arg,    \* the request's arguments, and the one looked at
  view,    \* how the client wants it: locals of index_directory
  top,     \* the folder is not the root of the site
  unread,  \* the names readdir may still return
  list, page,    \* the entries, as collected and as sorted
  cut,     \* history: reading the folder failed before its end
  out,     \* the parts of the document sent so far
  folder,
  steady, was,   \* history: names untouched since the folder was opened, and
                 \* what was at each name since
  files,   \* history: what became of the header and the readme file
  promised, \* history: what the column link behind the request promised
  changes

config == <<said, scope, word, record, conf>>
request == <<query, arg, view, promised>>
reading == <<unread, list, page, cut>>
document == <<out, files>>
disk == <<top, folder, steady, was, changes>>
vars == <<config, pc, request, reading, document, disk>>

-----------------------------------------------------------------------------
(* The configuration.                                                      *)

\* add_opts, one word of IndexOptions.
AddWord(c, w) ==
  CASE w.option = "none" -> [c EXCEPT !.opts = {"none"}, !.add = {}, !.remove = {}]
    [] w.option # "none" /\ w.sign = "plain" ->
         [c EXCEPT !.opts = @ \cup {w.option}, !.add = {}, !.remove = {}]
    [] w.option # "none" /\ w.sign = "+" ->
         [c EXCEPT !.add = @ \cup {w.option}, !.remove = @ \ {w.option}]
    [] w.option # "none" /\ w.sign = "-" ->
         [c EXCEPT !.remove = @ \cup {w.option}, !.add = @ \ {w.option}]

\* Mutant of Merge: what is removed farther out is forgotten.
MergeForgetting(base, new) ==
  LET add == (base.add \cup new.add) \ new.remove
  IN [opts |-> IF new.opts # {} THEN new.opts
               ELSE ((base.opts \ {"none"}) \cup add) \ new.remove,
      add |-> IF new.opts # {} THEN {} ELSE add,
      remove |-> IF new.opts # {} THEN {} ELSE new.remove,
      order |-> IF new.order = None THEN base.order ELSE new.order,
      ignore |-> new.ignore \cup base.ignore]

\* merge_autoindex_configs.  Options without a sign, None too, dominate; if
\* there are none, what was removed farther out stays removed.
Merge(base, new) ==
  LET add == (base.add \cup new.add) \ new.remove
      remove == base.remove \cup new.remove
      plain == new.opts # {}
  IN [opts |-> IF plain THEN new.opts
               ELSE ((base.opts \ {"none"}) \cup add) \ remove,
      add |-> IF plain THEN {} ELSE add,
      remove |-> IF plain THEN {} ELSE remove,
      order |-> IF new.order = None THEN base.order ELSE new.order,
      ignore |-> new.ignore \cup base.ignore]

\* An error in a directive: the server does not start, or answers 500.
Refuse == pc' = "refused"

ReadWord ==
  LET words == said[scope].words
  IN /\ pc = "config" /\ word < Len(words)
     /\ word' = word + 1
     /\ IF words[word + 1].option = "none" /\ words[word + 1].sign # "plain"
        THEN Refuse /\ UNCHANGED record
        ELSE record' = AddWord(record, words[word + 1]) /\ UNCHANGED pc
     /\ UNCHANGED <<said, scope, conf, request, reading, document, disk>>

\* The outermost scope is merged into nothing.
EndScope ==
  /\ pc = "config" /\ word = Len(said[scope].words)
  /\ IF "none" \in record.opts /\ record.opts # {"none"}
     THEN Refuse /\ UNCHANGED <<scope, word, record, conf>>
     ELSE LET new == [record EXCEPT !.order = said[scope].order,
                                    !.ignore = said[scope].ignore]
          IN /\ conf' = IF scope = 1 THEN new ELSE Merge(conf, new)
             /\ record' = NewConf /\ word' = 0 /\ scope' = scope + 1
             /\ pc' = IF scope = Len(said) THEN "idle" ELSE "config"
  /\ UNCHANGED <<said, request, reading, document, disk>>

\* Somebody corrects the configuration.
Reconfigure ==
  /\ pc = "refused"
  /\ said' \in Configs
  /\ scope' = 1 /\ word' = 0 /\ record' = NewConf /\ conf' = NewConf
  /\ pc' = "config"
  /\ UNCHANGED <<request, reading, document, disk>>

-----------------------------------------------------------------------------
(* A request: its arguments.                                               *)

DefaultOrder == [keyid |-> "N", direction |-> "A"]

\* IgnoreClient: the query string is not looked at, and no column link is made.
FirstView ==
  LET order == IF conf.order = None THEN DefaultOrder ELSE conf.order
  IN [opts |-> IF "ignore_client" \in conf.opts
               THEN conf.opts \cup {"suppress_colsort"} ELSE conf.opts,
      keyid |-> order.keyid, direction |-> order.direction,
      pattern |-> None, f |-> None, v |-> None, p |-> None]

\* handle_autoindex and the start of index_directory, up to its arguments.
Begin(q) ==
  /\ query' = q /\ arg' = 0
  /\ view' = FirstView
  /\ unread' = Name
  /\ steady' = Name /\ was' = [n \in Name |-> {folder[n]}]
  /\ list' = <<>> /\ page' = <<>> /\ cut' = FALSE
  /\ out' = <<>> /\ files' = [header |-> "none", readme |-> "none"]
  /\ pc' = IF "ignore_client" \in conf.opts THEN "head" ELSE "arguments"
  /\ UNCHANGED <<config, top, folder, changes>>

\* Other requests get no page and change nothing: another method than GET, HEAD,
\* no Options Indexes, a folder that cannot be opened.
Receive ==
  /\ pc \in {"idle", "sent"}
  /\ promised' = None
  /\ \E q \in Queries : Begin(q)

\* The format asked for says all of it.
Formatted(opts, f) ==
  (opts \ {"fancy", "table"}) \cup
    (CASE f = "0" -> {} [] f = "1" -> {"fancy"} [] f = "2" -> {"fancy", "table"})

\* Mutant of WithArgument: the links lose the version sort of the page.
WithArgumentLost(vw, a) ==
  CASE a.key = "C" -> [vw EXCEPT !.keyid = a.value]
    [] a.key = "O" -> [vw EXCEPT !.direction = a.value]
    [] a.key = "F" -> [vw EXCEPT !.opts = Formatted(@, a.value), !.f = a.value]
    [] a.key = "V" -> [vw EXCEPT !.opts = IF a.value = "1" THEN @ \cup {"version_sort"}
                                          ELSE @ \ {"version_sort"}]
    [] a.key = "P" /\ a.value \in Pattern ->
         [vw EXCEPT !.pattern = a.value, !.p = a.value]
    [] OTHER -> [vw EXCEPT !.pattern = None]

\* Mutant of WithArgument: a pattern that cannot be unescaped is not dropped.
WithArgumentRaw(vw, a) ==
  IF a.key = "P" /\ a.value = "bad" THEN [vw EXCEPT !.pattern = a.value, !.p = a.value]
  ELSE WithArgumentLost(vw, a)

\* f, v and p are what the links of the page will repeat.  A pattern that is
\* empty or cannot be unescaped ends an earlier one, but not in the links.
WithArgument(vw, a) ==
  CASE a.key = "C" -> [vw EXCEPT !.keyid = a.value]
    [] a.key = "O" -> [vw EXCEPT !.direction = a.value]
    [] a.key = "F" -> [vw EXCEPT !.opts = Formatted(@, a.value), !.f = a.value]
    [] a.key = "V" -> [vw EXCEPT !.opts = IF a.value = "1" THEN @ \cup {"version_sort"}
                                          ELSE @ \ {"version_sort"},
                                 !.v = a.value]
    [] a.key = "P" /\ a.value \in Pattern ->
         [vw EXCEPT !.pattern = a.value, !.p = a.value]
    [] OTHER -> [vw EXCEPT !.pattern = None]

\* The remainder is ignored after something that is no argument.
ParseArgument ==
  /\ pc = "arguments" /\ arg < Len(query)
  /\ IF query[arg + 1].key = "junk"
     THEN arg' = Len(query) /\ UNCHANGED view
     ELSE arg' = arg + 1 /\ view' = WithArgument(view, query[arg + 1])
  /\ UNCHANGED <<config, pc, query, promised, reading, document, disk>>

EndArguments ==
  /\ pc = "arguments" /\ arg = Len(query)
  /\ pc' = "head"
  /\ UNCHANGED <<config, request, reading, document, disk>>

-----------------------------------------------------------------------------
(* The document around the list.                                           *)

\* What becomes of a header or readme file: none found, or of another type;
\* HTML that is run, or fails to; text that is copied, or cannot be opened.
Outcome == {"none", "html", "html_fails", "text", "text_fails"}
Suppressed == "suppress_preamble" \in view.opts

If(b, part) == IF b THEN <<part>> ELSE <<>>

\* Mutant of HeadParts: a header that fails is taken for one that was sent.
HeadPartsWithoutRetry(outcome) ==
  If(outcome \in {"html", "html_fails"} /\ ~Suppressed, "preamble")
  \o If(outcome = "text", "preamble")
  \o If(outcome \in {"html", "text"}, "header")
  \o If(outcome \in {"none", "text_fails"}, "preamble")
  \o If(outcome \notin {"html", "text"}, "h1")

\* emit_head: the preamble goes before an HTML header, unless suppressed, and
\* comes after one that failed, if it was.
HeadParts(outcome) ==
  If(outcome \in {"html", "html_fails"} /\ ~Suppressed, "preamble")
  \o If(outcome = "text", "preamble")
  \o If(outcome \in {"html", "text"}, "header")
  \o If(outcome \in {"none", "text_fails"} \/ (outcome = "html_fails" /\ Suppressed),
        "preamble")
  \o If(outcome \notin {"html", "text"}, "h1")

\* emit_tail.
TailParts(outcome) ==
  If(outcome \in {"html", "text"}, "readme")
  \o If(outcome \notin {"html", "text"}, "signature")
  \o If(~(outcome = "html" /\ Suppressed), "postamble")

EmitHead ==
  /\ pc = "head"
  /\ \E outcome \in Outcome :
       out' = HeadParts(outcome) /\ files' = [files EXCEPT !.header = outcome]
  /\ pc' = "parent"
  /\ UNCHANGED <<config, request, reading, disk>>

EmitTail ==
  /\ pc = "tail"
  /\ \E outcome \in Outcome :
       out' = out \o TailParts(outcome) /\ files' = [files EXCEPT !.readme = outcome]
  /\ pc' = "sent"
  /\ UNCHANGED <<config, request, reading, disk>>

-----------------------------------------------------------------------------
(* The list.                                                               *)

Columns == {"fancy", "table"} \cap view.opts # {}

ParentEntry == [name |-> Parent, slash |-> TRUE, isdir |-> FALSE,
                size |-> -1, lm |-> -1, desc |-> 0]

\* make_parent_entry: the root has none.
AddParent ==
  /\ pc = "parent"
  /\ list' = IF top /\ Parent \notin conf.ignore THEN <<ParentEntry>> ELSE <<>>
  /\ pc' = "read"
  /\ UNCHANGED <<config, request, unread, page, cut, document, disk>>

\* Whether make_autoindex_entry makes an entry of what is at a name.
Shown(n, item) ==
  /\ item.kind \in {"file", "dir"}
  /\ view.pattern # None => n \in Matches[view.pattern]
  /\ n \notin conf.ignore
  /\ \/ item.status = "ok"
     \/ item.status = "forbidden" /\ "show_forbidden" \in view.opts

\* A plain list knows neither sizes nor times nor which entries are folders.
Entry(n, item) ==
  LET dir == item.kind = "dir"
  IN [name |-> n, slash |-> dir,
      isdir |-> Columns /\ dir /\ "folders_first" \in view.opts,
      size |-> IF Columns /\ ~dir THEN item.size ELSE -1,
      lm |-> IF Columns THEN item.time ELSE IF view.keyid = "M" THEN 0 ELSE -1,
      desc |-> IF Columns THEN Desc[n] ELSE 0]

\* Mutant of AfterEntry: a link that leads nowhere ends the list.
AfterBroken(n) == IF folder[n].kind = "broken" THEN {} ELSE unread \ {n}

AfterEntry(n) == unread \ {n}

\* readdir returns a name and stat() finds what is there: entries that came or
\* changed meanwhile may be returned or not.
ReadEntry(n) ==
  /\ pc = "read" /\ n \in unread /\ folder[n] # NoItem
  /\ unread' = AfterEntry(n)
  /\ list' = IF Shown(n, folder[n]) THEN Append(list, Entry(n, folder[n])) ELSE list
  /\ UNCHANGED <<config, pc, request, page, cut, document, disk>>

\* readdir has returned all there is, or fails: what was read until then is the
\* list.
EndRead ==
  /\ pc = "read"
  /\ cut' \in BOOLEAN
  /\ cut' \/ \A n \in unread \cap steady : folder[n] = NoItem
  /\ pc' = "sort"
  /\ UNCHANGED <<config, request, unread, list, page, document, disk>>

Sign(a, b) == IF a < b THEN -1 ELSE IF a > b THEN 1 ELSE 0

\* The comparisons of names, in the order in which they are tried.
CompareNames(c1, c2) ==
  LET by(comparison) == Sign(Rank[comparison][c1.name][c1.slash],
                             Rank[comparison][c2.name][c2.slash])
      version == "version_sort" \in view.opts
      ignoreCase == "ignore_case" \in view.opts
      natural == IF ~version THEN 0
                 ELSE IF ignoreCase /\ by("natcase") # 0 THEN by("natcase")
                 ELSE by("nat")
      caseless == IF natural = 0 /\ ignoreCase THEN by("case") ELSE natural
  IN IF caseless = 0 THEN by("plain") ELSE caseless

CompareKeys(c1, c2) ==
  CASE view.keyid = "M" -> Sign(c1.lm, c2.lm)
    [] view.keyid = "S" -> Sign(c1.size, c2.size)
    [] view.keyid = "D" -> Sign(c1.desc, c2.desc)
    [] OTHER -> 0

\* Mutant of Dsortf: entries change places before folders are told apart.
DsortfSwapped(e1, e2) ==
  LET c1 == IF view.direction = "A" THEN e1 ELSE e2
      c2 == IF view.direction = "A" THEN e2 ELSE e1
  IN IF e1.name = Parent THEN -1
     ELSE IF e2.name = Parent THEN 1
     ELSE IF c1.isdir # c2.isdir THEN IF c1.isdir THEN -1 ELSE 1
     ELSE IF CompareKeys(c1, c2) # 0 THEN CompareKeys(c1, c2)
     ELSE CompareNames(c1, c2)

Dsortf(e1, e2) ==
  LET c1 == IF view.direction = "A" THEN e1 ELSE e2
      c2 == IF view.direction = "A" THEN e2 ELSE e1
  IN IF e1.name = Parent THEN -1
     ELSE IF e2.name = Parent THEN 1
     ELSE IF e1.isdir # e2.isdir THEN IF e1.isdir THEN -1 ELSE 1
     ELSE IF CompareKeys(c1, c2) # 0 THEN CompareKeys(c1, c2)
     ELSE CompareNames(c1, c2)

\* qsort: any arrangement in which nothing compares as greater than what follows.
\* The list is not used again, nor the folder read on.
Sort ==
  /\ pc = "sort"
  /\ \E p \in [DOMAIN list -> DOMAIN list] :
       /\ \A i, j \in DOMAIN list :
            i < j => p[i] # p[j] /\ Dsortf(list[p[i]], list[p[j]]) <= 0
       /\ page' = [i \in DOMAIN list |-> list[p[i]]]
  /\ list' = <<>> /\ unread' = {}
  /\ out' = Append(out, "list")
  /\ pc' = "tail"
  /\ UNCHANGED <<config, request, cut, files, disk>>

-----------------------------------------------------------------------------
(* The client, and the folder.                                             *)

\* A pattern goes into links as ap_escape_uri leaves it, with any '&' and ';'
\* of it, and P= is read up to the first of these: the rest of such a pattern
\* is read as further arguments, or is none.
PatternArguments(p) == IF p = None THEN <<>> ELSE Pieces[p]

\* emit_link: the arguments of the link at the head of a column.
Link(column) ==
  <<[key |-> "C", value |-> column],
    [key |-> "O", value |-> IF view.keyid = column /\ view.direction = "A"
                            THEN "D" ELSE "A"]>>
  \o If(view.f # None, [key |-> "F", value |-> view.f])
  \o If(view.v # None, [key |-> "V", value |-> view.v])
  \o PatternArguments(view.p)

\* Patterns without a separator: a link gives them back whole.
Whole(p) == p = None \/ Pieces[p] = <<[key |-> "P", value |-> p]>>

\* A link sorts by its column, the other way round if it is the one the page is
\* sorted by, and keeps all else.  Nothing is promised of two kinds of page,
\* whose links the code gives another pattern: one whose pattern was ended by a
\* later P=, and one whose pattern holds a separator.
Promise(column) ==
  IF view.p # view.pattern \/ ~Whole(view.p) THEN None
  ELSE [keyid |-> column,
        direction |-> IF view.keyid = column /\ view.direction = "A"
                      THEN "D" ELSE "A",
        opts |-> view.opts, pattern |-> view.pattern]

Click(column) ==
  /\ pc = "sent" /\ Columns /\ "suppress_colsort" \notin view.opts
  /\ promised' = Promise(column)
  /\ Begin(Link(column))

\* A file is published or removed, or anything else happens at a name.  What is
\* made anew while the folder is read may be returned once more.
Change(n) ==
  /\ changes < MaxChanges /\ pc \in {"idle", "arguments", "head", "parent", "read"}
  /\ changes' = changes + 1
  /\ \E item \in (Items[n] \cup {NoItem}) \ {folder[n]} :
       /\ folder' = [folder EXCEPT ![n] = item]
       /\ was' = [was EXCEPT ![n] = @ \cup {item}]
       /\ unread' \in IF item = NoItem THEN {unread} ELSE {unread, unread \cup {n}}
  /\ steady' = steady \ {n}
  /\ UNCHANGED <<config, pc, request, list, page, cut, document, top>>

-----------------------------------------------------------------------------
Init ==
  /\ said \in Configs
  /\ scope = 1 /\ word = 0 /\ record = NewConf /\ conf = NewConf
  /\ pc = "config"
  /\ query = <<>> /\ arg = 0 /\ top \in BOOLEAN /\ promised = None
  /\ view = [opts |-> {}, keyid |-> "N", direction |-> "A", pattern |-> None,
             f |-> None, v |-> None, p |-> None]
  /\ unread = {} /\ list = <<>> /\ page = <<>> /\ cut = FALSE /\ out = <<>>
  /\ files = [header |-> "none", readme |-> "none"]
  /\ folder \in Folders
  /\ steady = Name /\ was = [n \in Name |-> {folder[n]}]
  /\ changes = 0

Next ==
  \/ ReadWord \/ EndScope \/ Reconfigure
  \/ Receive \/ ParseArgument \/ EndArguments
  \/ EmitHead \/ AddParent \/ (\E n \in Name : ReadEntry(n)) \/ EndRead
  \/ Sort \/ EmitTail
  \/ \E column \in {"N", "M", "S", "D"} : Click(column)
  \/ \E n \in Name : Change(n)

Spec == Init /\ [][Next]_vars

-----------------------------------------------------------------------------
(* Properties.                                                             *)

\* Every variable has its type: configuration, request, entries and document.
TypeOK ==
  /\ said \in Configs /\ scope \in Nat /\ word \in Nat
  /\ record \in [opts : SUBSET (Option \cup {"none"}), add : SUBSET Option,
                 remove : SUBSET Option, order : {None}, ignore : {{}}]
  /\ conf \in Conf
  /\ pc \in {"config", "refused", "idle", "arguments", "head", "parent", "read",
             "sort", "tail", "sent"}
  /\ query \in Seq(Argument) /\ arg \in 0..Len(query) /\ top \in BOOLEAN
  /\ view \in View
  /\ promised = None \/ promised \in [keyid : {"N", "M", "S", "D"}, direction : {"A", "D"},
                                      opts : SUBSET (Option \cup {"none"}),
                                      pattern : Pattern \cup {None}]
  /\ unread \subseteq Name /\ list \in Seq(Ent) /\ page \in Seq(Ent) /\ cut \in BOOLEAN
  /\ out \in Seq({"preamble", "header", "h1", "list", "readme", "signature", "postamble"})
  /\ files \in [header : Outcome, readme : Outcome]
  /\ folder \in [Name -> Item \cup {NoItem}]
  /\ steady \subseteq Name /\ was \in [Name -> SUBSET (Item \cup {NoItem})]
  /\ changes \in 0..MaxChanges

\* What scope i says on its own: plain options, or None; and the options whose
\* last word after those is + or -.
Plain(i) ==
  LET words == said[i].words
  IN IF \E j \in DOMAIN words : words[j].option = "none" THEN {"none"}
     ELSE {words[j].option : j \in {k \in DOMAIN words : words[k].sign = "plain"}}
Signed(i, sign) ==
  LET words == said[i].words
  IN {o \in Option : \E j \in DOMAIN words :
        /\ words[j] = [sign |-> sign, option |-> o]
        /\ \A k \in DOMAIN words : k > j => words[k].sign # "plain" /\
             (words[k].option = o => words[k].sign = sign)}

\* The scopes whose + and - count if k is the innermost with plain options: the
\* outermost counts as below itself; in any other scope + and - next to plain
\* options say nothing.
Below(k) == {i \in DOMAIN said : k < Len(said) /\ (i > k \/ (i = 1 /\ k = 1))}

\* The options are those of scope k, changed by what the scopes below it say with
\* + or -, the innermost of these deciding.  An option that is added there after
\* it was removed farther out is left to NoOverlap.
Directed(k) ==
  LET adds == UNION {Signed(i, "+") \X {i} : i \in Below(k)}
      removes == UNION {Signed(i, "-") \X {i} : i \in Below(k)}
  IN /\ "none" \in conf.opts <=> k = Len(said) /\ "none" \in Plain(k)
     /\ \A o \in Option :
          LET saying == {i \in Below(k) : <<o, i>> \in adds \cup removes}
          IN /\ saying = {} => (o \in conf.opts <=> o \in Plain(k))
             /\ \A i \in saying : (\A j \in saying : j <= i) =>
                  /\ <<o, i>> \in removes => o \notin conf.opts
                  /\ <<o, i>> \in adds =>
                       o \in conf.opts \/ \E j \in saying : <<o, j>> \in removes

\* The options in force are the plain ones of the innermost scope that has some,
\* as directed by those below it: merge_autoindex_configs and add_opts, word by
\* word.
OptionsAsDirected ==
  pc \notin {"config", "refused"} =>
    \E k \in DOMAIN said :
      /\ k = 1 \/ Plain(k) # {}
      /\ \A i \in DOMAIN said : i > k => Plain(i) = {}
      /\ Directed(k)

\* What the merge assumes: "We're guaranteed that there'll be no overlap between
\* the add-options and the remove-options" (mod_autoindex_mb.c:712-713).  It
\* keeps what a scope removes out of what is added, but not what a scope adds
\* out of what was removed farther out: such an option stays off.
NoOverlap == conf.add \cap conf.remove = {}

Listed == {page[i].name : i \in DOMAIN page}

\* The page lists every entry it may show that was there, untouched, from the
\* opening of the folder on, once and as it is, and nothing that was not there
\* at some time since: the loop of index_directory over readdir, whatever comes,
\* goes or leads nowhere meanwhile.  Only a page cut short by an error of readdir
\* may lack entries.
PageIsFaithful ==
  pc \in {"tail", "sent"} =>
    /\ \A n \in steady : n \in Listed => Shown(n, folder[n])
    /\ ~cut => \A n \in steady : Shown(n, folder[n]) => n \in Listed
    /\ \A i, j \in DOMAIN page :
         page[i].name = page[j].name /\ page[i].name \in steady \cup {Parent} => i = j
    /\ \A i \in DOMAIN page : page[i].name # Parent =>
         \E item \in was[page[i].name] :
           Shown(page[i].name, item) /\ page[i] = Entry(page[i].name, item)

\* Where an entry belongs, the strongest criterion first.
Column(e) == CASE view.keyid = "M" -> e.lm [] view.keyid = "S" -> e.size
               [] view.keyid = "D" -> e.desc [] OTHER -> 0
Place(e) ==
  LET turn == IF view.direction = "A" THEN 1 ELSE -1
      by(comparison) == turn * Rank[comparison][e.name][e.slash]
      version == "version_sort" \in view.opts
      ignoreCase == "ignore_case" \in view.opts
  IN <<IF e.isdir THEN 0 ELSE 1,
       turn * Column(e),
       IF version /\ ignoreCase THEN by("natcase") ELSE 0,
       IF version THEN by("nat") ELSE 0,
       IF ignoreCase THEN by("case") ELSE 0,
       by("plain")>>
NotAfter(p, q) ==
  p = q \/ \E m \in DOMAIN p : p[m] < q[m] /\ \A l \in 1..m - 1 : p[l] = q[l]

\* The way up is first, then come folders if they are to, in either direction;
\* within that the page is in the order of the column, then of the names, or all
\* the other way round: whatever two comparisons of dsortf are asked in.
PageIsSorted ==
  pc \in {"tail", "sent"} =>
    \A i, j \in DOMAIN page : i < j =>
      /\ page[j].name # Parent
      /\ page[i].name # Parent => NotAfter(Place(page[i]), Place(page[j]))

\* A request made from a column link shows what the page with the link showed,
\* in the format it had, sorted as the link says, unless the page's pattern was
\* ended by a later P= or holds a separator (Promise): emit_link and colargs
\* against the parsing of the next request.
LinksKeepTheView ==
  (promised # None /\ pc \in {"head", "parent", "read", "sort", "tail", "sent"}) =>
    promised = [keyid |-> view.keyid, direction |-> view.direction,
                opts |-> view.opts, pattern |-> view.pattern]

At(part) == {i \in DOMAIN out : out[i] = part}
Once(part) == \E i \in DOMAIN out : At(part) = {i}

\* The elements of the emitted document, as the comment before emit_head lists
\* them: one preamble and one postamble, unless they are left to an HTML header
\* or readme that was sent; a heading unless a header was, a signature unless a
\* readme was.
DocumentIsWhole ==
  pc = "sent" =>
    /\ IF Suppressed /\ files.header = "html" THEN At("preamble") = {}
       ELSE At("preamble") = {1}
    /\ IF files.header \in {"html", "text"} THEN Once("header") /\ At("h1") = {}
       ELSE Once("h1") /\ At("header") = {}
    /\ Once("list")
    /\ IF files.readme \in {"html", "text"} THEN Once("readme") /\ At("signature") = {}
       ELSE Once("signature") /\ At("readme") = {}
    /\ IF Suppressed /\ files.readme = "html" THEN At("postamble") = {}
       ELSE At("postamble") = {Len(out)}
    /\ \A i \in At("list") :
         \A j \in DOMAIN out : j < i <=> out[j] \in {"preamble", "header", "h1"}

=============================================================================
