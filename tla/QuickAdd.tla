------------------------------- MODULE QuickAdd -------------------------------
(***************************************************************************)
(* Adding a task by typing a line: web/src/lib/quickAddParser.js, the form *)
(* QuickAdd.jsx around it, and what App.jsx adds for the view that is      *)
(* open.                                                                   *)
(*                                                                         *)
(* A line is a sequence of pieces: spaces, the signs # and @, the words    *)
(* the parser knows, and other words.  Letters are left out (case, where a *)
(* phrase ends inside a word): what stands between spaces and signs is one *)
(* piece.  Time is counted in quarters of a day since 1970; the zone of    *)
(* the browser is an offset in the same unit, without daylight saving.  A  *)
(* date is <<year, month, day>>, which orders like its text for years of   *)
(* four digits.                                                            *)
(***************************************************************************)
EXTENDS Null, Integers, Sequences, FiniteSets, SequencesExt

CONSTANTS
  Phrases,        \* bound: what is typed at a time, with a space before it
  MaxPhrases,     \* bound: how many of them
  PriorityLists,  \* orders and names the priorities may have
  ProjectLists,   \* likewise the projects
  Views,          \* what may be on the screen: "today", a project, a label, "all"
  PickedDates,    \* bound: dates the picker is set to
  MaxPicked,      \* bound: pickers in use at once
  Offsets,        \* quarters of a day the local clock is ahead of UTC
  Start,          \* the first quarter of a day
  MaxTicks        \* bound: quarters of a day that pass

ASSUME LineBounded == MaxPhrases \in Nat /\ MaxPicked \in 0 .. 3
ASSUME ClockGiven == Start \in Nat /\ MaxTicks \in Nat /\ Offsets \subseteq -2 .. 2
ASSUME NullIsNoDate == NULL \notin Seq(Int)
ASSUME ViewsGiven == \A v \in Views : v.type \in {"today", "project", "label", "all"}

VARIABLES
  instant, offset,       \* the clock and the zone
  view,
  priorities, projects,  \* the lists that were loaded last, in order
  text,                  \* the line
  typed,                 \* how many phrases it has
  picked,                \* the pickers under the line
  preview,               \* what the chips show, or NULL for an empty line
  previewed,             \* history: the local day on which that was found
  added                  \* the task that was added, or NULL

lineVars == <<instant, offset, view, priorities, projects, text, typed, picked,
          preview, previewed, added>>

------------------------------------------------------------------------------
(* Dates.  A name that ends in a suffix after an underscore is a deliberately *)
(* wrong variant of the definition after it.                                  *)

Leap(y) == y % 4 = 0 /\ (y % 100 # 0 \/ y % 400 = 0)
DaysToYear(y) ==
  365 * (y - 1970) + ((y - 1) \div 4) - ((y - 1) \div 100) + ((y - 1) \div 400) - 477
DaysToMonth == <<0, 31, 59, 90, 120, 151, 181, 212, 243, 273, 304, 334>>

\* The first day of month m of year y, in days since 1970-01-01; months beyond
\* December belong to the years after, and those before January to the ones before.
MonthStart(y, m) ==
  LET yy == y + ((m - 1) \div 12)
      mm == ((m - 1) % 12) + 1
  IN  DaysToYear(yy) + DaysToMonth[mm] + (IF mm > 2 /\ Leap(yy) THEN 1 ELSE 0)

\* new Date(y, m - 1, d): two-digit years are of the last century, and days
\* beyond the month run on into the next.
NewDate(y, m, d) == MonthStart(IF y < 100 THEN 1900 + y ELSE y, m) + d - 1

\* toISO, toISOString().slice(0, 10); before 1970 the bounds of the year change places.
ToISO(n) ==
  LET short == 1970 + (n \div 365)
      long  == 1970 + (n \div 366)
      y == CHOOSE k \in (long .. short) \cup (short .. long) :
             DaysToYear(k) <= n /\ n < DaysToYear(k + 1)
      m == CHOOSE k \in 1 .. 12 : MonthStart(y, k) <= n /\ n < MonthStart(y, k + 1)
  IN  <<y, m, n - MonthStart(y, m) + 1>>

\* How the views (due_before, due_after) and isOverdue compare dates.
Before(a, b) ==
  \/ a[1] < b[1]
  \/ a[1] = b[1] /\ a[2] < b[2]
  \/ a[1] = b[1] /\ a[2] = b[2] /\ a[3] < b[3]

GetDay(n) == (n + 4) % 7

NextWeekday_TodayCounts(n, dow) == n + ((dow - GetDay(n) + 7) % 7)
NextWeekday(n, dow) ==
  LET delta == (dow - GetDay(n) + 7) % 7 IN n + (IF delta = 0 THEN 7 ELSE delta)

\* The local day, which is what the parser starts from; and todayISO(), the date
\* in UTC, which everything else takes for today.
LocalDay == (instant + offset) \div 4
UtcDay == instant \div 4
TodayISO == ToISO(UtcDay)

------------------------------------------------------------------------------
(* The parser.                                                               *)

Piece(k, v) == [k |-> k, v |-> v]
Space == Piece("space", <<>>)
\* Weekdays count from Sunday, and years have four digits at most.
LastYear == 9999
DateKinds == {"today", "tomorrow", "yesterday", "days", "weeks", "weekday", "abbr", "iso", "slash"}
PieceKinds == DateKinds \cup {"space", "hash", "at", "word", "p", "in", "next", "number"}
Pieces ==
  {p \in [k : PieceKinds, v : Seq(Nat)] :
     /\ p.k \in {"weekday", "abbr"} => Len(p.v) = 1 /\ p.v[1] <= 6
     /\ p.k \in {"p", "number"} => Len(p.v) = 1
     /\ p.k = "iso" => Len(p.v) = 3 /\ p.v[1] <= LastYear
     /\ p.k = "slash" => Len(p.v) = 2 \/ (Len(p.v) = 3 /\ p.v[3] <= LastYear)}
IsSpace(s, i) == i \notin DOMAIN s \/ s[i].k = "space"
IsSign(s, i, sign) == i \in DOMAIN s /\ s[i].k = sign
\* \b next to position i: no letter or digit there.
NoWord(s, i) == i \notin DOMAIN s \/ s[i].k \in {"space", "hash", "at"}

\* What stands between spaces and signs is one piece.
Lexed(s) == \A i \in 1 .. Len(s) - 1 : NoWord(s, i) \/ NoWord(s, i + 1)
ASSUME PhrasesGiven == Phrases \subseteq Seq(Pieces) /\ \A s \in Phrases : Lexed(s)
ASSUME ProjectsGiven ==
  \A ps \in ProjectLists :
    /\ Len(ps) \in Nat /\ DOMAIN ps = 1 .. Len(ps)
    /\ \A k \in DOMAIN ps : ps[k].name \in Seq(Pieces)

From(s, i) == SubSeq(s, i, Len(s))
Without(s, i, j) == SubSeq(s, 1, i - 1) \o From(s, j + 1)
\* (\S+) from position i on.
WordEnd(s, i) ==
  CHOOSE e \in i - 1 .. Len(s) : IsSpace(s, e + 1) /\ \A k \in i .. e : ~IsSpace(s, k)
Run(s, i) == SubSeq(s, i, WordEnd(s, i))
\* The n-th of the positions K, and the pieces there.
Nth(K, n) == CHOOSE k \in K : Cardinality({j \in K : j < k}) = n - 1
Kept(s, K) == [n \in 1 .. Cardinality(K) |-> s[Nth(K, n)]]
\* replace(/\s+/g, ' ').trim()
Squeezed(s) ==
  LET words == {i \in DOMAIN s : ~IsSpace(s, i)} IN
  Kept(s, words \cup {i \in DOMAIN s : i - 1 \in words /\ \E j \in words : j > i})

\* The last "#", and the longest known name after it; else the word after it.
Known(ps, after) == {k \in DOMAIN ps : IsPrefix(ps[k].name, after)}
Longest(ps, ks) ==
  CHOOSE k \in ks : \A j \in ks : \/ Len(ps[j].name) < Len(ps[k].name)
                                  \/ Len(ps[j].name) = Len(ps[k].name) /\ k <= j
ProjectOf(s, ps) ==
  LET hash  == SelectLastInSeq(s, LAMBDA p : p.k = "hash")
      after == From(s, hash + 1)
      known == Known(ps, after)
      best  == ps[Longest(ps, known)]
      bare  == Run(s, hash + 1)
  IN  CASE hash = 0 -> [text |-> s, project |-> NULL]
        [] hash # 0 /\ known # {} ->
             [text |-> Without(s, hash, hash + Len(best.name)), project |-> best.id]
        [] OTHER ->
             [text |-> IF bare = <<>> THEN s ELSE Without(s, hash, hash + Len(bare)),
              project |-> NULL]

\* Every "@" with something after it, but for one inside a label.
LabelStarts(s) ==
  {i \in DOMAIN s : /\ IsSign(s, i, "at") /\ ~IsSpace(s, i + 1)
                    /\ \A j \in 1 .. i - 1 : IsSign(s, j, "at") => \E k \in j .. i : s[k].k = "space"}
LabelsOf(s) ==
  LET starts == LabelStarts(s)
      inside == UNION {b .. b + Len(Run(s, b + 1)) : b \in starts}
  IN  [text   |-> Kept(s, DOMAIN s \ inside),
       labels |-> [n \in 1 .. Cardinality(starts) |-> Run(s, Nth(starts, n) + 1)]]

\* A pN that stands alone goes with the space before it.  It names the priority
\* that says so itself, else the one in that place.
Named(ps, n) ==
  LET says == SelectInSeq(ps, LAMBDA p : n \in p.says) IN
  CASE says # 0 -> ps[says].name
    [] says = 0 /\ n \in DOMAIN ps -> ps[n].name
    [] OTHER -> NULL
PriorityOf(s, ps) ==
  LET alone == {i \in DOMAIN s : s[i].k = "p" /\ IsSpace(s, i - 1) /\ IsSpace(s, i + 1)}
      i == CHOOSE j \in alone : \A k \in alone : j <= k
  IN  IF alone = {} THEN [text |-> s, priority |-> NULL]
      ELSE [text |-> Without(s, IF i = 1 THEN 1 ELSE i - 1, i), priority |-> Named(ps, s[i].v[1])]

\* The patterns, in the order they are tried; the first that matches anywhere
\* counts, unless the date it gives is out of range.
Patterns ==
  << <<"today">>, <<"tomorrow">>, <<"yesterday">>,
     <<"in", "space", "number", "space", "days">>, <<"in", "space", "number", "space", "weeks">>,
     <<"next", "space", "weekday">>, <<"weekday">>, <<"abbr">>, <<"iso">>, <<"slash">> >>

Found(s, p) ==
  {i \in DOMAIN s : /\ i + Len(p) - 1 <= Len(s)
                    /\ \A k \in DOMAIN p : s[i + k - 1].k = p[k]
                    /\ NoWord(s, i - 1) /\ NoWord(s, i + Len(p))}

\* A year of two digits is of this century; m/d is of the year it is.
Resolved(p, v, today) ==
  CASE p = "today"     -> today
    [] p = "tomorrow"  -> today + 1
    [] p = "yesterday" -> today - 1
    [] p = "days"      -> today + v[1]
    [] p = "weeks"     -> today + v[1] * 7
    [] p \in {"weekday", "abbr"} -> NextWeekday(today, v[1])
    [] p = "iso"       -> NewDate(v[1], v[2], v[3])
    [] p = "slash" /\ Len(v) = 3 -> NewDate(IF v[3] < 100 THEN 2000 + v[3] ELSE v[3], v[1], v[2])
    [] p = "slash" /\ Len(v) = 2 -> NewDate(ToISO(today)[1], v[1], v[2])

LastDate == 100000000   \* days from 1970 that a Date can hold
ASSUME LongBeforeLast == ((Start + MaxTicks) \div 4) + 400 <= LastDate

\* The place of the parentheses in a pattern.
Group(p) == IF Len(p) = 1 THEN 1 ELSE 3

DateOf(s, today) ==
  LET at(k)  == CHOOSE i \in Found(s, Patterns[k]) : \A j \in Found(s, Patterns[k]) : i <= j
      day(k) == Resolved(Last(Patterns[k]), s[at(k) + Group(Patterns[k]) - 1].v, today)
      good   == {k \in DOMAIN Patterns : Found(s, Patterns[k]) # {} /\ day(k) <= LastDate}
      first  == CHOOSE k \in good : \A j \in good : k <= j
  IN  IF good = {} THEN [text |-> s, due |-> NULL]
      ELSE [text |-> Without(s, at(first), at(first) + Len(Patterns[first]) - 1),
            due |-> ToISO(day(first))]

\* parseQuickAdd: each takes its words out of the line before the next looks.
ParseQuickAdd(s, pris, projs, today) ==
  LET project  == ProjectOf(s, projs)
      labels   == LabelsOf(project.text)
      priority == PriorityOf(labels.text, pris)
      date     == DateOf(priority.text, today)
  IN  [title |-> Squeezed(date.text), due |-> date.due, priority |-> priority.priority,
       project |-> project.project, labels |-> labels.labels]

------------------------------------------------------------------------------
(* The form                                                                  *)

Nothing == [due |-> NULL, priority |-> NULL, project |-> NULL]

LineInit ==
  /\ instant = Start /\ offset \in Offsets
  /\ view \in Views
  /\ priorities \in PriorityLists /\ projects \in ProjectLists
  /\ text = <<>> /\ typed = 0
  /\ picked = Nothing
  /\ preview = NULL /\ previewed = LocalDay
  /\ added = NULL

\* useMemo on the line and the lists: time alone does not change what is shown.
Parse(s, pris, projs) ==
  IF \A i \in DOMAIN s : s[i].k = "space" THEN NULL ELSE ParseQuickAdd(s, pris, projs, LocalDay)
Shows_LineOnly(s, pris, projs) ==
  IF s = text THEN UNCHANGED <<preview, previewed>>
  ELSE preview' = Parse(s, pris, projs) /\ previewed' = LocalDay
Shows(s, pris, projs) == preview' = Parse(s, pris, projs) /\ previewed' = LocalDay

Type(phrase) ==
  /\ added = NULL /\ typed < MaxPhrases
  /\ typed' = typed + 1
  /\ text' = IF text = <<>> THEN phrase ELSE text \o <<Space>> \o phrase
  /\ Shows(text', priorities, projects)
  /\ UNCHANGED <<instant, offset, view, priorities, projects, picked, added>>

\* Somebody renames or reorders them, and the lookups are loaded again.
ListsReload(pris, projs) ==
  /\ added = NULL
  /\ <<pris, projs>> # <<priorities, projects>>
  /\ priorities' = pris /\ projects' = projs
  /\ Shows(text, pris, projs)
  /\ UNCHANGED <<instant, offset, view, text, typed, picked, added>>

Pick(f, value) ==
  /\ added = NULL
  /\ picked[f] # value
  /\ picked' = [picked EXCEPT ![f] = value]
  /\ Cardinality({g \in DOMAIN picked : picked'[g] # NULL}) <= MaxPicked
  /\ UNCHANGED <<instant, offset, view, priorities, projects, text, typed, preview, previewed, added>>

Pickable ==
  [due |-> PickedDates, priority |-> {priorities[k].name : k \in DOMAIN priorities},
   project |-> {projects[k].id : k \in DOMAIN projects}]

\* The line stays when another list is opened.
Open(v) ==
  /\ added = NULL
  /\ v # view
  /\ view' = v
  /\ UNCHANGED <<instant, offset, priorities, projects, text, typed, picked, preview, previewed, added>>

Tick ==
  /\ instant < Start + MaxTicks
  /\ instant' = instant + 1
  /\ UNCHANGED <<offset, view, priorities, projects, text, typed, picked, preview, previewed, added>>

Or(value, otherwise) == IF value = NULL THEN otherwise ELSE value

\* handleCreateTask: what the open view gives a task that says nothing itself.
Default ==
  [due      |-> IF view.type = "today" THEN TodayISO ELSE NULL,
   priority |-> NULL,
   project  |-> IF view.type = "project" THEN view.id ELSE NULL]
DefaultLabels == IF view.type = "label" THEN <<view.name>> ELSE <<>>

\* What a picker says goes before what was typed.
Field(f, p) == Or(picked[f], Or(p[f], Default[f]))

Submit ==
  /\ added = NULL
  /\ preview # NULL
  /\ LET p == Parse(text, priorities, projects) IN
       added' = [title    |-> IF p.title = <<>> THEN Squeezed(text) ELSE p.title,
                 due      |-> Field("due", p), priority |-> Field("priority", p),
                 project  |-> Field("project", p),
                 labels   |-> IF p.labels = <<>> THEN DefaultLabels ELSE p.labels]
  /\ text' = <<>> /\ typed' = 0 /\ picked' = Nothing
  /\ preview' = NULL /\ UNCHANGED previewed
  /\ UNCHANGED <<instant, offset, view, priorities, projects>>

LineNext ==
  \/ \E phrase \in Phrases : Type(phrase)
  \/ \E pris \in PriorityLists, projs \in ProjectLists : ListsReload(pris, projs)
  \/ \E f \in DOMAIN Nothing : \E value \in Pickable[f] \cup {NULL} : Pick(f, value)
  \/ \E v \in Views : Open(v)
  \/ Tick
  \/ Submit

LineSpec == LineInit /\ [][LineNext]_lineVars

------------------------------------------------------------------------------
(* Properties.                                                               *)

\* What the last "#" mentions: the longest known name after it, else the word.
Mention ==
  {i \in DOMAIN text : \E h \in 1 .. i :
     /\ IsSign(text, h, "hash") /\ \A j \in h + 1 .. Len(text) : ~IsSign(text, j, "hash")
     /\ LET known == Known(projects, From(text, h + 1))
        IN  \/ \E k \in known : i <= h + Len(projects[k].name)
            \/ known = {} /\ \A j \in h .. i : ~IsSpace(text, j)}
\* But for a name that ends in a sign, with a word behind it.
MentionEnds == \A i \in Mention : i + 1 \in Mention \/ NoWord(text, i + 1)

\* The pieces that speak of a date, outside the mention and the labels.
DatePieces ==
  {i \in DOMAIN text \ Mention :
     /\ text[i].k \in DateKinds
     /\ \A j \in 1 .. i : IsSign(text, j, "at") => \E k \in j .. i : IsSpace(text, k)}

\* "in N days" with nothing of it in the mention or a label.
SpelledOut(i) ==
  /\ i > 4 /\ IsSpace(text, i - 5)
  /\ (i - 4 .. i) \cap Mention = {}
  /\ text[i - 4].k = "in" /\ text[i - 3].k = "space"
  /\ text[i - 2].k = "number" /\ text[i - 1].k = "space"

Valid(date) ==
  /\ date[2] \in 1 .. 12
  /\ date[3] >= 1 /\ date[3] <= MonthStart(date[1], date[2] + 1) - MonthStart(date[1], date[2])
DueIn(n, due) == IF n <= LastDate THEN due = ToISO(n) ELSE due = NULL

\* What people mean by the date piece at i: the weekday that comes next, and never
\* today; the very day that was written, in this year or this century where it does
\* not say so; and no day where a Date holds none.
Meant(i, today, due) ==
  LET v == text[i].v IN
  CASE text[i].k = "today"     -> due = ToISO(today)
    [] text[i].k = "tomorrow"  -> due = ToISO(today + 1)
    [] text[i].k = "yesterday" -> due = ToISO(today - 1)
    [] text[i].k = "days"  -> SpelledOut(i) => DueIn(today + text[i - 2].v[1], due)
    [] text[i].k = "weeks" -> SpelledOut(i) => DueIn(today + 7 * text[i - 2].v[1], due)
    [] text[i].k \in {"weekday", "abbr"} ->
         \E n \in today + 1 .. today + 7 : due = ToISO(n) /\ GetDay(n) = v[1]
    [] text[i].k = "iso" -> Valid(v) /\ v[1] >= 100 => due = v
    [] text[i].k = "slash" ->
         LET year == CASE Len(v) = 2 -> ToISO(today)[1]
                       [] Len(v) = 3 /\ v[3] < 100 -> 2000 + v[3]
                       [] OTHER -> v[3]
         IN  Valid(<<year, v[1], v[2]>>) => due = <<year, v[1], v[2]>>

\* A line with one date in it is due on that date, whatever else it mentions, and
\* words of a label or a project are no date (quickAddParser.js 28-67, 69-128).
DatesAsTyped ==
  preview # NULL /\ MentionEnds =>
    /\ DatePieces = {} => preview.due = NULL
    /\ \A i \in DatePieces : DatePieces = {i} => Meant(i, previewed, preview.due)

\* The task that is added is the one the chips and the pickers showed, through
\* whatever happens to the lists and the view while the line is open; but for a
\* date that was found before midnight (QuickAdd.jsx 14-32, App.jsx 318-324).
PreviewIsAdded ==
  [][added = NULL /\ added' # NULL /\ previewed = LocalDay =>
       /\ added'.labels = IF preview.labels = <<>> THEN DefaultLabels ELSE preview.labels
       /\ \A f \in DOMAIN Nothing :
            added'[f] = IF picked[f] # NULL THEN picked[f]
                        ELSE IF preview[f] # NULL THEN preview[f] ELSE Default[f]]_lineVars
==============================================================================
