------------------------------- MODULE Catalog -------------------------------
(***************************************************************************)
(* The lists a workspace or organization names for itself, and what is     *)
(* filed under them: the priority and the labels of a task, the domain and *)
(* the teams of a person.  server/src/routes/priorities.js, labels.js,     *)
(* teams.js, the domains of admin.js, the labels of tasks.js; on the other *)
(* side the editable list of the settings (SettingsList.jsx), the rows,    *)
(* columns and sections that are dragged into order, and the form of a     *)
(* task (TaskModal.jsx).                                                   *)
(*                                                                         *)
(* The routes run without an await: a request is one step, and only the    *)
(* statements of a saved form are told apart, for a kill between them.  A  *)
(* client works from the list it loaded last, which others may have        *)
(* changed since: Refresh is a new answer.  Everybody here may do what     *)
(* they ask for; roles are in Permissions, colours are left out.  One      *)
(* thing stands for all that is filed, and a behaviour is about one kind   *)
(* of list.                                                                *)
(***************************************************************************)
EXTENDS Null, Integers, Sequences, FiniteSets, SequencesExt

CONSTANTS
  Kinds,        \* of "priorities", "labels", "domains", "teams"
  Clients,
  Names,        \* what rows are called
  Parts,        \* what a name gives when the form splits it at its commas
  Seeded,       \* the rows there are to begin with, in order
  MaxRows,      \* bound: rows ever made
  MaxChanges,   \* bound: things the people do
  MaxDrags      \* bound: only that many of them, at the beginning, are drags

ASSUME KindsKnown == Kinds \subseteq {"priorities", "labels", "domains", "teams"}
ASSUME PartsAreNames == Parts \in [Names -> SUBSET Names]
ASSUME SeedsAreNames == Seeded \in Seq(Names) /\ IsInjective(Seeded)
\* A name has finitely many commas.
ASSUME PartsAreFinite == \A n \in Names : IsFiniteSet(Parts[n])
\* NULL is no id, no row and no form.
ASSUME NullIsNothing ==
  NULL \notin Nat \cup [name : Names, order : Int] \cup [seen : SUBSET Names, value : SUBSET Names]
ASSUME Bounded == MaxRows \in Nat /\ MaxChanges \in Nat /\ MaxDrags \in Nat

VARIABLES
  kind,         \* which list this behaviour is about
  rows,         \* every row made so far, by id: its name and sort_order, or NULL
  held,         \* what the thing has: the name of a priority, ids of all else
  list,         \* client -> the rows it shows, in order
  form,         \* client -> the task it has open in a form, or NULL
  blocked,      \* client -> the row whose deletion asks for a replacement, or NULL
  moves,        \* client -> calls of its last drop that are under way
  dropped,      \* history: the order last dropped, if nothing interfered, or NULL
  stale,        \* history: the thing was saved with a name the list lacked
  changes

vars == <<kind, rows, held, list, form, blocked, moves, dropped, stale, changes>>

------------------------------------------------------------------------------
(* Rows.  A name that ends in a suffix after an underscore is a deliberately  *)
(* wrong variant of the definition after it.                                  *)

ByName == kind = "priorities"
Reassigns == kind \in {"priorities", "domains"}

Ids == {i \in DOMAIN rows : rows[i] # NULL}
NamesOf(rs) == {rs[i].name : i \in {j \in DOMAIN rs : rs[j] # NULL}}
Row(n, o) == [name |-> n, order |-> o]

\* A query in sort_order; rows that tie come in the order they were made.
Earlier(i, j) == \/ rows[i].order < rows[j].order
                 \/ rows[i].order = rows[j].order /\ i < j
Sorted == [k \in 1 .. Cardinality(Ids) |->
             CHOOSE i \in Ids : Cardinality({j \in Ids : Earlier(j, i)}) = k - 1]
Shown == [k \in DOMAIN Sorted |-> [id |-> Sorted[k], name |-> rows[Sorted[k]].name]]

Listed(c) == {list[c][k] : k \in DOMAIN list[c]}
Order(c) == [k \in DOMAIN list[c] |-> list[c][k].id]

InUse(i) == IF ByName THEN rows[i].name \in held ELSE i \in held

Init ==
  /\ kind \in Kinds
  /\ rows = [k \in DOMAIN Seeded |-> Row(Seeded[k], k - 1)]
  /\ held = {}
  /\ list = [c \in Clients |-> [k \in DOMAIN Seeded |-> [id |-> k, name |-> Seeded[k]]]]
  /\ form = [c \in Clients |-> NULL]
  /\ blocked = [c \in Clients |-> NULL]
  /\ moves = [c \in Clients |-> {}]
  /\ dropped = NULL
  /\ stale = FALSE
  /\ changes = 0

Change == changes < MaxChanges /\ changes' = changes + 1

\* The answer to a GET, after a change of one's own or on the way elsewhere.
Refresh(c) ==
  /\ list' = [list EXCEPT ![c] = Shown]
  /\ UNCHANGED <<kind, rows, held, form, blocked, moves, dropped, stale, changes>>

------------------------------------------------------------------------------
(* The editable list                                                         *)

\* A new row goes to the end.
End == 1 + Max({rows[i].order : i \in Ids} \cup {-1})
Create(c, n) ==
  /\ Change
  /\ n \notin NamesOf(rows) /\ Len(rows) < MaxRows
  /\ rows' = Append(rows, Row(n, End))
  /\ dropped' = NULL
  /\ UNCHANGED <<kind, held, list, form, blocked, moves, stale>>

\* Tasks hold the name of their priority, so it changes with the row.
Renamed_TasksForgotten(old, new) == held
Renamed(old, new) == IF ByName /\ old \in held THEN (held \ {old}) \cup {new} ELSE held
Rename(c, item, n) ==
  /\ Change
  /\ item \in Listed(c) /\ n # item.name
  /\ item.id \in Ids
  /\ n \notin {rows[j].name : j \in Ids \ {item.id}}
  /\ rows' = [rows EXCEPT ![item.id].name = n]
  /\ held' = Renamed(rows[item.id].name, n)
  /\ UNCHANGED <<kind, list, form, blocked, moves, dropped, stale>>

\* Foreign keys: task_labels and team_members cascade, users.domain_id is set
\* to NULL; the name of a priority stays.
Dropped(i, h) == IF ByName THEN h ELSE h \ {i}

Delete_BeforeReassign(c, i, h) ==
  /\ rows' = [rows EXCEPT ![i] = NULL]
  /\ held' = Dropped(i, held)
  /\ dropped' = NULL
  /\ blocked' = [blocked EXCEPT ![c] = NULL]
Delete(c, i, h) ==
  /\ rows' = [rows EXCEPT ![i] = NULL]
  /\ held' = Dropped(i, h)
  /\ dropped' = NULL
  /\ blocked' = [blocked EXCEPT ![c] = NULL]

TryDelete(c, item) ==
  /\ Change
  /\ item \in Listed(c) /\ item.id \in Ids
  /\ IF Reassigns /\ InUse(item.id)
     THEN /\ blocked' = [blocked EXCEPT ![c] = item.id]
          /\ UNCHANGED <<rows, held, dropped>>
     ELSE Delete(c, item.id, held)
  /\ UNCHANGED <<kind, list, form, moves, stale>>

CancelDelete(c) ==
  /\ blocked[c] # NULL
  /\ blocked' = [blocked EXCEPT ![c] = NULL]
  /\ UNCHANGED <<kind, rows, held, list, form, moves, dropped, stale, changes>>

\* Whom `reassign_to` names.  A priority is not its own replacement; a domain
\* that took the name meanwhile is.
Targets(i, n) == {j \in Ids : rows[j].name = n /\ (ByName => j # i)}

\* "Reassign & delete", with a name of the list as it was loaded.  What is no
\* longer in use is deleted whatever the name.
ConfirmDelete(c, item, to) ==
  LET i == item.id IN
  /\ Change
  /\ blocked[c] = i /\ item \in Listed(c) /\ to \in Listed(c) \ {item}
  /\ i \in Ids
  /\ IF InUse(i)
     THEN \E t \in Targets(i, to.name) : Delete(c, i, IF ByName THEN {to.name} ELSE {t})
     ELSE Delete(c, i, held)
  /\ UNCHANGED <<kind, list, form, moves, stale>>

------------------------------------------------------------------------------
(* Dragging into order: one call per row, none waits for another.            *)

Moved(s, from, to) == InsertAt(RemoveAt(s, from), to, s[from])

CallsOf_MovedOnly(s, from, to) == {[id |-> s[from], order |-> to - 1]}
CallsOf(s, from, to) ==
  {[id |-> Moved(s, from, to)[k], order |-> k - 1] : k \in DOMAIN s}

Drop(c, from, to) ==
  /\ Change
  /\ from # to /\ moves[c] = {} /\ changes < MaxDrags
  /\ moves' = [moves EXCEPT ![c] = CallsOf(Order(c), from, to)]
  /\ dropped' = IF ToSet(Order(c)) = Ids /\ \A d \in Clients : moves[d] = {}
                THEN Moved(Order(c), from, to) ELSE NULL
  /\ UNCHANGED <<kind, rows, held, list, form, blocked, stale>>

Arrive(c, m) ==
  /\ m \in moves[c]
  /\ moves' = [moves EXCEPT ![c] = @ \ {m}]
  /\ \/ m.id \in Ids /\ rows' = [rows EXCEPT ![m.id].order = m.order] /\ dropped' = dropped
     \/ rows' = rows /\ dropped' = NULL
  /\ UNCHANGED <<kind, held, list, form, blocked, stale, changes>>

------------------------------------------------------------------------------
(* What is filed under a row                                                 *)

\* The form of a task is filled from the list that was loaded last, and stays
\* as it is while others change the task.
HeldNames == IF ByName THEN held ELSE {rows[i].name : i \in held}
OpenForm(c) ==
  /\ Change
  /\ kind \in {"priorities", "labels"}
  /\ form' = [form EXCEPT ![c] = [seen |-> HeldNames, value |-> HeldNames]]
  /\ UNCHANGED <<kind, rows, held, list, blocked, moves, dropped, stale>>

\* A priority is chosen from the list; labels are text.
Choosable(c) == IF ByName THEN {{}} \cup {{item.name} : item \in Listed(c)}
              ELSE {{}} \cup {{n} : n \in Names}
EditForm(c, v) ==
  /\ Change
  /\ form[c] # NULL /\ v \in Choosable(c) \ {form[c].value}
  /\ form' = [form EXCEPT ![c].value = v]
  /\ UNCHANGED <<kind, rows, held, list, blocked, moves, dropped, stale>>

\* Labels are joined by commas for the form and split when it is saved.
Asked_FirstOnly(v) == IF v = {} THEN {} ELSE Parts[CHOOSE n \in v : TRUE]
Asked(v) == UNION {Parts[n] : n \in v}

\* getOrCreateLabel: a name nobody has becomes a row, in front.
Made(names) == rows \o SetToSeq({Row(n, 0) : n \in names \ NamesOf(rows)})

\* The whole form is written, whatever was edited.  The priority is stored
\* without asking the list; the labels are taken off and put on one by one,
\* each a commit of its own: `done` of them when the process is killed, and
\* `last` may have been made without being put on.
SaveForm(c, done, last, killed) ==
  /\ Change
  /\ form[c] # NULL
  /\ IF ByName
     THEN /\ done = {} /\ last = {}
          /\ held' = form[c].value
          /\ stale' = ~(form[c].value \subseteq NamesOf(rows))
          /\ UNCHANGED <<rows, dropped>>
     ELSE /\ done \cup last \subseteq Asked(form[c].value) /\ Cardinality(last) <= 1
          /\ ~killed => done = Asked(form[c].value)
          /\ rows' = Made(done \cup last)
          /\ held' = {i \in DOMAIN rows' : rows'[i] # NULL /\ rows'[i].name \in done}
          /\ dropped' = IF rows' = rows THEN dropped ELSE NULL
          /\ stale' = stale
  /\ Len(rows') <= MaxRows
  /\ form' = IF killed THEN form ELSE [form EXCEPT ![c] = NULL]
  /\ UNCHANGED <<kind, list, blocked, moves>>

\* The domain of a person is chosen from the list, and has to exist.
PickDomain(c, h) ==
  /\ Change
  /\ kind = "domains"
  /\ h \subseteq {item.id : item \in Listed(c)} \cap Ids /\ Cardinality(h) <= 1
  /\ held' = h
  /\ UNCHANGED <<kind, rows, list, form, blocked, moves, dropped, stale>>

\* A person joins and leaves a team.
Join(c, i) ==
  /\ Change
  /\ kind = "teams" /\ i \in {item.id : item \in Listed(c)} \cap Ids
  /\ held' \in {held \cup {i}, held \ {i}}
  /\ UNCHANGED <<kind, rows, list, form, blocked, moves, dropped, stale>>

------------------------------------------------------------------------------
Next ==
  \E c \in Clients :
    \/ Refresh(c) \/ OpenForm(c) \/ CancelDelete(c)
    \/ \E n \in Names : Create(c, n)
    \/ \E item \in Listed(c), n \in Names : Rename(c, item, n)
    \/ \E item \in Listed(c) : TryDelete(c, item)
    \/ \E item, to \in Listed(c) : ConfirmDelete(c, item, to)
    \/ \E from, to \in DOMAIN list[c] : Drop(c, from, to)
    \/ \E m \in moves[c] : Arrive(c, m)
    \/ \E v \in SUBSET Names : EditForm(c, v)
    \/ \E done, last \in SUBSET Names, killed \in BOOLEAN : SaveForm(c, done, last, killed)
    \/ \E h \in SUBSET Ids : PickDomain(c, h)
    \/ \E i \in Ids : Join(c, i)

Spec == Init /\ [][Next]_vars

------------------------------------------------------------------------------
(* Properties.                                                               *)

\* Nobody's priority, label, domain or team is one that its list lacks, through
\* renames and deletions by clients whose lists are out of date: but for a
\* priority that such a client saved (priorities.js 38, 66-80; tasks.js 19-28).
HoldersKeepRows ==
  IF ByName THEN stale \/ held \subseteq NamesOf(rows) ELSE held \subseteq Ids

\* "Reassign & delete" leaves no task without its priority and nobody without a
\* domain: but for a domain whose own row has meanwhile taken the name of its
\* replacement (priorities.js 72-82, admin.js 81-92).
ReassignKeepsHolding ==
  [][\A c \in Clients : blocked[c] \in Ids /\ blocked'[c] = NULL /\ rows'[blocked[c]] = NULL =>
       \/ held = {} \/ held' # {}
       \/ kind = "domains" /\ \E item \in Listed(c) :
            item.id # blocked[c] /\ item.name = rows[blocked[c]].name]_vars

\* Saving a form in which nothing was edited changes nothing, unless the task
\* was changed since the form was opened or a name has a comma in it
\* (TaskModal.jsx 77-92, 118-138; tasks.js 19-28, 327).
SaveKeepsUnedited ==
  [][\A c \in Clients :
       form[c] # NULL /\ form'[c] = NULL /\ form[c].value = form[c].seen
         /\ HeldNames = form[c].seen /\ (\A n \in HeldNames : Parts[n] = {n}) =>
       held' = held /\ rows' = rows]_vars

\* When the calls of a drop have all arrived, in whatever order, the rows are in
\* the order that was dropped, unless something else was made, deleted, dropped
\* or lost meanwhile (SettingsList.jsx 68-80, Settings.jsx 92).
OrderAsDropped == dropped # NULL /\ (\A c \in Clients : moves[c] = {}) => Sorted = dropped
==============================================================================
