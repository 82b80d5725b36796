------------------------------ MODULE Migration ------------------------------
(***************************************************************************)
(* db/index.js at boot: schema.sql creates the tables that are missing,    *)
(* then a list of guarded blocks brings an older database up to date, one  *)
(* autocommitted statement at a time, and only then does the server        *)
(* answer.  The process may be killed between any two statements; docker   *)
(* starts it again (restart: unless-stopped) and the blocks run from the   *)
(* top, each looking at what the database has become.  A statement that    *)
(* throws ends the process in the same way.                                *)
(*                                                                         *)
(* A database is its tables; a table is its columns as far as a guard asks *)
(* for them, its rows, the state of its sort_order and, for a join table,  *)
(* the name its foreign key text refers to.  The blocks are data, in the   *)
(* order of the file: a condition and the statements it guards.            *)
(*                                                                         *)
(* The owner seed at the end of the file is Boot of Tenancy.               *)
(***************************************************************************)
EXTENDS Permissions, Sequences

CONSTANTS
  Rows,     \* bound: rows of a table whose rows matter
  People,   \* bound: accounts
  Releases, \* the releases an upgraded database may come from (a subset of 0..7)
  Touched,  \* the tables the application changes between boots (keeps runs small)
  Granted   \* the ranks it gives (keeps runs small)

ASSUME ReleasesAreNumbers == Releases \subseteq 0..7
ASSUME GrantedAreRoles == Granted \subseteq Roles

VARIABLES
  phase,    \* "down", "booting", "serving", or "failed" by a statement that threw
  block,    \* the block of Script the boot is at
  stmt,     \* the statement of that block
  tables,   \* sqlite_master: name -> table or NULL
  accounts, \* users: who -> [org, role] or NULL; org: organization_id is set
  unplaced  \* some row of workspaces has no organization_id

vars == <<phase, block, stmt, tables, accounts, unplaced>>

------------------------------------------------------------------------------
(* The schema.                                                             *)

Scoped == {"labels", "assignees", "statuses", "priorities"}
Joins == {"task_labels", "task_assignees"}
Legacy == {"assignees", "task_assignees"}   \* no longer part of schema.sql
Rebuilt == Scoped \cup Joins
Base ==
  Rebuilt \cup {"projects", "tasks", "users", "workspaces", "invites", "attachments",
                "personal_access_tokens"}
Current == Base \ Legacy

\* The name a table has while it is rebuilt.
Temp(t) ==
  CASE t = "labels" -> "labels__migrating"
    [] t = "assignees" -> "assignees__migrating"
    [] t = "statuses" -> "statuses__migrating"
    [] t = "priorities" -> "priorities__migrating"
    [] t = "task_labels" -> "task_labels__migrating"
    [] t = "task_assignees" -> "task_assignees__migrating"

Names == Base \cup {Temp(t) : t \in Rebuilt} \cup {"labels_old", "assignees_old"}

\* What the foreign key of a join table is meant to refer to, and what the
\* earlier version of the migration made of it.
Home(j) == IF j = "task_labels" THEN "labels" ELSE "assignees"
OldHome(j) == IF j = "task_labels" THEN "labels_old" ELSE "assignees_old"
RefOf(t) == IF t \in Joins THEN Home(t) ELSE NULL

\* Ranks before there were organizations.
OldRoles == {"admin", "member"}
Translated(r) == CASE r = "admin" -> "owner" [] r = "member" -> "developer" [] OTHER -> r

------------------------------------------------------------------------------
(* The blocks.  `since` is the release that first had the block.           *)

Statement(op, on, to, col) == [op |-> op, on |-> on, to |-> to, col |-> col]
Block(since, cond, on, col, do) ==
  [since |-> since, if |-> cond, on |-> on, col |-> col, do |-> do]

AddColumn(t, c) == Statement("add", t, NULL, c)

\* if (!hasColumn(t, c)) ALTER TABLE t ADD COLUMN c, for each c.
Adds(since, t, cs) ==
  [i \in DOMAIN cs |-> Block(since, "lacks", t, cs[i], <<AddColumn(t, cs[i])>>)]

\* The same for sort_order, followed by a stable initial order of the rows.
AddsOrder(since, t) ==
  << Block(since, "lacks", t, "sort_order",
           <<AddColumn(t, "sort_order"), Statement("order", t, NULL, NULL)>>) >>

\* rebuildWithWorkspaceScope and the repair of the join tables: the new table
\* under a temporary name, then the rows, then the name.
RebuildScript_NoCopy(t) ==
  << Statement("create", Temp(t), t, NULL), Statement("drop", t, NULL, NULL),
     Statement("rename", Temp(t), t, NULL) >>
RebuildScript(t) ==
  << Statement("create", Temp(t), t, NULL), Statement("copy", t, Temp(t), NULL),
     Statement("drop", t, NULL, NULL), Statement("rename", Temp(t), t, NULL) >>

Rebuild(since, t) == << Block(since, "lacks", t, "workspace_id", RebuildScript(t)) >>
Repair(t) == << Block(8, "dangling", t, NULL, RebuildScript(t)) >>

\* Everything in one transaction, so one statement here: an organization for
\* whatever has none, and the old ranks translated.
Backfill ==
  << Block(4, "orphans", "users", NULL, <<Statement("backfill", "users", NULL, NULL)>>) >>

Rebuilds ==
  Rebuild(2, "labels") \o Rebuild(2, "assignees")
  \o Rebuild(2, "statuses") \o Rebuild(2, "priorities")
Repairs == Repair("task_labels") \o Repair("task_assignees")
Orders == AddsOrder(3, "labels") \o AddsOrder(3, "assignees")

WorkspaceBlocks_OrdersFirst == Orders \o Rebuilds \o Repairs
WorkspaceBlocks == Rebuilds \o Repairs \o Orders

Script ==
  << Block(0, "always", "projects", NULL, <<Statement("schema", "projects", NULL, NULL)>>) >>
  \o Adds(1, "assignees", <<"color">>)
  \o Adds(1, "projects", <<"is_favorite">>) \o AddsOrder(1, "projects")
  \o Adds(1, "tasks", <<"section_id", "parent_task_id">>)
  \o Adds(2, "projects", <<"workspace_id">>) \o Adds(2, "tasks", <<"workspace_id">>)
  \o WorkspaceBlocks
  \o << Block(8, "retired", "assignees", NULL,
              <<Statement("dropif", "task_assignees", NULL, NULL),
                Statement("dropif", "assignees", NULL, NULL)>>) >>
  \o Adds(4, "users", <<"organization_id">>)
  \o << Block(8, "has", "users", "team", <<Statement("remove", "users", NULL, "team")>>) >>
  \o Adds(4, "users", <<"domain_id", "weekly_capacity_hours">>)
  \o Adds(4, "invites", <<"project_id">>) \o Adds(4, "workspaces", <<"organization_id">>)
  \o Adds(5, "users", <<"email_verified_at", "totp_secret", "totp_enabled_at",
                        "totp_recovery_codes">>)
  \o Backfill
  \o Adds(6, "attachments", <<"user_id", "caption">>) \o AddsOrder(6, "attachments")
  \o Adds(7, "personal_access_tokens", <<"oauth_client_id">>)

------------------------------------------------------------------------------
(* Tables.                                                                 *)

\* The columns the blocks add to t, up to a release.
ColumnsOf(t, release) ==
  {Script[i].col : i \in {j \in DOMAIN Script :
     Script[j].on = t /\ Script[j].if = "lacks" /\ Script[j].since <= release}}

\* A rebuilt table has what its CREATE statement lists.
RebuiltColumns(t) ==
  IF t \in Joins THEN {} ELSE IF t = "assignees" THEN {"workspace_id", "color"}
                              ELSE {"workspace_id"}

\* The rows of t are at 0, as the boot listed them, or as somebody arranged them.
Orderings == {"flat", "listed", "chosen"}

Table(t, columns) == [cols |-> columns, rows |-> {}, order |-> "flat", ref |-> RefOf(t)]

\* The columns the guards ask for.
Columns ==
  {"color", "is_favorite", "sort_order", "section_id", "parent_task_id", "workspace_id",
   "organization_id", "team", "domain_id", "weekly_capacity_hours", "project_id",
   "email_verified_at", "totp_secret", "totp_enabled_at", "totp_recovery_codes", "user_id",
   "caption", "oauth_client_id"}

TableRow ==
  [cols : SUBSET Columns, rows : SUBSET Rows, order : Orderings, ref : Names \cup {NULL}]
Account == [org : BOOLEAN, role : Roles \cup OldRoles]

ASSUME NullIsNoTable == NULL \notin TableRow /\ NULL \notin Account

\* Tables and accounts are of their shape, whatever statement the boot is at.
TypeOK ==
  /\ phase \in {"down", "booting", "serving", "failed"}
  /\ block \in 1..Len(Script) /\ stmt \in 1..Len(Script[block].do)
  /\ tables \in [Names -> TableRow \cup {NULL}]
  /\ accounts \in [People -> Account \cup {NULL}]
  /\ unplaced \in BOOLEAN

HasTable(t) == tables[t] # NULL
HasColumn(t, c) == HasTable(t) /\ c \in tables[t].cols

------------------------------------------------------------------------------
(* What a boot may find: nothing, or the database of an earlier release.   *)
(* Sort orders were arranged by hand or not, the old tables hold rows or   *)
(* not, the earlier version of the rebuild left its mark or not, and there *)
(* may be workspaces since release 2, in organizations since release 4.    *)

NoTables == [n \in Names |-> NULL]

Upgraded(r, legacy, marked, team, rows, order) ==
  [n \in Names |->
     IF n \notin Base \/ (n \in Legacy /\ ~legacy) \/ (n = "personal_access_tokens" /\ r < 6)
     THEN NULL
     ELSE [cols |-> ColumnsOf(n, r) \cup (IF n = "users" /\ team THEN {"team"} ELSE {}),
           rows |-> IF n \in Rebuilt THEN rows ELSE {},
           order |-> IF "sort_order" \in ColumnsOf(n, r) \/ n \in {"statuses", "priorities"}
                     THEN order ELSE "flat",
           ref |-> IF n \in Joins /\ marked THEN OldHome(n) ELSE RefOf(n)]]

Ranks(r) == IF r >= 4 THEN Roles ELSE OldRoles

Init ==
  /\ phase = "down" /\ block = 1 /\ stmt = 1
  /\ \/ tables = NoTables /\ accounts = [u \in People |-> NULL] /\ unplaced = FALSE
     \/ \E r \in Releases, legacy, marked, team \in BOOLEAN, rows \in SUBSET Rows,
           order \in {"listed", "chosen"} :
          /\ r < 4 => legacy
          /\ r < 2 => ~marked
          /\ tables = Upgraded(r, legacy, marked, team, rows, order)
          /\ accounts \in [People -> {NULL} \cup [org : {r >= 4}, role : Ranks(r)]]
          /\ unplaced \in BOOLEAN
          /\ r \notin {2, 3} => ~unplaced

------------------------------------------------------------------------------
(* One boot.                                                               *)

\* An account or a workspace without an organization.
Orphans == unplaced \/ \E u \in People : accounts[u] # NULL /\ ~accounts[u].org

\* The old tables are dropped only when both are empty.
Retired ==
  /\ \E t \in Legacy : HasTable(t)
  /\ \A t \in Legacy : HasTable(t) => tables[t].rows = {}

\* Blocks about the old tables ask first whether those exist.
MayBeGone_Never(t) == FALSE
MayBeGone(t) == t \in Legacy

Applies(b) ==
  CASE b.if = "always" -> TRUE
    [] b.if = "lacks" -> (MayBeGone(b.on) => HasTable(b.on)) /\ ~HasColumn(b.on, b.col)
    [] b.if = "has" -> HasColumn(b.on, b.col)
    [] b.if = "dangling" -> HasTable(b.on) /\ tables[b.on].ref = OldHome(b.on)
    [] b.if = "retired" -> Retired
    [] b.if = "orphans" -> Orphans

\* CREATE of a table that exists; a table that does not exist; RENAME to a
\* name that is taken.
Throws(s) ==
  \/ s.op = "create" /\ HasTable(s.on)
  \/ s.op \in {"add", "remove", "order", "copy", "drop", "rename"} /\ ~HasTable(s.on)
  \/ s.op = "copy" /\ ~HasTable(s.to)
  \/ s.op = "rename" /\ HasTable(s.to)

\* The columns of the rows a rebuild copies: sort_order is among those of
\* statuses and priorities.
CopiesOrder_OneForgotten == {"priorities"}
CopiesOrder == {"statuses", "priorities"}

\* The database after statement s.
AfterStatement(s) ==
  CASE s.op = "schema" ->
         [n \in Names |-> IF n \in Current /\ ~HasTable(n) THEN Table(n, ColumnsOf(n, 8))
                          ELSE tables[n]]
    [] s.op = "add" -> [tables EXCEPT ![s.on].cols = @ \cup {s.col}]
    [] s.op = "remove" -> [tables EXCEPT ![s.on].cols = @ \ {s.col}]
    [] s.op = "order" -> [tables EXCEPT ![s.on].order = "listed"]
    [] s.op = "create" -> [tables EXCEPT ![s.on] = Table(s.to, RebuiltColumns(s.to))]
    [] s.op = "copy" ->
         [tables EXCEPT ![s.to].rows = tables[s.on].rows,
                        ![s.to].order = IF s.on \in CopiesOrder THEN tables[s.on].order ELSE "flat"]
    [] s.op \in {"drop", "dropif"} -> [tables EXCEPT ![s.on] = NULL]
    [] s.op = "rename" ->
         [n \in Names |->
            CASE n = s.to -> tables[s.on]
              [] n = s.on -> NULL
              [] n \in Joins /\ HasTable(n) /\ tables[n].ref = s.on -> [tables[n] EXCEPT !.ref = s.to]
              [] OTHER -> tables[n]]
    [] OTHER -> tables

\* The accounts after it.
AfterAccounts(s) ==
  IF s.op # "backfill" THEN accounts
  ELSE [u \in People |->
          IF accounts[u] = NULL THEN NULL
          ELSE [org |-> TRUE, role |-> Translated(accounts[u].role)]]

\* Whether workspaces are left without an organization after it.
AfterUnplaced_UsersOnly(s) == unplaced
AfterUnplaced(s) == unplaced /\ s.op # "backfill"

\* On to the next block, or to serving.
NextBlock ==
  IF block = Len(Script) THEN phase' = "serving" /\ block' = 1 /\ stmt' = 1
  ELSE block' = block + 1 /\ stmt' = 1 /\ UNCHANGED phase

Entering == stmt = 1

Start ==
  /\ phase \in {"down", "failed"}
  /\ phase' = "booting" /\ block' = 1 /\ stmt' = 1
  /\ UNCHANGED <<tables, accounts, unplaced>>

Skip ==
  /\ phase = "booting" /\ Entering /\ ~Applies(Script[block])
  /\ NextBlock
  /\ UNCHANGED <<tables, accounts, unplaced>>

Run ==
  LET s == Script[block].do[stmt] IN
  /\ phase = "booting" /\ (Entering => Applies(Script[block]))
  /\ ~Throws(s)
  /\ tables' = AfterStatement(s) /\ accounts' = AfterAccounts(s)
  /\ unplaced' = AfterUnplaced(s)
  /\ IF stmt < Len(Script[block].do) THEN stmt' = stmt + 1 /\ UNCHANGED <<phase, block>>
     ELSE NextBlock

\* The statement throws and takes the process with it.
Fail ==
  /\ phase = "booting" /\ (Entering => Applies(Script[block]))
  /\ Throws(Script[block].do[stmt])
  /\ phase' = "failed" /\ block' = 1 /\ stmt' = 1
  /\ UNCHANGED <<tables, accounts, unplaced>>

Kill ==
  /\ phase \in {"booting", "serving"}
  /\ phase' = "down" /\ block' = 1 /\ stmt' = 1
  /\ UNCHANGED <<tables, accounts, unplaced>>

------------------------------------------------------------------------------
(* The application, as far as a later boot could see it.  A query of a     *)
(* table that is not there is an error and changes nothing.                *)

Edited == Touched \cap (Rebuilt \ Legacy)
Arranged == Touched \cap ((Scoped \ Legacy) \cup {"projects", "attachments"})

Insert(t, x) ==
  /\ phase = "serving" /\ HasTable(t)
  /\ tables' = [tables EXCEPT ![t].rows = @ \cup {x}]
  /\ UNCHANGED <<phase, block, stmt, accounts, unplaced>>

Delete(t, x) ==
  /\ phase = "serving" /\ HasTable(t)
  /\ tables' = [tables EXCEPT ![t].rows = @ \ {x}]
  /\ UNCHANGED <<phase, block, stmt, accounts, unplaced>>

\* PATCH with a sort_order.
Arrange(t) ==
  /\ phase = "serving" /\ HasTable(t)
  /\ tables' = [tables EXCEPT ![t].order = "chosen"]
  /\ UNCHANGED <<phase, block, stmt, accounts, unplaced>>

\* Registration, and PATCH /admin/users/:id.
SetRank(u, r) ==
  /\ phase = "serving"
  /\ accounts' = [accounts EXCEPT ![u] = [org |-> TRUE, role |-> r]]
  /\ UNCHANGED <<phase, block, stmt, tables, unplaced>>

\* POST /workspaces, by an owner: in the owner's organization.
AddWorkspace(u) ==
  /\ phase = "serving" /\ accounts[u] # NULL /\ accounts[u].role = "owner"
  /\ unplaced' = (unplaced \/ ~accounts[u].org)
  /\ UNCHANGED <<phase, block, stmt, tables, accounts>>

Next ==
  \/ Start \/ Skip \/ Run \/ Fail \/ Kill
  \/ \E t \in Edited, x \in Rows : Insert(t, x) \/ Delete(t, x)
  \/ \E t \in Arranged : Arrange(t)
  \/ \E u \in People, r \in Granted : SetRank(u, r)
  \/ \E u \in People : AddWorkspace(u)

\* The container is restarted whenever it is down, and a boot that is not
\* killed goes on.
Spec == Init /\ [][Next]_vars /\ WF_vars(Start) /\ WF_vars(Skip \/ Run \/ Fail)

------------------------------------------------------------------------------
(* Properties.                                                             *)

\* Whatever release the database came from and wherever boots were killed, a
\* server that answers has every table of schema.sql with every column its
\* queries name, join tables that refer to tables of today, and accounts in
\* an organization with ranks of today.  Every guard must therefore notice
\* what a killed boot left half done.
ServedIsCurrent ==
  phase = "serving" =>
    /\ \A t \in Current : HasTable(t) /\ ColumnsOf(t, 8) \subseteq tables[t].cols
    /\ \A j \in Joins : HasTable(j) => tables[j].ref = Home(j)
    /\ \A u \in People : accounts[u] # NULL => accounts[u].org /\ accounts[u].role \in Roles

\* A table and the one it is being rebuilt in.
Copies(t) == IF t \in Rebuilt THEN {t, Temp(t)} ELSE {t}
RowsIn(n) == IF HasTable(n) THEN tables[n].rows ELSE {}
RowsOf(t) == UNION {RowsIn(n) : n \in Copies(t)}
Chosen(t) == \E n \in Copies(t) : HasTable(n) /\ tables[n].order = "chosen"

\* No statement of a boot is the end of a row: at every moment, and so after
\* every kill, it is in its table or in the one that is being built.
RowsSurviveBoot ==
  [][ phase = "booting" => \A t \in Rebuilt : RowsOf(t) \subseteq RowsOf(t)' ]_vars

\* The translation of ranks happens once: a boot never touches the rank of
\* an account that has an organization, so that somebody who was made an
\* admin of today is not taken for an admin of old and made the owner.  The
\* UPDATE of ranks runs over every account as soon as any account or any
\* workspace is without an organization, so no row may ever be left without.
RanksTranslatedOnce ==
  [][ phase = "booting" =>
        \A u \in People :
          accounts[u] # NULL /\ accounts[u].org => accounts'[u] = accounts[u] ]_vars

\* An order somebody arranged is never replaced by the one a boot would fill in.
ChosenOrderSurvivesBoot ==
  [][ phase = "booting" => \A t \in Current : Chosen(t) => Chosen(t)' ]_vars

\* A rebuild was killed between the creation of its table and the drop of the
\* old one: every boot from now on fails at that CREATE.
Blocked == \E t \in Rebuilt : HasTable(t) /\ HasTable(Temp(t))

\* No statement of a boot throws but the CREATE of such a rebuild: what ComesUp
\* rests on.
OnlyBlockedFails == [][ phase = "booting" /\ phase' = "failed" => Blocked ]_vars

\* If the kills stop, the server comes up, or is blocked by what a killed
\* rebuild left behind: nothing else ever keeps it down.
ComesUp == <>[][~Kill]_vars => []<>(phase = "serving" \/ Blocked)
==============================================================================
