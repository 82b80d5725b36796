# Punchlist in TLA+

Models, model-checking runs and machine-checked proofs for Punchlist, the team task
manager of this repository: an Express server over a synchronous SQLite database
(`src/server/src`), a React client (`src/web/src`) and an MCP server for assistants.

Run from this directory: `tlc -workers 2 -config MCTasks_filing.cfg MCTasks` checks an
instance, `tlapm GrantsProofs.tla` checks the proofs of a module. `PROJECT.json` lists the
components, runs, mutants, theorems and hazards, and maps every definition to its lines.

## 1. The system

One Node process, one `better-sqlite3` connection, foreign keys on. Three facts decide what
can go wrong, and so what the models look like:

- **A handler is synchronous from its first read to its last write**, apart from those named
  below. Requests do not interleave inside it. What remains between requests is everything a
  handler wrote down and somebody else has changed since: roles, parents, names, invitations.
- **A statement outside `db.transaction` is an autocommit.** The process can be killed between
  two of them (`index.js:20` also exits on an uncaught exception), and files on disk are a
  second store that commits on its own. Where the order of two statements matters, the model
  has one action per statement and a variable `job` for what the handler has left to do.
- **Something asynchronous comes before some handlers**: multer receives a file, the rate limiter
  runs, the MCP transport takes in the call of a tool after `requireAuth` has run. What was read
  before may be stale. E-mail is sent last and nothing is written after it.

### Components

| Component | State | Operations | What is hard | What makes it correct |
|---|---|---|---|---|
| Organizations, accounts, roles: `lib/permissions.js`, `routes/admin.js`, register in `routes/auth.js`, seed in `db/index.js` | organizations, users | found, register by invitation, boot seed, change rank, (de)activate, delete | chains of legal demotions; founding is two autocommits | an organization keeps an owner; its last active administrator can only step down; owners alone hand on ownership |
| Workspaces, memberships, invitations: `routes/workspaces.js`, `routes/invites.js` | workspaces, workspace_members, invites | create, delete, add, invite (re-issue), change role, remove, leave, revoke, accept, expire | an invitation outlives what it points at; two places count owners | no grant crosses organizations; one live invitation per purpose; none outlives what it points at |
| Projects, sections, stakeholders: `routes/projects.js`, `routes/sections.js` | projects, sections, project_stakeholders | create, delete, seats | cascades | no reference outlives its target |
| Tasks, sub-tasks, assignments: `routes/tasks.js`, tools of `mcp/server.js` | tasks, task_members, task_activity | create, patch any mixture of fields, delete, assign oneself | derived fields (`is_completed` and status, section and project) kept in several code paths | one level of nesting, consistent filing, assignment needs a manager, the timeline tells all |
| Workflow statuses: `routes/statuses.js` | statuses | create, rename, flag, delete with a replacement | tasks store names | every task has an existing status; one default |
| Sessions, passwords, second factor: `routes/auth.js`, `lib/sessions.js`, `authTokens.js`, `totp.js`, `credentials.js` | sessions, auth_tokens, recovery codes, `pending2fa` in memory | sign in (three ways), sign out, revoke, verify, reset, set up and end the second factor | several autocommits per handler; memory lost at restart; two-step sign-in | a reset ends sessions; codes and links work once; the factor is shown |
| Access tokens and OAuth: `routes/oauth.js`, `routes/tokens.js`, `lib/personalAccessTokens.js` | codes, personal_access_tokens, refresh tokens | consent, redeem, exchange, mint, revoke | rotation in four autocommits, retries | one live pair per consent; nothing retired comes back |
| Attachments: `routes/attachments.js` | attachments, `data/uploads/` | upload, delete, cascades from tasks | asynchronous upload, two stores | a row has its file; files are left behind only by a death |
| Project secrets: `routes/secrets.js` | project_secrets, shares, access log, `data/secrets/` | create, reveal, change, share, delete | order of log, answer and write | no reveal or removal without an entry |
| Labels, priorities, teams, domains: `routes/labels.js`, `priorities.js`, `teams.js`, domains of `admin.js`, `SettingsList.jsx`, `TaskModal.jsx` | one list each, what is filed under it, lists and forms in the clients | create, rename, drag into order, delete with re-assignment, save a form | lists and forms that are out of date; names stored in tasks; one call per dragged row | nothing is filed under a row that is gone; re-assignment loses nothing; the order is the one dropped |
| Schema and migrations: `db/schema.sql`, `db/index.js` | the schema itself | rebuild tables, backfill | killed half-way | what is served is current; no row, rank or order is lost; boots end |
| Screen of the web client: `App.jsx`, `lib/api.js`, `Sidebar.jsx`, `Login.jsx`, `Register.jsx`, `AcceptInvite.jsx`, `CreateWorkspace.jsx` | who is signed in, workspace, view, lists, calls under way | boot, navigate, search, save, sign in and out, create a workspace, accept an invitation | answers out of order or never, callbacks of an earlier render | lists belong to the screen shown; no indicator stays on |
| Adding by typing: `quickAddParser.js`, `QuickAdd.jsx`, `format.js` | line, chips, pickers, clock | type, pick, add, pass midnight | calendar arithmetic, two notions of today | the date is the one written; the task is the one shown |
| Mail, search and summaries, wiring, scripts | none | | | |

Components share the database and one another's cascades: deleting an account ends its
memberships (Tenancy), assignments (Tasks), sessions (Sessions), tokens (Grants) and shares
(Secrets); deleting a task takes attachments along; every workspace-scoped handler runs behind
`requireWorkspace` and `roleFor`. A module therefore has, beside its own handlers, the steps
of other components that reach into its tables, reduced to what they do there.

## 2. Modules

| Module | Models | Granularity |
|---|---|---|
| `Null` | the value that stands for no row | a constant |
| `Permissions` | ranks, `atLeast` | operators |
| `Tenancy` | organizations, accounts, workspaces, members, projects, stakeholders, invitations | a handler is a step; founding may be cut |
| `Tasks` | projects, sections, statuses, tasks, assignments, timeline entries | a handler or MCP tool is a step |
| `Authorization` | what one "Allow" click promises (abstract) | |
| `Grants` | codes, access and refresh tokens; implements `Authorization` | a statement is a step, kills anywhere |
| `Sessions` | sessions, links, recovery codes, waiting sign-ins | a statement is a step, restarts anywhere |
| `Attachments` | uploads in flight, rows, files, unlinking | an insert is a step, kills anywhere |
| `Secrets` | secrets, shares, log, files | a statement is a step, kills anywhere |
| `Migration` | the guarded blocks of a boot, from any earlier release | a statement is a step, kills anywhere |
| `Catalog` | one list of priorities, labels, domains or teams, what is filed under it, and the lists, drags and forms of several clients | a request is a step, a call of a drag is a step, a save may be cut anywhere |
| `Screen` | the page: session, workspace, view, lists, indicators, calls under way | a callback with the effects React runs after it is a step; calls are answered, refused or lost in any order |
| `QuickAdd` | the typed line, the pickers, the chips, the task added, clock and zone | an edit, a reload of a list, or a quarter of a day is a step |
| `MC*` | instances for TLC: symmetry | |
| `*Proofs` (eight) | theorems about the module they extend; `ClientProofs` extends `Catalog`, `QuickAdd` and `Screen` | |

Conventions. A row that does not exist is `NULL`. Where ids are never reused and the past
matters, a deleted row is kept with a state that says so. An action is named for its handler
and its comment gives the route. A request that the code refuses changes nothing and is no
action. A name with a suffix (`SubtasksOf_None`) is a deliberately wrong variant of the
definition after it; for every property one such variant breaks it, which shows that the
property depends on that code. The three models of the client share no variable; their
specifications are `Spec` (Catalog), `LineSpec` (QuickAdd) and `PageSpec` (Screen), so that one module
of proofs can extend them all.

### How state and actions correspond

- **Tenancy.** `users`, `members`, `invites` ... are the tables, accounts identified by e-mail
  address (unique in the schema). `RoleFor` and `Can` are `roleFor` and `atLeast`. The seven-day
  expiry is the step `ExpireInvite`. `Boot` is the owner seed. `RegisterFoundingCut` is the kill
  between the two inserts of founding. `Request(a)` is every step that account `a` can ask for, which
  is how a property names who did something. Revoking takes an accepted invitation, too
  (`workspaces.js:183` looks at no status): the row changes, the membership stays.
- **Tasks.** `role` is what `roleFor` answers and may change at any moment; the reasons are
  Tenancy's. A request body is a record with `ABSENT` for missing fields; `NextSection`,
  `NextStatuses`, `NextCompleted` compute what PATCH stores, in its order. `logged` holds the
  timeline rows of the last handler. `sort_order` is abstracted: the "first" status of a kind
  is any of them.
- **Grants.** `job` says what a redemption, an exchange or a revocation has left to do;
  `Crash` drops it. A token row keeps the code it descends from, which the database does not
  store; it is what the promise is about. PAT expiry is left out: an expired token is refused
  at the door and can be rotated or revoked like any other.
- **Sessions.** `password` counts resets and a session remembers the count at its opening.
  `pending` is the `Map` `pending2fa`; `Restart` empties it. `cut` records that a reset was
  killed after it changed the password and before it ended the sessions. Rate limits only refuse;
  `last_seen_at` is not modelled. Requests with an access token instead of a cookie may do
  whatever asks only for an active account.
- **Attachments.** An upload begins with what `requireAuth` read and ends with a callback that
  reads the task and role again; `disk` and `rows` change apart; `doomed` is what was handed to
  `fs.unlink`, lost with the process.
- **Secrets.** `job` orders log, answer, write and unlink. `seen` is a history variable: who was
  sent a value. `Kept` bounds which kinds of entries an instance stores. Values and names are data.
- **Migration.** The blocks of `db/index.js` are the sequence `Script`: what a block asks of the
  database and the statements it guards. `Skip`, `Run` and `Fail` interpret it; `Kill` is the end
  of the process at any point and `Start` the container's restart. A table is its columns, its rows,
  the state of its `sort_order` and what its foreign key text refers to. `unplaced` says that some row of
  workspaces has no organization, which alone makes the backfill run. The transaction of the
  backfill is one statement, and so is each loop that fills in `sort_order`. `since` numbers
  the releases by the blocks they had: `Upgraded` builds what such a release left.
- **Catalog.** `kind` chooses one of the four lists for a whole behaviour; `rows` is its table, `held`
  what one task or person has: a name for a priority, ids of rows for the rest. `list[c]` is the
  list client `c` loaded last, `form[c]` its open form with what it was filled with and what it says
  now. `Drop` sends a call for every row, `Arrive` takes them in any order. `Parts` says into what a
  name falls when the form splits its text at commas. `dropped` and `stale` are history.
- **Screen.** `at` is what the callbacks of one render close over; a call carries the `at` of the
  render that made it, what it asks for and the version of the tasks it can see. `Effects` are the
  dependency arrays of the hooks. The server is `session`, `members` and `saved`. The server reads
  before its answer arrives, and in between anything may happen: a call carries in `sees` the
  answers it may bring, one for every state of the server since it was made; what a call changes
  on the server, it changes when it settles, whether or not the page hears of it. `held` is the
  answer to a sign-in while the invitation it came with is being accepted. `late` marks a call
  that a later one has overtaken. `stray` is history: the lists whose last answer was overtaken,
  lost, or asked for by a handler of an earlier render, and "identity" for the account and its
  workspaces. The page of somebody without a workspace disables its button while it creates one;
  leaving that out only adds steps. One call stands for the five of `refreshLookups`, "today" for
  all views that list tasks without the person filter.
- **QuickAdd.** A line is a sequence of pieces (signs, known words, other words); what stands between
  spaces and signs is one piece (`Lexed`). The regular expressions of the parser are predicates over
  neighbouring pieces, applied in the order of the code, each on what the one before it left. Days are
  numbered from 1970 and `NewDate`, `ToISO` and `GetDay` do what `Date` does, calendar overflow and
  two-digit years included. `Mention`, `DatePieces` and `Meant` are the reference: what the last "#"
  stands for (the name of a project may have any words in it, those of dates too), which pieces
  outside it and the labels speak of a date, and what people mean by them.

## 3. What the runs check

All runs finish in under five minutes with two workers. The "violation" run shows a sentence of
the repository that the code does not keep.

| Run | Instance | Shows |
|---|---|---|
| `tenancy` | 2 accounts in up to 2 organizations and a third that joins one, boot seed, 1 workspace, 1 project, 1 invitation row; `is_active` true, false or 0 | `OrgHasOwner`: no sequence of promotions, demotions, deactivations and deletions leaves an organization ownerless. `LastAdministratorOnlySteppedDown`: nor without an active administrator, but by that one's own request with a 0 (section 5). `MembersInOrg`, `InvitesAnchored`: no grant crosses organizations or outlives what it refers to. `OwnershipFromOwners`: no request of anybody but an owner makes or unmakes one. `LastOwnerLeavesOnlyWithAccount` |
| `filing` | 3 tasks, 2 projects, 2 workspaces, 1 section | `OneLevelOfNesting`, `FiledConsistently` while tasks move and projects, sections, parents and workspaces go |
| `workflow` | 1 task, 3 status names, 2 people | `StatusExists`, `OneDefaultStatus`, `CompletionIsLogged`, `AssignmentRule` while statuses are renamed and deleted under the task and roles change |
| `catalog` | 2 clients, 3 names of which one is two others with a comma, at most 3 rows, 5 changes, 2 drags; each of the four kinds | `HoldersKeepRows`, `OrderAsDropped`, `ReassignKeepsHolding`, `SaveKeepsUnedited` from lists and forms that are out of date |
| `screen` | 2 accounts, 2 workspaces and 2 to be made, 1 project, 1 person to filter by, an invitation; 3 clicks, 2 calls under way | `ListsMatchScreen`, `WorkspacesAreTheirs`, `InvitePageStays`, and the liveness property `BusyEnds`, with calls answered, refused or lost in any order |
| `quickadd` | lines of 2 phrases, a project whose name ends in a date word, 3 zones, from 28 February 2028, 18:00 UTC, over midnight of one zone; 1 picker | `DatesAsTyped`, `PreviewIsAdded` |
| `grants` | 2 accounts, 2 consents, 3 access and 3 refresh tokens | `OneLivePair`, `RefreshRenewsItsPair`, `ImplementsAuthorization` with kills between any two statements |
| `revoked` (violation) | 1 account, 2 pairs | `RevokedStaysRevoked`: a kill inside a revocation leaves a refresh token that works, and a retry does not repair it |
| `sessions` | 2 accounts, 2 sessions, 1 link, 2 waiting sign-ins, 1 recovery code | `ResetForcesSignIn`, `RecoveryCodeOnce`, `SecondFactorShown` with restarts anywhere |
| `uploads` | 2 accounts, a task and a sub-task, 2 files | `RowsHaveFiles`, `OrphansOnlyFromDeath`, `UploadsByWriters` |
| `secrets` | 2 people, 1 secret, all roles | `RevealsAreLogged`, `RemovalIsLogged`, `SecretFilesExist` |
| `upgrade` | nothing, or a database of release 0, 1, 2 or 5, in 2 with or without a workspace that has no organization; 1 row per table, 1 account | `ServedIsCurrent`, `RowsSurviveBoot`, `RanksTranslatedOnce`, `ChosenOrderSurvivesBoot` with kills between any two statements, and the liveness property `ComesUp` |

`TypeOK` is proved for Tenancy, Tasks, Grants, Sessions, Secrets, Attachments and Migration, and
`CatalogTypeOK` and `ScreenTypeOK` for the lists and the page; they take no run.
`OnePendingInvite`, `LinksProve`, `MintedForActive` and `GrantersCanRead` are proved, too, and
take none. Nor do `OnlyBlockedFails` (`Migration`) and `BusyAwaits` (`Screen`), which are also
proved: the safety that `ComesUp` and `BusyEnds`, which runs check, rest on.

**Why the bounds are enough for what they are for.** They let every action fire and each hazard
happen: two accounts in two organizations are the owner and the one who could replace or remove
them, and a member and a stranger; the boot seed makes an account an administrator that nobody
chose. The third account is there to be promoted or demoted by somebody who is no owner while an
owner looks on; `ThirdInOneOrg` keeps to states where that is all it is there for or invited for.
Three tasks are a chain of parents if one could be built; two workspaces and projects allow a
crossing; three token rows are a pair, its successor and a token made by hand; two waiting
sign-ins and two sessions are what it takes to use one recovery code twice; releases 0, 1, 2 and 5
make every block run in some boot and be skipped in another, and 2 is one that could leave a
workspace without an organization. Two clients, three rows and five changes are a form or a
deletion begun on an old list, the two changes of somebody else that make it old, and its end. Two
calls and three clicks let one load overtake another, a search fire on another view and a sign-out
come before an answer, and two workspaces be created with their answers in either order (`w3` and
`w4`, for an account that has one: `Founded` and `Numbered` say so, that ids go up, and that
workspaces are made where the accounts share none). Two phrases are a phrase and one that could be
taken for a part of it; the run begins so that one midnight passes and 29 February is reached by
"tomorrow" and by dates. Larger instances are what the theorems are for. `tenancy` has 224,443
states, `screen` 503,631, `catalog` 743,565, `upgrade` 867,664, `quickadd` 107,578.

**Symmetry** is used only among ids that the model does not order or name. In `tenancy` the
accounts are not symmetric, since `AdminEmail` is one of them; in `catalog` only the clients are.

**Fairness and liveness.** `Migration` assumes weak fairness of `Start` (`docker-compose.yml:5`
restarts a process that ended) and of the statements of a boot, which is a straight line of
synchronous code. `ComesUp` says what then follows if the kills stop: the server answers, unless a
rebuild was killed between its CREATE and its DROP, after which that CREATE fails on every boot.
That no other statement of a boot can throw is proved (`OnlyBlockedEverFails`). `Screen` assumes
weak fairness of the step that settles a call, by an answer or an error: the browser settles every
`fetch`, and clicks end, so it settles all. Nobody has to click. `BusyEnds` says that then the
boot screen, the spinner and "Joining..." end, on every path through failures. That each of them
is on only while a call is under way that ends it is proved (`BusyAlwaysAwaits`), for any number
of calls. The other specifications state no fairness: nothing there makes progress that a client
does not ask for. A killed handler is never resumed, expiry needs no agent, and every request may
simply not come. The one agent with an obligation is the thread pool that unlinks files; a kill
takes its work away, so "eventually unlinked" is false of the code and `OrphansOnlyFromDeath` says
what is true instead.

**Deadlock** is checked in all runs but four: `tenancy`, where founding may be cut until no
organization id is left and nobody is in any of them; `screen` and `catalog`, where the bounded clicks
and changes run out; and `quickadd`, whose one task has been added.

## 4. What is proved

`tlapm` checks every proof; none rests on more than the named `ASSUME`s, which say that constants
are sets of the right kind, that `NULL` and `ABSENT` are no rows, in Sessions that links
are finitely many (the property counts them), in Catalog that a name falls into finitely many parts,
and in QuickAdd that phrases and names are made of pieces (`PhrasesGiven`, `ProjectsGiven`), that `NULL`
is no date, and that the clock does not reach the last day a `Date` can hold (`LongBeforeLast`).

| Module | Theorems | Inductive invariant, and why it is needed |
|---|---|---|
| `TenancyProofs` | `TypeCorrect`, `OwnerAlways`, `AdministratorAlwaysLast`, `MembersAlwaysInOrg`, `InvitesAlwaysAnchored`, `OnePendingAlways`, `OwnershipAlwaysFromOwners`, `LastOwnerAlwaysStays` | `MembersInOrg` and `InvitesAnchored` need one another: accepting an invitation makes a member, and gives a seat in the project its row names. `OnePendingInvite` is inductive with `TypeOK`, and so is `OrgHasOwner`: an owner who is not the caller stays, or the caller does. The three action properties are proved action by action from `TypeOK`; `OwnershipFromOwners` also needs `MembersInOrg`, since deleting an account ends its memberships, and only with it are those in workspaces of the organization whose owner deletes |
| `TasksProofs` | `TasksTypeCorrect`, `NestingCorrect`, `FilingCorrect`, `DefaultAlways`, `StatusAlwaysExists`, `AssignmentsAlwaysRuled`, `CompletionsAlwaysLogged` | `FilingInv`: nesting and filing need one another, since the handler checks a section against a project that came from the parent. `StatusExists` is inductive together with it: a task's status is looked up in the table of its workspace; the theorem is about requests that name existing statuses (`StaleNames`). The two action properties follow from the types, by the cases of PATCH |
| `GrantsProofs` | `GrantsTypeCorrect`, `OneLivePairAlways`, `RefreshRenewsAlways`, `MintedForActiveAlways`, `GrantsImplementsAuthorization` | `Descent` (a token's code was redeemed, by its account) and `JobInv`: before "mint" the authorization has no live token, before "pair" just the new access token; without it minting could add to a pair that is still live. Refinement: each action maps to one abstract step or a stutter |
| `SessionsProofs` | `SessionsTypeCorrect`, `ResetsForceSignIn`, `RecoveryCodesOnce`, `LinksAlwaysProve`, `SecondFactorAlwaysShown` | `CodeInv` (the code behind a session is used up), `LinkInv` (a fresh link has its account), `LiveInv` (also in the middle of a reset), `JobInv` (the code in hand has opened nothing; one more used link than resets while one is in progress) |
| `AttachmentsProofs` | `AttachmentsTypeCorrect`, `RowsAlwaysHaveFiles`, `UploadsAlwaysByWriters`, `OrphansAlwaysFromDeath` | `FilesPlaced`: each file is in one place at a time: an upload, the callback, or a row; only then does removing it for one reason never hit another |
| `SecretsProofs` | `SecretsTypeCorrect`, `RevealsAlwaysLogged`, `RemovalsAlwaysLogged`, `SecretFilesAlwaysExist`, `GrantersAlwaysRead` | `JobInv`: before the answer and before the deletion the entry is already in the log; `FileInv`: only files of deleted secrets are ever to be unlinked |
| `MigrationProofs` | `MigrationTypeCorrect`, `RowsAlwaysSurviveBoot`, `ServedAlwaysCurrent`, `RanksAlwaysTranslatedOnce`, `ChosenOrderAlwaysSurvives`, `OnlyBlockedEverFails` | Every block of `Script` is of one of three kinds: plain, a rebuild of one table, the retirement of the old ones. `BootInv` says what holds between the statements of the last two (`HalfWay`): the new table is empty before the copy and has all rows before the drop; the second retired table is empty, too. `UpgradeInv` adds what every block that the boot has passed leaves true for all later ones (`Placed`), what foreign keys may refer to (`Refs`), that all accounts have an organization and ranks of today, and all workspaces an organization, or no account has (`Ranked`), and that an order that somebody chose is only in tables that no later block lists anew (`ChosenPlaced`). Without `Placed` nothing says that the server, once it serves, has the schema of today: each block is run or skipped by what the database shows, and a later one could undo it. `Standing` adds that the tables a rebuild works on are there; with it and `Placed` a guard that lets a statement run also lets it succeed, but for that CREATE |
| `ClientProofs`, lists | `CatalogTypeCorrect`, `HoldersAlwaysKeepRows`, `OrderAlwaysAsDropped`, `ReassignAlwaysKeepsHolding`, `UneditedAlwaysKept` | `CatalogInv`: names are unique, a list shows no row twice (a drag would send two numbers for it), only reassigned kinds ask for a replacement, and `DropUnderWay`: each row is where it was dropped or its call is still to come. n rows at the places 0 to n - 1 leave one order to a query (`SortedAsPlaced`, by counting) |
| `ClientProofs`, line | `PreviewAlwaysAdded`, `DatesAlwaysAsTyped`; of the calendar `NextWeekdayComes`, `DatesWrittenAsRead`, `DatesCompareAsDays` | `LineInv`: the line stays lexed, and `Fresh`: the chips are what a parse of the line and the lists gives on the day it was last read; so the parse of `Submit` finds the same, unless the day has changed. For the dates, each pass of the parser leaves a part of the line in its order: the first takes exactly the mention (`MentionTaken`), the second the labels (`LabelsTaken`), the third no date, so that the date pieces left are `DatePieces` (`DatesLeft`) and with one of them only its own patterns can be found. The calendar is proved for every day, those before 1970 too: `ToISO` reads back the day that `NewDate` made, dates order like days, and `NextWeekday` is that weekday, after today and within a week |
| `ClientProofs`, page | `ScreenTypeCorrect`, `ListsAlwaysMatchScreen`, `WorkspacesAlwaysTheirs`, `InvitePageAlwaysStays`, `BusyAlwaysAwaits` | `ScreenInv`: of the calls for a list, those overtaken come before the others (`LateFirst`), the last asks what the screen asks now unless it is known not to (`LastAsks`), and with only overtaken calls under way the list is the right answer (`Settles`); the workspaces are right or a call is under way that will set them (`WorkspacesTold`); a call not overtaken tells how things are, or a later one that will is under way (`LatestTold`); a call was made by a screen that could make it (`CallsOK`). "Nothing is under way" says nothing in the middle of a session; these do. `BusyAwaits` is inductive with it |

**What the proofs changed.** `WorkspacesAreTheirs` turned out to be false in three ways: a
workspace can be created while another account signs in, the answer that names it can be lost, and
of two answers the older can come last. `Screen` counts each of them as an answer that did not
reach the page in its turn (`stray`, "identity"), and the proof shows that there is no fourth.
`DatesAsTyped` was false of lines that no run typed: a date word inside the name of a known
project is none, nor is one behind "#" inside a label (`@x#today`); `0050-01-01` is 1950; and
where a name ends in a sign, the word behind it becomes part of what is before it, so that neither
is read (`MentionEnds` leaves those lines out). `ToISO` looked for years long before 1970 between
the wrong bounds. `Sorted` is written by ranks (`Earlier`) instead of the `SortSeq` of TLC, whose
definition the prover cannot use.

**Only model-checked:** the violation, and liveness (`ComesUp`, `BusyEnds`; of these the safety
they rest on is proved), which is out of the prover's reach as `ENABLED` and induction over data
are; no module uses a recursive operator.

## 5. What the models do not say

Disagreements with the text that a run shows are in `PROJECT.json` (`findings`). Others were met
on the way and have no run:

- `workspaces.js:110`: inviting a member looks up a pending invitation by workspace and address
  only, so it may find a stakeholder invitation and re-issue that with a new role and token; no
  "normal workspace-join invite" (`schema.sql:189`) exists afterwards.
- `tasks.js:284`: a parent moves to another project and its sub-tasks stay, although "Sub-tasks always
  live under their parent's project" (`tasks.js:204`).
- `db/index.js:62` calls `workspace_id` "nullable, backfilled below" and nothing fills it in: rows
  from before workspaces stay out of every workspace. A kill between the ALTER that adds
  `sort_order` and its loop leaves the rows unordered for good.
- `admin.js:125` compares `is_active === false` and stores its truthiness: 0 or null from a client
  deactivates the caller, against "You can't deactivate your own account"; sent by the last
  administrator it leaves the organization without one, for good.
  `LastAdministratorOnlySteppedDown` excepts that request only (`ActiveArgs` has the value "zero"
  for it).
- `statuses.js:48`: a workspace may have several done statuses, or none; `Guides.jsx:119` speaks
  of one. `tasks.js:332`: a status changed through the checkbox leaves no status entry.
- `admin.js:87`: a domain can be deleted "in favour of" itself: its query lacks the `id != ?` of
  `priorities.js:73`, so its people end up without one. `ReassignKeepsHolding` leaves that case out.
- `admin.js:198`: deleting the account of the last owner leaves a workspace without an owner, which
  `workspaces.js:145` and `:168` refuse; `LastOwnerLeavesOnlyWithAccount` says that nothing else does.
- `db/index.js:81`: a rebuild killed between DROP and RENAME is served with an empty table, its rows
  in the one that was not renamed; `DEPLOY.md:153` calls migrations
  "guarded to be safe on both a fresh install and an upgrade". `RowsSurviveBoot`
  says that the rows exist.
- `App.jsx:201`: no answer is dropped for being late, so the list of a view that was left can replace
  the one shown and stay until the next load. `ListsMatchScreen` excepts exactly that (`stray`).
- `App.jsx:354`: the sidebar creates a second workspace while the first is still asked about
  (`Sidebar.jsx:54`). If the server read the first `me()` before the second create and its answer comes
  last, the list lacks the second workspace, nothing having failed. `WorkspacesAreTheirs` excepts an
  answer overtaken in this way.
- `App.jsx:374`: clearing a search that has not fired yet goes to the view in which an earlier
  search began. `App.jsx:94`: the answer of `refreshUser` signs a page in again that has signed out.
- `TaskModal.jsx:118`: a saved form writes every field, so it undoes what others changed meanwhile.
  A priority from a stale form is stored although its row is gone (`stale` in `Catalog`).
- `TaskModal.jsx:51`, `:74`: an attachment that could not be removed or moved puts back the list the
  form was opened with, without what was uploaded or removed since; the rows are as they were.
- `format.js:2`: labels, "overdue", the Today view and what it gives a new task take the date in
  UTC; the word "today" is the local date, since UTC "can land on the wrong day"
  (`quickAddParser.js:10`). Away from UTC, for some hours of each day a task typed "today" is therefore
  not in Today, or is overdue at once; `Guides.jsx:106` says Today is "anything due on or before today".
  No property asks for this. Chips found before midnight are not found again.
- `quickAddParser.js`: 2/30 and 31 June run on into the next month; the ISO years 0000 to 0099 are
  those of 1900 to 1999; a number of days too large for a date is ignored; only the last `#` is
  removed with its label, so `#today #x` also sets a date; a label inside a phrase ("in @x 3
  days") leaves two spaces, and the phrase is none.
- `auth.js:125`: an expired invitation still lets one register, without the membership.
- `schema.sql:360` speaks of assignees as members of the workspace; removing a member leaves
  their assignments until the next edit of the task.
- `secrets.js:254`: create, change and share log after they write, reveals and deletions before.
  The access log goes with its project (`schema.sql:301`).
- Deleting a workspace or project leaves the files of its attachments and secrets on disk.
- `auth.js:276`: with an access token a session is revoked and the answer is an error.
- Other reset links of an account stay valid after one is used, and a sign-in that waits for its
  second factor survives a reset.

Abstracted throughout: wording, colours, descriptions; order outside `Catalog` and due dates
outside `QuickAdd`; encryption, hashing and the arithmetic of TOTP; requests that are refused.
PATCH of a task is one step although it is several autocommits. Not modelled: summaries and search
(read-only), mail, wiring and logs, presentation, scripts.

## 6. Plan

Done, in this order: `Tenancy`, `Tasks`, `Authorization` and `Grants`, `Attachments`, `Secrets`,
`Sessions`, `Migration`, each with its runs and proofs; then `Screen`, `Catalog` and `QuickAdd`. Left:

1. `Tasks` with PATCH split into its statements, and who is told what after a kill; comments and
   blockers in the timeline.
2. The rest of the task form: its list of sub-tasks, its attachments, its timeline, and the board's
   optimistic moves (`BoardView.jsx:11`), each a list that can be overtaken as those of `Screen`.
3. Proofs: every property that a run checks is proved but for liveness. Next is the refinement that
   item 1 asks for: PATCH in statements against PATCH in one step.
4. Summaries and search as functions of the tables, if a reference definition can be had that says
   more than the query.
