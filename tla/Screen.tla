-------------------------------- MODULE Screen --------------------------------
(***************************************************************************)
(* The single page of the web client: who is signed in, which workspace    *)
(* and view it shows, the lists it has loaded for them and the calls that  *)
(* are under way.  web/src/App.jsx with lib/api.js, and the forms that     *)
(* hand their result to it (Login, Register, AcceptInvite,                 *)
(* CreateWorkspace, Sidebar).                                              *)
(*                                                                         *)
(* JavaScript runs one callback at a time: a click, or an answer with all  *)
(* that awaits it, is one step, together with the effects React runs after *)
(* it.  What a callback sees of the state is what the render it belongs to *)
(* closed over: `at`.  A handler that awaits keeps the `at` of its click.  *)
(* Calls are answered, refused or lost in any order; the browser settles   *)
(* every one of them, so a call that gets no answer fails in the end.      *)
(*                                                                         *)
(* Abstracted: "today" stands for every view that lists tasks of the       *)
(* workspace without a person filter, "all" for the one with, "settings"   *)
(* for the pages that list none; one call stands for the five that         *)
(* refreshLookups makes, keeping the two workspaces they ask about.        *)
(***************************************************************************)
EXTENDS Null, Naturals, Sequences, FiniteSets, SequencesExt

CONSTANTS
  Users,
  Workspaces,
  Projects,
  Persons,      \* choices of the person filter
  HomeOf,       \* the workspace of a project
  Invited,      \* the workspace the link in the address invites to, or NULL
  Invitee,      \* the account it is for
  MaxClicks,    \* bound: things the person at the screen does
  MaxCalls      \* bound: nothing is clicked while so many calls are under way

ASSUME HomesAreWorkspaces == HomeOf \in [Projects -> Workspaces]
ASSUME InvitedSomewhere == Invited \in Workspaces \cup {NULL} /\ Invitee \in Users
ASSUME NullIsNobody == NULL \notin Users \cup Workspaces \cup Persons \cup Projects
ASSUME ClicksBounded == MaxClicks \in Nat /\ MaxCalls \in Nat

VARIABLES
  session,      \* server: whom this browser's cookie signs in, or NULL
  members,      \* server: account -> its workspaces
  saved,        \* server: changes to tasks made through this screen
  checked,      \* authChecked
  at,           \* user, activeWorkspaceId, view, memberFilter
  workspaces,   \* workspaces the person is shown
  kept,         \* localStorage: the workspace used last
  before,       \* preSearchViewRef
  searching,        \* the view a search that waits for its timer began in, or NULL
  lists,        \* tasks, sections, lookups: what they are an answer to
  loading,      \* loadingTasks
  invite,       \* the invitation page
  calls,        \* calls under way, in the order they were made
  stray,        \* history: lists whose last answer was overtaken, lost or left behind
  clicks

pageVars == <<session, members, saved, checked, at, workspaces, kept, before, searching, lists,
          loading, invite, calls, stray, clicks>>

------------------------------------------------------------------------------
(* Views, closures and lists.  A name that ends in a suffix after an          *)
(* underscore is a deliberately wrong variant of the definition after it.     *)

Today == [type |-> "today", id |-> NULL]
All == [type |-> "all", id |-> NULL]
Search == [type |-> "search", id |-> NULL]
Settings == [type |-> "settings", id |-> NULL]
Project(p) == [type |-> "project", id |-> p]
PageViews == {Today, All, Search, Settings} \cup {Project(p) : p \in Projects}

Lists == {"tasks", "sections", "lookups"}

\* What the callbacks of one render close over.
Closure == [user : Users \cup {NULL}, active : Workspaces \cup {NULL}, view : PageViews,
            filter : Persons \cup {NULL}]

\* The early returns of loadTasks, loadSections and refreshLookups.
Wanted(l, c) ==
  /\ c.active # NULL
  /\ l \in {"tasks", "lookups"} => c.user # NULL
  /\ l = "tasks" => c.view # Settings
  /\ l = "sections" => c.view.type = "project"

\* The dependency arrays of the hooks: what reloads which list.
Deps_FilterForgotten == [tasks |-> {"user", "active", "view"}, sections |-> {"active", "view"},
                         lookups |-> {"user", "active"}]
Deps == [tasks |-> {"user", "active", "view", "filter"}, sections |-> {"active", "view"},
         lookups |-> {"user", "active"}]

\* The person filter goes out with two views only.
Filter(c) == IF c.view.type \in {"all", "project"} THEN c.filter ELSE NULL

\* What a call asks for: the header names the workspace that is open when the
\* call is made, everything else comes from the closure that makes it.
Asks(l, c, header) ==
  CASE l = "tasks" -> <<header, c.user, c.view, Filter(c)>>
    [] l = "sections" -> <<header, c.view>>
    [] l = "lookups" -> <<header, c.active>>

\* The calls answered with an account and its workspaces, and the handlers that
\* show the workspaces of such an answer.
Tells == {"boot", "login", "join", "accepted", "created", "refresh"}
Identity == {"boot", "login", "join", "accept", "accepted", "created"}
Told(u) == [user |-> u, workspaces |-> IF u = NULL THEN {} ELSE members'[u]]
Seen(kind, c) ==
  IF kind \in Tells THEN {Told(IF kind \in {"login", "join"} THEN c.user ELSE session')} ELSE {}

\* `sees`: the answers the server may give, as it was at some moment since the
\* call was made.  `good`: the answer is for the screen that was shown then.
\* `held`: the answer to the sign-in that an invitation is accepted after, if any.
Call(kind, c, asks, good) ==
  [kind |-> kind, c |-> c, asks |-> asks, since |-> saved', sees |-> Seen(kind, c), good |-> good,
   late |-> FALSE, held |-> {}]
Request(kind, c) == Call(kind, c, <<>>, TRUE)

\* Closure c, now that the screen is at `now`, calls for list l.
Load(l, c, now) ==
  IF Wanted(l, c) THEN <<Call(l, c, Asks(l, c, now.active), c = now)>> ELSE <<>>

\* The effects after a render in which `changed` changed.
Effects(changed, now) ==
  LET run(l) == IF changed \cap Deps[l] # {} THEN Load(l, now, now) ELSE <<>>
  IN run("tasks") \o run("sections") \o run("lookups")

InFlight(kinds) == \E i \in DOMAIN calls : calls[i].kind \in kinds
Loads(cs) == \E i \in DOMAIN cs : cs[i].kind = "tasks"

NoAnswer == [asks |-> <<>>, version |-> 0]

\* A fresh page: api.me() is on its way.  The link may be an invitation, and
\* that one good for nothing; the page may also have been opened without it.
PageInit ==
  /\ session \in Users \cup {NULL}
  /\ members \in [Users -> SUBSET Workspaces]
  /\ Invited # NULL => \A u \in Users : Invited \notin members[u]
  /\ saved = 0
  /\ checked = FALSE
  /\ at = [user |-> NULL, active |-> NULL, view |-> Today, filter |-> NULL]
  /\ workspaces = {}
  /\ kept = NULL
  /\ before = Today
  /\ searching = NULL
  /\ lists = [l \in Lists |-> NoAnswer]
  /\ loading = FALSE
  /\ \E invalid \in BOOLEAN :
       invite \in {[up |-> Invited # NULL, error |-> invalid /\ Invited # NULL, accepting |-> FALSE],
                  [up |-> FALSE, error |-> FALSE, accepting |-> FALSE]}
  /\ calls = <<[kind |-> "boot", c |-> at, asks |-> <<>>, since |-> 0,
                sees |-> {[user |-> session,
                           workspaces |-> IF session = NULL THEN {} ELSE members[session]]},
                good |-> TRUE, late |-> FALSE, held |-> {}]>>
  /\ stray = {}
  /\ clicks = 0

------------------------------------------------------------------------------
(* Steps of the page: what a render changes, and what an answer leaves.       *)

Click == clicks < MaxClicks /\ clicks' = clicks + 1 /\ Len(calls) < MaxCalls

\* The page with the sidebar; before it come the boot screen, the invitation,
\* the sign-in forms and the page of somebody without a workspace.
Shell == checked /\ ~invite.up /\ at.user # NULL /\ at.active # NULL

\* When the i-th call settles, earlier ones with an answer to the same are overtaken.
Rivals(k, l) == k = l \/ {k, l} \subseteq Identity
Overtaken(i) ==
  [j \in DOMAIN calls |->
     IF j < i /\ Rivals(calls[j].kind, calls[i].kind) THEN [calls[j] EXCEPT !.late = TRUE]
     ELSE calls[j]]
Rest(i) == RemoveAt(Overtaken(i), i)

\* The server has changed: calls may be answered before or after that.
Seeing(cs) == [j \in DOMAIN cs |-> [cs[j] EXCEPT !.sees = @ \cup Seen(cs[j].kind, cs[j].c)]]

\* And the page was not told: what is under way may not know of it.
Missed(cs) ==
  [j \in DOMAIN cs |-> IF cs[j].kind \in Identity THEN [cs[j] EXCEPT !.late = TRUE] ELSE cs[j]]
Unheard(i) == IF members' = members THEN Rest(i) ELSE Missed(Seeing(Rest(i)))

\* Answers of somebody who is signed in; and what is known once one is shown.
Signed(c) == {a \in c.sees : a.user # NULL}
Noted(c) == IF c.late THEN stray \cup {"identity"} ELSE stray \ {"identity"}

\* The state is now `now`: the effects whose dependencies changed run.
Render(now, changed, pending) ==
  /\ at' = now
  /\ calls' = pending \o Effects(changed, now)
  /\ loading' = (loading \/ Loads(Effects(changed, now)))
  /\ lists' = IF changed \cap Deps["sections"] # {} /\ ~Wanted("sections", now)
              THEN [lists EXCEPT !["sections"] = NoAnswer] ELSE lists

Changed(now) == {f \in {"active", "filter"} : now[f] # at[f]}

\* switchWorkspace: a view that is set is a new object, so it always counts.
Switched(c, w) == [c EXCEPT !.active = w, !.view = Today]
Keep(w) == kept' = IF w = NULL THEN kept ELSE w

\* applyAuthResult: the workspace used last, if it is still one of theirs.
Openable_KeptAnyway(ws) == IF kept # NULL THEN {kept} ELSE IF ws = {} THEN {NULL} ELSE ws
Openable(ws) == IF kept \in ws THEN {kept} ELSE IF ws = {} THEN {NULL} ELSE ws
ApplyAuth(a, pending) ==
  \E w \in Openable(a.workspaces) :
    LET now == Switched([at EXCEPT !.user = a.user], w) IN
    /\ workspaces' = a.workspaces
    /\ Keep(w)
    /\ searching' = IF w = NULL THEN NULL ELSE searching
    /\ Render(now, {"user", "view"} \cup Changed(now), pending)

Server == <<session, members, saved>>
Client == <<checked, at, workspaces, kept, before, searching, lists, loading, invite>>

------------------------------------------------------------------------------
(* Navigation                                                                *)

\* A callback that only sets the view or the filter.
Navigate(now, changed) ==
  /\ UNCHANGED <<Server, checked, workspaces, kept, invite, stray>>
  /\ Render(now, changed \cup Changed(now), calls)

\* Only projects of the list that was loaded last can be clicked.
InSidebar(v) == v.type = "project" =>
  lists["lookups"].asks # <<>> /\ HomeOf[v.id] = lists["lookups"].asks[1]

\* onSelectView of the sidebar.
SelectView(v) ==
  /\ Click /\ Shell /\ InSidebar(v) /\ v # Search
  /\ Navigate([at EXCEPT !.view = v, !.filter = NULL], {"view"})
  /\ UNCHANGED <<before, searching>>

\* Opening a project from the dashboard and changing the mode of one: the
\* person filter stays.
FollowLink(p) ==
  /\ Click /\ Shell
  /\ (at.view = Project(p) \/ (at.view = Settings /\ HomeOf[p] = at.active))
  /\ Navigate([at EXCEPT !.view = Project(p)], {"view"})
  /\ UNCHANGED <<before, searching>>

ChooseFilter(f) ==
  /\ Click /\ Shell /\ at.view.type \in {"all", "project"} /\ f # at.filter
  /\ Navigate([at EXCEPT !.filter = f], {})
  /\ UNCHANGED <<before, searching>>

\* The search box: typing starts a timer that holds on to the view it began in,
\* clearing the box goes back at once.
TypeSearch ==
  /\ Click /\ Shell
  /\ searching' = at.view
  /\ UNCHANGED <<Server, checked, at, workspaces, kept, before, lists, loading, invite, calls, stray>>
FireSearch ==
  /\ searching # NULL
  /\ before' = IF searching = Search THEN before ELSE searching
  /\ searching' = NULL
  /\ Navigate([at EXCEPT !.view = Search], {"view"})
  /\ UNCHANGED clicks
EraseSearch ==
  /\ Click /\ Shell /\ (searching # NULL \/ at.view = Search)
  /\ searching' = NULL
  /\ Navigate([at EXCEPT !.view = before], {"view"})
  /\ UNCHANGED before

\* The switcher of the sidebar, and "Open" on the administration page.
SwitchWorkspace(w) ==
  /\ Click /\ Shell /\ w # at.active
  /\ (w \in workspaces \/ at.view = Settings)
  /\ UNCHANGED <<Server, checked, workspaces, before, searching, invite, stray>>
  /\ Keep(w)
  /\ Render(Switched(at, w), {"view", "active"}, calls)

------------------------------------------------------------------------------
(* Loads and changes                                                         *)

\* Lists of no workspace, and sections of another's project, are refused.
Answerable(c) ==
  /\ c.asks[1] # NULL
  /\ c.kind = "sections" => HomeOf[c.asks[2].id] = c.asks[1]

\* The indicator is switched off whichever way the call ends.
Settled_OnSuccessOnly(c, ok) == IF c.kind = "tasks" /\ ok THEN FALSE ELSE loading
Settled(c, ok) == IF c.kind = "tasks" THEN FALSE ELSE loading

AnswerList(i) ==
  LET c == calls[i] IN
  /\ c.kind \in Lists /\ Answerable(c)
  /\ \E v \in IF c.kind = "tasks" THEN c.since .. saved ELSE {0} :
       lists' = [lists EXCEPT ![c.kind] = [asks |-> c.asks, version |-> v]]
  /\ stray' = IF c.good /\ ~c.late THEN stray \ {c.kind} ELSE stray \cup {c.kind}
  /\ calls' = Rest(i)
  /\ loading' = Settled(c, TRUE)
  /\ UNCHANGED <<Server, checked, at, workspaces, kept, before, searching, invite, clicks>>

\* An error is ignored: what the list showed before stays.
FailList(i) ==
  LET c == calls[i] IN
  /\ c.kind \in Lists
  /\ stray' = IF c.late THEN stray ELSE stray \cup {c.kind}
  /\ calls' = Rest(i)
  /\ loading' = Settled(c, FALSE)
  /\ UNCHANGED <<Server, checked, at, workspaces, kept, before, searching, lists, invite, clicks>>

\* "save" completes, moves or deletes a task, "edit" creates or updates one,
\* "names" changes a project or something in the settings.
Reloads == [save |-> {"tasks"}, edit |-> {"tasks", "lookups"}, names |-> {"lookups"}]
ChangeTask(kind) ==
  /\ Click /\ Shell
  /\ kind # "names" => Wanted("tasks", at)
  /\ UNCHANGED <<Server, Client, stray>>
  /\ calls' = Append(calls, Request(kind, at))

\* The handler goes on with the callbacks of the render it began in.
Again(c) ==
  LET load(l) == IF l \in Reloads[c.kind] THEN Load(l, c.c, at) ELSE <<>>
  IN load("tasks") \o load("lookups")

ChangeSaved(i) ==
  LET c == calls[i] IN
  /\ c.kind \in DOMAIN Reloads
  /\ saved' = IF c.kind = "names" THEN saved ELSE saved + 1
  /\ UNCHANGED <<session, members, checked, at, workspaces, kept, before, searching, lists, invite,
                 stray, clicks>>
  /\ calls' = Rest(i) \o Again(c)
  /\ loading' = (loading \/ Loads(Again(c)))

\* The change is refused, or it is made and the answer is lost: then the lists
\* are not loaded again.
ChangeFails(i) ==
  LET c == calls[i] IN
  /\ c.kind \in DOMAIN Reloads
  /\ \/ UNCHANGED <<saved, stray>> /\ calls' = Rest(i)
     \/ /\ c.kind # "names"
        /\ saved' = saved + 1
        /\ stray' = stray \cup {"tasks"}
        /\ calls' = [j \in DOMAIN Rest(i) |-> IF Rest(i)[j].kind = "tasks"
                                              THEN [Rest(i)[j] EXCEPT !.good = FALSE] ELSE Rest(i)[j]]
  /\ UNCHANGED <<session, members, Client, clicks>>

------------------------------------------------------------------------------
(* Who is signed in                                                          *)

\* The first call of a page, and what the page does without an answer.
Boot(i) ==
  LET c == calls[i] IN
  /\ c.kind = "boot"
  /\ UNCHANGED <<Server, before, invite, clicks>>
  /\ checked' = TRUE
  /\ \/ \E a \in Signed(c) : ApplyAuth(a, Rest(i)) /\ stray' = Noted(c)
     \/ UNCHANGED <<at, workspaces, kept, searching, lists, loading, stray>> /\ calls' = Rest(i)

\* Sign-in and registration end with the same answer.  On the page of the
\* invitation they go on to accept it ("join"), also if that page is left
\* meanwhile.  The way back from the form is open while it waits, so there may
\* be several.
SignIn(u) ==
  /\ Click /\ checked /\ at.user = NULL
  /\ invite.up => u = Invitee /\ ~invite.error
  /\ UNCHANGED <<Server, Client, stray>>
  /\ calls' = Append(calls, Request(IF invite.up THEN "join" ELSE "login", [at EXCEPT !.user = u]))

\* handleAuthAndAccept signs in first and accepts at once, applyAuthResult
\* shows the workspaces.  The call that accepts takes the place of the one that
\* signed in, whose answer it may fall back on.
SignedIn(i) ==
  LET c == calls[i] IN
  LET u == c.c.user IN
  /\ c.kind \in {"login", "join"}
  /\ session' = u
  /\ UNCHANGED <<members, saved, checked, before, clicks>>
  /\ stray' = Noted(c)
  /\ \E a \in c.sees :
       IF c.kind = "join"
       THEN /\ invite' = [invite EXCEPT !.accepting = TRUE]
            /\ UNCHANGED <<workspaces, kept, searching>>
            /\ Render([at EXCEPT !.user = u], {"user"},
                      Seeing([Overtaken(i) EXCEPT
                                ![i] = [Request("accept", c.c) EXCEPT !.late = c.late, !.held = {a}]]))
       ELSE invite' = invite /\ ApplyAuth(a, Seeing(Rest(i)))

\* A refusal changes nothing; of a lost answer only the cookie is left.
SignInFails(i) ==
  LET c == calls[i] IN
  /\ c.kind \in {"login", "join"}
  /\ session' \in {session, c.c.user}
  /\ UNCHANGED <<members, saved, Client, stray, clicks>>
  /\ calls' = Seeing(Rest(i))

\* handleAcceptNow, for somebody who was signed in already.
AcceptNow ==
  /\ Click /\ checked /\ invite.up /\ at.user = Invitee /\ ~invite.accepting /\ ~invite.error
  /\ UNCHANGED <<Server, checked, at, workspaces, kept, before, searching, lists, loading, stray>>
  /\ invite' = [invite EXCEPT !.accepting = TRUE]
  /\ calls' = Append(calls, Request("accept", at))

\* The invitation is accepted, once; then the page asks again who it is.
Joined(u) == Invited \notin members[u] /\ members' = [members EXCEPT ![u] = @ \cup {Invited}]
Accepted(i) ==
  LET c == calls[i] IN
  /\ c.kind = "accept" /\ session = Invitee
  /\ Joined(session)
  /\ UNCHANGED <<session, saved, Client, stray, clicks>>
  /\ calls' = Append(Seeing(Rest(i)), [Request("accepted", c.c) EXCEPT !.held = c.held])

AskedAgain(i) ==
  LET c == calls[i] IN
  /\ c.kind = "accepted"
  /\ UNCHANGED <<Server, checked, before, clicks>>
  /\ \E a \in Signed(c) : ApplyAuth(a, Rest(i))
  /\ invite' = [up |-> FALSE, error |-> FALSE, accepting |-> FALSE]
  /\ stray' = Noted(c)

\* Either call fails: the page stays up with the error, and somebody who just
\* signed in goes on with the answer from then.  It is not up to date if the
\* invitation was accepted after all, or if it was overtaken.
Refused_Dismissed == [up |-> FALSE, error |-> TRUE, accepting |-> FALSE]
Refused == [invite EXCEPT !.error = TRUE, !.accepting = FALSE]
AcceptFails(i) ==
  LET c == calls[i] IN
  /\ c.kind \in {"accept", "accepted"}
  /\ \/ UNCHANGED members
     \/ c.kind = "accept" /\ session = Invitee /\ Joined(session)
  /\ UNCHANGED <<session, saved, checked, before, clicks>>
  /\ invite' = Refused
  /\ stray' = IF c.kind = "accepted" \/ members' # members \/ (c.late /\ c.held # {})
              THEN stray \cup {"identity"} ELSE stray
  /\ \/ \E a \in c.held : ApplyAuth(a, Unheard(i))
     \/ /\ c.held = {} /\ calls' = Unheard(i)
        /\ UNCHANGED <<at, workspaces, kept, searching, lists, loading>>

\* dismissInvite, by the person.
DismissInvite ==
  /\ Click /\ checked /\ invite.up
  /\ UNCHANGED <<Server, checked, at, workspaces, kept, before, searching, lists, loading, calls, stray>>
  /\ invite' = [invite EXCEPT !.up = FALSE]

\* refreshUser: only the account is taken from the answer.
RefreshUser ==
  /\ Click /\ Shell /\ at.view = Settings
  /\ UNCHANGED <<Server, Client, stray>>
  /\ calls' = Append(calls, Request("refresh", at))
Refreshed(i) ==
  LET c == calls[i] IN
  /\ c.kind = "refresh"
  /\ UNCHANGED <<Server, checked, workspaces, kept, before, searching, invite, clicks>>
  /\ \/ \E a \in Signed(c) :
          /\ Render([at EXCEPT !.user = a.user], {"user"}, Rest(i))
          /\ stray' = IF a.user = at.user THEN stray ELSE stray \cup {"identity"}
     \/ UNCHANGED <<at, lists, loading, stray>> /\ calls' = Rest(i)

\* On the page of the invitation only somebody it is not for can sign out.
Logout ==
  /\ Click /\ checked /\ at.user # NULL
  /\ invite.up => at.user # Invitee /\ ~invite.error
  /\ UNCHANGED <<Server, Client, stray>>
  /\ calls' = Append(calls, Request("logout", at))
LoggedOut(i) ==
  LET now == Switched([at EXCEPT !.user = NULL], NULL) IN
  /\ calls[i].kind = "logout"
  /\ session' = NULL
  /\ UNCHANGED <<members, saved, checked, kept, before, invite, clicks, stray>>
  /\ workspaces' = {}
  /\ searching' = NULL
  /\ Render(now, {"user", "view"} \cup Changed(now), Seeing(Rest(i)))
LogoutFails(i) ==
  /\ calls[i].kind = "logout"
  /\ session' \in {session, NULL}
  /\ UNCHANGED <<members, saved, Client, stray, clicks>>
  /\ calls' = Seeing(Rest(i))

\* handleCreateWorkspace: create, ask who it is, open it.  The sidebar starts
\* another while one is under way; that the page of somebody without any holds
\* its button back is left out, which only adds steps.
CreateWorkspace ==
  /\ Click /\ checked /\ ~invite.up /\ at.user # NULL
  /\ UNCHANGED <<Server, Client, stray>>
  /\ calls' = Append(calls, Request("create", at))
Opened(w) ==
  /\ session # NULL /\ w \notin {Invited} \cup UNION {members[u] : u \in Users}
  /\ members' = [members EXCEPT ![session] = @ \cup {w}]
Created(i) ==
  /\ calls[i].kind = "create"
  /\ UNCHANGED <<session, saved, Client, stray, clicks>>
  /\ \E w \in Workspaces :
       Opened(w) /\ calls' = Append(Seeing(Rest(i)), Request("created", [at EXCEPT !.active = w]))
OpenCreated(i) ==
  LET c == calls[i] IN
  LET now == Switched(at, c.c.active) IN
  /\ c.kind = "created"
  /\ UNCHANGED <<Server, checked, before, searching, invite, clicks>>
  /\ \E a \in Signed(c) :
       /\ workspaces' = a.workspaces
       /\ stray' = IF a.user = at.user /\ c.c.active \in a.workspaces THEN Noted(c)
                   ELSE stray \cup {"identity"}
  /\ Keep(c.c.active)
  /\ Render(now, {"view"} \cup Changed(now), Rest(i))

\* Nothing is made, or it is and the page does not hear of it.
CreateFails(i) ==
  LET c == calls[i] IN
  /\ c.kind \in {"create", "created"}
  /\ \/ UNCHANGED members
     \/ c.kind = "create" /\ \E w \in Workspaces : Opened(w)
  /\ UNCHANGED <<session, saved, Client, clicks>>
  /\ stray' = IF c.kind = "created" \/ members' # members THEN stray \cup {"identity"} ELSE stray
  /\ calls' = Unheard(i)

------------------------------------------------------------------------------
Settle(i) ==
  \/ AnswerList(i) \/ FailList(i) \/ ChangeSaved(i) \/ ChangeFails(i)
  \/ Boot(i) \/ SignedIn(i) \/ SignInFails(i) \/ Accepted(i) \/ AskedAgain(i) \/ AcceptFails(i)
  \/ Refreshed(i) \/ LoggedOut(i) \/ LogoutFails(i)
  \/ Created(i) \/ OpenCreated(i) \/ CreateFails(i)

PageNext ==
  \/ \E v \in PageViews : SelectView(v)
  \/ \E p \in Projects : FollowLink(p)
  \/ \E f \in Persons \cup {NULL} : ChooseFilter(f)
  \/ TypeSearch \/ FireSearch \/ EraseSearch
  \/ \E w \in Workspaces : SwitchWorkspace(w)
  \/ \E kind \in DOMAIN Reloads : ChangeTask(kind)
  \/ \E u \in Users : SignIn(u)
  \/ AcceptNow \/ DismissInvite \/ RefreshUser \/ Logout \/ CreateWorkspace
  \/ \E i \in DOMAIN calls : Settle(i)

\* The browser settles every call it makes; nobody has to click.
Answered == \E i \in DOMAIN calls : Settle(i)
PageSpec == PageInit /\ [][PageNext]_pageVars /\ WF_pageVars(Answered)

------------------------------------------------------------------------------
(* Properties.                                                               *)

\* A list that the screen wants and that no call is fetching is the answer to
\* what the screen asks now, header, view and person filter included, and
\* shows what was saved through it: unless its last answer was overtaken by an
\* earlier call, was lost, or was asked for by a render that is gone
\* (App.jsx 160-215, 318-350 and lib/api.js 8-17).
ListsMatchScreen ==
  Shell => \A l \in Lists \ stray :
    Wanted(l, at) /\ ~InFlight({l}) =>
      /\ lists[l].asks = Asks(l, at, at.active)
      /\ l = "tasks" => lists[l].version = saved

\* Once nothing is under way, the workspaces shown are those of the account
\* that is signed in, and one of them is open if there is any, also when
\* accepting an invitation failed half-way (App.jsx 124-158, 352-365); unless the
\* answer that said so last was lost, was overtaken by an earlier one, or spoke of
\* another account.
WorkspacesAreTheirs ==
  checked /\ calls = <<>> /\ at.user # NULL /\ "identity" \notin stray =>
    /\ workspaces = members[at.user]
    /\ at.active = NULL <=> workspaces = {}

\* The page of an invitation goes away only when the person dismisses it or is
\* in the workspace: an error is never hidden (the comment at App.jsx 130-133).
InvitePageStays ==
  [][invite.up /\ ~invite'.up => clicks' # clicks \/ Invited \in members'[Invitee]]_pageVars

\* An indicator is on only while a call is under way that switches it off when it
\* settles, whatever else overtakes that call or fails: what keeps the next property
\* from hanging (the finally blocks of App.jsx 70, 120, 139 and 201).
BusyAwaits ==
  /\ ~checked => InFlight({"boot"})
  /\ loading => InFlight({"tasks"})
  /\ invite.accepting => InFlight({"accept", "accepted"})

\* No indicator stays on for good: the boot screen, the spinner of the list and
\* "Joining..." (the finally blocks of App.jsx 70, 120, 139 and 201).
Busy == ~checked \/ loading \/ invite.accepting
BusyEnds == Busy ~> ~Busy
==============================================================================
