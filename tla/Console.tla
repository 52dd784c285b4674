------------------------------- MODULE Console --------------------------------
(***************************************************************************)
(* The web console (auth/frontend/src): the session that AuthContext keeps *)
(* in one browser tab, and a page that shows a list (the user's API keys,  *)
(* the collections of the database) and changes it.                        *)
(*                                                                         *)
(* The handlers are async functions over one event loop: each runs up to   *)
(* its next await, and the answers to the requests in flight come in any   *)
(* order.  What a handler changes, and what React's effects do about it    *)
(* (redirect, mount and fetch, unmount), is one step.  The token is in     *)
(* localStorage, which the other tabs share, and in the state of the tab.  *)
(*                                                                         *)
(* A user's token is written as the user.  An item is its owner and a      *)
(* name; collections belong to no one.  The server is seen as far as the   *)
(* console uses it.                                                        *)
(***************************************************************************)
EXTENDS Integers, FiniteSets

CONSTANTS
    Users, None,
    Names,          \* names of items
    InitialNames,   \* those that every owner starts with
    Accounts,       \* users that need not sign up
    Kinds,          \* the kinds of page considered
    Slots,          \* 1..n: bound on requests in flight
    MaxLogins, MaxChanges, MaxFaults     \* bounds on what the user does and on failures

ASSUME ConsoleAssumption ==
    /\ None \notin Users /\ Accounts \subseteq Users /\ InitialNames \subseteq Names
    /\ Kinds \subseteq [owned : BOOLEAN, token : BOOLEAN, onDelete : {"filter", "refetch"},
                        afterFailedDelete : BOOLEAN, fallback : BOOLEAN, polls : BOOLEAN,
                        serial : BOOLEAN]
    /\ Slots \subseteq Nat \ {0} /\ MaxLogins \in Nat /\ MaxChanges \in Nat /\ MaxFaults \in Nat

\* ApiKeyManager: a key is created with a second request for its token; one change
\* at a time.
KeysPage == [owned |-> TRUE, token |-> TRUE, onDelete |-> "filter", afterFailedDelete |-> TRUE,
             fallback |-> FALSE, polls |-> FALSE, serial |-> TRUE]

\* CollectionsPage
CollectionsPage == [owned |-> FALSE, token |-> FALSE, onDelete |-> "filter",
                    afterFailedDelete |-> FALSE, fallback |-> FALSE, polls |-> FALSE, serial |-> FALSE]

\* CollectionsManagement, whose list has a second source (managementApi); the other
\* pages of the management console only fetch and poll.
CollectionsManagement == [owned |-> FALSE, token |-> FALSE, onDelete |-> "refetch",
                          afterFailedDelete |-> FALSE, fallback |-> TRUE, polls |-> TRUE, serial |-> FALSE]

VARIABLES
    storage,    \* localStorage's jwt_token
    tab,        \* AuthProvider's token, user and isLoading, and the location
    kind,       \* the kind of the list page
    shown,      \* the list on the page, {} when it is not mounted
    reqs,       \* slot -> request in flight
    server,     \* accounts, expired tokens, and the items by owner
    budget,     \* what is left of the bounds
    mixed,      \* since the page was mounted the session changed hands under it, or the
                \* tab, its user and localStorage disagreed
    gap,        \* a request failed, a list or the answer to a delete came late, or a
                \* change of an earlier visit did, and nothing has repaired it
    out         \* logged out with no answer of the session outstanding

consoleVars == <<storage, tab, kind, shown, reqs, server, budget, mixed, gap, out>>

NoReq == [kind |-> "none", as |-> None, arg |-> None, live |-> FALSE, reply |-> "none", value |-> {}]

\* authInterceptor: the token is the one in localStorage, not the tab's.
Request(k, token, arg) ==
    [kind |-> k, as |-> token, arg |-> arg, live |-> TRUE, reply |-> "none", value |-> {}]

SessionKinds == {"profile", "login", "signup", "plan"}
ChangeKinds  == {"create", "token", "delete"}
ListKinds    == {"list", "fallback"}
PageKinds    == ChangeKinds \cup ListKinds

Free == {i \in Slots : reqs[i].kind = "none"}
FreeSlot == CHOOSE i \in Free : \A j \in Free : i <= j
Live(kinds) == {i \in Slots : reqs[i].kind \in kinds /\ reqs[i].live}

\* Whose items a request with that token is about.
Owner(token) == IF kind.owned THEN token ELSE None

----------------------------------------------------------------------------
(* ProtectedRoute, LoginPage and SignupPage: where the tab is.             *)

\* Locations: "list", "other" for the other pages of the dashboard, "login" for
\* the two forms, which remember in `from` where to go next.
Mounted(t) == t.location = "list" /\ ~t.isLoading /\ t.user # None

\* <Navigate to="/login" state={{ from }}>, and back when there is a user.
Render(t) ==
    CASE t.location # "login" /\ ~t.isLoading /\ t.user = None
           -> [t EXCEPT !.location = "login", !.from = t.location]
      [] t.location = "login" /\ t.user # None -> [t EXCEPT !.location = t.from]
      [] OTHER                                 -> t

Coherent(t, s) == t.user = t.token /\ s = t.token

\* Mutant: an answer is applied to whatever page is mounted then.
Commit_KeepsRequests(slot, t, s, l, g, next) ==
    LET now == Render(t)
        up  == Mounted(now) /\ ~Mounted(tab)
    IN  /\ tab' = now /\ storage' = s
        /\ shown' = IF Mounted(now) /\ ~up THEN l ELSE {}
        /\ reqs' = [reqs EXCEPT ![slot] = IF up THEN Request("list", s, None) ELSE next]
        /\ mixed' = (\/ ~Coherent(now, s)
                     \/ Mounted(tab) /\ Mounted(now) /\ (mixed \/ now.user # tab.user))
        /\ gap' = (Mounted(now) /\ ~up /\ g)

\* A handler has left the session as t and s, the list as l and the page with or
\* without a gap; its slot (none: 0) is used for `next`.  Unmounting drops what the
\* page's requests answer; mounting fetches.
Commit(slot, t, s, l, g, next) ==
    LET now  == Render(t)
        up   == Mounted(now) /\ ~Mounted(tab)
        down == ~Mounted(now) /\ Mounted(tab)
    IN  /\ tab' = now /\ storage' = s
        /\ shown' = IF Mounted(now) /\ ~up THEN l ELSE {}
        /\ reqs' = [j \in Slots |->
                      IF j = slot THEN IF up THEN Request("list", s, None) ELSE next
                      ELSE IF down /\ reqs[j].kind \in PageKinds THEN [reqs[j] EXCEPT !.live = FALSE]
                      ELSE reqs[j]]
        /\ mixed' = (\/ ~Coherent(now, s)
                     \/ Mounted(tab) /\ ~down /\ (mixed \/ now.user # tab.user))
        /\ gap' = (Mounted(now) /\ ~up /\ g)

----------------------------------------------------------------------------
(* The session.                                                            *)

\* The state after the effect on [token, user] of a tab that has just been opened.
Opened(s, location) == [token |-> s, user |-> None, isLoading |-> s # None,
                        location |-> location, from |-> "other"]

ConsoleInit ==
    /\ storage \in Accounts \cup {None}
    /\ \E l \in {"list", "other", "login"} : tab = Render(Opened(storage, l))
    /\ kind \in Kinds
    /\ shown = {}
    /\ reqs = [i \in Slots |-> IF i = 1 /\ storage # None THEN Request("profile", storage, None)
                                                         ELSE NoReq]
    /\ server = [accounts |-> Accounts, expired |-> {},
                 items |-> [o \in Users \cup {None} |-> {o} \X InitialNames]]
    /\ budget = [logins |-> MaxLogins, changes |-> MaxChanges, faults |-> MaxFaults]
    /\ mixed = FALSE /\ gap = FALSE /\ out = FALSE

Spend(what) == budget[what] > 0 /\ budget' = [budget EXCEPT ![what] = @ - 1]

\* The user reloads: requests are aborted, and the profile is fetched again.
Reload ==
    /\ Spend("logins")
    /\ tab' = Render(Opened(storage, tab.location)) /\ shown' = {}
    /\ reqs' = [i \in Slots |-> IF i = 1 /\ storage # None THEN Request("profile", storage, None)
                                                          ELSE NoReq]
    /\ mixed' = (storage # None) /\ gap' = FALSE /\ out' = FALSE
    /\ UNCHANGED <<storage, kind, server>>

\* Mutant: the token stays in the tab.
SignedOut_KeepsToken(t) == [t EXCEPT !.user = None, !.isLoading = FALSE]

\* logout(), and the effect on [token, user] after it.
SignedOut(t) == [t EXCEPT !.token = None, !.user = None, !.isLoading = FALSE]

\* The sidebar is on every page of the dashboard.
OnDashboard == tab.location # "login" /\ ~tab.isLoading

Logout ==
    /\ OnDashboard
    /\ Commit(0, SignedOut(tab), None, shown, gap, NoReq)
    /\ out' = (Live(SessionKinds) = {})
    /\ UNCHANGED <<kind, server, budget>>

Visit(location) ==
    /\ OnDashboard /\ tab.location # location /\ Free # {}
    /\ Commit(FreeSlot, [tab EXCEPT !.location = location], storage, shown, gap, NoReq)
    /\ UNCHANGED <<kind, server, budget, out>>

\* handleSubmit of LoginPage and SignupPage; their buttons are disabled meanwhile.
\* SignupPage goes on to the dashboard, wherever the user came from.
Submit(k, u) ==
    /\ tab.location = "login" /\ Live({"login", "signup"}) = {} /\ Free # {}
    /\ Spend("logins")
    /\ Commit(FreeSlot, [tab EXCEPT !.from = IF k = "signup" THEN "other" ELSE @],
              storage, shown, gap, Request(k, storage, u))
    /\ out' = FALSE
    /\ UNCHANGED <<kind, server>>

\* handleConfirm of PlanChangePage.
ChangePlan ==
    /\ OnDashboard /\ tab.location = "other" /\ Live({"plan"}) = {} /\ Free # {}
    /\ Spend("changes")
    /\ Commit(FreeSlot, tab, storage, shown, gap, Request("plan", storage, None))
    /\ UNCHANGED <<kind, server, out>>

\* Mutant: the user is left to the effect.
SignedIn_TokenOnly(t, u) == [t EXCEPT !.token = u, !.isLoading = FALSE]

\* updateUserAndToken(user, token), and the effect on [token, user] after it.
SignedIn(t, u) == [t EXCEPT !.token = u, !.user = u, !.isLoading = FALSE]

\* The answers to the requests of AuthContext and PlanChangePage; the latter
\* navigates to the billing page wherever the user has gone meanwhile.
SessionAnswer(i, ok) ==
    LET r == reqs[i]
    IN  /\ r.kind \in SessionKinds
        /\ CASE r.kind = "profile" /\ ok
                  -> Commit(i, [tab EXCEPT !.user = r.as, !.isLoading = FALSE], storage, shown, gap, NoReq)
             [] r.kind = "profile" /\ ~ok
                  -> Commit(i, SignedOut(tab), None, shown, gap, NoReq)
             [] r.kind = "login" /\ ok
                  -> Commit(i, SignedIn(tab, r.arg), r.arg, shown, gap, NoReq)
             [] r.kind = "plan" /\ ok
                  -> Commit(i, [SignedIn(tab, r.as) EXCEPT !.location = "other"], r.as, shown, gap, NoReq)
             [] r.kind = "signup" /\ ok
                  -> Commit(i, tab, storage, shown, gap, Request("login", storage, r.arg))
             [] r.kind \in {"login", "plan", "signup"} /\ ~ok
                  -> Commit(i, tab, storage, shown, gap, NoReq)
        /\ UNCHANGED <<kind, out>>

----------------------------------------------------------------------------
(* The list page.                                                          *)

Fetch == Request("list", storage, None)

\* Mutant: a failure ends the polling.
Refresh_UntilFailure ==
    /\ Mounted(tab) /\ Free # {}
    /\ kind.polls /\ ~gap
    /\ Commit(FreeSlot, tab, storage, shown, gap, Fetch)
    /\ UNCHANGED <<kind, server, budget, out>>

\* A button, or the interval of a page that polls.
Refresh ==
    /\ Mounted(tab) /\ Free # {}
    /\ kind.polls \/ budget.changes > 0
    /\ budget' = IF kind.polls THEN budget ELSE [budget EXCEPT !.changes = @ - 1]
    /\ Commit(FreeSlot, tab, storage, shown, gap, Fetch)
    /\ UNCHANGED <<kind, server, out>>

Change(k, item) ==
    /\ Mounted(tab) /\ Free # {}
    /\ kind.serial => Live(ChangeKinds) = {}
    /\ Spend("changes")
    /\ Commit(FreeSlot, tab, storage, shown, gap, Request(k, storage, item))
    /\ UNCHANGED <<kind, server, out>>

\* What a list that is read now may lack or have in excess because a change is
\* still to be answered.
Underway(i) == {reqs[j].arg : j \in Live(ChangeKinds) \ {i}}

Differs(l, i) ==
    LET current == server.items[Owner(reqs[i].as)]
    IN  ~((l \ current) \cup (current \ l) \subseteq Underway(i))

\* The request that a handler goes on with; it does so on a page that was left too.
Follow(r, k) == [Request(k, storage, r.arg) EXCEPT !.live = r.live]

\* Mutant: nothing is fetched after a change.
NextRequest_NoRefetch(r, ok) ==
    IF ok /\ r.kind = "create" /\ kind.token THEN Follow(r, "token") ELSE NoReq

NextRequest(r, ok) ==
    CASE ok /\ r.kind = "create" /\ kind.token                 -> Follow(r, "token")
      [] ok /\ r.kind \in {"create", "token"} /\ ~(r.kind = "create" /\ kind.token)
                                                               -> Follow(r, "list")
      [] ok /\ r.kind = "delete" /\ kind.onDelete = "refetch"  -> Follow(r, "list")
      [] ~ok /\ r.kind = "delete" /\ kind.afterFailedDelete    -> Follow(r, "list")
      [] ~ok /\ r.kind = "list" /\ kind.fallback               -> Follow(r, "fallback")
      [] OTHER                                                 -> NoReq

\* What the handler makes of the list, and if that leaves a gap.
PageAnswer(i, ok) ==
    LET r    == reqs[i]
        next == NextRequest(r, ok)
    IN  /\ r.kind \in PageKinds
        /\ CASE r.live /\ ok /\ r.kind \in ListKinds
                  -> Commit(i, tab, storage, r.value, Differs(r.value, i), next)
             [] r.live /\ ok /\ r.kind = "delete" /\ kind.onDelete = "filter"
                  -> Commit(i, tab, storage, shown \ {r.arg},
                            gap \/ r.arg \in server.items[Owner(r.as)], next)
             [] r.live /\ ~ok /\ next = NoReq
                  -> Commit(i, tab, storage, shown, TRUE, next)
             [] OTHER
                  -> Commit(i, tab, storage, shown, gap, next)
        /\ UNCHANGED <<kind, out>>

----------------------------------------------------------------------------
(* The server and the network (external), and the other tabs.              *)

Authentic(token) == token # None /\ token \notin server.expired

Serve(i) ==
    LET r  == reqs[i]
        o  == Owner(r.as)
        ok == CASE r.kind = "login"  -> r.arg \in server.accounts
                [] r.kind = "signup" -> r.arg \notin server.accounts
                [] r.kind = "create" -> Authentic(r.as) /\ r.arg \notin server.items[o]
                [] r.kind \in {"token", "delete"} -> Authentic(r.as) /\ r.arg \in server.items[o]
                [] OTHER             -> Authentic(r.as)
    IN  /\ r.kind # "none" /\ r.reply = "none"
        /\ reqs' = [reqs EXCEPT ![i].reply = IF ok THEN "ok" ELSE "refused",
                                ![i].value = IF r.kind \in ListKinds /\ ok THEN server.items[o] ELSE {}]
        /\ server' = CASE ok /\ r.kind = "signup" -> [server EXCEPT !.accounts = @ \cup {r.arg}]
                       [] ok /\ r.kind = "login"  -> [server EXCEPT !.expired = @ \ {r.arg}]
                       [] ok /\ r.kind = "create" -> [server EXCEPT !.items[o] = @ \cup {r.arg}]
                       [] ok /\ r.kind = "delete" -> [server EXCEPT !.items[o] = @ \ {r.arg}]
                       [] OTHER                   -> server
        /\ gap' = (gap \/ (Mounted(tab) /\ ok /\ r.kind \in ChangeKinds /\ ~r.live))
        /\ UNCHANGED <<storage, tab, kind, shown, budget, mixed, out>>

Answered(i, ok) == (SessionAnswer(i, ok) \/ PageAnswer(i, ok)) /\ UNCHANGED server

Arrive(i) ==
    /\ reqs[i].reply # "none"
    /\ Answered(i, reqs[i].reply = "ok")
    /\ UNCHANGED budget

\* The connection fails, or axios gives up after 15 seconds; the server may have
\* carried the request out.
Lose(i) ==
    /\ reqs[i].kind # "none"
    /\ Answered(i, FALSE)
    /\ Spend("faults")

Expire(u) ==
    /\ u \notin server.expired
    /\ Spend("faults")
    /\ server' = [server EXCEPT !.expired = @ \cup {u}]
    /\ UNCHANGED <<storage, tab, kind, shown, reqs, mixed, gap, out>>

OtherTab(s) ==
    /\ s # storage /\ s \in server.accounts \cup {None}
    /\ Spend("faults")
    /\ storage' = s
    /\ mixed' = (~Coherent(tab, s) \/ (mixed /\ Mounted(tab)))
    /\ UNCHANGED <<tab, kind, shown, reqs, server, gap, out>>

ConsoleNext ==
    \/ Reload \/ Logout \/ ChangePlan \/ Refresh \/ Visit("list") \/ Visit("other")
    \/ \E u \in Users : Submit("login", u) \/ Submit("signup", u) \/ Expire(u) \/ OtherTab(u)
    \/ OtherTab(None)
    \/ \E n \in Names : Change("create", <<Owner(storage), n>>)
    \/ \E item \in shown : Change("delete", item)
    \/ \E i \in Slots : Serve(i) \/ Arrive(i) \/ Lose(i)

\* Requests are served and answered, or time out; the interval goes off.
ConsoleFairness ==
    /\ \A i \in Slots : WF_consoleVars(Serve(i)) /\ WF_consoleVars(Arrive(i))
    /\ WF_consoleVars(kind.polls /\ Refresh)

ConsoleSpec == ConsoleInit /\ [][ConsoleNext]_consoleVars /\ ConsoleFairness

----------------------------------------------------------------------------
(* Properties.                                                             *)

\* The state is well formed; a page that is not on the screen has no live request.
ConsoleTypeOK ==
    /\ storage \in Users \cup {None}
    /\ tab \in [token : Users \cup {None}, user : Users \cup {None}, isLoading : BOOLEAN,
                location : {"list", "other", "login"}, from : {"list", "other"}]
    /\ shown \subseteq (Users \cup {None}) \X Names
    /\ \A i \in Slots : reqs[i].kind \in SessionKinds \cup PageKinds \cup {"none"}
    /\ ~Mounted(tab) => shown = {} /\ Live(PageKinds) = {}

\* Only a late answer to the fetch of the profile, asked for under another token,
\* or another tab, makes the user on the screen differ from the one whose token
\* the requests carry: login, logout, sign-up and a change of plan never do.
SessionStaysCoherent ==
    [][Coherent(tab, storage) /\ ~Coherent(tab', storage')
        => \/ storage' # storage /\ tab' = tab
           \/ tab' = Render(Opened(storage, tab.location))
           \/ \E i \in Live({"profile"}) : reqs[i].as # tab.token /\ reqs'[i] # reqs[i]]_consoleVars

\* After a logout with no answer of the session outstanding the tab stays logged
\* out until the user submits a form or reloads.
LogoutHolds == out => tab.user = None /\ tab.token = None

\* The page never shows one user what belongs to another, whoever was logged in
\* before and whatever was in flight then.  (A page reloads nothing when a late
\* login, or another tab, hands the session to another user under it: `mixed`.)
NoForeignItems == Mounted(tab) /\ ~mixed => \A item \in shown : item[1] \in {tab.user, None}

\* When the page waits for nothing, it shows what the server has: every handler
\* refetches or edits the list after its change, unless a request failed, a list
\* that was read before a change arrived after it, the answer to a delete came
\* after the name was created anew, or a change of an earlier visit to the page was
\* carried out during this one.
QuietListIsCurrent ==
    Mounted(tab) /\ Live(PageKinds) = {} /\ ~gap /\ ~mixed
        => shown = server.items[Owner(tab.user)]

\* A page that polls ends up with the server's list, whatever came late or failed.
PollsCatchUp ==
    <>[](Mounted(tab) /\ kind.polls /\ ~mixed /\ tab.user \notin server.expired)
        => <>[](Mounted(tab) /\ shown = server.items[Owner(tab.user)])
=============================================================================
