---------------------------- MODULE ConsoleProofs -----------------------------
(***************************************************************************)
(* What Console promises of the session and of the list page, for any      *)
(* users, names, kinds of page, number of requests in flight and faults.   *)
(***************************************************************************)
EXTENDS Console, WellFoundedInduction, TLAPS

----------------------------------------------------------------------------
(* Induction over the naturals, without an operator for a parameter.       *)

\* Every non-empty set of naturals has a least element.
LEMMA NatLeast ==
    ASSUME NEW T, T \subseteq Nat, T # {}
    PROVE  \E m \in T : \A k \in T : m <= k
<1> DEFINE R == {p \in Nat \X Nat : p[1] < p[2]}
<1>1. IsWellFoundedOn(R, Nat)
  BY NatLessThanWellFounded DEF OpToRel
<1>2. \A k, m \in Nat : k < m => <<k, m>> \in R
  OBVIOUS
<1> HIDE DEF R
<1>3. \E m \in T : \A k \in T : ~ (<<k, m>> \in R)
  BY <1>1, WFMin, Zenon
<1>4. PICK m \in T : \A k \in T : ~ (<<k, m>> \in R)
  BY <1>3
<1>5. ASSUME NEW k \in T PROVE m <= k
  <2>1. k \in Nat /\ m \in Nat /\ ~ (<<k, m>> \in R)
    BY <1>4
  <2>2. k < m => <<k, m>> \in R
    BY <1>2, <2>1, Zenon
  <2> QED BY <2>1, <2>2
<1> QED BY <1>5

----------------------------------------------------------------------------
(* Types.                                                                  *)

Holders == Users \cup {None}
Items == Holders \X Names

TabRec == [token : Holders, user : Holders, isLoading : BOOLEAN,
           location : {"list", "other", "login"}, from : {"list", "other"}]

ReqRec == [kind : SessionKinds \cup PageKinds \cup {"none"}, as : Holders,
           arg : Users \cup Items \cup {None}, live : BOOLEAN,
           reply : {"none", "ok", "refused"}, value : SUBSET Items]

ServerRec == [accounts : SUBSET Users, expired : SUBSET Users, items : [Holders -> SUBSET Items]]

-------------------------------------------------------------------------------
(* The inductive invariant.                                                *)

\* There is nowhere else to navigate to.
Rendered(t) ==
    /\ t.location # "login" => t.isLoading \/ t.user # None
    /\ t.location = "login" => t.user = None

\* A request is for the owner whose token it carries, and so is its answer; the
\* requests of the session outlive the page that sent them.
RequestOK(r) ==
    /\ r \in ReqRec
    /\ r.kind \in SessionKinds => r.live
    /\ r.kind \in {"login", "signup"} => r.arg \in Users
    /\ r.kind \in ChangeKinds => r.arg \in Items
    /\ r.kind = "create" => r.arg[1] = Owner(r.as)
    /\ \A item \in r.value : item[1] = Owner(r.as)

ServerInv ==
    /\ server \in ServerRec
    /\ \A o \in Holders : \A item \in server.items[o] : item[1] = o

RequestsInv ==
    /\ reqs = [i \in Slots |-> reqs[i]]
    /\ \A i \in Slots : RequestOK(reqs[i])

\* What is not on the screen has nothing to show and waits for nothing.
TabInv ==
    /\ storage \in Holders /\ tab \in TabRec /\ Rendered(tab)
    /\ shown \subseteq Items
    /\ mixed \in BOOLEAN /\ gap \in BOOLEAN /\ out \in BOOLEAN
    /\ ~Mounted(tab) => shown = {} /\ Live(PageKinds) = {}

StateInv == kind \in Kinds /\ ServerInv /\ RequestsInv /\ TabInv

\* A logout with nothing outstanding leaves nothing that could sign in.
OutInv ==
    out => /\ tab.user = None /\ tab.token = None /\ ~tab.isLoading /\ tab.location = "login"
           /\ \A i \in Slots : reqs[i].kind \notin SessionKinds

\* As long as the session has not changed hands under the page, what it has asked for was
\* asked in its user's name, and the list it shows is that user's.
PageInv ==
    Mounted(tab) /\ ~mixed =>
        /\ Coherent(tab, storage)
        /\ \A i \in Slots : reqs[i].kind \in PageKinds /\ reqs[i].live => reqs[i].as = tab.user
        /\ \A item \in shown : item[1] = Owner(tab.user)

\* With the requests rs in flight, the list l of u differs from the server's only by what
\* is under way, or another list is.
Explained(l, u, rs) ==
    \/ \E i \in Slots : rs[i].kind \in ListKinds /\ rs[i].live
    \/ \A x : x \in (l \ server.items[Owner(u)]) \cup (server.items[Owner(u)] \ l) =>
             \E i \in Slots : rs[i].kind \in ChangeKinds /\ rs[i].live /\ rs[i].arg = x

ListInv == Mounted(tab) /\ ~mixed /\ ~gap => Explained(shown, tab.user, reqs)

Inv == StateInv /\ OutInv /\ PageInv /\ ListInv

-------------------------------------------------------------------------------
(* The helpers.                                                            *)

USE DEF SessionKinds, ChangeKinds, ListKinds, PageKinds

LEMMA FreeSlotOK ==
    ASSUME Free # {}
    PROVE  FreeSlot \in Slots /\ reqs[FreeSlot].kind = "none"
<1>1. Free \subseteq Nat
  BY ConsoleAssumption DEF Free
<1>2. \E i \in Free : \A j \in Free : i <= j
  BY <1>1, NatLeast
<1>3. FreeSlot \in Free
  BY <1>2 DEF FreeSlot
<1> QED BY <1>3 DEF Free

\* Navigation leaves the session alone and comes to an end.
LEMMA RenderOK ==
    ASSUME NEW t \in TabRec
    PROVE  /\ Render(t) \in TabRec /\ Rendered(Render(t))
           /\ Render(t).user = t.user /\ Render(t).token = t.token
           /\ Render(t).isLoading = t.isLoading
           /\ Rendered(t) => Render(t) = t
<1>1. CASE t.location # "login" /\ ~t.isLoading /\ t.user = None
  <2>1. Render(t) = [token |-> t.token, user |-> t.user, isLoading |-> t.isLoading,
                     location |-> "login", from |-> t.location]
    BY <1>1 DEF Render, TabRec
  <2> QED BY <1>1, <2>1 DEF TabRec, Rendered
<1>2. CASE t.location = "login" /\ t.user # None
  <2>1. Render(t) = [token |-> t.token, user |-> t.user, isLoading |-> t.isLoading,
                     location |-> t.from, from |-> t.from]
    BY <1>2 DEF Render, TabRec
  <2> QED BY <1>2, <2>1 DEF TabRec, Rendered
<1>3. CASE /\ ~(t.location # "login" /\ ~t.isLoading /\ t.user = None)
           /\ ~(t.location = "login" /\ t.user # None)
  <2>1. Render(t) = t
    BY <1>3 DEF Render
  <2> QED BY <1>3, <2>1 DEF Rendered
<1> QED BY <1>1, <1>2, <1>3

LEMMA NoReqOK == RequestOK(NoReq)
BY DEF RequestOK, NoReq, ReqRec, Holders

LEMMA NewRequestOK ==
    ASSUME NEW k \in SessionKinds \cup PageKinds, NEW token \in Holders,
           NEW arg \in Users \cup Items \cup {None},
           k \in {"login", "signup"} => arg \in Users,
           k \in ChangeKinds => arg \in Items,
           k = "create" => arg[1] = Owner(token)
    PROVE  RequestOK(Request(k, token, arg))
BY DEF RequestOK, Request, ReqRec

LEMMA OwnerType ==
    ASSUME NEW token \in Holders
    PROVE  Owner(token) \in Holders /\ Owner(token) \in {token, None}
BY DEF Owner, Holders

\* What a commit does to the requests.
LEMMA CommitRequests ==
    ASSUME NEW slot, NEW t, NEW s, NEW l, NEW g, NEW next, Commit(slot, t, s, l, g, next)
    PROVE  /\ reqs' = [j \in Slots |-> reqs'[j]]
           /\ \A j \in Slots :
                 \/ j = slot /\ Mounted(Render(t)) /\ ~Mounted(tab) /\ reqs'[j] = Request("list", s, None)
                 \/ j = slot /\ ~(Mounted(Render(t)) /\ ~Mounted(tab)) /\ reqs'[j] = next
                 \/ /\ j # slot /\ ~Mounted(Render(t)) /\ Mounted(tab) /\ reqs[j].kind \in PageKinds
                    /\ reqs'[j] = [reqs[j] EXCEPT !.live = FALSE]
                 \/ /\ j # slot /\ ~(~Mounted(Render(t)) /\ Mounted(tab) /\ reqs[j].kind \in PageKinds)
                    /\ reqs'[j] = reqs[j]
<1> DEFINE now == Render(t)
           up == Mounted(now) /\ ~Mounted(tab)
           down == ~Mounted(now) /\ Mounted(tab)
<1>1. reqs' = [j \in Slots |->
                 IF j = slot THEN IF up THEN Request("list", s, None) ELSE next
                 ELSE IF down /\ reqs[j].kind \in PageKinds THEN [reqs[j] EXCEPT !.live = FALSE]
                 ELSE reqs[j]]
  BY DEF Commit
<1> HIDE DEF PageKinds, up, down
<1>2. ASSUME NEW j \in Slots
      PROVE  \/ j = slot /\ up /\ reqs'[j] = Request("list", s, None)
             \/ j = slot /\ ~up /\ reqs'[j] = next
             \/ j # slot /\ down /\ reqs[j].kind \in PageKinds /\ reqs'[j] = [reqs[j] EXCEPT !.live = FALSE]
             \/ j # slot /\ ~(down /\ reqs[j].kind \in PageKinds) /\ reqs'[j] = reqs[j]
  BY <1>1
<1>3. reqs' = [j \in Slots |-> reqs'[j]]
  BY <1>1
<1> QED BY <1>2, <1>3, Zenon DEF up, down

\* A commit of a well-formed session, list and request leaves a well-formed console.
LEMMA CommitState ==
    ASSUME StateInv, NEW slot, NEW t \in TabRec, NEW s \in Holders, NEW l \in SUBSET Items,
           NEW g \in BOOLEAN, NEW next, RequestOK(next),
           next.kind \in PageKinds /\ next.live => t = tab /\ Mounted(tab),
           Commit(slot, t, s, l, g, next), kind' = kind, server' = server, out' \in BOOLEAN
    PROVE  StateInv'
<1> DEFINE now == Render(t)
<1>1. now \in TabRec /\ Rendered(now) /\ (t = tab => now = tab)
  BY RenderOK DEF StateInv, TabInv
<1>2. ASSUME NEW j \in Slots
      PROVE  RequestOK(reqs[j])' /\ (~Mounted(now) /\ reqs'[j].kind \in PageKinds => ~reqs'[j].live)
  <2>1. RequestOK(reqs[j])
    BY DEF StateInv, RequestsInv
  <2>2. RequestOK(reqs'[j]) => RequestOK(reqs[j])'
    BY DEF RequestOK, Owner
  <2>3. CASE Mounted(now) /\ reqs'[j] = Request("list", s, None)
    BY <2>2, <2>3, NewRequestOK
  <2>4. CASE reqs'[j] = next
    BY <1>1, <2>2, <2>4
  <2>5. CASE reqs[j].kind \in PageKinds /\ reqs'[j] = [reqs[j] EXCEPT !.live = FALSE]
    <3>1. reqs'[j] = [kind |-> reqs[j].kind, as |-> reqs[j].as, arg |-> reqs[j].arg, live |-> FALSE,
                      reply |-> reqs[j].reply, value |-> reqs[j].value]
      BY <2>1, <2>5 DEF RequestOK, ReqRec
    <3>2. RequestOK(reqs'[j])
      BY <2>1, <2>5, <3>1, ZenonT(60) DEF RequestOK, ReqRec
    <3> QED BY <2>2, <3>1, <3>2
  <2>6. CASE /\ reqs'[j] = reqs[j]
             /\ ~(~Mounted(now) /\ Mounted(tab) /\ reqs[j].kind \in PageKinds)
    <3>1. ~Mounted(tab) /\ reqs[j].kind \in PageKinds => ~reqs[j].live
      BY DEF StateInv, TabInv, Live
    <3>2. reqs[j].kind \in PageKinds /\ ~Mounted(now) => ~reqs[j].live
      BY <2>6, <3>1, Zenon
    <3> QED BY <2>1, <2>2, <2>6, <3>2
  <2> QED BY <2>3, <2>4, <2>5, <2>6, CommitRequests
<1>3. RequestsInv'
  <2>1. reqs' = [j \in Slots |-> reqs'[j]]
    BY CommitRequests
  <2> QED BY <1>2, <2>1 DEF RequestsInv
<1>4. /\ tab' = now /\ storage' = s /\ (shown' = l \/ shown' = {}) /\ (~Mounted(now) => shown' = {})
      /\ mixed' \in BOOLEAN /\ gap' \in BOOLEAN
  <2>1. tab' = now /\ storage' = s
    BY DEF Commit
  <2>2. (shown' = l \/ shown' = {}) /\ (~Mounted(now) => shown' = {})
    BY DEF Commit
  <2>3. mixed' \in BOOLEAN
    BY Zenon DEF Commit
  <2>4. gap' \in BOOLEAN
    BY Zenon DEF Commit
  <2> QED BY <2>1, <2>2, <2>3, <2>4
<1>5. ~Mounted(tab)' => Live(PageKinds)' = {}
  <2>1. Mounted(tab)' <=> Mounted(now)
    BY <1>4 DEF Mounted
  <2> QED BY <1>2, <2>1 DEF Live
<1>6. TabInv'
  <2>1. Mounted(tab)' <=> Mounted(now)
    BY <1>4 DEF Mounted
  <2> HIDE DEF now
  <2> QED BY <1>1, <1>4, <1>5, <2>1 DEF TabInv, Rendered
<1>7. ServerInv'
  BY DEF StateInv, ServerInv
<1> QED BY <1>3, <1>6, <1>7 DEF StateInv

\* A commit keeps the page to its user.
LEMMA CommitPage ==
    ASSUME StateInv, PageInv, NEW slot, NEW t \in TabRec, NEW s \in Holders, NEW l \in SUBSET Items,
           NEW g \in BOOLEAN, NEW next,
           next.kind \in PageKinds /\ next.live => next.as = s,
           Mounted(tab) /\ ~mixed => \A item \in l : item[1] = Owner(tab.user),
           Commit(slot, t, s, l, g, next), kind' = kind
    PROVE  PageInv'
<1> DEFINE now == Render(t)
<1>1. SUFFICES ASSUME Mounted(tab)', ~mixed'
               PROVE  /\ Coherent(now, s)
                      /\ \A j \in Slots : reqs'[j].kind \in PageKinds /\ reqs'[j].live => reqs'[j].as = now.user
                      /\ \A item \in shown' : item[1] = Owner(now.user)
  <2>1. tab' = now /\ storage' = s
    BY DEF Commit
  <2>2. ASSUME Mounted(tab)', ~mixed' PROVE Coherent(now, s)
    BY Zenon, <1>1, <2>2
  <2>3. Coherent(now, s) => Coherent(tab, storage)'
    BY <2>1 DEF Coherent
  <2>4. Owner(now.user) = Owner(tab.user)'
    BY <2>1 DEF Owner
  <2> HIDE DEF now
  <2> QED BY <1>1, <2>1, <2>3, <2>4 DEF PageInv
<1>2. tab' = now /\ Mounted(now)
  BY <1>1 DEF Commit, Mounted
<1>3. Coherent(now, s) /\ (Mounted(tab) => ~mixed /\ now.user = tab.user)
  <2>1. mixed' = (\/ ~Coherent(now, s)
                  \/ Mounted(tab) /\ ~(~Mounted(now) /\ Mounted(tab)) /\ (mixed \/ now.user # tab.user))
    BY Zenon DEF Commit
  <2> HIDE DEF now
  <2> QED BY <1>1, <1>2, <2>1, Zenon
<1>4. s = now.user
  BY <1>3 DEF Coherent
<1>5. ASSUME NEW j \in Slots, reqs'[j].kind \in PageKinds, reqs'[j].live PROVE reqs'[j].as = now.user
  <2>1. CASE reqs'[j] = Request("list", s, None)
    BY <1>4, <2>1 DEF Request
  <2>2. CASE reqs'[j] = next
    BY <1>4, <1>5, <2>2
  <2>3. CASE reqs'[j] = reqs[j]
    <3>1. Mounted(tab)
      BY <1>5, <2>3 DEF StateInv, TabInv, Live
    <3> QED BY <1>3, <1>5, <2>3, <3>1 DEF PageInv
  <2>4. \/ reqs'[j] = Request("list", s, None) \/ reqs'[j] = next \/ ~Mounted(now) \/ reqs'[j] = reqs[j]
    <3>1. \/ j = slot /\ Mounted(now) /\ ~Mounted(tab) /\ reqs'[j] = Request("list", s, None)
          \/ j = slot /\ ~(Mounted(now) /\ ~Mounted(tab)) /\ reqs'[j] = next
          \/ /\ j # slot /\ ~Mounted(now) /\ Mounted(tab) /\ reqs[j].kind \in PageKinds
             /\ reqs'[j] = [reqs[j] EXCEPT !.live = FALSE]
          \/ /\ j # slot /\ ~(~Mounted(now) /\ Mounted(tab) /\ reqs[j].kind \in PageKinds)
             /\ reqs'[j] = reqs[j]
      BY CommitRequests
    <3> QED BY <3>1, Zenon
  <2> QED BY <1>2, <2>1, <2>2, <2>3, <2>4
<1>6. ASSUME NEW item \in shown' PROVE item[1] = Owner(now.user)
  <2>1. shown' = (IF Mounted(now) /\ ~(Mounted(now) /\ ~Mounted(tab)) THEN l ELSE {})
    BY DEF Commit
  <2>2. Mounted(tab) /\ item \in l
    BY <1>6, <2>1
  <2> QED BY <1>3, <2>2
<1> QED BY <1>3, <1>5, <1>6

\* A commit that leaves an explained list, or mounts the page and so fetches, keeps it explained.
LEMMA CommitList ==
    ASSUME StateInv, NEW slot, NEW t \in TabRec, NEW s \in Holders, NEW l \in SUBSET Items,
           NEW g \in BOOLEAN, NEW next,
           slot \in Slots \/ t.user = None,
           slot \in Slots /\ Mounted(tab) /\ ~mixed /\ ~g => Explained(l, tab.user, [reqs EXCEPT ![slot] = next]),
           Commit(slot, t, s, l, g, next), kind' = kind, server' = server
    PROVE  ListInv'
<1> DEFINE now == Render(t)
<1>1. tab' = now /\ now.user = t.user
  BY RenderOK DEF Commit
<1>2. SUFFICES ASSUME Mounted(now), ~mixed', ~gap' PROVE Explained(shown', now.user, reqs')
  <2>1. Explained(shown', now.user, reqs') => Explained(shown, tab.user, reqs)'
    BY <1>1 DEF Explained, Owner
  <2>2. Mounted(tab)' <=> Mounted(now)
    BY <1>1 DEF Mounted
  <2> HIDE DEF now
  <2> QED BY <1>2, <2>1, <2>2 DEF ListInv
<1>3. slot \in Slots
  BY <1>1, <1>2 DEF Mounted
<1>4. CASE ~Mounted(tab)
  <2>1. reqs'[slot] = Request("list", s, None)
    BY <1>2, <1>3, <1>4, CommitRequests
  <2>2. reqs'[slot].kind \in ListKinds /\ reqs'[slot].live
    BY <2>1 DEF Request
  <2> QED BY <1>3, <2>2 DEF Explained
<1>5. CASE Mounted(tab)
  <2>1. mixed' = (\/ ~Coherent(now, s)
                  \/ Mounted(tab) /\ ~(~Mounted(now) /\ Mounted(tab)) /\ (mixed \/ now.user # tab.user))
    BY Zenon DEF Commit
  <2>2. gap' = (Mounted(now) /\ ~(Mounted(now) /\ ~Mounted(tab)) /\ g)
    BY Zenon DEF Commit
  <2>3. shown' = (IF Mounted(now) /\ ~(Mounted(now) /\ ~Mounted(tab)) THEN l ELSE {})
    BY DEF Commit
  <2> HIDE DEF now
  <2>4. ~mixed /\ now.user = tab.user /\ ~g /\ shown' = l
    BY <1>2, <1>5, <2>1, <2>2, <2>3
  <2>5. reqs' = [reqs EXCEPT ![slot] = next]
    <3>1. reqs' = [j \in Slots |->
                     IF j = slot THEN IF Mounted(now) /\ ~Mounted(tab) THEN Request("list", s, None) ELSE next
                     ELSE IF (~Mounted(now) /\ Mounted(tab)) /\ reqs[j].kind \in PageKinds
                          THEN [reqs[j] EXCEPT !.live = FALSE]
                     ELSE reqs[j]]
      BY DEF Commit, now
    <3>2. reqs' = [j \in Slots |-> IF j = slot THEN next ELSE reqs[j]]
      BY <1>2, <1>5, <3>1
    <3>3. DOMAIN reqs = Slots /\ reqs = [j \in Slots |-> reqs[j]]
      BY DEF StateInv, RequestsInv
    <3> QED BY <3>2, <3>3
  <2> QED BY <1>3, <1>5, <2>4, <2>5
<1> QED BY <1>4, <1>5

\* Replacing a request that explains nothing leaves what was explained.
LEMMA ExplainedKept ==
    ASSUME RequestsInv, NEW slot \in Slots, NEW next, NEW l, NEW u,
           reqs[slot].kind \notin PageKinds \/ ~reqs[slot].live,
           Explained(l, u, reqs)
    PROVE  Explained(l, u, [reqs EXCEPT ![slot] = next])
<1> DEFINE rs == [reqs EXCEPT ![slot] = next]
<1>1. \A i \in Slots : i # slot => rs[i] = reqs[i]
  BY DEF RequestsInv
<1>2. \A i \in Slots : reqs[i].kind \in PageKinds /\ reqs[i].live => rs[i] = reqs[i]
  BY <1>1
<1> HIDE DEF rs
<1> QED BY <1>2 DEF Explained, rs

LEMMA CommitInv ==
    ASSUME Inv, NEW slot, NEW t \in TabRec, NEW s \in Holders, NEW l \in SUBSET Items,
           NEW g \in BOOLEAN, NEW next, RequestOK(next),
           slot \in Slots \/ t.user = None,
           next.kind \in PageKinds /\ next.live => t = tab /\ Mounted(tab) /\ next.as = s,
           Mounted(tab) /\ ~mixed => \A item \in l : item[1] = Owner(tab.user),
           slot \in Slots /\ Mounted(tab) /\ ~mixed /\ ~g
               => Explained(l, tab.user, [reqs EXCEPT ![slot] = next]),
           Commit(slot, t, s, l, g, next), kind' = kind, server' = server, out' \in BOOLEAN
    PROVE  StateInv' /\ PageInv' /\ ListInv'
<1>1. StateInv /\ PageInv
  BY DEF Inv
<1>2. StateInv'
  <2>1. next.kind \in PageKinds /\ next.live => t = tab /\ Mounted(tab)
    OBVIOUS
  <2> QED BY <1>1, <2>1, CommitState
<1>3. PageInv'
  <2>1. next.kind \in PageKinds /\ next.live => next.as = s
    OBVIOUS
  <2> QED BY <1>1, <2>1, CommitPage
<1>4. ListInv'
  BY <1>1, CommitList
<1> QED BY <1>2, <1>3, <1>4

\* A handler of the session, or one that sends the page's next request.
LEMMA SessionCommit ==
    ASSUME Inv, NEW slot, NEW t \in TabRec, NEW s \in Holders, NEW next, RequestOK(next),
           slot \in Slots \/ t.user = None,
           slot \in Slots => reqs[slot].kind \notin PageKinds,
           next.kind \in PageKinds /\ next.live => t = tab /\ Mounted(tab) /\ next.as = s,
           Commit(slot, t, s, shown, gap, next), kind' = kind, server' = server, out' \in BOOLEAN
    PROVE  StateInv' /\ PageInv' /\ ListInv'
<1>1. shown \in SUBSET Items /\ gap \in BOOLEAN
  BY DEF Inv, StateInv, TabInv
<1>2. Mounted(tab) /\ ~mixed => \A item \in shown : item[1] = Owner(tab.user)
  BY DEF Inv, PageInv
<1>3. slot \in Slots /\ Mounted(tab) /\ ~mixed /\ ~gap
          => Explained(shown, tab.user, [reqs EXCEPT ![slot] = next])
  BY ExplainedKept DEF Inv, StateInv, ListInv
<1> QED BY <1>1, <1>2, <1>3, CommitInv

-------------------------------------------------------------------------------
(* The handlers keep the invariant.                                        *)

LEMMA InitInv == ConsoleInit => Inv
<1>1. SUFFICES ASSUME ConsoleInit PROVE Inv
  OBVIOUS
<1> USE DEF Holders
<1>2. storage \in Holders
  BY <1>1, ConsoleAssumption DEF ConsoleInit
<1>3. PICK l \in {"list", "other", "login"} : tab = Render(Opened(storage, l))
  BY <1>1 DEF ConsoleInit
<1>4. Opened(storage, l) \in TabRec
  BY <1>2 DEF Opened, TabRec
<1>5. tab \in TabRec /\ Rendered(tab) /\ ~Mounted(tab)
  <2>1. Opened(storage, l).user = None
    BY DEF Opened
  <2> QED BY <1>3, <1>4, <2>1, RenderOK DEF Mounted
<1>6. ServerInv
  <2>1. server = [accounts |-> Accounts, expired |-> {},
                  items |-> [o \in Users \cup {None} |-> {o} \X InitialNames]]
    BY <1>1 DEF ConsoleInit
  <2>2. [o \in Holders |-> {o} \X InitialNames] \in [Holders -> SUBSET Items]
    BY ConsoleAssumption DEF Items
  <2>3. server \in ServerRec
    BY <2>1, <2>2, ConsoleAssumption DEF ServerRec
  <2>4. \A o \in Holders : server.items[o] = {o} \X InitialNames
    BY <2>1
  <2>5. \A o \in Holders : \A item \in server.items[o] : item[1] = o
    BY <2>4
  <2> QED BY <2>3, <2>5 DEF ServerInv
<1>7. RequestsInv /\ \A i \in Slots : reqs[i].kind \notin PageKinds
  <2>1. reqs = [i \in Slots |-> IF i = 1 /\ storage # None THEN Request("profile", storage, None)
                                                           ELSE NoReq]
    BY <1>1 DEF ConsoleInit
  <2>2. RequestOK(Request("profile", storage, None)) /\ RequestOK(NoReq)
    BY <1>2, NewRequestOK, NoReqOK
  <2>3. Request("profile", storage, None).kind \notin PageKinds /\ NoReq.kind \notin PageKinds
    BY DEF Request, NoReq
  <2>4. reqs = [i \in Slots |-> reqs[i]] /\ \A i \in Slots : reqs[i] \in {Request("profile", storage, None), NoReq}
    BY <2>1
  <2> QED BY <2>2, <2>3, <2>4 DEF RequestsInv
<1>8. TabInv
  <2>1. shown = {} /\ mixed = FALSE /\ gap = FALSE /\ out = FALSE
    BY <1>1 DEF ConsoleInit
  <2> QED BY <1>2, <1>5, <1>7, <2>1 DEF TabInv, Live
<1>9. out = FALSE /\ kind \in Kinds
  BY <1>1 DEF ConsoleInit
<1> QED BY <1>5, <1>6, <1>7, <1>8, <1>9 DEF Inv, StateInv, OutInv, PageInv, ListInv

LEMMA ReloadInv == Inv /\ Reload => Inv'
<1>1. SUFFICES ASSUME Inv, Reload PROVE Inv'
  OBVIOUS
<1> DEFINE new == Render(Opened(storage, tab.location))
<1>2. storage \in Holders /\ tab \in TabRec /\ ServerInv /\ kind \in Kinds
  BY <1>1 DEF Inv, StateInv, TabInv
<1>3. Opened(storage, tab.location) \in TabRec /\ Opened(storage, tab.location).user = None
  BY <1>2 DEF Opened, TabRec, Holders
<1>4. new \in TabRec /\ Rendered(new) /\ ~Mounted(new)
  BY <1>3, RenderOK DEF Mounted
<1>5. tab' = new /\ shown' = {} /\ gap' = FALSE /\ out' = FALSE /\ storage' = storage /\ kind' = kind
      /\ server' = server /\ mixed' \in BOOLEAN
  BY <1>1 DEF Reload
<1>6. RequestsInv' /\ \A i \in Slots : reqs'[i].kind \notin PageKinds
  <2>1. reqs' = [i \in Slots |-> IF i = 1 /\ storage # None THEN Request("profile", storage, None)
                                                            ELSE NoReq]
    BY <1>1 DEF Reload
  <2>2. RequestOK(Request("profile", storage, None)) /\ RequestOK(NoReq)
    BY <1>2, NewRequestOK, NoReqOK
  <2>3. Request("profile", storage, None).kind \notin PageKinds /\ NoReq.kind \notin PageKinds
    BY DEF Request, NoReq
  <2>4. /\ reqs' = [i \in Slots |-> reqs'[i]]
        /\ \A i \in Slots : reqs'[i] \in {Request("profile", storage, None), NoReq}
    BY <2>1
  <2>5. \A i \in Slots : RequestOK(reqs'[i]) => RequestOK(reqs[i])'
    BY <1>5 DEF RequestOK, Owner
  <2> QED BY <2>2, <2>3, <2>4, <2>5 DEF RequestsInv
<1>7. ServerInv'
  BY <1>2, <1>5 DEF ServerInv
<1>8. ~Mounted(tab)'
  BY <1>4, <1>5 DEF Mounted
<1>9. TabInv'
  <2> HIDE DEF new
  <2> QED BY <1>2, <1>4, <1>5, <1>6, <1>8 DEF TabInv, Live, Rendered
<1> QED BY <1>2, <1>5, <1>6, <1>7, <1>8, <1>9 DEF Inv, StateInv, OutInv, PageInv, ListInv

LEMMA SignedOutOK ==
    ASSUME NEW t \in TabRec
    PROVE  /\ SignedOut(t) \in TabRec /\ SignedOut(t).user = None /\ SignedOut(t).token = None
           /\ ~SignedOut(t).isLoading
BY DEF SignedOut, TabRec, Holders

LEMMA LogoutInv == Inv /\ Logout => Inv'
<1>1. SUFFICES ASSUME Inv, Logout PROVE Inv'
  OBVIOUS
<1>2. /\ Commit(0, SignedOut(tab), None, shown, gap, NoReq) /\ out' = (Live(SessionKinds) = {})
      /\ kind' = kind /\ server' = server
  BY <1>1 DEF Logout
<1>3. tab \in TabRec /\ None \in Holders
  BY <1>1 DEF Inv, StateInv, TabInv, Holders
<1>4. /\ SignedOut(tab) \in TabRec /\ SignedOut(tab).user = None /\ SignedOut(tab).token = None
      /\ ~SignedOut(tab).isLoading
  BY <1>3, SignedOutOK
<1>5. 0 \notin Slots
  BY ConsoleAssumption
<1>6. StateInv' /\ PageInv' /\ ListInv'
  <2>1. out' \in BOOLEAN
    BY <1>2, Zenon
  <2>2. NoReq.kind \notin PageKinds
    BY DEF NoReq
  <2> QED BY <1>1, <1>2, <1>3, <1>4, <1>5, <2>1, <2>2, NoReqOK, SessionCommit
<1>7. OutInv'
  <2>1. SUFFICES ASSUME out' PROVE /\ tab'.user = None /\ tab'.token = None /\ ~tab'.isLoading /\ tab'.location = "login"
                                   /\ \A i \in Slots : reqs'[i].kind \notin SessionKinds
    BY DEF OutInv
  <2>2. tab' = Render(SignedOut(tab))
    BY <1>2 DEF Commit
  <2>3. tab'.user = None /\ tab'.token = None /\ ~tab'.isLoading /\ tab'.location = "login"
    BY <1>4, <2>2, RenderOK DEF Rendered
  <2>4. ASSUME NEW i \in Slots PROVE reqs'[i].kind \notin SessionKinds
    <3>1. reqs[i].kind \notin SessionKinds /\ RequestOK(reqs[i])
      BY <1>1, <1>2, <2>1 DEF Live, Inv, StateInv, RequestsInv, RequestOK
    <3>2. reqs'[i] = reqs[i] \/ reqs'[i] = [reqs[i] EXCEPT !.live = FALSE]
      BY <1>2, <1>5, CommitRequests
    <3>3. [reqs[i] EXCEPT !.live = FALSE].kind = reqs[i].kind
      BY <3>1 DEF RequestOK, ReqRec
    <3> QED BY <3>1, <3>2, <3>3
  <2> QED BY <2>3, <2>4
<1> QED BY <1>6, <1>7 DEF Inv

\* The types that the handlers start from.
LEMMA InvTypes ==
    ASSUME Inv
    PROVE  /\ storage \in Holders /\ tab \in TabRec /\ tab.user \in Holders /\ tab.token \in Holders
           /\ shown \in SUBSET Items /\ gap \in BOOLEAN /\ out \in BOOLEAN /\ None \in Holders
           /\ Render(tab) = tab
           /\ \A i \in Slots : RequestOK(reqs[i]) /\ reqs[i].as \in Holders
<1>1. /\ storage \in Holders /\ tab \in TabRec /\ Rendered(tab) /\ shown \in SUBSET Items
      /\ gap \in BOOLEAN /\ out \in BOOLEAN
  BY DEF Inv, StateInv, TabInv
<1>2. \A i \in Slots : RequestOK(reqs[i])
  BY DEF Inv, StateInv, RequestsInv
<1>3. \A i \in Slots : reqs[i].as \in Holders
  BY <1>2 DEF RequestOK, ReqRec
<1>4. Render(tab) = tab
  BY <1>1, RenderOK
<1>5. None \in Holders /\ tab.user \in Holders /\ tab.token \in Holders
  BY <1>1 DEF Holders, TabRec
<1> QED BY <1>1, <1>2, <1>3, <1>4, <1>5

LEMMA VisitInv ==
    ASSUME Inv, NEW location \in {"list", "other"}, Visit(location)
    PROVE  Inv'
<1> DEFINE t == [tab EXCEPT !.location = location]
<1>1. /\ Commit(FreeSlot, t, storage, shown, gap, NoReq) /\ kind' = kind /\ server' = server /\ out' = out
      /\ Free # {} /\ OnDashboard
  BY DEF Visit
<1>2. t \in TabRec
  BY InvTypes DEF TabRec
<1>3. StateInv' /\ PageInv' /\ ListInv'
  <2>1. NoReq.kind \notin PageKinds /\ reqs[FreeSlot].kind \notin PageKinds
    BY <1>1, FreeSlotOK DEF NoReq
  <2> HIDE DEF t
  <2> QED BY <1>1, <1>2, <2>1, FreeSlotOK, InvTypes, NoReqOK, SessionCommit
<1>4. OutInv'
  BY <1>1 DEF Inv, OutInv, OnDashboard
<1> QED BY <1>3, <1>4 DEF Inv

LEMMA SubmitInv ==
    ASSUME Inv, NEW k \in {"login", "signup"}, NEW u \in Users, Submit(k, u)
    PROVE  Inv'
<1> DEFINE t == [tab EXCEPT !.from = IF k = "signup" THEN "other" ELSE @]
           next == Request(k, storage, u)
<1>1. /\ Commit(FreeSlot, t, storage, shown, gap, next) /\ kind' = kind /\ server' = server
      /\ out' = FALSE /\ Free # {}
  BY DEF Submit
<1>2. t \in TabRec
  BY InvTypes DEF TabRec
<1>3. RequestOK(next) /\ next.kind \notin PageKinds
  <2>1. next.kind = k
    BY DEF Request
  <2> QED BY <2>1, InvTypes, NewRequestOK
<1>4. StateInv' /\ PageInv' /\ ListInv'
  <2>1. reqs[FreeSlot].kind \notin PageKinds
    BY <1>1, FreeSlotOK
  <2> HIDE DEF t, next
  <2> QED BY <1>1, <1>2, <1>3, <2>1, FreeSlotOK, InvTypes, SessionCommit
<1>5. OutInv'
  BY <1>1 DEF OutInv
<1> QED BY <1>4, <1>5 DEF Inv

LEMMA ChangePlanInv ==
    ASSUME Inv, ChangePlan
    PROVE  Inv'
<1> DEFINE next == Request("plan", storage, None)
<1>1. /\ Commit(FreeSlot, tab, storage, shown, gap, next) /\ kind' = kind /\ server' = server
      /\ out' = out /\ Free # {} /\ OnDashboard
  BY DEF ChangePlan
<1>2. RequestOK(next) /\ next.kind \notin PageKinds
  <2>1. next.kind = "plan"
    BY DEF Request
  <2> QED BY <2>1, InvTypes, NewRequestOK
<1>3. StateInv' /\ PageInv' /\ ListInv'
  <2>1. reqs[FreeSlot].kind \notin PageKinds
    BY <1>1, FreeSlotOK
  <2> HIDE DEF next
  <2> QED BY <1>1, <1>2, <2>1, FreeSlotOK, InvTypes, SessionCommit
<1>4. OutInv'
  BY <1>1 DEF Inv, OutInv, OnDashboard
<1> QED BY <1>3, <1>4 DEF Inv

\* A request of the mounted page.
LEMMA PageRequestInv ==
    ASSUME Inv, NEW k \in PageKinds, NEW arg \in Items \cup {None},
           k \in ChangeKinds => arg \in Items, k = "create" => arg[1] = Owner(storage),
           Mounted(tab), Free # {},
           Commit(FreeSlot, tab, storage, shown, gap, Request(k, storage, arg)),
           kind' = kind, server' = server, out' = out
    PROVE  Inv'
<1> DEFINE next == Request(k, storage, arg)
<1>1. RequestOK(next) /\ next.as = storage
  <2>1. RequestOK(next)
    BY InvTypes, NewRequestOK
  <2> QED BY <2>1 DEF Request
<1>2. StateInv' /\ PageInv' /\ ListInv'
  <2>1. reqs[FreeSlot].kind \notin PageKinds
    BY FreeSlotOK
  <2> HIDE DEF next
  <2>2. Commit(FreeSlot, tab, storage, shown, gap, next)
    BY DEF next
  <2> QED BY <1>1, <2>1, <2>2, FreeSlotOK, InvTypes, SessionCommit
<1>3. OutInv'
  BY DEF Inv, OutInv, Mounted
<1> QED BY <1>2, <1>3 DEF Inv

LEMMA RefreshInv ==
    ASSUME Inv, Refresh
    PROVE  Inv'
BY PageRequestInv DEF Refresh, Fetch

LEMMA ChangeInv ==
    ASSUME Inv, NEW k \in {"create", "delete"}, NEW item \in Items,
           k = "create" => item[1] = Owner(storage), Change(k, item)
    PROVE  Inv'
BY PageRequestInv DEF Change

\* What the answers to the session's requests make of the tab.
LEMMA SessionAnswerInv ==
    ASSUME Inv, NEW i \in Slots, NEW ok \in BOOLEAN, SessionAnswer(i, ok), server' = server
    PROVE  Inv'
<1> DEFINE r == reqs[i]
<1>1. /\ r.kind \in SessionKinds /\ kind' = kind /\ out' = out /\ r.as \in Holders
      /\ r.kind \in {"login", "signup"} => r.arg \in Users
  BY InvTypes DEF SessionAnswer, RequestOK
<1>2. OutInv'
  BY <1>1 DEF Inv, OutInv
<1>3. ASSUME NEW t \in TabRec, NEW s \in Holders, Commit(i, t, s, shown, gap, NoReq)
      PROVE  StateInv' /\ PageInv' /\ ListInv'
  <2>1. NoReq.kind \notin PageKinds /\ r.kind \notin PageKinds
    BY <1>1 DEF NoReq
  <2> QED BY <1>1, <1>3, <2>1, InvTypes, NoReqOK, SessionCommit
<1>4. CASE r.kind = "profile" /\ ok
  <2> DEFINE t == [tab EXCEPT !.user = r.as, !.isLoading = FALSE]
  <2>1. Commit(i, t, storage, shown, gap, NoReq)
    BY <1>4 DEF SessionAnswer
  <2>2. t \in TabRec
    BY <1>1, InvTypes DEF TabRec
  <2> HIDE DEF t
  <2> QED BY <1>2, <1>3, <2>1, <2>2, InvTypes DEF Inv
<1>5. CASE r.kind = "profile" /\ ~ok
  <2>1. Commit(i, SignedOut(tab), None, shown, gap, NoReq)
    BY <1>5 DEF SessionAnswer
  <2>2. SignedOut(tab) \in TabRec
    BY InvTypes, SignedOutOK
  <2> QED BY <1>2, <1>3, <2>1, <2>2, InvTypes DEF Inv
<1>6. CASE r.kind = "login" /\ ok
  <2>1. Commit(i, SignedIn(tab, r.arg), r.arg, shown, gap, NoReq)
    BY <1>6 DEF SessionAnswer
  <2>2. r.arg \in Holders /\ SignedIn(tab, r.arg) \in TabRec
    BY <1>1, <1>6, InvTypes DEF SignedIn, TabRec, Holders
  <2> QED BY <1>2, <1>3, <2>1, <2>2 DEF Inv
<1>7. CASE r.kind = "plan" /\ ok
  <2> DEFINE t == [SignedIn(tab, r.as) EXCEPT !.location = "other"]
  <2>1. Commit(i, t, r.as, shown, gap, NoReq)
    BY <1>7 DEF SessionAnswer
  <2>2. SignedIn(tab, r.as) \in TabRec
    BY <1>1, InvTypes DEF SignedIn, TabRec
  <2>3. t \in TabRec
    BY <2>2 DEF TabRec
  <2> HIDE DEF t
  <2> QED BY <1>1, <1>2, <1>3, <2>1, <2>3 DEF Inv
<1>8. CASE r.kind = "signup" /\ ok
  <2> DEFINE next == Request("login", storage, r.arg)
  <2>1. Commit(i, tab, storage, shown, gap, next)
    BY <1>8 DEF SessionAnswer
  <2>2. RequestOK(next) /\ next.kind \notin PageKinds
    <3>1. next.kind = "login"
      BY DEF Request
    <3> QED BY <1>1, <1>8, <3>1, InvTypes, NewRequestOK
  <2>3. r.kind \notin PageKinds
    BY <1>1
  <2> HIDE DEF next
  <2>4. StateInv' /\ PageInv' /\ ListInv'
    BY <1>1, <2>1, <2>2, <2>3, InvTypes, SessionCommit
  <2> QED BY <1>2, <2>4 DEF Inv
<1>9. CASE r.kind \in {"login", "plan", "signup"} /\ ~ok
  <2>1. Commit(i, tab, storage, shown, gap, NoReq)
    BY <1>9 DEF SessionAnswer
  <2> QED BY <1>2, <1>3, <2>1, InvTypes DEF Inv
<1> QED BY <1>1, <1>4, <1>5, <1>6, <1>7, <1>8, <1>9

LEMMA FollowOK ==
    ASSUME Inv, NEW i \in Slots, reqs[i].kind \in PageKinds, NEW k \in {"token", "list", "fallback"},
           k = "token" => reqs[i].kind = "create"
    PROVE  /\ RequestOK(Follow(reqs[i], k)) /\ Follow(reqs[i], k).kind = k
           /\ Follow(reqs[i], k).as = storage /\ Follow(reqs[i], k).arg = reqs[i].arg
           /\ Follow(reqs[i], k).live = reqs[i].live
<1>1. RequestOK(reqs[i]) /\ storage \in Holders
  BY InvTypes
<1>2. /\ reqs[i].live \in BOOLEAN /\ reqs[i].arg \in Users \cup Items \cup {None}
      /\ k = "token" => reqs[i].arg \in Items
  BY <1>1 DEF RequestOK, ReqRec
<1>3. Follow(reqs[i], k) = [kind |-> k, as |-> storage, arg |-> reqs[i].arg, live |-> reqs[i].live,
                            reply |-> "none", value |-> {}]
  BY <1>2 DEF Follow, Request
<1>4. RequestOK(Follow(reqs[i], k))
  <2>1. Follow(reqs[i], k) \in ReqRec
    BY <1>1, <1>2, <1>3 DEF ReqRec
  <2> QED BY <1>2, <1>3, <2>1 DEF RequestOK
<1> QED BY <1>3, <1>4

\* The request that a handler of the page goes on with.
LEMMA NextRequestOK ==
    ASSUME Inv, NEW i \in Slots, reqs[i].kind \in PageKinds, NEW ok \in BOOLEAN, NEW next,
           next = NextRequest(reqs[i], ok)
    PROVE  /\ RequestOK(next) /\ next.kind \notin SessionKinds
           /\ next.kind \in PageKinds => next.as = storage /\ next.live = reqs[i].live
           /\ ok /\ reqs[i].kind = "create" /\ kind.token => next.kind = "token" /\ next.arg = reqs[i].arg
           /\ ok /\ reqs[i].kind \in {"create", "token"} /\ ~(reqs[i].kind = "create" /\ kind.token)
                => next.kind = "list"
           /\ ok /\ reqs[i].kind = "delete" /\ kind.onDelete = "refetch" => next.kind = "list"
           /\ ~ok /\ next # NoReq => next.kind \in ListKinds
<1> DEFINE r == reqs[i]
<1>1. CASE ok /\ r.kind = "create" /\ kind.token
  <2>1. next = Follow(r, "token")
    BY <1>1 DEF NextRequest
  <2> QED BY <1>1, <2>1, FollowOK
<1>2. CASE ok /\ r.kind \in {"create", "token"} /\ ~(r.kind = "create" /\ kind.token)
  <2>1. next = Follow(r, "list")
    BY <1>2 DEF NextRequest
  <2> QED BY <1>2, <2>1, FollowOK
<1>3. CASE ok /\ r.kind = "delete" /\ kind.onDelete = "refetch"
  <2>1. next = Follow(r, "list")
    BY <1>3 DEF NextRequest
  <2> QED BY <1>3, <2>1, FollowOK
<1>4. CASE ~ok /\ r.kind = "delete" /\ kind.afterFailedDelete
  <2>1. next = Follow(r, "list")
    BY <1>4 DEF NextRequest
  <2> QED BY <1>4, <2>1, FollowOK
<1>5. CASE ~ok /\ r.kind = "list" /\ kind.fallback
  <2>1. next = Follow(r, "fallback")
    BY <1>5 DEF NextRequest
  <2> QED BY <1>5, <2>1, FollowOK
<1>6. CASE /\ ~(ok /\ r.kind = "create" /\ kind.token)
           /\ ~(ok /\ r.kind \in {"create", "token"} /\ ~(r.kind = "create" /\ kind.token))
           /\ ~(ok /\ r.kind = "delete" /\ kind.onDelete = "refetch")
           /\ ~(~ok /\ r.kind = "delete" /\ kind.afterFailedDelete)
           /\ ~(~ok /\ r.kind = "list" /\ kind.fallback)
  <2>1. next = NoReq
    BY <1>6 DEF NextRequest
  <2> QED BY <1>6, <2>1, NoReqOK DEF NoReq
<1> QED BY <1>1, <1>2, <1>3, <1>4, <1>5, <1>6, Zenon

\* The answers to the page's requests.
LEMMA PageAnswerInv ==
    ASSUME Inv, NEW i \in Slots, NEW ok \in BOOLEAN, PageAnswer(i, ok), server' = server
    PROVE  Inv'
<1> DEFINE r == reqs[i]
           next == NextRequest(r, ok)
           rs == [reqs EXCEPT ![i] = next]
<1>1. r.kind \in PageKinds /\ kind' = kind /\ out' = out
  BY DEF PageAnswer
<1>2. RequestOK(r) /\ r.live \in BOOLEAN
  BY InvTypes DEF RequestOK, ReqRec
<1>3. /\ RequestOK(next) /\ next.kind \notin SessionKinds
      /\ next.kind \in PageKinds => next.as = storage /\ next.live = r.live
  BY <1>1, NextRequestOK
<1>4. r.live => Mounted(tab)
  BY <1>1 DEF Inv, StateInv, TabInv, Live
<1>5. rs[i] = next /\ \A j \in Slots : j # i => rs[j] = reqs[j]
  BY DEF Inv, StateInv, RequestsInv
<1> HIDE DEF next, rs
<1>6. ASSUME NEW l \in SUBSET Items, NEW g \in BOOLEAN, Commit(i, tab, storage, l, g, next),
             Mounted(tab) /\ ~mixed => \A item \in l : item[1] = Owner(tab.user),
             Mounted(tab) /\ ~mixed /\ ~g => Explained(l, tab.user, rs)
      PROVE  Inv'
  <2>1. StateInv' /\ PageInv' /\ ListInv'
    <3>1. next.kind \in PageKinds /\ next.live => Mounted(tab) /\ next.as = storage
      BY <1>3, <1>4
    <3>2. out' \in BOOLEAN
      BY <1>1, InvTypes
    <3>3. Mounted(tab) /\ ~mixed /\ ~g => Explained(l, tab.user, [reqs EXCEPT ![i] = next])
      BY <1>6 DEF rs
    <3>4. RequestOK(next) /\ tab \in TabRec /\ storage \in Holders /\ kind' = kind
      BY <1>1, <1>3, InvTypes
    <3>5. Mounted(tab) /\ ~mixed => \A item \in l : item[1] = Owner(tab.user)
      BY <1>6
    <3>6. Commit(i, tab, storage, l, g, next)
      BY <1>6
    <3> HIDE DEF PageKinds
    <3> QED BY <3>1, <3>2, <3>3, <3>4, <3>5, <3>6, CommitInv
  <2>2. OutInv'
    <3>1. SUFFICES ASSUME out
                   PROVE  /\ tab'.user = None /\ tab'.token = None /\ ~tab'.isLoading
                          /\ tab'.location = "login" /\ \A j \in Slots : reqs'[j].kind \notin SessionKinds
      BY <1>1 DEF OutInv
    <3>2. tab' = tab
      BY <1>6, InvTypes DEF Commit
    <3>3. /\ tab.user = None /\ tab.token = None /\ ~tab.isLoading
          /\ tab.location = "login" /\ \A j \in Slots : reqs[j].kind \notin SessionKinds
      BY <3>1 DEF Inv, OutInv
    <3>4. ~Mounted(tab)
      BY <3>3 DEF Mounted
    <3>5. ASSUME NEW j \in Slots PROVE reqs'[j] \in {next, reqs[j]}
      BY <1>6, <3>4, InvTypes DEF Commit
    <3> QED BY <1>3, <3>2, <3>3, <3>5
  <2> QED BY <2>1, <2>2 DEF Inv
<1>7. Mounted(tab) /\ ~mixed => \A item \in shown : item[1] = Owner(tab.user)
  BY DEF Inv, PageInv
<1>8. r.live /\ ~mixed => r.as = tab.user
  BY <1>1, <1>4 DEF Inv, PageInv
<1>9. CASE r.live /\ ok /\ r.kind \in ListKinds
  <2> DEFINE g == Differs(r.value, i)
  <2>1. Commit(i, tab, storage, r.value, g, next)
    BY <1>9 DEF PageAnswer, next
  <2>2. r.value \in SUBSET Items /\ g \in BOOLEAN
    BY <1>2 DEF RequestOK, ReqRec, Differs
  <2>3. ~mixed => \A item \in r.value : item[1] = Owner(tab.user)
    BY <1>2, <1>8, <1>9 DEF RequestOK
  <2>4. ASSUME ~mixed, ~g PROVE Explained(r.value, tab.user, rs)
    <3> DEFINE current == server.items[Owner(tab.user)]
    <3>1. (r.value \ current) \cup (current \ r.value) \subseteq Underway(i)
      BY <1>8, <1>9, <2>4 DEF Differs
    <3>2. ASSUME NEW x \in Underway(i) PROVE \E j \in Slots : rs[j].kind \in ChangeKinds /\ rs[j].live /\ rs[j].arg = x
      <4>1. PICK j \in Live(ChangeKinds) \ {i} : x = reqs[j].arg
        BY <3>2 DEF Underway
      <4>2. j \in Slots /\ reqs[j].kind \in ChangeKinds /\ reqs[j].live /\ j # i
        BY <4>1 DEF Live
      <4> QED BY <1>5, <4>1, <4>2
    <3> HIDE DEF current
    <3>3. \A x : x \in (r.value \ current) \cup (current \ r.value) => x \in Underway(i)
      BY <3>1
    <3>4. \A x : x \in (r.value \ current) \cup (current \ r.value) =>
                   \E j \in Slots : rs[j].kind \in ChangeKinds /\ rs[j].live /\ rs[j].arg = x
      BY <3>2, <3>3
    <3> QED BY <3>4 DEF Explained, current
  <2> HIDE DEF g
  <2> QED BY <1>6, <2>1, <2>2, <2>3, <2>4
<1>10. CASE r.live /\ ok /\ r.kind = "delete" /\ kind.onDelete = "filter"
  <2> DEFINE g == gap \/ r.arg \in server.items[Owner(r.as)]
             l == shown \ {r.arg}
  <2>1. Commit(i, tab, storage, l, g, next)
    BY <1>10 DEF PageAnswer, next
  <2>2. l \in SUBSET Items /\ g \in BOOLEAN
    BY InvTypes
  <2>3. Mounted(tab) /\ ~mixed => \A item \in l : item[1] = Owner(tab.user)
    BY <1>7
  <2>4. ASSUME ~mixed, ~g, Mounted(tab) PROVE Explained(l, tab.user, rs)
    <3> DEFINE current == server.items[Owner(tab.user)]
    <3>1. r.arg \notin current /\ ~gap
      BY <1>8, <1>10, <2>4
    <3>2. Explained(shown, tab.user, reqs)
      BY <2>4, <3>1 DEF Inv, ListInv
    <3>3. CASE \E j \in Slots : reqs[j].kind \in ListKinds /\ reqs[j].live
      <4>1. PICK j \in Slots : reqs[j].kind \in ListKinds /\ reqs[j].live
        BY <3>3
      <4>2. rs[j] = reqs[j]
        BY <1>5, <1>10, <4>1
      <4> QED BY <4>1, <4>2 DEF Explained
    <3>4. CASE \A x : x \in (shown \ current) \cup (current \ shown) =>
                 \E j \in Slots : reqs[j].kind \in ChangeKinds /\ reqs[j].live /\ reqs[j].arg = x
      <4>1. ASSUME NEW x, x \in (l \ current) \cup (current \ l)
            PROVE  \E j \in Slots : rs[j].kind \in ChangeKinds /\ rs[j].live /\ rs[j].arg = x
        <5>1. x # r.arg /\ x \in (shown \ current) \cup (current \ shown)
          BY <3>1, <4>1
        <5>2. PICK j \in Slots : reqs[j].kind \in ChangeKinds /\ reqs[j].live /\ reqs[j].arg = x
          BY <3>4, <5>1
        <5>3. rs[j] = reqs[j]
          BY <1>5, <5>1, <5>2
        <5> QED BY <5>2, <5>3
      <4> HIDE DEF l
      <4> QED BY <4>1 DEF Explained
    <3> QED BY <3>2, <3>3, <3>4 DEF Explained
  <2> HIDE DEF g, l
  <2> QED BY <1>6, <2>1, <2>2, <2>3, <2>4
<1>11. CASE r.live /\ ~ok /\ next = NoReq
  <2>1. Commit(i, tab, storage, shown, TRUE, next)
    BY <1>11 DEF PageAnswer, next
  <2> QED BY <1>6, <1>7, <2>1, InvTypes
<1>12. CASE /\ ~(r.live /\ ok /\ r.kind \in ListKinds)
            /\ ~(r.live /\ ok /\ r.kind = "delete" /\ kind.onDelete = "filter")
            /\ ~(r.live /\ ~ok /\ next = NoReq)
  <2>1. Commit(i, tab, storage, shown, gap, next)
    BY <1>12 DEF PageAnswer, next
  <2>2. ASSUME ~mixed, ~gap, Mounted(tab) PROVE Explained(shown, tab.user, rs)
    <3>1. Explained(shown, tab.user, reqs)
      BY <2>2 DEF Inv, ListInv
    <3>2. CASE ~r.live
      BY <3>1, <3>2, ExplainedKept DEF Inv, StateInv, rs
    <3>3. CASE next.live /\ next.kind \in ListKinds
      BY <1>5, <3>3 DEF Explained
    <3>4. CASE r.live /\ ok /\ r.kind = "create" /\ kind.token
      <4>1. next.kind = "token" /\ next.arg = r.arg /\ next.live
        BY <1>1, <1>3, <3>4, NextRequestOK DEF next
      <4>2. \A j \in Slots : /\ reqs[j].kind \in ListKinds => rs[j] = reqs[j]
                             /\ reqs[j].kind \in ChangeKinds /\ reqs[j].live
                                  => rs[j].kind \in ChangeKinds /\ rs[j].live /\ rs[j].arg = reqs[j].arg
        BY <1>5, <3>4, <4>1
      <4> QED BY <3>1, <4>2 DEF Explained
    <3>5. kind.onDelete \in {"filter", "refetch"}
      BY ConsoleAssumption DEF Inv, StateInv
    <3>6. CASE /\ r.live /\ ~(ok /\ r.kind = "create" /\ kind.token)
      <4>1. next.kind \in ListKinds
        BY <1>1, <1>12, <3>5, <3>6, NextRequestOK DEF next
      <4> QED BY <1>3, <3>3, <3>6, <4>1
    <3> QED BY <3>2, <3>4, <3>6
  <2> QED BY <1>6, <1>7, <2>1, <2>2, InvTypes
<1> QED BY <1>9, <1>10, <1>11, <1>12

\* Carrying a request out changes the list of one owner by the argument of that request.
LEMMA ServeInv ==
    ASSUME Inv, NEW i \in Slots, Serve(i)
    PROVE  Inv'
<1> DEFINE r == reqs[i]
           o == Owner(r.as)
           ok == CASE r.kind = "login"  -> r.arg \in server.accounts
                   [] r.kind = "signup" -> r.arg \notin server.accounts
                   [] r.kind = "create" -> Authentic(r.as) /\ r.arg \notin server.items[o]
                   [] r.kind \in {"token", "delete"} -> Authentic(r.as) /\ r.arg \in server.items[o]
                   [] OTHER             -> Authentic(r.as)
           reply == IF ok THEN "ok" ELSE "refused"
           value == IF r.kind \in ListKinds /\ ok THEN server.items[o] ELSE {}
<1>1. /\ reqs' = [reqs EXCEPT ![i].reply = reply, ![i].value = value]
      /\ server' = CASE ok /\ r.kind = "signup" -> [server EXCEPT !.accounts = @ \cup {r.arg}]
                     [] ok /\ r.kind = "login"  -> [server EXCEPT !.expired = @ \ {r.arg}]
                     [] ok /\ r.kind = "create" -> [server EXCEPT !.items[o] = @ \cup {r.arg}]
                     [] ok /\ r.kind = "delete" -> [server EXCEPT !.items[o] = @ \ {r.arg}]
                     [] OTHER                   -> server
      /\ gap' = (gap \/ (Mounted(tab) /\ ok /\ r.kind \in ChangeKinds /\ ~r.live))
  BY Zenon DEF Serve
<1>2. storage' = storage /\ tab' = tab /\ kind' = kind /\ shown' = shown /\ mixed' = mixed /\ out' = out
  BY DEF Serve
<1>3. RequestOK(r) /\ r.as \in Holders /\ r \in ReqRec
  BY InvTypes DEF RequestOK
<1>4. o \in Holders
  BY <1>3, OwnerType
<1>5. /\ server \in ServerRec /\ server.items \in [Holders -> SUBSET Items]
      /\ \A h \in Holders : \A item \in server.items[h] : item[1] = h
  BY DEF Inv, StateInv, ServerInv, ServerRec
<1>6. value \in SUBSET Items /\ (\A item \in value : item[1] = o) /\ reply \in {"ok", "refused"}
  BY <1>4, <1>5
<1>7. reqs = [j \in Slots |-> reqs[j]]
  BY DEF Inv, StateInv, RequestsInv
<1> HIDE DEF ok, reply, value, o
<1>8. /\ reqs' = [j \in Slots |-> reqs'[j]]
      /\ reqs'[i] = [kind |-> r.kind, as |-> r.as, arg |-> r.arg, live |-> r.live, reply |-> reply,
                     value |-> value]
      /\ \A j \in Slots : j # i => reqs'[j] = reqs[j]
  <2>1. reqs' = [j \in Slots |-> IF j = i THEN [[r EXCEPT !.reply = reply] EXCEPT !.value = value] ELSE reqs[j]]
    BY <1>1, <1>7
  <2>2. [[r EXCEPT !.reply = reply] EXCEPT !.value = value]
           = [kind |-> r.kind, as |-> r.as, arg |-> r.arg, live |-> r.live, reply |-> reply, value |-> value]
    <3> DEFINE new == [[r EXCEPT !.reply = reply] EXCEPT !.value = value]
    <3>1. /\ new.kind = r.kind /\ new.as = r.as /\ new.arg = r.arg /\ new.live = r.live
          /\ new.reply = reply /\ new.value = value
      BY <1>3 DEF ReqRec
    <3>2. new \in ReqRec
      BY <1>3, <1>6 DEF ReqRec
    <3> HIDE DEF new
    <3>3. new = [kind |-> new.kind, as |-> new.as, arg |-> new.arg, live |-> new.live,
                 reply |-> new.reply, value |-> new.value]
      BY <3>2 DEF ReqRec
    <3> HIDE DEF r
    <3> QED BY <3>1, <3>3, Zenon DEF new
  <2> HIDE DEF r
  <2> QED BY <2>1, <2>2
<1>9. RequestsInv'
  <2>1. RequestOK(reqs'[i])
    <3>1. reqs'[i] \in ReqRec
      BY <1>3, <1>6, <1>8 DEF ReqRec
    <3> QED BY <1>3, <1>6, <1>8, <3>1 DEF RequestOK, o
  <2>2. \A j \in Slots : RequestOK(reqs'[j])
    BY <1>8, <2>1, InvTypes
  <2>3. \A j \in Slots : RequestOK(reqs'[j]) => RequestOK(reqs[j])'
    BY <1>2 DEF RequestOK, Owner
  <2> QED BY <1>8, <2>2, <2>3 DEF RequestsInv
<1>10. \A j \in Slots : reqs'[j].kind = reqs[j].kind /\ reqs'[j].live = reqs[j].live
                        /\ reqs'[j].arg = reqs[j].arg /\ reqs'[j].as = reqs[j].as
  BY <1>8
<1>11. /\ server' \in ServerRec
       /\ \A h \in Holders : \A x : /\ x \in server'.items[h] =>
                                        \/ x \in server.items[h]
                                        \/ x = r.arg /\ h = o /\ ok /\ r.kind = "create"
                                    /\ x \in server.items[h] =>
                                        x \in server'.items[h] \/ (x = r.arg /\ ok /\ r.kind = "delete")
  <2>1. CASE ok /\ r.kind = "signup"
    <3>1. server' = [server EXCEPT !.accounts = @ \cup {r.arg}] /\ r.arg \in Users
      BY <1>1, <1>3, <2>1 DEF RequestOK
    <3> QED BY <1>5, <3>1 DEF ServerRec
  <2>2. CASE ok /\ r.kind = "login"
    <3>1. server' = [server EXCEPT !.expired = @ \ {r.arg}]
      BY <1>1, <2>2
    <3> QED BY <1>5, <3>1 DEF ServerRec
  <2>3. CASE ok /\ r.kind = "create"
    <3>1. server' = [server EXCEPT !.items[o] = @ \cup {r.arg}] /\ r.arg \in Items
      BY <1>1, <1>3, <2>3 DEF RequestOK
    <3>2. server' = [server EXCEPT !.items = [server.items EXCEPT ![o] = @ \cup {r.arg}]]
      BY <3>1
    <3>3. [server.items EXCEPT ![o] = @ \cup {r.arg}] \in [Holders -> SUBSET Items]
      BY <1>4, <1>5, <3>1
    <3>4. server' \in ServerRec /\ server'.items = [server.items EXCEPT ![o] = @ \cup {r.arg}]
      BY <1>5, <3>2, <3>3 DEF ServerRec
    <3>5. /\ \A h \in Holders : h # o => server'.items[h] = server.items[h]
          /\ server'.items[o] = server.items[o] \cup {r.arg}
      BY <1>4, <1>5, <3>4
    <3> HIDE DEF r
    <3> QED BY <2>3, <3>4, <3>5
  <2>4. CASE ok /\ r.kind = "delete"
    <3>1. server' = [server EXCEPT !.items[o] = @ \ {r.arg}]
      BY <1>1, <2>4
    <3>2. server' = [server EXCEPT !.items = [server.items EXCEPT ![o] = @ \ {r.arg}]]
      BY <3>1
    <3>3. [server.items EXCEPT ![o] = @ \ {r.arg}] \in [Holders -> SUBSET Items]
      BY <1>4, <1>5, <3>1
    <3>4. server' \in ServerRec /\ server'.items = [server.items EXCEPT ![o] = @ \ {r.arg}]
      BY <1>5, <3>2, <3>3 DEF ServerRec
    <3>5. /\ \A h \in Holders : h # o => server'.items[h] = server.items[h]
          /\ server'.items[o] = server.items[o] \ {r.arg}
      BY <1>4, <1>5, <3>4
    <3> HIDE DEF r
    <3> QED BY <2>4, <3>4, <3>5
  <2>5. CASE ~(ok /\ r.kind \in {"signup", "login", "create", "delete"})
    <3>1. server' = server
      BY <1>1, <2>5
    <3> QED BY <1>5, <3>1
  <2> QED BY <2>1, <2>2, <2>3, <2>4, <2>5
<1>12. ServerInv'
  <2>1. ASSUME NEW h \in Holders, NEW item \in server'.items[h] PROVE item[1] = h
    <3>1. CASE item \in server.items[h]
      BY <1>5, <3>1
    <3>2. CASE item = r.arg /\ h = o /\ r.kind = "create"
      BY <1>3, <3>2 DEF RequestOK, o
    <3> QED BY <1>11, <3>1, <3>2
  <2> QED BY <1>11, <2>1 DEF ServerInv
<1>13. (Mounted(tab)' <=> Mounted(tab)) /\ (Coherent(tab, storage)' <=> Coherent(tab, storage))
       /\ Owner(tab.user)' = Owner(tab.user) /\ (Rendered(tab)' <=> Rendered(tab))
  BY <1>2 DEF Mounted, Coherent, Owner, Rendered
<1>14. TabInv'
  <2>1. gap' \in BOOLEAN
    BY <1>1, Zenon
  <2>2. ~Mounted(tab) => Live(PageKinds)' = {}
    BY <1>10 DEF Inv, StateInv, TabInv, Live
  <2> QED BY <1>2, <1>13, <2>1, <2>2 DEF Inv, StateInv, TabInv
<1>15. OutInv'
  BY <1>2, <1>10 DEF Inv, OutInv
<1>16. PageInv'
  BY <1>2, <1>10, <1>13 DEF Inv, PageInv
<1>17. ListInv'
  <2>1. SUFFICES ASSUME Mounted(tab), ~mixed, ~gap' PROVE Explained(shown, tab.user, reqs)'
    BY <1>2, <1>13 DEF ListInv
  <2> DEFINE h == Owner(tab.user)
  <2>2. ~gap /\ ~(ok /\ r.kind \in ChangeKinds /\ ~r.live)
    BY <1>1, <2>1, Zenon
  <2>3. Explained(shown, tab.user, reqs)
    BY <2>1, <2>2 DEF Inv, ListInv
  <2>4. h \in Holders
    BY InvTypes, OwnerType
  <2>5. CASE \E j \in Slots : reqs[j].kind \in ListKinds /\ reqs[j].live
    BY <1>10, <2>5 DEF Explained
  <2>6. CASE \A x : x \in (shown \ server.items[h]) \cup (server.items[h] \ shown) =>
               \E j \in Slots : reqs[j].kind \in ChangeKinds /\ reqs[j].live /\ reqs[j].arg = x
    <3>1. ASSUME NEW x, x \in (shown \ server'.items[h]) \cup (server'.items[h] \ shown)
          PROVE  \E j \in Slots : reqs'[j].kind \in ChangeKinds /\ reqs'[j].live /\ reqs'[j].arg = x
      <4>1. CASE x \in (shown \ server.items[h]) \cup (server.items[h] \ shown)
        BY <1>10, <2>6, <4>1
      <4>2. CASE x = r.arg /\ ok /\ r.kind \in ChangeKinds
        BY <1>10, <2>2, <4>2
      <4>3. /\ x \in server'.items[h] => x \in server.items[h] \/ (x = r.arg /\ ok /\ r.kind = "create")
            /\ x \in server.items[h] => x \in server'.items[h] \/ (x = r.arg /\ ok /\ r.kind = "delete")
        BY <1>11, <2>4
      <4> HIDE DEF h, r
      <4> QED BY <3>1, <4>1, <4>2, <4>3
    <3> QED BY <1>2, <1>13, <3>1 DEF Explained
  <2> QED BY <2>3, <2>5, <2>6 DEF Explained
<1> QED BY <1>2, <1>9, <1>12, <1>14, <1>15, <1>16, <1>17 DEF Inv, StateInv

LEMMA ExpireInv ==
    ASSUME Inv, NEW u \in Users, Expire(u)
    PROVE  Inv'
<1>1. /\ server' = [server EXCEPT !.expired = @ \cup {u}]
      /\ UNCHANGED <<storage, tab, kind, shown, reqs, mixed, gap, out>>
  BY DEF Expire
<1>2. server \in ServerRec
  BY DEF Inv, StateInv, ServerInv
<1>3. server' \in ServerRec /\ server'.items = server.items
  BY <1>1, <1>2 DEF ServerRec
<1>4. ServerInv'
  BY <1>3 DEF Inv, StateInv, ServerInv
<1>5. RequestsInv'
  BY <1>1 DEF Inv, StateInv, RequestsInv, RequestOK, Owner
<1>6. TabInv'
  BY <1>1 DEF Inv, StateInv, TabInv, Mounted, Live, Rendered
<1>7. OutInv' /\ PageInv'
  BY <1>1 DEF Inv, OutInv, PageInv, Mounted, Coherent, Owner
<1>8. ListInv'
  BY <1>1, <1>3 DEF Inv, ListInv, Explained, Mounted, Owner
<1> QED BY <1>1, <1>4, <1>5, <1>6, <1>7, <1>8 DEF Inv, StateInv

LEMMA OtherTabInv ==
    ASSUME Inv, NEW s, OtherTab(s)
    PROVE  Inv'
<1>1. /\ storage' = s /\ mixed' = (~Coherent(tab, s) \/ (mixed /\ Mounted(tab)))
      /\ s \in server.accounts \cup {None}
      /\ UNCHANGED <<tab, kind, shown, reqs, server, gap, out>>
  BY DEF OtherTab
<1>2. s \in Holders
  BY <1>1 DEF Inv, StateInv, ServerInv, ServerRec, Holders
<1>3. ServerInv'
  BY <1>1 DEF Inv, StateInv, ServerInv
<1>4. RequestsInv'
  BY <1>1 DEF Inv, StateInv, RequestsInv, RequestOK, Owner
<1>5. TabInv'
  <2>1. mixed' \in BOOLEAN
    BY <1>1, Zenon
  <2> QED BY <1>1, <1>2, <2>1 DEF Inv, StateInv, TabInv, Mounted, Live, Rendered
<1>6. OutInv'
  BY <1>1 DEF Inv, OutInv
<1>7. Mounted(tab) /\ ~mixed' => ~mixed /\ Coherent(tab, s)
  BY <1>1, Zenon
<1>8. PageInv'
  BY <1>1, <1>7 DEF Inv, PageInv, Mounted, Coherent, Owner
<1>9. ListInv'
  BY <1>1, <1>7 DEF Inv, ListInv, Explained, Mounted, Owner
<1> QED BY <1>1, <1>3, <1>4, <1>5, <1>6, <1>8, <1>9 DEF Inv, StateInv

LEMMA NextInv == Inv /\ [ConsoleNext]_consoleVars => Inv'
<1>1. SUFFICES ASSUME Inv, [ConsoleNext]_consoleVars PROVE Inv'
  OBVIOUS
<1>2. CASE UNCHANGED consoleVars
  <2>1. UNCHANGED <<storage, tab, kind, shown, reqs, server, mixed, gap, out>>
    BY <1>2 DEF consoleVars
  <2>2. StateInv'
    BY <1>1, <2>1 DEF Inv, StateInv, ServerInv, RequestsInv, RequestOK, Owner, TabInv, Mounted, Live, Rendered
  <2>3. OutInv' /\ PageInv'
    BY <1>1, <2>1 DEF Inv, OutInv, PageInv, Mounted, Coherent, Owner
  <2>4. ListInv'
    BY <1>1, <2>1 DEF Inv, ListInv, Explained, Mounted, Owner
  <2> QED BY <2>2, <2>3, <2>4 DEF Inv
<1>3. CASE Reload \/ Logout \/ ChangePlan \/ Refresh
  BY <1>1, <1>3, ReloadInv, LogoutInv, ChangePlanInv, RefreshInv
<1>4. CASE Visit("list") \/ Visit("other")
  BY <1>1, <1>4, VisitInv
<1>5. ASSUME NEW u \in Users, Submit("login", u) \/ Submit("signup", u) PROVE Inv'
  BY <1>1, <1>5, SubmitInv
<1>6. ASSUME NEW u \in Users, Expire(u) PROVE Inv'
  BY <1>1, <1>6, ExpireInv
<1>7. ASSUME NEW s, OtherTab(s) PROVE Inv'
  BY <1>1, <1>7, OtherTabInv
<1>8. ASSUME NEW n \in Names, Change("create", <<Owner(storage), n>>) PROVE Inv'
  <2> DEFINE item == <<Owner(storage), n>>
  <2>1. item \in Items /\ item[1] = Owner(storage)
    BY <1>1, InvTypes, OwnerType DEF Items
  <2> HIDE DEF item
  <2>2. Change("create", item)
    BY <1>8 DEF item
  <2> QED BY <1>1, <2>1, <2>2, ChangeInv
<1>9. ASSUME NEW item \in shown, Change("delete", item) PROVE Inv'
  BY <1>1, <1>9, InvTypes, ChangeInv
<1>10. ASSUME NEW i \in Slots, Serve(i) PROVE Inv'
  BY <1>1, <1>10, ServeInv
<1>11. ASSUME NEW i \in Slots, NEW ok \in BOOLEAN, Answered(i, ok) PROVE Inv'
  BY <1>1, <1>11, SessionAnswerInv, PageAnswerInv DEF Answered
<1>12. ASSUME NEW i \in Slots, Arrive(i) \/ Lose(i) PROVE Inv'
  <2>1. (reqs[i].reply = "ok") \in BOOLEAN
    OBVIOUS
  <2>2. Answered(i, reqs[i].reply = "ok") \/ Answered(i, FALSE)
    BY <1>12 DEF Arrive, Lose
  <2> QED BY <1>11, <2>1, <2>2
<1> QED BY <1>1, <1>2, <1>3, <1>4, <1>5, <1>6, <1>7, <1>8, <1>9, <1>10, <1>12 DEF ConsoleNext

-------------------------------------------------------------------------------
(* The theorems.                                                           *)

LEMMA ConsoleInvariant == ConsoleSpec => []Inv
<1> QED BY InitInv, NextInv, PTL DEF ConsoleSpec

\* The console's state stays well formed, and a page that has been left waits for nothing,
\* whatever is answered late.
THEOREM ConsoleWellFormed == ConsoleSpec => []ConsoleTypeOK
<1>1. Inv => ConsoleTypeOK
  <2>1. ASSUME Inv PROVE ConsoleTypeOK
    <3>1. \A i \in Slots : reqs[i].kind \in SessionKinds \cup PageKinds \cup {"none"}
      BY <2>1, InvTypes DEF RequestOK, ReqRec
    <3>2. /\ storage \in Holders /\ tab \in TabRec /\ shown \subseteq Items
          /\ ~Mounted(tab) => shown = {} /\ Live(PageKinds) = {}
      BY <2>1 DEF Inv, StateInv, TabInv
    <3> QED BY <3>1, <3>2 DEF ConsoleTypeOK, Holders, TabRec, Items
  <2> QED BY <2>1
<1> QED BY <1>1, ConsoleInvariant, PTL

\* logout() with no answer of the session outstanding keeps the tab logged out: no request
\* that could sign it in again is left, and none is sent before the next form or reload.
THEOREM LogoutStays == ConsoleSpec => []LogoutHolds
<1>1. Inv => LogoutHolds
  BY DEF Inv, OutInv, LogoutHolds
<1> QED BY <1>1, ConsoleInvariant, PTL

\* A list page never shows one user the items of another.
THEOREM ListsStayPrivate == ConsoleSpec => []NoForeignItems
<1>1. Inv => NoForeignItems
  <2>1. ASSUME Inv, Mounted(tab), ~mixed, NEW item \in shown PROVE item[1] \in {tab.user, None}
    <3>1. item[1] = Owner(tab.user)
      BY <2>1 DEF Inv, PageInv
    <3> QED BY <2>1, <3>1, InvTypes, OwnerType
  <2> QED BY <2>1 DEF NoForeignItems
<1> QED BY <1>1, ConsoleInvariant, PTL

\* A page that waits for nothing shows the server's list, unless one of the gaps that the
\* handlers leave was reached.
THEOREM QuietListsAreCurrent == ConsoleSpec => []QuietListIsCurrent
<1>1. Inv => QuietListIsCurrent
  <2>1. ASSUME Inv, Mounted(tab), Live(PageKinds) = {}, ~gap, ~mixed
        PROVE  shown = server.items[Owner(tab.user)]
    <3>1. Explained(shown, tab.user, reqs)
      BY <2>1 DEF Inv, ListInv
    <3>2. \A i \in Slots : ~(reqs[i].kind \in PageKinds /\ reqs[i].live)
      BY <2>1 DEF Live
    <3>3. \A x : x \notin (shown \ server.items[Owner(tab.user)]) \cup (server.items[Owner(tab.user)] \ shown)
      BY <3>1, <3>2 DEF Explained
    <3> QED BY <3>3
  <2> QED BY <2>1 DEF QuietListIsCurrent
<1> QED BY <1>1, ConsoleInvariant, PTL

\* The tab, its user and localStorage agree after a commit of a session that does.
LEMMA CommitCoherent ==
    ASSUME NEW slot, NEW t \in TabRec, NEW s, NEW next, Commit(slot, t, s, shown, gap, next),
           t.user = t.token, s = t.token
    PROVE  Coherent(tab', storage')
BY RenderOK DEF Commit, Coherent

LEMMA CommitCoherentPage ==
    ASSUME Inv, NEW slot, NEW l, NEW g, NEW next, Commit(slot, tab, storage, l, g, next)
    PROVE  tab' = tab /\ storage' = storage
BY InvTypes DEF Commit

LEMMA SessionAnswerCoherent ==
    ASSUME Inv, Coherent(tab, storage), NEW i \in Slots, NEW ok \in BOOLEAN, SessionAnswer(i, ok)
    PROVE  \/ Coherent(tab', storage')
           \/ i \in Live({"profile"}) /\ reqs[i].as # tab.token /\ reqs'[i] # reqs[i]
<1> DEFINE r == reqs[i]
<1>1. /\ r.kind \in SessionKinds /\ RequestOK(r) /\ r.as \in Holders /\ tab \in TabRec /\ r.live
      /\ tab.user = tab.token /\ storage = tab.token
  BY InvTypes DEF SessionAnswer, RequestOK, Coherent
<1>2. CASE r.kind = "profile" /\ ok
  <2> DEFINE t == [tab EXCEPT !.user = r.as, !.isLoading = FALSE]
  <2>1. Commit(i, t, storage, shown, gap, NoReq)
    BY <1>2 DEF SessionAnswer
  <2>2. t \in TabRec /\ t.user = r.as /\ t.token = tab.token
    BY <1>1 DEF TabRec
  <2> HIDE DEF t
  <2>3. CASE r.as = tab.token
    BY <1>1, <2>1, <2>2, <2>3, CommitCoherent
  <2>4. CASE r.as # tab.token
    <3>1. i \in Live({"profile"})
      BY <1>1, <1>2 DEF Live
    <3>2. reqs'[i] \in {NoReq, Request("list", storage, None)}
      BY <2>1 DEF Commit
    <3>3. NoReq.kind # "profile" /\ Request("list", storage, None).kind # "profile"
      BY DEF NoReq, Request
    <3> QED BY <1>2, <2>4, <3>1, <3>2, <3>3
  <2> QED BY <2>3, <2>4
<1>3. CASE r.kind = "profile" /\ ~ok
  <2>1. Commit(i, SignedOut(tab), None, shown, gap, NoReq)
    BY <1>3 DEF SessionAnswer
  <2> QED BY <1>1, <2>1, SignedOutOK, CommitCoherent
<1>4. CASE r.kind = "login" /\ ok
  <2>1. Commit(i, SignedIn(tab, r.arg), r.arg, shown, gap, NoReq)
    BY <1>4 DEF SessionAnswer
  <2>2. SignedIn(tab, r.arg) \in TabRec /\ SignedIn(tab, r.arg).user = r.arg /\ SignedIn(tab, r.arg).token = r.arg
    BY <1>1, <1>4 DEF SignedIn, TabRec, Holders, RequestOK
  <2> QED BY <2>1, <2>2, CommitCoherent
<1>5. CASE r.kind = "plan" /\ ok
  <2> DEFINE t == [SignedIn(tab, r.as) EXCEPT !.location = "other"]
  <2>1. Commit(i, t, r.as, shown, gap, NoReq)
    BY <1>5 DEF SessionAnswer
  <2>2. SignedIn(tab, r.as) \in TabRec /\ SignedIn(tab, r.as).user = r.as /\ SignedIn(tab, r.as).token = r.as
    BY <1>1 DEF SignedIn, TabRec
  <2>3. t \in TabRec /\ t.user = r.as /\ t.token = r.as
    BY <2>2 DEF TabRec
  <2> HIDE DEF t
  <2> QED BY <2>1, <2>3, CommitCoherent
<1>6. CASE r.kind = "signup" /\ ok
  <2>1. Commit(i, tab, storage, shown, gap, Request("login", storage, r.arg))
    BY <1>6 DEF SessionAnswer
  <2> QED BY <2>1, CommitCoherentPage
<1>7. CASE r.kind \in {"login", "plan", "signup"} /\ ~ok
  <2>1. Commit(i, tab, storage, shown, gap, NoReq)
    BY <1>7 DEF SessionAnswer
  <2> QED BY <2>1, CommitCoherentPage
<1> QED BY <1>1, <1>2, <1>3, <1>4, <1>5, <1>6, <1>7

LEMMA PageAnswerCoherent ==
    ASSUME Inv, NEW i \in Slots, NEW ok \in BOOLEAN, PageAnswer(i, ok)
    PROVE  tab' = tab /\ storage' = storage
<1> DEFINE next == NextRequest(reqs[i], ok)
<1>1. \E l, g : Commit(i, tab, storage, l, g, next)
  BY Zenon DEF PageAnswer
<1> HIDE DEF next
<1> QED BY <1>1, CommitCoherentPage

\* Login, logout, sign-up and a change of plan keep the user on the screen and the token of
\* the requests together; only a profile asked for under another token, a reload or another
\* tab takes them apart.
THEOREM SessionsStayCoherent == ConsoleSpec => SessionStaysCoherent
<1> DEFINE Apart == Coherent(tab, storage) /\ ~Coherent(tab', storage')
                      => \/ storage' # storage /\ tab' = tab
                         \/ tab' = Render(Opened(storage, tab.location))
                         \/ \E i \in Live({"profile"}) : reqs[i].as # tab.token /\ reqs'[i] # reqs[i]
<1>1. Inv /\ [ConsoleNext]_consoleVars => [Apart]_consoleVars
  <2>1. SUFFICES ASSUME Inv, ConsoleNext, Coherent(tab, storage) PROVE Apart
    OBVIOUS
  <2>2. tab \in TabRec /\ None \in Holders /\ tab.user = tab.token /\ storage = tab.token
    BY <2>1, InvTypes DEF Coherent
  <2>3. CASE Reload
    BY <2>3 DEF Reload
  <2>4. CASE Logout
    <3>1. Commit(0, SignedOut(tab), None, shown, gap, NoReq)
      BY <2>4 DEF Logout
    <3> QED BY <2>2, <3>1, SignedOutOK, CommitCoherent
  <2>5. CASE ChangePlan \/ Refresh
    <3>1. \E next : Commit(FreeSlot, tab, storage, shown, gap, next)
      BY <2>5 DEF ChangePlan, Refresh
    <3> QED BY <2>1, <3>1, CommitCoherentPage
  <2>6. ASSUME NEW location \in {"list", "other"}, Visit(location) PROVE Apart
    <3> DEFINE t == [tab EXCEPT !.location = location]
    <3>1. Commit(FreeSlot, t, storage, shown, gap, NoReq)
      BY <2>6 DEF Visit
    <3>2. t \in TabRec /\ t.user = tab.user /\ t.token = tab.token
      BY <2>2 DEF TabRec
    <3> HIDE DEF t
    <3> QED BY <2>2, <3>1, <3>2, CommitCoherent
  <2>7. ASSUME NEW k \in {"login", "signup"}, NEW u \in Users, Submit(k, u) PROVE Apart
    <3> DEFINE t == [tab EXCEPT !.from = IF k = "signup" THEN "other" ELSE @]
    <3>1. Commit(FreeSlot, t, storage, shown, gap, Request(k, storage, u))
      BY <2>7 DEF Submit
    <3>2. t \in TabRec /\ t.user = tab.user /\ t.token = tab.token
      BY <2>2 DEF TabRec
    <3> HIDE DEF t
    <3> QED BY <2>2, <3>1, <3>2, CommitCoherent
  <2>8. ASSUME NEW u, Expire(u) PROVE Apart
    BY <2>8 DEF Expire
  <2>9. ASSUME NEW s, OtherTab(s) PROVE Apart
    BY <2>9 DEF OtherTab
  <2>10. ASSUME NEW k, NEW item, Change(k, item) PROVE Apart
    <3>1. Commit(FreeSlot, tab, storage, shown, gap, Request(k, storage, item))
      BY <2>10 DEF Change
    <3> QED BY <2>1, <3>1, CommitCoherentPage
  <2>11. ASSUME NEW i \in Slots, Serve(i) PROVE Apart
    <3>1. tab' = tab /\ storage' = storage
      BY <2>11 DEF Serve
    <3> QED BY <3>1
  <2>12. ASSUME NEW i \in Slots, NEW ok \in BOOLEAN, Answered(i, ok) PROVE Apart
    <3>1. CASE SessionAnswer(i, ok)
      BY <2>1, <3>1, SessionAnswerCoherent
    <3>2. CASE PageAnswer(i, ok)
      BY <2>1, <3>2, PageAnswerCoherent
    <3> QED BY <2>12, <3>1, <3>2 DEF Answered
  <2>13. ASSUME NEW i \in Slots, Arrive(i) \/ Lose(i) PROVE Apart
    <3>1. (reqs[i].reply = "ok") \in BOOLEAN
      OBVIOUS
    <3>2. Answered(i, reqs[i].reply = "ok") \/ Answered(i, FALSE)
      BY <2>13 DEF Arrive, Lose
    <3> QED BY <2>12, <3>1, <3>2
  <2> HIDE DEF Apart
  <2> QED BY <2>1, <2>3, <2>4, <2>5, <2>6, <2>7, <2>8, <2>9, <2>10, <2>11, <2>13 DEF ConsoleNext
<1> QED BY <1>1, ConsoleInvariant, PTL DEF ConsoleSpec, SessionStaysCoherent

===============================================================================
