-------------------------- MODULE Services_proofs --------------------------
(***************************************************************************)
(* What the services around the runs promise: accounts, whose routes are   *)
(* rows of statements that can stop half way; the execution contract of    *)
(* runs, which requests and workers of different releases rewrite; the     *)
(* migration of the schema, which other processes serve from meanwhile;    *)
(* and the page of the web client, whose answers come in any order.  What  *)
(* is proved holds for every number of requests, processes, releases,      *)
(* handlers, projects and mishaps.                                         *)
(***************************************************************************)
EXTENDS Accounts, ExecutionContract, StoreMigration, WebClient, SequenceTheorems, TLAPS

(***************************************************************************)
(* Accounts.                                                               *)
(***************************************************************************)

\* Requests inside an organization.
InOrg == {"add_member", "create_workspace"}

\* What a request can be where it stands, and what it has seen of its organization.
CallFits(c) ==
    LET q == call[c]
    IN  /\ q.at = "new" => q.kind = "register" /\ c \notin halved
        /\ q.at = "user" => q.kind = "register"
        /\ q.at \in {"new", "user", "slug"} => slug[c] = 0
        /\ q.at = "owner" => slug[c] > 0
        /\ q.at \in {"slug", "owner"} => q.kind \in Creation
        /\ q.at = "check" => q.kind \in InOrg
        /\ q.at \in {"find", "insert", "update"} => q.kind = "add_member"
        /\ q.kind \in Creation => q.org = c
        /\ q.kind = "add_member" => q.as \in {"admin", "member"}
        /\ q.kind \in InOrg => slug[q.org] > 0
        /\ q.kind \in InOrg /\ q.at \notin {"check", "ok", "error"} =>
             q.rank \in Managers /\ call[q.org].at # "owner"

\* An organization is as complete as the request that creates it has got.
OrgFits(o) ==
    /\ slug[o] = 0 \/ call[o].at = "owner" => \A u \in Users : role[o][u] = "none"
    /\ slug[o] > 0 =>
         /\ call[o].kind \in Creation /\ call[o].at \in {"owner", "workspace", "session", "ok", "error"}
         /\ call[o].at \in {"session", "ok"} => o \in workspaces
         /\ call[o].at = "error" => o \in halved
         /\ \/ call[o].at = "owner" \/ \E u \in Users : role[o][u] \in Managers
            \/ o \in halved \cup lowered \cup outdated

\* A user belongs to an organization, or a registration will see to it or ended early.
UserFits(u) ==
    \/ \E o \in Calls : slug[o] > 0 /\ role[o][u] # "none"
    \/ \E c \in Calls : /\ call[c].kind = "register" /\ call[c].by = u
                        /\ call[c].at \in {"slug", "owner"} \/ c \in halved

\* All that a statement relies on.
AccountsInv ==
    /\ AccountsTypeOK
    /\ \A c \in Calls : CallFits(c) /\ OrgFits(c)
    /\ \A u \in users : UserFits(u)

\* The type of requests.
Request == [kind : CallKinds, at : Points, by : Users, org : Calls, whom : Users,
            as : Roles, candidate : 1..MaxSlugs, rank : Roles]

\* Request c is at a point, and is what it was.
Goes(c, point) ==
    /\ call' \in [Calls -> Request] /\ \A d \in Calls : d # c => call'[d] = call[d]
    /\ call'[c].at = point /\ call'[c].kind = call[c].kind /\ call'[c].by = call[c].by
    /\ call'[c].org = call[c].org /\ call'[c].whom = call[c].whom /\ call'[c].as = call[c].as
    /\ call'[c].rank = call[c].rank

\* A request that has asked for nothing yet is a request.
LEMMA UnaskedIsARequest ==
    ASSUME NEW c \in Calls, NEW u \in Users, NEW point \in Points
    PROVE  /\ [Unasked(c, u) EXCEPT !.at = point] \in Request
           /\ [Unasked(c, u) EXCEPT !.at = point].at = point
           /\ [Unasked(c, u) EXCEPT !.at = point].kind = "register"
           /\ [Unasked(c, u) EXCEPT !.at = point].org = c
<1>1. 1 \in 1..MaxSlugs
  BY AccountsAssumption DEF AccountsAssumption
<1>2. QED BY <1>1 DEF Unasked, Request, CallKinds, Roles, Managers, Points

\* A request that only moves on is what it was.
LEMMA ToGoes ==
    ASSUME AccountsInv, NEW c \in Calls, NEW point \in Points, To(c, point)
    PROVE  Goes(c, point)
BY SMTT(40) DEF To, Goes, AccountsInv, AccountsTypeOK, Request

\* An empty database, or one organization with all users in it.
LEMMA AccountsStart == AccountsInit => AccountsInv
<1> SUFFICES ASSUME AccountsInit PROVE AccountsInv
  OBVIOUS
<1>1. PICK founder \in Users, settled \in BOOLEAN :
        /\ users = (IF settled THEN Users ELSE {}) /\ sessions = users
        /\ slug = [c \in Calls |-> IF settled /\ c = 1 THEN 1 ELSE 0] /\ workspaces = Orgs
        /\ role = [o \in Calls |-> [u \in Users |-> IF o \notin Orgs THEN "none"
                                                  ELSE IF u = founder THEN "owner" ELSE "admin"]]
        /\ call = [c \in Calls |-> [Unasked(c, founder) EXCEPT !.at = IF c \in Orgs THEN "ok" ELSE @]]
  BY Zenon DEF AccountsInit
<1>2. halved = {} /\ lowered = {} /\ outdated = {} /\ errors = 0 /\ logins = [u \in Users |-> 0]
  BY Zenon DEF AccountsInit
<1>3. slug \in [Calls -> 0..MaxSlugs] /\ (\A c \in Calls : slug[c] > 0 <=> settled /\ c = 1)
  BY <1>1, AccountsAssumption DEF AccountsAssumption
<1>4. Orgs = {c \in Calls : settled /\ c = 1}
  BY <1>3 DEF Orgs
<1>5. ASSUME NEW c \in Calls
      PROVE  /\ call[c] \in Request /\ call[c].at = (IF c \in Orgs THEN "ok" ELSE "new")
             /\ call[c].kind = "register" /\ call[c].org = c
  <2>1. Unasked(c, founder).at = "new"
    BY DEF Unasked
  <2>2. call[c] = [Unasked(c, founder) EXCEPT !.at = IF c \in Orgs THEN "ok" ELSE "new"]
    BY <1>1, <2>1
  <2>3. (IF c \in Orgs THEN "ok" ELSE "new") \in Points
    BY DEF Points
  <2>4. QED BY <2>2, <2>3, UnaskedIsARequest
<1>6. call \in [Calls -> Request]
  BY <1>1, <1>5
<1>7. role \in [Calls -> [Users -> Roles]]
  BY <1>1 DEF Roles, Managers
<1>8. AccountsTypeOK
  <2>1. logins \in [Users -> 0..LoginMax + 1] /\ errors \in 0..MaxErrors
    BY <1>2, AccountsAssumption DEF AccountsAssumption
  <2>2. users \subseteq Users /\ sessions \subseteq Users /\ workspaces \subseteq Calls
    BY <1>1 DEF Orgs
  <2>3. QED BY <1>2, <1>3, <1>6, <1>7, <2>1, <2>2, Zenon DEF AccountsTypeOK, Request
<1>9. ASSUME NEW c \in Calls PROVE CallFits(c) /\ OrgFits(c)
  <2>1. CallFits(c)
    BY <1>2, <1>3, <1>4, <1>5 DEF CallFits, InOrg, Creation
  <2>2. \A u \in Users : role[c][u] = IF c \notin Orgs THEN "none" ELSE IF u = founder THEN "owner" ELSE "admin"
    BY <1>1
  <2>3. slug[c] = 0 <=> c \notin Orgs
    BY <1>3, <1>4
  <2>4. c \in Orgs => role[c][founder] \in Managers /\ c \in workspaces /\ call[c].at = "ok"
    BY <1>1, <1>5, <2>2 DEF Managers
  <2>5. OrgFits(c)
    <3>1. CASE c \in Orgs
      BY <1>3, <1>4, <1>5, <2>3, <2>4, <3>1 DEF OrgFits, Creation
    <3>2. CASE c \notin Orgs
      BY <1>3, <1>4, <1>5, <2>2, <2>3, <3>2 DEF OrgFits
    <3>3. QED BY <3>1, <3>2
  <2>6. QED BY <2>1, <2>5
<1>10. ASSUME NEW u \in users PROVE UserFits(u)
  <2>1. settled /\ u \in Users /\ 1 \in Calls /\ 1 \in Orgs
    BY <1>1, <1>4, <1>10, AccountsAssumption DEF AccountsAssumption
  <2>2. role[1][u] # "none" /\ slug[1] > 0
    BY <1>1, <1>3, <2>1
  <2>3. QED BY <2>1, <2>2 DEF UserFits
<1>11. QED BY <1>8, <1>9, <1>10 DEF AccountsInv

\* A new request, of any kind.
LEMMA AskKeeps ==
    ASSUME AccountsInv, NEW c \in Calls, call[c].at = "new", call' \in [Calls -> Request],
           \A d \in Calls : d # c => call'[d] = call[d],
           \/ call'[c].kind = "register" /\ call'[c].at = "user" /\ call'[c].org = c
           \/ call'[c].kind = "create_org" /\ call'[c].at = "slug" /\ call'[c].org = c
           \/ call'[c].kind = "login" /\ call'[c].at \in {"session", "error"}
           \/ /\ call'[c].kind \in InOrg /\ call'[c].at = "check" /\ call'[c].org \in Orgs
              /\ call'[c].kind = "add_member" => call'[c].as \in {"admin", "member"},
           logins' \in [Users -> 0..LoginMax + 1],
           UNCHANGED <<users, slug, role, workspaces, sessions, halved, lowered, outdated, errors>>
    PROVE  AccountsInv'
<1>1. AccountsTypeOK'
  BY Zenon DEF AccountsInv, AccountsTypeOK, Request
<1>2. slug[c] = 0 /\ call[c].kind = "register" /\ c \notin halved /\ CallFits(c) /\ OrgFits(c)
  BY DEF AccountsInv, CallFits
<1>3. ASSUME NEW d \in Calls PROVE CallFits(d)' /\ OrgFits(d)'
  <2>1. CallFits(d) /\ OrgFits(d) /\ call[d] \in Request /\ call'[c] \in Request /\ slug[d] \in 0..MaxSlugs
    BY DEF AccountsInv, AccountsTypeOK, Request
  <2>2. CASE d = c
    BY <1>2, <2>1, <2>2 DEF CallFits, OrgFits, Orgs, InOrg, Creation
  <2>3. CASE d # c
    <3>1. CallFits(d)'
      BY <1>2, <2>1, <2>3 DEF CallFits, Request
    <3>2. OrgFits(d)'
      BY <1>2, <2>1, <2>3 DEF OrgFits
    <3>3. QED BY <3>1, <3>2
  <2>4. QED BY <2>2, <2>3
<1>4. ASSUME NEW u \in users' PROVE UserFits(u)'
  <2>1. UserFits(u)
    BY DEF AccountsInv
  <2>2. QED BY <1>2, <2>1 DEF UserFits
<1>5. QED BY <1>1, <1>3, <1>4 DEF AccountsInv

\* What a route is asked for makes a request of its kind.
LEMMA AsksAreRequests ==
    ASSUME AccountsInv, NEW c \in Calls, NEW kind \in CallKinds, NEW u \in Users, NEW at \in Points,
           Ask(c, kind, u, at)
    PROVE  /\ call[c].at = "new" /\ call' \in [Calls -> Request] /\ \A d \in Calls : d # c => call'[d] = call[d]
           /\ call'[c].kind = kind /\ call'[c].at = at /\ call'[c].org = c
           /\ UNCHANGED <<users, slug, role, workspaces, sessions, halved, lowered, outdated, errors>>
<1>1. /\ call[c].at = "new"
      /\ call' = [call EXCEPT ![c].kind = kind, ![c].by = u, ![c].org = c, ![c].whom = u, ![c].at = at]
      /\ UNCHANGED <<users, slug, role, workspaces, sessions, halved, lowered, outdated, errors>>
  BY DEF Ask, IsNext
<1>2. call \in [Calls -> Request]
  BY DEF AccountsInv, AccountsTypeOK, Request
<1>3. call' \in [Calls -> Request]
  <2> DEFINE asked == [call[c] EXCEPT !.kind = kind, !.by = u, !.org = c, !.whom = u, !.at = at]
  <2>0. call[c] \in Request
    BY <1>2
  <2>1. asked \in Request
    BY <2>0, Zenon DEF Request
  <2>2. call' = [call EXCEPT ![c] = asked]
    BY <1>1, <1>2
  <2> HIDE DEF asked
  <2>3. QED BY <1>2, <2>1, <2>2
<1>4. call'[c].kind = kind /\ call'[c].at = at /\ call'[c].org = c /\ \A d \in Calls : d # c => call'[d] = call[d]
  BY <1>1, <1>2 DEF Request
<1>5. QED BY <1>1, <1>3, <1>4

\* A registration arrives.
LEMMA RegisterKeeps == \A c \in Calls, u \in Users : AccountsInv /\ Register(c, u) => AccountsInv'
<1> SUFFICES ASSUME NEW c \in Calls, NEW u \in Users, AccountsInv, Register(c, u) PROVE AccountsInv'
  OBVIOUS
<1>1. Ask(c, "register", u, "user") /\ logins' = logins /\ "register" \in CallKinds /\ "user" \in Points
  BY DEF Register, CallKinds, Points
<1>2. logins' \in [Users -> 0..LoginMax + 1]
  BY <1>1 DEF AccountsInv, AccountsTypeOK
<1>3. QED BY <1>1, <1>2, AsksAreRequests, AskKeeps

\* The creation of an organization arrives.
LEMMA CreateOrgKeeps == \A c \in Calls, u \in Users : AccountsInv /\ CreateOrg(c, u) => AccountsInv'
<1> SUFFICES ASSUME NEW c \in Calls, NEW u \in Users, AccountsInv, CreateOrg(c, u) PROVE AccountsInv'
  OBVIOUS
<1>1. Ask(c, "create_org", u, "slug") /\ logins' = logins /\ "create_org" \in CallKinds /\ "slug" \in Points
  BY DEF CreateOrg, CallKinds, Points
<1>2. logins' \in [Users -> 0..LoginMax + 1]
  BY <1>1 DEF AccountsInv, AccountsTypeOK
<1>3. QED BY <1>1, <1>2, AsksAreRequests, AskKeeps

\* A login is let in or refused, by the rows or by the limit.
LEMMA LoginKeeps == \A c \in Calls, u \in Users : AccountsInv /\ Login(c, u) => AccountsInv'
<1> SUFFICES ASSUME NEW c \in Calls, NEW u \in Users, AccountsInv, Login(c, u) PROVE AccountsInv'
  OBVIOUS
<1>1. PICK at \in {"session", "error"} : Ask(c, "login", u, at)
  BY DEF Login
<1>2. logins[u] <= LoginMax /\ logins' = [logins EXCEPT ![u] = @ + 1]
  BY DEF Login
<1>3. logins' \in [Users -> 0..LoginMax + 1]
  BY <1>2, AccountsAssumption DEF AccountsInv, AccountsTypeOK, AccountsAssumption
<1>4. "login" \in CallKinds /\ at \in Points
  BY DEF CallKinds, Points
<1>5. QED BY <1>1, <1>3, <1>4, AsksAreRequests, AskKeeps

\* A request inside an organization arrives.
LEMMA AskInOrgKeeps ==
    \A c \in Calls, u, v \in Users, o \in Orgs, kind \in InOrg, as \in {"admin", "member", "none"} :
        (kind = "add_member" => as # "none") /\ AccountsInv /\ AskInOrg(c, kind, u, o, v, as) => AccountsInv'
<1> SUFFICES ASSUME NEW c \in Calls, NEW u \in Users, NEW v \in Users, NEW o \in Orgs, NEW kind \in InOrg,
                    NEW as \in {"admin", "member", "none"}, kind = "add_member" => as # "none",
                    AccountsInv, AskInOrg(c, kind, u, o, v, as)
             PROVE  AccountsInv'
  OBVIOUS
<1>1. o \in Calls /\ as \in Roles /\ kind \in CallKinds
  BY DEF Orgs, Roles, Managers, InOrg, CallKinds
<1>2. /\ call[c].at = "new" /\ call' \in [Calls -> Request] /\ \A d \in Calls : d # c => call'[d] = call[d]
      /\ call'[c].kind = kind /\ call'[c].at = "check" /\ call'[c].org = o /\ call'[c].as = as
      /\ UNCHANGED <<users, slug, role, workspaces, sessions, logins, halved, lowered, outdated, errors>>
  BY <1>1 DEF AskInOrg, IsNext, AccountsInv, AccountsTypeOK, Request, Points
<1>3. logins' \in [Users -> 0..LoginMax + 1]
  BY <1>2 DEF AccountsInv, AccountsTypeOK
<1>4. QED BY <1>2, <1>3, AskKeeps

\* The window of the login limit ends.
LEMMA NextWindowKeeps == AccountsInv /\ NextWindow => AccountsInv'
<1> SUFFICES ASSUME AccountsInv, NextWindow PROVE AccountsInv'
  OBVIOUS
<1>1. logins' \in [Users -> 0..LoginMax + 1]
  BY AccountsAssumption DEF NextWindow, AccountsAssumption
<1>2. UNCHANGED <<users, slug, role, workspaces, sessions, call, halved, lowered, outdated, errors>>
  BY DEF NextWindow
<1>3. AccountsTypeOK'
  BY <1>1, <1>2, Zenon DEF AccountsInv, AccountsTypeOK
<1>4. QED
  BY <1>2, <1>3 DEF AccountsInv, CallFits, OrgFits, UserFits

\* What a request does to its own organization does not concern the others.
LEMMA OthersStay ==
    ASSUME AccountsInv, NEW c \in Calls, NEW d \in Calls, d # c,
           \A e \in Calls : e # c => call'[e] = call[e] /\ slug'[e] = slug[e] /\ role'[e] = role[e],
           call'[c].at = "owner" => slug[c] = 0 \/ call[c].at = "owner", slug[c] > 0 => slug'[c] > 0,
           halved \subseteq halved', halved' \subseteq halved \cup {c}, workspaces \subseteq workspaces',
           lowered \subseteq lowered', outdated \subseteq outdated'
    PROVE  CallFits(d)' /\ OrgFits(d)'
<1>1. CallFits(d) /\ OrgFits(d) /\ call[d] \in Request /\ slug \in [Calls -> 0..MaxSlugs]
  BY DEF AccountsInv, AccountsTypeOK, Request
<1>2. call'[d] = call[d] /\ slug'[d] = slug[d] /\ role'[d] = role[d]
  OBVIOUS
<1>3. call[d].org \in Calls
  BY <1>1 DEF Request
<1>4. CallFits(d)'
  <2>1. call[d].kind \in InOrg => slug'[call[d].org] > 0
    <3>1. CASE call[d].org = c
      BY <1>1, <3>1 DEF CallFits
    <3>2. CASE call[d].org # c
      BY <1>1, <1>3, <3>2 DEF CallFits
    <3>3. QED BY <3>1, <3>2
  <2>2. call[d].kind \in InOrg /\ call[d].at \notin {"check", "ok", "error"} => call'[call[d].org].at # "owner"
    BY <1>1, <1>3 DEF CallFits
  <2>3. QED BY <1>1, <1>2, <2>1, <2>2 DEF CallFits
<1>5. OrgFits(d)'
  BY <1>1, <1>2 DEF OrgFits
<1>6. QED BY <1>4, <1>5

\* The row of a new user goes in: its registration will see to a membership.
LEMMA CreateUserKeeps == \A c \in Calls : AccountsInv /\ CreateUser(c) => AccountsInv'
<1> SUFFICES ASSUME NEW c \in Calls, AccountsInv, CreateUser(c) PROVE AccountsInv'
  OBVIOUS
<1>1. /\ call[c].at = "user" /\ call[c].kind = "register" /\ slug[c] = 0 /\ CallFits(c) /\ OrgFits(c)
      /\ call[c] \in Request /\ call[c].by \in Users
      /\ UNCHANGED <<slug, role, workspaces, sessions, logins, halved, lowered, outdated, errors>>
  BY DEF CreateUser, Stands, AccountsInv, AccountsTypeOK, CallFits, Request
<1>2. \/ Goes(c, "error") /\ users' = users
      \/ Goes(c, "slug") /\ users' = users \cup {call[c].by}
  BY ToGoes DEF CreateUser, Points
<1>3. AccountsTypeOK'
  <2>1. users' \subseteq Users /\ call' \in [Calls -> Request]
    BY <1>1, <1>2 DEF Goes, AccountsInv, AccountsTypeOK
  <2>2. QED BY <1>1, <2>1, Zenon DEF AccountsInv, AccountsTypeOK, Request
<1>4. CallFits(c)' /\ OrgFits(c)'
  BY <1>1, <1>2 DEF Goes, CallFits, OrgFits, Creation, InOrg
<1>5. ASSUME NEW d \in Calls PROVE CallFits(d)' /\ OrgFits(d)'
  <2>1. \A e \in Calls : e # c => call'[e] = call[e]
    BY <1>2 DEF Goes
  <2>2. d # c => CallFits(d)' /\ OrgFits(d)'
    BY <1>1, <2>1, OthersStay
  <2>3. QED BY <1>4, <2>2
<1>6. ASSUME NEW u \in users' PROVE UserFits(u)'
  <2>1. CASE u \in users
    <3>1. UserFits(u)
      BY <2>1 DEF AccountsInv
    <3>2. QED BY <1>1, <1>2, <3>1 DEF Goes, UserFits
  <2>2. CASE u \notin users
    BY <1>1, <1>2, <2>2 DEF Goes, UserFits
  <2>3. QED BY <2>1, <2>2
<1>7. QED BY <1>3, <1>5, <1>6 DEF AccountsInv

\* An organization gets a slug, or the candidates are used up; it has no members.
LEMMA CreateOrganizationKeeps ==
    \A c \in Calls : AccountsInv /\ CreateOrganization(c) => AccountsInv'
<1> SUFFICES ASSUME NEW c \in Calls, AccountsInv, CreateOrganization(c) PROVE AccountsInv'
  OBVIOUS
<1>1. /\ call[c].at = "slug" /\ call[c].kind \in Creation /\ slug[c] = 0 /\ CallFits(c) /\ OrgFits(c)
      /\ call[c] \in Request /\ call[c].candidate \in 1..MaxSlugs /\ call[c].org = c
      /\ UNCHANGED <<users, role, workspaces, sessions, logins, lowered, outdated, errors>>
  BY DEF CreateOrganization, Stands, AccountsInv, AccountsTypeOK, CallFits, Request
<1>2. \/ Goes(c, "owner") /\ slug' = [slug EXCEPT ![c] = call[c].candidate] /\ halved' = halved
      \/ Goes(c, "slug") /\ slug' = slug /\ halved' = halved
      \/ Goes(c, "error") /\ slug' = slug /\ halved' = halved \cup {c}
  <2>1. CASE To(c, "owner") /\ slug' = [slug EXCEPT ![c] = call[c].candidate] /\ halved' = halved
    BY <2>1, ToGoes DEF Points
  <2>2. CASE To(c, "error") /\ slug' = slug /\ halved' = halved \cup {c}
    BY <2>2, ToGoes DEF Points
  <2>3. CASE /\ call[c].candidate < MaxSlugs /\ call' = [call EXCEPT ![c].candidate = @ + 1]
             /\ slug' = slug /\ halved' = halved
    <3> DEFINE n == call[c].candidate + 1
    <3>1. n \in 1..MaxSlugs
      BY <1>1, <2>3, AccountsAssumption DEF AccountsAssumption
    <3>2. call' = [call EXCEPT ![c].candidate = n]
      BY <2>3
    <3> HIDE DEF n
    <3>3. Goes(c, "slug")
      BY <1>1, <3>1, <3>2 DEF Goes, AccountsInv, AccountsTypeOK, Request
    <3>4. QED BY <2>3, <3>3
  <2>4. QED BY <2>1, <2>2, <2>3 DEF CreateOrganization
<1>3. slug' \in [Calls -> 0..MaxSlugs] /\ (\A d \in Calls : d # c => slug'[d] = slug[d])
      /\ (Goes(c, "owner") /\ slug' # slug => slug'[c] > 0)
  <2>1. slug \in [Calls -> 0..MaxSlugs] /\ MaxSlugs \in Nat
    BY AccountsAssumption DEF AccountsInv, AccountsTypeOK, AccountsAssumption
  <2>2. QED BY <1>1, <1>2, <2>1
<1>4. AccountsTypeOK'
  <2>1. halved' \subseteq Calls /\ call' \in [Calls -> Request]
    BY <1>2 DEF Goes, AccountsInv, AccountsTypeOK
  <2>2. QED BY <1>1, <1>3, <2>1, Zenon DEF AccountsInv, AccountsTypeOK, Request
<1>5. CallFits(c)' /\ OrgFits(c)'
  BY <1>1, <1>2, <1>3 DEF Goes, CallFits, OrgFits, Creation, InOrg
<1>6. ASSUME NEW d \in Calls PROVE CallFits(d)' /\ OrgFits(d)'
  <2>1. \A e \in Calls : e # c => call'[e] = call[e] /\ slug'[e] = slug[e] /\ role'[e] = role[e]
    BY <1>1, <1>2, <1>3 DEF Goes
  <2>2. halved \subseteq halved' /\ halved' \subseteq halved \cup {c}
    BY <1>2
  <2>3. d # c => CallFits(d)' /\ OrgFits(d)'
    BY <1>1, <2>1, <2>2, OthersStay
  <2>4. QED BY <1>5, <2>3
<1>7. ASSUME NEW u \in users' PROVE UserFits(u)'
  <2>1. UserFits(u)
    BY <1>1 DEF AccountsInv
  <2>2. QED BY <1>1, <1>2, <1>3, <2>1 DEF Goes, UserFits
<1>8. QED BY <1>4, <1>6, <1>7 DEF AccountsInv

\* The creator becomes the owner.
LEMMA CreateOwnerKeeps == \A c \in Calls : AccountsInv /\ CreateOwner(c) => AccountsInv'
<1> SUFFICES ASSUME NEW c \in Calls, AccountsInv, CreateOwner(c) PROVE AccountsInv'
  OBVIOUS
<1> DEFINE u0 == call[c].by
<1>1. /\ call[c].at = "owner" /\ call[c].kind \in Creation /\ CallFits(c) /\ OrgFits(c)
      /\ call[c] \in Request /\ u0 \in Users /\ call[c].org = c
      /\ UNCHANGED <<users, slug, workspaces, sessions, logins, halved, lowered, outdated, errors>>
  BY DEF CreateOwner, Stands, AccountsInv, AccountsTypeOK, CallFits, Request
<1>2. Goes(c, "workspace")
  BY ToGoes DEF CreateOwner, Points
<1>3. /\ role' \in [Calls -> [Users -> Roles]] /\ role'[c][u0] = "owner"
      /\ (\A d \in Calls : d # c => role'[d] = role[d]) /\ (\A u \in Users : u # u0 => role'[c][u] = role[c][u])
  <2>1. role[c][u0] = "none" /\ role \in [Calls -> [Users -> Roles]]
    BY <1>1 DEF OrgFits, AccountsInv, AccountsTypeOK
  <2>2. role' = [role EXCEPT ![c][u0] = "owner"]
    BY <2>1 DEF CreateOwner
  <2>3. QED BY <1>1, <2>1, <2>2 DEF Roles, Managers
<1>4. AccountsTypeOK'
  BY <1>1, <1>2, <1>3, Zenon DEF Goes, AccountsInv, AccountsTypeOK, Request
<1>5. CallFits(c)' /\ OrgFits(c)'
  BY <1>1, <1>2, <1>3 DEF Goes, CallFits, OrgFits, Creation, InOrg, Managers
<1>6. ASSUME NEW d \in Calls PROVE CallFits(d)' /\ OrgFits(d)'
  <2>1. \A e \in Calls : e # c => call'[e] = call[e] /\ slug'[e] = slug[e] /\ role'[e] = role[e]
    BY <1>1, <1>2, <1>3 DEF Goes
  <2>2. d # c => CallFits(d)' /\ OrgFits(d)'
    BY <1>1, <2>1, OthersStay
  <2>3. QED BY <1>5, <2>2
<1>7. ASSUME NEW u \in users' PROVE UserFits(u)'
  <2>1. UserFits(u) /\ u \in Users
    BY <1>1 DEF AccountsInv, AccountsTypeOK
  <2>2. slug[c] > 0
    BY <1>1 DEF CallFits
  <2>3. QED BY <1>1, <1>2, <1>3, <2>1, <2>2 DEF Goes, UserFits
<1>8. QED BY <1>4, <1>6, <1>7 DEF AccountsInv

\* The workspace of a new organization goes in.
LEMMA CreateWorkspaceKeeps == \A c \in Calls : AccountsInv /\ CreateWorkspace(c) => AccountsInv'
<1> SUFFICES ASSUME NEW c \in Calls, AccountsInv, CreateWorkspace(c) PROVE AccountsInv'
  OBVIOUS
<1>1. /\ call[c].at = "workspace" /\ call[c].kind \in Creation \cup {"create_workspace"}
      /\ CallFits(c) /\ OrgFits(c) /\ call[c] \in Request /\ call[c].org \in Calls
      /\ workspaces' = workspaces \cup {call[c].org}
      /\ UNCHANGED <<users, slug, role, sessions, logins, halved, lowered, outdated, errors>>
  BY DEF CreateWorkspace, Stands, AccountsInv, AccountsTypeOK, CallFits, Request
<1>2. PICK point \in {"session", "ok"} : Goes(c, point) /\ (call[c].kind # "register" => point = "ok")
  BY ToGoes DEF CreateWorkspace, Points
<1>3. AccountsTypeOK'
  <2>1. workspaces' \subseteq Calls /\ call' \in [Calls -> Request]
    BY <1>1, <1>2 DEF Goes, AccountsInv, AccountsTypeOK
  <2>2. QED BY <1>1, <2>1, Zenon DEF AccountsInv, AccountsTypeOK, Request
<1>4. slug[c] > 0 => call[c].kind \in Creation
  BY <1>1 DEF OrgFits
<1>5. CallFits(c)' /\ OrgFits(c)'
  BY <1>1, <1>2, <1>4 DEF Goes, CallFits, OrgFits, Creation, InOrg
<1>6. ASSUME NEW d \in Calls PROVE CallFits(d)' /\ OrgFits(d)'
  <2>1. \A e \in Calls : e # c => call'[e] = call[e]
    BY <1>2 DEF Goes
  <2>2. call'[c].at # "owner"
    BY <1>2 DEF Goes
  <2>3. d # c => CallFits(d)' /\ OrgFits(d)'
    BY <1>1, <2>1, <2>2, OthersStay
  <2>4. QED BY <1>5, <2>3
<1>7. ASSUME NEW u \in users' PROVE UserFits(u)'
  <2>1. UserFits(u)
    BY <1>1 DEF AccountsInv
  <2>2. QED BY <1>1, <1>2, <2>1 DEF Goes, UserFits
<1>8. QED BY <1>3, <1>6, <1>7 DEF AccountsInv

\* A session goes in, the last statement of a registration.
LEMMA CreateSessionKeeps == \A c \in Calls : AccountsInv /\ CreateSession(c) => AccountsInv'
<1> SUFFICES ASSUME NEW c \in Calls, AccountsInv, CreateSession(c) PROVE AccountsInv'
  OBVIOUS
<1>1. /\ call[c].at = "session" /\ call[c].kind \in {"register", "login"}
      /\ CallFits(c) /\ OrgFits(c) /\ call[c] \in Request
      /\ sessions' = sessions \cup {call[c].by} /\ call[c].by \in Users
      /\ UNCHANGED <<users, slug, role, workspaces, logins, halved, lowered, outdated, errors>>
  BY DEF CreateSession, Stands, AccountsInv, AccountsTypeOK, CallFits, Request
<1>2. Goes(c, "ok")
  BY ToGoes DEF CreateSession, Points
<1>3. AccountsTypeOK'
  <2>1. sessions' \subseteq Users /\ call' \in [Calls -> Request]
    BY <1>1, <1>2 DEF Goes, AccountsInv, AccountsTypeOK
  <2>2. QED BY <1>1, <2>1, Zenon DEF AccountsInv, AccountsTypeOK, Request
<1>4. CallFits(c)' /\ OrgFits(c)'
  BY <1>1, <1>2 DEF Goes, CallFits, OrgFits, Creation, InOrg
<1>5. ASSUME NEW d \in Calls PROVE CallFits(d)' /\ OrgFits(d)'
  <2>1. call'[c].at # "owner" /\ \A e \in Calls : e # c => call'[e] = call[e]
    BY <1>2 DEF Goes
  <2>2. d # c => CallFits(d)' /\ OrgFits(d)'
    BY <1>1, <2>1, OthersStay
  <2>3. QED BY <1>4, <2>2
<1>6. ASSUME NEW u \in users' PROVE UserFits(u)'
  <2>1. UserFits(u)
    BY <1>1 DEF AccountsInv
  <2>2. QED BY <1>1, <1>2, <2>1 DEF Goes, UserFits
<1>7. QED BY <1>3, <1>5, <1>6 DEF AccountsInv

\* A route reads the rank of its sender.
LEMMA CheckManagerKeeps == \A c \in Calls : AccountsInv /\ CheckManager(c) => AccountsInv'
<1> SUFFICES ASSUME NEW c \in Calls, AccountsInv, CheckManager(c) PROVE AccountsInv'
  OBVIOUS
<1> DEFINE rank == role[call[c].org][call[c].by]
           point == IF rank \notin Managers THEN "error"
                    ELSE IF call[c].kind = "add_member" THEN "find" ELSE "workspace"
<1>1. /\ call[c].at = "check" /\ call[c].kind \in InOrg /\ CallFits(c) /\ OrgFits(c)
      /\ call[c] \in Request /\ call[c].org \in Calls /\ call[c].by \in Users
      /\ call' = [call EXCEPT ![c].rank = rank, ![c].at = point]
      /\ UNCHANGED <<users, slug, role, workspaces, sessions, logins, halved, lowered, outdated, errors>>
  BY DEF CheckManager, AccountsInv, AccountsTypeOK, CallFits, Request
<1>2. rank \in Roles /\ point \in Points
  BY <1>1 DEF AccountsInv, AccountsTypeOK, Points
<1>3. rank \in Managers => call[call[c].org].at # "owner"
  BY <1>1 DEF AccountsInv, OrgFits, Managers
<1>4. /\ point \in {"error", "find", "workspace"} /\ (point # "error" => rank \in Managers)
      /\ (point = "find" => call[c].kind = "add_member")
  OBVIOUS
<1> HIDE DEF rank, point
<1>5. /\ call' \in [Calls -> Request] /\ (\A d \in Calls : d # c => call'[d] = call[d])
      /\ call'[c].at = point /\ call'[c].kind = call[c].kind /\ call'[c].by = call[c].by
      /\ call'[c].org = call[c].org /\ call'[c].as = call[c].as /\ call'[c].rank = rank
  BY <1>1, <1>2 DEF AccountsInv, AccountsTypeOK, Request
<1>6. AccountsTypeOK'
  BY <1>1, <1>5, Zenon DEF AccountsInv, AccountsTypeOK, Request
<1>7. slug[c] = 0 /\ call[c].org # c
  <2>1. slug[c] \in Nat /\ ~(slug[c] > 0)
    BY <1>1 DEF OrgFits, InOrg, Creation, AccountsInv, AccountsTypeOK
  <2>2. slug[call[c].org] > 0
    BY <1>1 DEF CallFits
  <2>3. QED BY <2>1, <2>2
<1>8. CallFits(c)' /\ OrgFits(c)'
  BY <1>1, <1>3, <1>4, <1>5, <1>7 DEF CallFits, OrgFits, Creation, InOrg
<1>9. ASSUME NEW d \in Calls PROVE CallFits(d)' /\ OrgFits(d)'
  <2>1. call'[c].at # "owner"
    BY <1>4, <1>5
  <2>2. d # c => CallFits(d)' /\ OrgFits(d)'
    BY <1>1, <1>5, <2>1, OthersStay
  <2>3. QED BY <1>8, <2>2
<1>10. ASSUME NEW u \in users' PROVE UserFits(u)'
  <2>1. UserFits(u)
    BY <1>1 DEF AccountsInv
  <2>2. QED BY <1>1, <1>5, <2>1 DEF UserFits, InOrg
<1>11. QED BY <1>6, <1>9, <1>10 DEF AccountsInv

\* The route looks for the membership it is to change.
LEMMA FindUserKeeps == \A c \in Calls : AccountsInv /\ FindUser(c) => AccountsInv'
<1> SUFFICES ASSUME NEW c \in Calls, AccountsInv, FindUser(c) PROVE AccountsInv'
  OBVIOUS
<1>1. /\ call[c].at = "find" /\ call[c].kind = "add_member" /\ CallFits(c) /\ OrgFits(c) /\ call[c] \in Request
      /\ UNCHANGED <<users, slug, role, workspaces, sessions, logins, halved, lowered, outdated, errors>>
  BY DEF FindUser, Stands, AccountsInv, AccountsTypeOK, Request
<1>2. PICK point \in {"insert", "error"} : Goes(c, point)
  BY ToGoes DEF FindUser, Points
<1>3. AccountsTypeOK'
  BY <1>1, <1>2, Zenon DEF Goes, AccountsInv, AccountsTypeOK, Request
<1>4. slug[c] = 0 /\ call[c].org # c
  <2>1. slug[c] \in Nat /\ ~(slug[c] > 0)
    BY <1>1 DEF OrgFits, Creation, AccountsInv, AccountsTypeOK
  <2>2. slug[call[c].org] > 0
    BY <1>1 DEF CallFits, InOrg
  <2>3. QED BY <2>1, <2>2
<1>5. CallFits(c)' /\ OrgFits(c)'
  BY <1>1, <1>2, <1>4 DEF Goes, CallFits, OrgFits, Creation, InOrg, Request
<1>6. ASSUME NEW d \in Calls PROVE CallFits(d)' /\ OrgFits(d)'
  <2>1. call'[c].at # "owner" /\ \A e \in Calls : e # c => call'[e] = call[e]
    BY <1>2 DEF Goes
  <2>2. d # c => CallFits(d)' /\ OrgFits(d)'
    BY <1>1, <2>1, OthersStay
  <2>3. QED BY <1>5, <2>2
<1>7. ASSUME NEW u \in users' PROVE UserFits(u)'
  <2>1. UserFits(u)
    BY <1>1 DEF AccountsInv
  <2>2. QED BY <1>1, <1>2, <2>1 DEF Goes, UserFits
<1>8. QED BY <1>3, <1>6, <1>7 DEF AccountsInv

\* A membership is written.  When it takes the last manager from an
\* organization, the sender is that manager, or is none any more.
LEMMA WritesKeep ==
    ASSUME AccountsInv, NEW c \in Calls, NEW point \in {"update", "ok"}, call[c].kind = "add_member",
           call[c].at \in {"insert", "update"}, Goes(c, point), Writes(c, call[c].as),
           UNCHANGED <<users, slug, workspaces, sessions, logins, halved, errors>>
    PROVE  AccountsInv'
<1>0. PICK o \in Calls : o = call[c].org
  BY DEF AccountsInv, AccountsTypeOK
<1> DEFINE v == call[c].whom
           as == call[c].as
           by == call[c].by
<1>1. /\ CallFits(c) /\ OrgFits(c) /\ call[c] \in Request /\ v \in Users /\ by \in Users
      /\ as \in {"admin", "member"} /\ as \in Roles /\ slug[o] > 0
      /\ call[c].rank \in Managers /\ call[o].at # "owner"
  BY <1>0 DEF AccountsInv, AccountsTypeOK, CallFits, InOrg, Request
<1>2. slug[c] = 0 /\ o # c
  <2>1. slug[c] \in Nat /\ ~(slug[c] > 0)
    BY <1>1 DEF OrgFits, Creation, AccountsInv, AccountsTypeOK
  <2>2. QED BY <1>1, <2>1
<1>3. /\ role' \in [Calls -> [Users -> Roles]] /\ role'[o][v] = as
      /\ (\A d \in Calls : d # o => role'[d] = role[d]) /\ (\A u \in Users : u # v => role'[o][u] = role[o][u])
  BY <1>0, <1>1 DEF Writes, AccountsInv, AccountsTypeOK
<1>4. /\ lowered' = IF (role[o][v] \in Managers /\ as \notin Managers) /\ by = v THEN lowered \cup {o} ELSE lowered
      /\ outdated' = IF role[o][by] \notin Managers THEN outdated \cup {o} ELSE outdated
  BY <1>0, <1>1 DEF Writes
<1> HIDE DEF v, as, by
<1>5. AccountsTypeOK'
  <2>1. lowered' \subseteq Calls /\ outdated' \subseteq Calls /\ call' \in [Calls -> Request]
    BY <1>1, <1>4 DEF Goes, AccountsInv, AccountsTypeOK
  <2>2. QED BY <1>3, <2>1, Zenon DEF AccountsInv, AccountsTypeOK, Request
<1>6. lowered \subseteq lowered' /\ outdated \subseteq outdated'
  BY <1>4
<1>7. CallFits(c)' /\ OrgFits(c)'
  <2>1. CallFits(c)'
    BY <1>0, <1>1, <1>2 DEF Goes, CallFits, Creation, InOrg, as
  <2>2. role'[c] = role[c]
    BY <1>2, <1>3
  <2>3. QED BY <1>1, <1>2, <2>1, <2>2 DEF OrgFits, Goes
<1>8. ASSUME NEW d \in Calls, d # c PROVE CallFits(d)'
  <2>1. CallFits(d) /\ call[d].org \in Calls /\ call'[d] = call[d] /\ call'[c].at # "owner"
    BY <1>8 DEF Goes, AccountsInv, AccountsTypeOK
  <2>2. call[d].org # c => call'[call[d].org] = call[call[d].org]
    BY <2>1 DEF Goes
  <2>3. QED BY <2>1, <2>2 DEF CallFits
<1>9. ASSUME NEW d \in Calls, d # c, d # o PROVE OrgFits(d)'
  <2>1. OrgFits(d) /\ call'[d] = call[d] /\ role'[d] = role[d]
    BY <1>3, <1>9 DEF Goes, AccountsInv
  <2>2. QED BY <1>6, <2>1 DEF OrgFits
<1>10. OrgFits(o)'
  <2>1. OrgFits(o) /\ call'[o] = call[o]
    BY <1>1, <1>2 DEF Goes, AccountsInv
  <2>2. (\E u \in Users : role'[o][u] \in Managers) \/ o \in halved \cup lowered' \cup outdated'
    <3>1. CASE o \in halved \cup lowered \cup outdated
      BY <1>6, <3>1
    <3>2. CASE \E u \in Users : role[o][u] \in Managers
      <4>1. PICK u \in Users : role[o][u] \in Managers
        BY <3>2
      <4>2. CASE u # v \/ as \in Managers
        BY <1>1, <1>3, <4>1, <4>2
      <4>3. CASE u = v /\ as \notin Managers
        <5>1. by = v => o \in lowered'
          BY <1>4, <4>1, <4>3
        <5>2. role[o][by] \notin Managers => o \in outdated'
          BY <1>4
        <5>3. by # v /\ role[o][by] \in Managers => role'[o][by] \in Managers
          BY <1>1, <1>3
        <5>4. QED BY <1>1, <5>1, <5>2, <5>3
      <4>4. QED BY <4>2, <4>3
    <3>3. QED BY <1>1, <2>1, <3>1, <3>2 DEF OrgFits
  <2>3. QED BY <1>1, <2>1, <2>2 DEF OrgFits
<1>11. ASSUME NEW u \in users' PROVE UserFits(u)'
  <2>1. UserFits(u) /\ u \in Users
    BY DEF AccountsInv, AccountsTypeOK
  <2>2. \A d \in Calls : role[d][u] # "none" => role'[d][u] # "none"
    BY <1>1, <1>3, <2>1
  <2>3. QED BY <2>1, <2>2 DEF Goes, UserFits
<1>12. QED BY <1>5, <1>7, <1>8, <1>9, <1>10, <1>11 DEF AccountsInv

\* A role changes; the rank the route read may be gone by then.
LEMMA UpdateMembershipKeeps ==
    \A c \in Calls : AccountsInv /\ UpdateMembershipRole(c) => AccountsInv'
<1> SUFFICES ASSUME NEW c \in Calls, AccountsInv, UpdateMembershipRole(c) PROVE AccountsInv'
  OBVIOUS
<1>1. Goes(c, "ok")
  BY ToGoes DEF UpdateMembershipRole, Points
<1>2. QED BY <1>1, WritesKeep DEF UpdateMembershipRole, Stands

\* A membership goes in.
LEMMA InsertMembershipKeeps == \A c \in Calls : AccountsInv /\ InsertMembership(c) => AccountsInv'
<1> SUFFICES ASSUME NEW c \in Calls, AccountsInv, InsertMembership(c) PROVE AccountsInv'
  OBVIOUS
<1>1. Goes(c, "update")
  BY ToGoes DEF InsertMembership, Points
<1>2. CASE Writes(c, call[c].as)
  BY <1>1, <1>2, WritesKeep DEF InsertMembership, Stands
<1>3. CASE UNCHANGED <<role, lowered, outdated>>
  <2>1. /\ call[c].at = "insert" /\ call[c].kind = "add_member" /\ CallFits(c) /\ OrgFits(c) /\ call[c] \in Request
        /\ UNCHANGED <<users, slug, workspaces, sessions, logins, halved, errors>>
    BY DEF InsertMembership, Stands, AccountsInv, AccountsTypeOK, Request
  <2>2. AccountsTypeOK'
    BY <1>1, <1>3, <2>1, Zenon DEF Goes, AccountsInv, AccountsTypeOK, Request
  <2>3. slug[c] = 0 /\ call[c].org # c
    <3>1. slug[c] \in Nat /\ ~(slug[c] > 0)
      BY <2>1 DEF OrgFits, Creation, AccountsInv, AccountsTypeOK
    <3>2. slug[call[c].org] > 0
      BY <2>1 DEF CallFits, InOrg
    <3>3. QED BY <3>1, <3>2
  <2>4. CallFits(c)' /\ OrgFits(c)'
    BY <1>1, <1>3, <2>1, <2>3 DEF Goes, CallFits, OrgFits, Creation, InOrg, Request
  <2>5. ASSUME NEW d \in Calls PROVE CallFits(d)' /\ OrgFits(d)'
    <3>1. call'[c].at # "owner" /\ \A e \in Calls : e # c => call'[e] = call[e]
      BY <1>1 DEF Goes
    <3>2. d # c => CallFits(d)' /\ OrgFits(d)'
      BY <1>3, <2>1, <3>1, OthersStay
    <3>3. QED BY <2>4, <3>2
  <2>6. ASSUME NEW u \in users' PROVE UserFits(u)'
    <3>1. UserFits(u)
      BY <2>1 DEF AccountsInv
    <3>2. QED BY <1>1, <1>3, <2>1, <3>1 DEF Goes, UserFits
  <2>7. QED BY <2>2, <2>5, <2>6 DEF AccountsInv
<1>4. QED BY <1>2, <1>3 DEF InsertMembership

\* A statement fails: what committed before it stays.
LEMMA StatementFailsKeeps == \A c \in Calls : AccountsInv /\ StatementFails(c) => AccountsInv'
<1> SUFFICES ASSUME NEW c \in Calls, AccountsInv, StatementFails(c) PROVE AccountsInv'
  OBVIOUS
<1>1. /\ call[c].at \notin {"new", "ok", "error"} /\ CallFits(c) /\ OrgFits(c) /\ call[c] \in Request
      /\ halved' = IF call[c].kind \in Creation /\ call[c].at # "user" THEN halved \cup {c} ELSE halved
      /\ UNCHANGED <<users, slug, role, workspaces, sessions, logins, lowered, outdated>>
  BY DEF StatementFails, AccountsInv, AccountsTypeOK, Request
<1>2. Goes(c, "error")
  BY ToGoes DEF StatementFails, Points
<1>3. errors' \in 0..MaxErrors
  BY AccountsAssumption DEF StatementFails, AccountsInv, AccountsTypeOK, AccountsAssumption
<1>4. AccountsTypeOK'
  <2>1. halved' \subseteq Calls /\ call' \in [Calls -> Request]
    BY <1>1, <1>2 DEF Goes, AccountsInv, AccountsTypeOK
  <2>2. QED BY <1>1, <1>3, <2>1, Zenon DEF AccountsInv, AccountsTypeOK, Request
<1>5. slug[c] > 0 => call[c].kind \in Creation /\ call[c].at # "user"
  BY <1>1 DEF OrgFits
<1>6. CallFits(c)' /\ OrgFits(c)'
  <2>1. CallFits(c)'
    <3>1. call[c].kind \in InOrg => slug[call[c].org] > 0
      BY <1>1 DEF CallFits
    <3>2. QED BY <1>1, <1>2, <3>1 DEF Goes, CallFits
  <2>2. QED BY <1>1, <1>2, <1>5, <2>1 DEF Goes, OrgFits
<1>7. ASSUME NEW d \in Calls PROVE CallFits(d)' /\ OrgFits(d)'
  <2>1. /\ call'[c].at # "owner" /\ \A e \in Calls : e # c => call'[e] = call[e]
        /\ halved \subseteq halved' /\ halved' \subseteq halved \cup {c}
    BY <1>1, <1>2 DEF Goes
  <2>2. d # c => CallFits(d)' /\ OrgFits(d)'
    BY <1>1, <2>1, OthersStay
  <2>3. QED BY <1>6, <2>2
<1>8. ASSUME NEW u \in users' PROVE UserFits(u)'
  <2>1. UserFits(u)
    BY <1>1 DEF AccountsInv
  <2>2. QED BY <1>1, <1>2, <2>1 DEF Goes, UserFits, Creation
<1>9. QED BY <1>4, <1>7, <1>8 DEF AccountsInv

\* The process ends, and with it every request under way.
LEMMA ProcessEndsKeeps == AccountsInv /\ ProcessEnds => AccountsInv'
<1> SUFFICES ASSUME AccountsInv, ProcessEnds PROVE AccountsInv'
  OBVIOUS
<1> DEFINE open == {c \in Calls : call[c].at \notin {"new", "ok", "error"}}
<1>1. /\ call' = [c \in Calls |-> IF c \in open THEN [call[c] EXCEPT !.at = "error"] ELSE call[c]]
      /\ halved' = halved \cup {c \in open : call[c].kind \in Creation /\ call[c].at # "user"}
      /\ UNCHANGED <<users, slug, role, workspaces, sessions, logins, lowered, outdated>>
  BY DEF ProcessEnds
<1>2. errors' \in 0..MaxErrors
  BY AccountsAssumption DEF ProcessEnds, AccountsInv, AccountsTypeOK, AccountsAssumption
<1>3. ASSUME NEW c \in Calls
      PROVE  /\ call[c] \in Request /\ call'[c] \in Request
             /\ call'[c].at = (IF c \in open THEN "error" ELSE call[c].at)
             /\ call'[c].kind = call[c].kind /\ call'[c].by = call[c].by /\ call'[c].org = call[c].org
             /\ call'[c].as = call[c].as /\ call'[c].rank = call[c].rank
  <2>1. call[c] \in Request
    BY DEF AccountsInv, AccountsTypeOK, Request
  <2>2. call'[c] = IF c \in open THEN [call[c] EXCEPT !.at = "error"] ELSE call[c]
    BY <1>1
  <2>3. QED BY <2>1, <2>2 DEF Request, Points
<1>4. AccountsTypeOK'
  <2>1. halved' \subseteq Calls
    BY <1>1 DEF AccountsInv, AccountsTypeOK
  <2>2. call' \in [Calls -> Request]
    BY <1>1, <1>3
  <2>3. QED BY <1>1, <1>2, <2>1, <2>2, Zenon DEF AccountsInv, AccountsTypeOK, Request
<1>5. \A c \in Calls : c \in open <=> call[c].at \notin {"new", "ok", "error"}
  OBVIOUS
<1>6. \A c \in Calls : c \in halved' <=>
         c \in halved \/ (c \in open /\ call[c].kind \in Creation /\ call[c].at # "user")
  BY <1>1
<1> HIDE DEF open
<1>7. ASSUME NEW c \in Calls PROVE CallFits(c)' /\ OrgFits(c)'
  <2>1. CallFits(c) /\ OrgFits(c) /\ call[c].org \in Calls
    BY <1>3 DEF AccountsInv, Request
  <2>2. call'[call[c].org].at = "owner" => call[call[c].org].at = "owner"
    BY <1>3, <2>1
  <2>3. CallFits(c)'
    BY <1>1, <1>3, <1>5, <1>6, <2>1, <2>2 DEF CallFits
  <2>4. OrgFits(c)'
    BY <1>1, <1>3, <1>5, <1>6, <2>1 DEF OrgFits
  <2>5. QED BY <2>3, <2>4
<1>8. ASSUME NEW u \in users' PROVE UserFits(u)'
  <2>1. UserFits(u)
    BY <1>1 DEF AccountsInv
  <2>2. CASE \E o \in Calls : slug[o] > 0 /\ role[o][u] # "none"
    BY <1>1, <2>2 DEF UserFits
  <2>3. CASE \E c \in Calls : /\ call[c].kind = "register" /\ call[c].by = u
                              /\ call[c].at \in {"slug", "owner"} \/ c \in halved
    <3>1. PICK c \in Calls : /\ call[c].kind = "register" /\ call[c].by = u
                             /\ call[c].at \in {"slug", "owner"} \/ c \in halved
      BY <2>3
    <3>2. c \in halved'
      BY <1>5, <1>6, <3>1 DEF Creation
    <3>3. QED BY <1>3, <3>1, <3>2 DEF UserFits
  <2>4. QED BY <2>1, <2>2, <2>3 DEF UserFits
<1>9. QED BY <1>4, <1>7, <1>8 DEF AccountsInv

\* The invariant of accounts holds for every number of users and requests.
THEOREM AccountsAreInductive == AccountsSpec => []AccountsInv
<1>1. ASSUME AccountsInv, [AccountsNext]_accountVars PROVE AccountsInv'
  <2>1. CASE UNCHANGED accountVars
    <3>1. UNCHANGED <<users, slug, role, workspaces, sessions, logins, call, halved, lowered, outdated, errors>>
      BY <2>1 DEF accountVars
    <3>2. AccountsTypeOK'
      BY <1>1, <3>1, Zenon DEF AccountsInv, AccountsTypeOK
    <3>3. QED BY <1>1, <3>1, <3>2 DEF AccountsInv, CallFits, OrgFits, UserFits
  <2>2. CASE AccountsNext
    <3>1. \/ NextWindow \/ ProcessEnds
          \/ \E c \in Calls, u \in Users : Register(c, u) \/ Login(c, u) \/ CreateOrg(c, u)
          \/ \E c \in Calls, u, v \in Users, o \in Orgs, as \in {"admin", "member"} :
                 AskInOrg(c, "add_member", u, o, v, as)
          \/ \E c \in Calls, u \in Users, o \in Orgs : AskInOrg(c, "create_workspace", u, o, u, "none")
          \/ \E c \in Calls : \/ CreateUser(c) \/ CreateOrganization(c) \/ CreateOwner(c) \/ CreateWorkspace(c)
                              \/ CreateSession(c) \/ CheckManager(c) \/ FindUser(c)
                              \/ InsertMembership(c) \/ UpdateMembershipRole(c) \/ StatementFails(c)
      BY <2>2 DEF AccountsNext
    <3>2. CASE NextWindow \/ ProcessEnds
      BY <1>1, <3>2, NextWindowKeeps, ProcessEndsKeeps
    <3>3. CASE \E c \in Calls, u \in Users : Register(c, u) \/ Login(c, u) \/ CreateOrg(c, u)
      BY <1>1, <3>3, RegisterKeeps, LoginKeeps, CreateOrgKeeps
    <3>4. CASE \E c \in Calls, u, v \in Users, o \in Orgs, as \in {"admin", "member"} :
                 AskInOrg(c, "add_member", u, o, v, as)
      <4>1. PICK c \in Calls, u \in Users, v \in Users, o \in Orgs, as \in {"admin", "member"} :
                   AskInOrg(c, "add_member", u, o, v, as)
        BY <3>4
      <4>2. "add_member" \in InOrg /\ as \in {"admin", "member", "none"} /\ as # "none"
        BY DEF InOrg
      <4>3. QED BY <1>1, <4>1, <4>2, AskInOrgKeeps
    <3>5. CASE \E c \in Calls, u \in Users, o \in Orgs : AskInOrg(c, "create_workspace", u, o, u, "none")
      <4>1. "create_workspace" \in InOrg /\ "none" \in {"admin", "member", "none"}
            /\ ("create_workspace" = "add_member" => "none" # "none")
        BY DEF InOrg
      <4>2. QED BY <1>1, <3>5, <4>1, AskInOrgKeeps
    <3>6. CASE \E c \in Calls : \/ CreateUser(c) \/ CreateOrganization(c) \/ CreateOwner(c) \/ CreateWorkspace(c)
                                \/ CreateSession(c) \/ CheckManager(c) \/ FindUser(c)
                                \/ InsertMembership(c) \/ UpdateMembershipRole(c) \/ StatementFails(c)
      BY <1>1, <3>6, CreateUserKeeps, CreateOrganizationKeeps, CreateOwnerKeeps, CreateWorkspaceKeeps,
         CreateSessionKeeps, CheckManagerKeeps, FindUserKeeps, InsertMembershipKeeps, UpdateMembershipKeeps,
         StatementFailsKeeps
    <3>7. QED BY <3>1, <3>2, <3>3, <3>4, <3>5, <3>6
  <2>3. QED BY <1>1, <2>1, <2>2
<1>2. QED BY <1>1, AccountsStart, PTL DEF AccountsSpec

\* An organization has an owner or an admin, and a workspace once its creation
\* was answered; a user is in an organization: unless a creation ended early, a
\* manager lowered themselves, or one wrote who no longer was a manager (server.ts,
\* registration, organizations and members).
THEOREM AccountsAlwaysHoldTogether == AccountsSpec => []AccountsHoldTogether
<1>1. ASSUME AccountsInv PROVE AccountsHoldTogether
  <2>1. ASSUME NEW o \in Orgs
        PROVE  /\ o \in workspaces \/ Under(o) \/ o \in halved
               /\ \/ \E u \in Users : role[o][u] \in Managers
                  \/ Under(o) \/ o \in halved \cup lowered \cup outdated
    <3>1. o \in Calls /\ slug[o] > 0 /\ OrgFits(o)
      BY <1>1 DEF Orgs, AccountsInv
    <3>2. QED BY <3>1 DEF OrgFits, Under
  <2>2. ASSUME NEW u \in users
        PROVE  \/ \E o \in Orgs : role[o][u] # "none"
               \/ \E c \in Calls : call[c].kind = "register" /\ call[c].by = u /\ (Under(c) \/ c \in halved)
    BY <1>1 DEF AccountsInv, UserFits, Under, Orgs
  <2>3. QED BY <2>1, <2>2 DEF AccountsHoldTogether
<1>2. QED BY <1>1, AccountsAreInductive, PTL

\* The type invariant of accounts.
THEOREM AccountTypesHold == AccountsSpec => []AccountsTypeOK
<1>1. AccountsInv => AccountsTypeOK
  BY DEF AccountsInv
<1>2. QED BY <1>1, AccountsAreInductive, PTL

(***************************************************************************)
(* The execution contract.                                                 *)
(***************************************************************************)

\* What is asked for, what a row records, what an agent has.
Asked == [profile : {"full", "ci", "-"}, mode : {"warn", "off", "-"}, limit : {"low", "high", "-"}]
Row == [config : Configs \cup {Nothing}, release : 0..MaxReleases]
Agent == [at : AgentPoints, run : Runs, row : Row, want : Asked, mode : Modes,
          config : Configs \cup {Nothing}, status : {"none", "queued", "failed", "complete"}]

\* The types, whole.
ContractTypes ==
    /\ contract \in [Runs -> Row]
    /\ runStatus \in [Runs -> {"none", "queued", "failed", "complete"}]
    /\ runJob \in [Runs -> {"none", "queued", "claimed"}]
    /\ agent \in [Agents -> Agent]
    /\ release \in [RunWorkers \cup {"api"} -> 1..MaxReleases]
    /\ promised \in [Runs -> Configs \cup {Nothing}]
    /\ unsigned \subseteq Runs /\ stale \subseteq Agents

\* What an agent has read is what the row has, unless the row was written since.
AgentFits(a) ==
    /\ runStatus[agent[a].run] # "none"
    /\ At(a, "prepare") /\ agent[a].row = Bare => agent[a].run \in unsigned
    /\ a \in RunWorkers /\ At(a, "prepare") => contract[agent[a].run] = agent[a].row \/ a \in stale
    /\ At(a, "execute") => contract[agent[a].run] = Signed(agent[a].config, Proc(a)) \/ a \in stale

\* A run nobody created is promised nothing; a row without a contract is known.
RunFits(r) ==
    /\ runStatus[r] = "none" => promised[r] = Nothing
    /\ runJob[r] # "none" => runStatus[r] # "none"
    /\ contract[r] = Bare /\ runStatus[r] # "none" => r \in unsigned
    /\ promised[r] = Nothing \/ contract[r].config = promised[r] \/ r \in unsigned

\* All that a step relies on.
ContractInv ==
    /\ ContractTypes /\ runStatus[First] # "none"
    /\ \A a \in Agents : AgentFits(a)
    /\ \A r \in Runs : RunFits(r)

\* The processes.
Procs == RunWorkers \cup {"api"}

\* A configuration may be asked for; the lack of one is none.
LEMMA ConfigsAreAsked ==
    /\ Nothing = [profile |-> "-", mode |-> "-", limit |-> "-"]
    /\ Configs \cup {Nothing} \subseteq Asked /\ Nothing \notin Configs /\ Wants \subseteq Asked
<1>1. Nothing = [profile |-> "-", mode |-> "-", limit |-> "-"]
  BY DEF Nothing, Fields
<1>2. QED BY <1>1, ExecutionContractAssumption DEF ExecutionContractAssumption, Configs, Asked

\* Whatever is asked for, the environment fills in the rest.
LEMMA FromEnvGivesAConfig ==
    ASSUME NEW raw \in Asked, NEW p \in Procs
    PROVE  FromEnv(raw, p) \in Configs
<1> DEFINE profile == Or(raw.profile, "full")
           preset == Preset(profile)
<1>1. EnvOf[p].mode \in {"warn", "off"} /\ EnvOf[p].limit \in {"low", "high"}
  BY ExecutionContractAssumption DEF ExecutionContractAssumption, Procs
<1>2. profile \in {"full", "ci"}
  BY DEF Asked, Or
<1>3. preset.mode \in {"-", "off"} /\ preset.limit = "-"
  BY ConfigsAreAsked DEF Preset
<1>4. FromEnv(raw, p) = [profile |-> profile, mode |-> Or(raw.mode, Or(preset.mode, EnvOf[p].mode)),
                         limit |-> Or(raw.limit, Or(preset.limit, EnvOf[p].limit))]
  BY DEF FromEnv
<1> HIDE DEF profile, preset
<1>5. QED BY <1>1, <1>2, <1>3, <1>4 DEF Asked, Configs, Or

\* A row, with or without a contract, gives a configuration.
LEMMA PersistedIsAConfig ==
    ASSUME NEW row \in Row, NEW p \in Procs
    PROVE  Persisted(row, p) \in Configs
BY FromEnvGivesAConfig, ConfigsAreAsked DEF Persisted, Row

\* So do a row and what a request asks for.
LEMMA RequestedIsAConfig ==
    ASSUME NEW row \in Row, NEW want \in Asked, NEW p \in Procs
    PROVE  Requested(row, want, p) \in Configs
<1>1. CASE want = Nothing
  BY <1>1, PersistedIsAConfig DEF Requested
<1>2. CASE want # Nothing /\ want.profile # "-"
  BY <1>2, FromEnvGivesAConfig DEF Requested
<1>3. CASE want # Nothing /\ want.profile = "-"
  <2> DEFINE base == Persisted(row, p)
  <2>1. base \in Configs
    BY PersistedIsAConfig
  <2>2. Requested(row, want, p) = FromBase(want, base)
    BY <1>3 DEF Requested
  <2> HIDE DEF base
  <2>3. FromBase(want, base) = [profile |-> Or(want.profile, base.profile), mode |-> Or(want.mode, base.mode),
                                limit |-> Or(want.limit, base.limit)]
    BY DEF FromBase, Fields
  <2>4. QED BY <2>1, <2>2, <2>3 DEF Asked, Configs, Or
<1>4. QED BY <1>1, <1>2, <1>3

\* The builder only turns a mode off.
LEMMA BuilderGivesAConfig == \A config \in Configs : Builder(config) \in Configs
BY DEF Builder, Configs

\* A signed configuration is a row that is told from one without a contract.
LEMMA SignedIsARow ==
    ASSUME ContractInv, NEW config \in Configs \cup {Nothing}, NEW p \in Procs
    PROVE  /\ Signed(config, p) \in Row /\ Signed(config, p) # Bare
           /\ Signed(config, p).config = config
<1>1. release[p] \in 1..MaxReleases
  BY DEF ContractInv, ContractTypes, Procs
<1>2. QED BY <1>1, ExecutionContractAssumption DEF ExecutionContractAssumption, Signed, Row, Bare

\* A row without a contract is a row.
LEMMA BareIsARow == Bare \in Row
BY ExecutionContractAssumption DEF ExecutionContractAssumption, Bare, Row

\* An agent that has nothing to do is an agent, wherever it rests.
LEMMA IdlingFits ==
    /\ Idling \in Agent /\ \A point \in AgentPoints : [Idling EXCEPT !.at = point] \in Agent
    /\ Idling.run = First /\ Idling.at = "idle"
    /\ \A point \in AgentPoints : /\ [Idling EXCEPT !.at = point].run = First
                                  /\ [Idling EXCEPT !.at = point].at = point
<1>1. Idling \in Agent
  BY BareIsARow, ConfigsAreAsked, ExecutionContractAssumption
     DEF ExecutionContractAssumption, Idling, Agent, AgentPoints, Modes
<1>2. Idling.run = First /\ Idling.at = "idle"
  BY DEF Idling
<1>3. QED BY <1>1, <1>2 DEF Agent

\* Requests run in the API process, and every worker in its own.
LEMMA ProcsOfAgents ==
    \A a \in Agents : /\ Proc(a) \in Procs /\ (a \in ApiCalls => Proc(a) = "api")
                      /\ (a \in RunWorkers => Proc(a) = a /\ a \notin ApiCalls /\ a # "api")
BY ExecutionContractAssumption DEF ExecutionContractAssumption, Agents, Proc, Procs

\* An agent that takes no part in a step still fits: whoever writes its row marks it.
LEMMA OthersFit ==
    ASSUME ContractInv, NEW d \in Agents, agent'[d] = agent[d], release'[Proc(d)] = release[Proc(d)],
           runStatus'[agent[d].run] # "none", unsigned \subseteq unsigned', d \in stale => d \in stale',
           contract'[agent[d].run] = contract[agent[d].run] \/ (d \in Readers(agent[d].run) => d \in stale')
    PROVE  AgentFits(d)'
<1>1. AgentFits(d)
  BY DEF ContractInv
<1>2. (At(d, "execute"))' = At(d, "execute") /\ (At(d, "prepare"))' = At(d, "prepare")
  BY DEF At
<1>3. Signed(agent[d].config, Proc(d))' = Signed(agent[d].config, Proc(d))
  BY DEF Signed
<1>4. At(d, "execute") \/ (d \in RunWorkers /\ At(d, "prepare")) => d \in Readers(agent[d].run)
  BY DEF Readers
<1>5. (At(d, "prepare") /\ agent[d].row = Bare => agent[d].run \in unsigned)'
  BY <1>1, <1>2 DEF AgentFits
<1>6. (d \in RunWorkers /\ At(d, "prepare") => contract[agent[d].run] = agent[d].row \/ d \in stale)'
  BY <1>1, <1>2, <1>4 DEF AgentFits
<1>7. (At(d, "execute") => contract[agent[d].run] = Signed(agent[d].config, Proc(d)) \/ d \in stale)'
  BY <1>1, <1>2, <1>3, <1>4 DEF AgentFits
<1>8. QED BY <1>5, <1>6, <1>7, Zenon DEF AgentFits

\* An agent that neither executes nor has a row to prepare fits wherever it is.
LEMMA RestingFits ==
    ASSUME NEW a \in Agents, runStatus'[agent'[a].run] # "none",
           agent'[a].at \notin {"prepare", "execute"}
    PROVE  AgentFits(a)'
BY DEF AgentFits, At

\* One run, with the contract of the first release or none, and nobody at work.
LEMMA ContractStart == ContractInit => ContractInv
<1> SUFFICES ASSUME ContractInit PROVE ContractInv
  OBVIOUS
<1>1. PICK row \in {Bare, [config |-> FromEnv(Nothing, "api"), release |-> 1]}, queued \in BOOLEAN :
           /\ contract = [r \in Runs |-> IF r = First THEN row ELSE Bare]
           /\ unsigned = IF row = Bare THEN {First} ELSE {}
           /\ runStatus = [r \in Runs |-> IF r # First THEN "none"
                                          ELSE IF queued THEN "queued" ELSE "failed"]
           /\ runJob = [r \in Runs |-> IF r = First /\ queued THEN "queued" ELSE "none"]
  BY Zenon DEF ContractInit
<1>2. /\ release = [p \in Procs |-> 1] /\ agent = [a \in Agents |-> Idling]
      /\ promised = [r \in Runs |-> Nothing] /\ stale = {}
  BY Zenon DEF ContractInit, Procs
<1>3. First \in Runs /\ 1 \in 1..MaxReleases /\ 1 \in 0..MaxReleases
  BY ExecutionContractAssumption DEF ExecutionContractAssumption
<1>4. FromEnv(Nothing, "api") \in Configs
  BY FromEnvGivesAConfig, ConfigsAreAsked DEF Procs
<1>5. row \in Row
  BY <1>3, <1>4, BareIsARow DEF Row
<1>6. contract \in [Runs -> Row]
  BY <1>1, <1>5, BareIsARow
<1>7. agent \in [Agents -> Agent]
  BY <1>2, IdlingFits
<1>8. ContractTypes
  <2>1. runStatus \in [Runs -> {"none", "queued", "failed", "complete"}]
    BY <1>1
  <2>2. runJob \in [Runs -> {"none", "queued", "claimed"}]
    BY <1>1
  <2>3. release \in [Procs -> 1..MaxReleases]
    BY <1>2, <1>3
  <2>4. promised \in [Runs -> Configs \cup {Nothing}]
    BY <1>2
  <2>5. unsigned \subseteq Runs /\ stale \subseteq Agents
    BY <1>1, <1>2, <1>3
  <2>6. QED BY <1>6, <1>7, <2>1, <2>2, <2>3, <2>4, <2>5, Zenon DEF ContractTypes, Procs
<1>9. runStatus[First] # "none"
  BY <1>1, <1>3
<1>10. ASSUME NEW a \in Agents PROVE AgentFits(a)
  BY <1>2, <1>9, IdlingFits DEF AgentFits, At
<1>11. ASSUME NEW r \in Runs PROVE RunFits(r)
  BY <1>1, <1>2 DEF RunFits
<1>12. QED BY <1>8, <1>9, <1>10, <1>11, Zenon DEF ContractInv

\* A step changes one agent.
LEMMA StepsAreTyped ==
    ASSUME ContractInv, NEW a \in Agents, NEW changes \in Agent, Step(a, changes)
    PROVE  /\ agent' \in [Agents -> Agent] /\ agent'[a] = changes
           /\ \A d \in Agents : d # a => agent'[d] = agent[d]
BY DEF Step, ContractInv, ContractTypes

\* An agent that leaves rests.
LEMMA LeavingRests ==
    ASSUME ContractInv, NEW a \in Agents, Leave(a)
    PROVE  /\ agent' \in [Agents -> Agent] /\ agent'[a].run = First /\ agent'[a].at \in {"idle", "done"}
           /\ \A d \in Agents : d # a => agent'[d] = agent[d]
<1> DEFINE point == IF a \in ApiCalls THEN "done" ELSE "idle"
<1>1. point \in AgentPoints /\ point \in {"idle", "done"}
  BY DEF AgentPoints
<1>2. Step(a, [Idling EXCEPT !.at = point])
  BY DEF Leave
<1> HIDE DEF point
<1>3. QED BY <1>1, <1>2, IdlingFits, StepsAreTyped

\* A step of one agent, about at most one run.
LEMMA OneStepKeeps ==
    ASSUME ContractInv, NEW a \in Agents, NEW r \in Runs,
           agent' \in [Agents -> Agent], \A d \in Agents : d # a => agent'[d] = agent[d],
           contract' \in [Runs -> Row], runStatus' \in [Runs -> {"none", "queued", "failed", "complete"}],
           runJob' \in [Runs -> {"none", "queued", "claimed"}],
           promised' \in [Runs -> Configs \cup {Nothing}],
           release' \in [Procs -> 1..MaxReleases],
           \A d \in Agents : d # a => release'[Proc(d)] = release[Proc(d)],
           unsigned \subseteq unsigned', unsigned' \subseteq Runs,
           stale \ {a} \subseteq stale', stale' \subseteq Agents,
           \A s \in Runs : s # r => /\ contract'[s] = contract[s] /\ promised'[s] = promised[s]
                                    /\ runJob'[s] = runJob[s] /\ runStatus'[s] = runStatus[s],
           runStatus[r] # "none" => runStatus'[r] # "none",
           contract'[r] = contract[r] \/ runStatus[r] = "none" \/ Readers(r) \ {a} \subseteq stale',
           runStatus'[First] # "none" => AgentFits(a)', RunFits(r)'
    PROVE  ContractInv'
<1>1. ContractTypes'
  BY Zenon DEF ContractTypes, Procs
<1>2. \A d \in Agents : agent[d].run \in Runs /\ runStatus[agent[d].run] # "none"
  BY DEF ContractInv, ContractTypes, AgentFits, Agent
<1>3. runStatus'[First] # "none"
  BY ExecutionContractAssumption DEF ExecutionContractAssumption, ContractInv
<1>4. ASSUME NEW d \in Agents PROVE AgentFits(d)'
  <2>1. CASE d # a
    <3>1. runStatus'[agent[d].run] # "none" /\ (d \in stale => d \in stale')
      BY <1>2, <2>1
    <3>2. contract'[agent[d].run] = contract[agent[d].run]
            \/ (d \in Readers(agent[d].run) => d \in stale')
      BY <1>2, <2>1
    <3>3. QED BY <2>1, <3>1, <3>2, OthersFit
  <2>2. CASE d = a
    BY <1>3, <2>2
  <2>3. QED BY <2>1, <2>2
<1>5. ASSUME NEW s \in Runs PROVE RunFits(s)'
  <2>1. RunFits(s)
    BY DEF ContractInv
  <2>2. CASE s # r
    BY <2>1, <2>2 DEF RunFits
  <2>3. CASE s = r
    BY <2>3 DEF RunFits
  <2>4. QED BY <2>2, <2>3
<1>6. QED BY <1>1, <1>3, <1>4, <1>5, Zenon DEF ContractInv

\* A new run is signed, and executed by its request or queued.
LEMMA StartKeeps ==
    \A a \in ApiCalls, r \in Runs, want \in Wants, profile \in {"default", "builder", "queued"} :
        ContractInv /\ Start(a, r, want, profile) => ContractInv'
<1> SUFFICES ASSUME NEW a \in ApiCalls, NEW r \in Runs, NEW want \in Wants,
                    NEW profile \in {"default", "builder", "queued"},
                    ContractInv, Start(a, r, want, profile)
             PROVE  ContractInv'
  OBVIOUS
<1>1. a \in Agents /\ Proc(a) = "api" /\ "api" \in Procs
  BY ProcsOfAgents DEF Agents, Procs
<1>2. PICK config \in Configs : config = IF profile = "builder" THEN Builder(Requested(Bare, want, "api"))
                                         ELSE Requested(Bare, want, "api")
  BY <1>1, ConfigsAreAsked, BareIsARow, RequestedIsAConfig, BuilderGivesAConfig
<1> DEFINE row == Signed(config, "api")
<1>3. /\ runStatus[r] = "none"
      /\ contract' = [contract EXCEPT ![r] = row]
      /\ runStatus' = [runStatus EXCEPT ![r] = "queued"]
      /\ promised' = [promised EXCEPT ![r] = config]
      /\ \/ Leave(a) /\ runJob' = [runJob EXCEPT ![r] = "queued"]
         \/ /\ Step(a, [Idling EXCEPT !.at = "execute", !.run = r, !.config = config])
            /\ runJob' = runJob
      /\ release' = release /\ unsigned' = unsigned /\ stale' = stale
  BY <1>2 DEF Start
<1>4. row \in Row /\ row # Bare /\ row.config = config
  BY <1>1, <1>2, SignedIsARow
<1>5. row' = row
  BY <1>3 DEF Signed
<1> HIDE DEF row
<1>6. ContractTypes /\ runStatus[First] # "none"
  BY DEF ContractInv
<1>7. /\ agent' \in [Agents -> Agent] /\ \A d \in Agents : d # a => agent'[d] = agent[d]
      /\ \/ agent'[a].at \notin {"prepare", "execute"} /\ agent'[a].run = First
         \/ agent'[a].at = "execute" /\ agent'[a].run = r /\ agent'[a].config = config
  <2>1. CASE Leave(a)
    BY <1>1, <2>1, LeavingRests
  <2>2. CASE Step(a, [Idling EXCEPT !.at = "execute", !.run = r, !.config = config])
    <3> DEFINE changes == [Idling EXCEPT !.at = "execute", !.run = r, !.config = config]
    <3>1. changes \in Agent /\ changes.at = "execute" /\ changes.run = r /\ changes.config = config
      BY IdlingFits DEF Agent, AgentPoints
    <3> HIDE DEF changes
    <3>2. QED BY <1>1, <2>2, <3>1, StepsAreTyped DEF changes
  <2>3. QED BY <1>3, <2>1, <2>2
<1>8. contract' \in [Runs -> Row] /\ promised' \in [Runs -> Configs \cup {Nothing}]
  BY <1>3, <1>4, <1>6 DEF ContractTypes
<1>9. /\ runStatus' \in [Runs -> {"none", "queued", "failed", "complete"}]
      /\ runJob' \in [Runs -> {"none", "queued", "claimed"}]
  BY <1>3, <1>6 DEF ContractTypes
<1>10. /\ contract'[r] = row /\ runStatus'[r] = "queued" /\ promised'[r] = config
       /\ \A s \in Runs : s # r => /\ contract'[s] = contract[s] /\ runStatus'[s] = runStatus[s]
                                   /\ promised'[s] = promised[s] /\ runJob'[s] = runJob[s]
  BY <1>3, <1>6 DEF ContractTypes
<1>11. runStatus'[First] # "none" => AgentFits(a)'
  <2>1. CASE agent'[a].at = "execute"
    <3>1. agent'[a].run = r /\ agent'[a].config = config
      BY <1>7, <2>1
    <3>2. Signed(agent[a].config, Proc(a))' = row
      BY <1>1, <1>5, <3>1 DEF row, Signed
    <3>3. QED BY <1>10, <2>1, <3>1, <3>2 DEF AgentFits, At
  <2>2. CASE agent'[a].at # "execute"
    BY <1>1, <1>7, <2>2, RestingFits
  <2>3. QED BY <2>1, <2>2
<1>12. RunFits(r)'
  BY <1>4, <1>10 DEF RunFits
<1>13. /\ unsigned' = unsigned /\ unsigned \subseteq Runs /\ stale' = stale /\ stale \subseteq Agents
       /\ release' = release /\ release \in [Procs -> 1..MaxReleases]
  BY <1>3, <1>6, Zenon DEF ContractTypes, Procs
<1>14. QED BY <1>1, <1>3, <1>7, <1>8, <1>9, <1>10, <1>11, <1>12, <1>13, OneStepKeeps

\* A resume reads the row, and knows from it whether there was a contract.
LEMMA ReadForResumeKeeps ==
    \A a \in ApiCalls, r \in Runs, want \in Wants, mode \in Modes :
        ContractInv /\ ReadForResume(a, r, want, mode) => ContractInv'
<1> SUFFICES ASSUME NEW a \in ApiCalls, NEW r \in Runs, NEW want \in Wants, NEW mode \in Modes,
                    ContractInv, ReadForResume(a, r, want, mode)
             PROVE  ContractInv'
  OBVIOUS
<1> DEFINE changes == [Idling EXCEPT !.at = "prepare", !.run = r, !.row = contract[r], !.want = want,
                                     !.mode = mode, !.status = runStatus[r]]
<1>1. a \in Agents /\ a \notin RunWorkers
  BY ProcsOfAgents DEF Agents
<1>2. /\ runStatus[r] # "none" /\ Step(a, changes)
      /\ UNCHANGED <<contract, runStatus, runJob, release, promised, unsigned, stale>>
  BY Zenon DEF ReadForResume
<1>3. ContractTypes /\ contract[r] \in Row /\ RunFits(r)
  BY DEF ContractInv, ContractTypes
<1>4. runStatus[r] \in {"none", "queued", "failed", "complete"} /\ want \in Asked
  BY <1>3, ConfigsAreAsked DEF ContractTypes
<1>5. changes \in Agent /\ changes.at = "prepare" /\ changes.run = r /\ changes.row = contract[r]
  BY <1>3, <1>4, IdlingFits DEF Agent, AgentPoints
<1> HIDE DEF changes
<1>6. /\ agent' \in [Agents -> Agent] /\ agent'[a] = changes
      /\ \A d \in Agents : d # a => agent'[d] = agent[d]
  BY <1>1, <1>2, <1>5, StepsAreTyped
<1>7. AgentFits(a)'
  BY <1>1, <1>2, <1>3, <1>5, <1>6 DEF AgentFits, RunFits, At
<1>8. RunFits(r)'
  BY <1>2, <1>3 DEF RunFits
<1>9. /\ contract \in [Runs -> Row] /\ runStatus \in [Runs -> {"none", "queued", "failed", "complete"}]
      /\ runJob \in [Runs -> {"none", "queued", "claimed"}] /\ promised \in [Runs -> Configs \cup {Nothing}]
      /\ release \in [Procs -> 1..MaxReleases] /\ unsigned \subseteq Runs /\ stale \subseteq Agents
  BY <1>3, Zenon DEF ContractTypes, Procs
<1>10. QED BY <1>1, <1>2, <1>6, <1>7, <1>8, <1>9, OneStepKeeps

\* The types, one by one.
LEMMA TypesApart ==
    ContractInv =>
        /\ contract \in [Runs -> Row] /\ runStatus \in [Runs -> {"none", "queued", "failed", "complete"}]
        /\ runJob \in [Runs -> {"none", "queued", "claimed"}] /\ promised \in [Runs -> Configs \cup {Nothing}]
        /\ agent \in [Agents -> Agent]
        /\ release \in [Procs -> 1..MaxReleases] /\ unsigned \subseteq Runs /\ stale \subseteq Agents
BY Zenon DEF ContractInv, ContractTypes, Procs

\* A row is rewritten behind the back of its readers, which are marked.
LEMMA RewriteMarks ==
    ASSUME ContractInv, NEW a \in Agents, NEW r \in Runs, NEW row \in Row, Rewrite(a, r, row)
    PROVE  /\ contract' \in [Runs -> Row] /\ contract'[r] = row
           /\ \A s \in Runs : s # r => contract'[s] = contract[s]
           /\ stale \subseteq stale' /\ stale' \subseteq Agents /\ Readers(r) \ {a} \subseteq stale'
BY TypesApart DEF Rewrite, Readers

\* What an agent has is of its type, and it fits.
LEMMA AgentIsAnAgent ==
    ASSUME ContractInv, NEW a \in Agents
    PROVE  /\ agent[a] \in Agent /\ agent[a].run \in Runs /\ agent[a].row \in Row /\ agent[a].want \in Asked
           /\ agent[a].config \in Configs \cup {Nothing} /\ AgentFits(a) /\ runStatus[agent[a].run] # "none"
BY DEF ContractInv, ContractTypes, Agent, AgentFits

\* A resume signs a row without a contract, and refuses one that does not match.
LEMMA PrepareResumeKeeps == \A a \in ApiCalls : ContractInv /\ PrepareResume(a) => ContractInv'
<1> SUFFICES ASSUME NEW a \in ApiCalls, ContractInv, PrepareResume(a) PROVE ContractInv'
  OBVIOUS
<1>1. a \in Agents /\ Proc(a) = "api" /\ "api" \in Procs
  BY ProcsOfAgents DEF Agents, Procs
<1>2. PICK row \in Row, r \in Runs : row = agent[a].row /\ r = agent[a].run
  BY <1>1, AgentIsAnAgent
<1>3. PICK signed \in Row : signed = Signed(Persisted(row, "api"), "api") /\ signed # Bare
  BY <1>1, PersistedIsAConfig, SignedIsARow
<1>4. /\ UNCHANGED <<runStatus, runJob, release, promised, unsigned>> /\ At(a, "prepare")
      /\ \/ Leave(a) /\ UNCHANGED <<contract, stale>>
         \/ /\ \/ Rewrite(a, r, signed) /\ row = Bare
               \/ UNCHANGED <<contract, stale>>
            /\ \E read \in Row : Step(a, [agent[a] EXCEPT !.at = "decide", !.row = read])
  <2>1. CASE ~Matches(row, "api")
    BY <1>2, <1>3, <2>1 DEF PrepareResume
  <2>2. CASE Matches(row, "api")
    <3>1. Step(a, [agent[a] EXCEPT !.at = "decide", !.row = IF NeedsNormalization(row) THEN signed ELSE row])
      BY <1>2, <1>3, <2>2 DEF PrepareResume
    <3>2. (IF NeedsNormalization(row) THEN signed ELSE row) \in Row
      OBVIOUS
    <3>3. IF NeedsNormalization(row) THEN Rewrite(a, r, signed) ELSE UNCHANGED <<contract, stale>>
      BY <1>2, <1>3, <2>2 DEF PrepareResume
    <3>4. At(a, "prepare") /\ UNCHANGED <<runStatus, runJob, release, promised, unsigned>>
      BY DEF PrepareResume
    <3>5. (Rewrite(a, r, signed) /\ row = Bare) \/ UNCHANGED <<contract, stale>>
      BY <3>3 DEF NeedsNormalization, HasContract
    <3>6. QED BY <3>1, <3>2, <3>4, <3>5
  <2>3. QED BY <2>1, <2>2
<1>5. /\ contract' \in [Runs -> Row] /\ \A s \in Runs : s # r => contract'[s] = contract[s]
      /\ stale \subseteq stale' /\ stale' \subseteq Agents
      /\ contract'[r] = contract[r] \/ (contract'[r] # Bare /\ r \in unsigned /\ Readers(r) \ {a} \subseteq stale')
  <2>1. CASE Rewrite(a, r, signed) /\ row = Bare
    <3>1. r \in unsigned
      BY <1>1, <1>2, <1>4, <2>1, AgentIsAnAgent DEF AgentFits
    <3>2. QED BY <1>1, <1>3, <2>1, <3>1, RewriteMarks
  <2>2. CASE UNCHANGED <<contract, stale>>
    BY <2>2, TypesApart
  <2>3. QED BY <1>4, <2>1, <2>2
<1>6. /\ agent' \in [Agents -> Agent] /\ \A d \in Agents : d # a => agent'[d] = agent[d]
      /\ agent'[a].at \notin {"prepare", "execute"} /\ agent'[a].run \in {r, First}
  <2>1. CASE Leave(a)
    BY <1>1, <2>1, LeavingRests
  <2>2. CASE \E read \in Row : Step(a, [agent[a] EXCEPT !.at = "decide", !.row = read])
    <3> PICK read \in Row : Step(a, [agent[a] EXCEPT !.at = "decide", !.row = read])
      BY <2>2
    <3> DEFINE changes == [agent[a] EXCEPT !.at = "decide", !.row = read]
    <3>1. agent[a] \in Agent
      BY <1>1, AgentIsAnAgent
    <3>2. changes \in Agent /\ changes.at = "decide" /\ changes.run = r
      BY <1>2, <3>1 DEF Agent, AgentPoints
    <3> HIDE DEF changes
    <3>3. QED BY <1>1, <3>2, StepsAreTyped DEF changes
  <2>3. QED BY <1>4, <2>1, <2>2
<1>7. runStatus'[First] # "none" => AgentFits(a)'
  <2>1. runStatus'[r] # "none"
    BY <1>1, <1>2, <1>4, AgentIsAnAgent
  <2>2. QED BY <1>1, <1>6, <2>1, RestingFits
<1>8. RunFits(r)'
  <2>1. RunFits(r)
    BY DEF ContractInv
  <2>2. QED BY <1>4, <1>5, <2>1 DEF RunFits
<1>9. QED BY <1>1, <1>4, <1>5, <1>6, <1>7, <1>8, TypesApart, OneStepKeeps

\* A resume with another configuration is refused, overrides or forks.
LEMMA DecideResumeKeeps == \A a \in ApiCalls : ContractInv /\ DecideResume(a) => ContractInv'
<1> SUFFICES ASSUME NEW a \in ApiCalls, ContractInv, DecideResume(a) PROVE ContractInv'
  OBVIOUS
<1>1. a \in Agents /\ Proc(a) = "api" /\ "api" \in Procs
  BY ProcsOfAgents DEF Agents, Procs
<1>2. PICK r \in Runs : r = agent[a].run
  BY <1>1, AgentIsAnAgent
<1>3. PICK wanted \in Configs : wanted = Requested(agent[a].row, agent[a].want, "api")
  BY <1>1, AgentIsAnAgent, RequestedIsAConfig
<1>4. PICK signed \in Row : signed = Signed(wanted, "api") /\ signed # Bare /\ signed.config = wanted
  BY <1>1, SignedIsARow
<1> DEFINE changes == [agent[a] EXCEPT !.at = "queue", !.config = wanted, !.row = Bare, !.want = Nothing]
<1>5. /\ UNCHANGED <<runStatus, runJob, release, unsigned>>
      /\ \/ Leave(a) /\ UNCHANGED <<contract, promised, stale>>
         \/ /\ \/ Rewrite(a, r, signed) /\ promised' = [promised EXCEPT ![r] = wanted]
               \/ UNCHANGED <<contract, promised, stale>>
            /\ Step(a, changes)
  BY <1>2, <1>3, <1>4, Zenon DEF DecideResume
<1>6. agent[a] \in Agent /\ Bare \in Row /\ Nothing \in Asked /\ runStatus[r] # "none"
  BY <1>1, <1>2, AgentIsAnAgent, BareIsARow, ConfigsAreAsked
<1>7. changes \in Agent /\ changes.at = "queue" /\ changes.run = r
  BY <1>2, <1>6 DEF Agent, AgentPoints
<1> HIDE DEF changes
<1>8. /\ agent' \in [Agents -> Agent] /\ \A d \in Agents : d # a => agent'[d] = agent[d]
      /\ agent'[a].at \notin {"prepare", "execute"} /\ agent'[a].run \in {r, First}
  <2>1. CASE Leave(a)
    BY <1>1, <2>1, LeavingRests
  <2>2. CASE Step(a, changes)
    BY <1>1, <1>7, <2>2, StepsAreTyped
  <2>3. QED BY <1>5, <2>1, <2>2
<1>9. /\ contract' \in [Runs -> Row] /\ promised' \in [Runs -> Configs \cup {Nothing}]
      /\ \A s \in Runs : s # r => contract'[s] = contract[s] /\ promised'[s] = promised[s]
      /\ stale \subseteq stale' /\ stale' \subseteq Agents
      /\ \/ contract'[r] = contract[r] /\ promised'[r] = promised[r]
         \/ contract'[r] = signed /\ promised'[r] = wanted /\ Readers(r) \ {a} \subseteq stale'
  <2>1. CASE Rewrite(a, r, signed) /\ promised' = [promised EXCEPT ![r] = wanted]
    BY <1>1, <2>1, RewriteMarks, TypesApart
  <2>2. CASE UNCHANGED <<contract, promised, stale>>
    BY <2>2, TypesApart
  <2>3. QED BY <1>5, <2>1, <2>2
<1>10. runStatus'[First] # "none" => AgentFits(a)'
  BY <1>1, <1>5, <1>6, <1>8, RestingFits
<1>11. RunFits(r)'
  <2>1. RunFits(r)
    BY DEF ContractInv
  <2>2. QED BY <1>4, <1>5, <1>6, <1>9, <2>1 DEF RunFits
<1>12. QED BY <1>1, <1>5, <1>8, <1>9, <1>10, <1>11, TypesApart, OneStepKeeps

\* The resumed run is queued.
LEMMA QueueResumeKeeps == \A a \in ApiCalls : ContractInv /\ QueueResume(a) => ContractInv'
<1> SUFFICES ASSUME NEW a \in ApiCalls, ContractInv, QueueResume(a) PROVE ContractInv'
  OBVIOUS
<1>1. a \in Agents
  BY DEF Agents
<1>2. PICK r \in Runs : r = agent[a].run /\ runStatus[r] # "none"
  BY <1>1, AgentIsAnAgent
<1>3. /\ Leave(a) /\ UNCHANGED <<contract, release, promised, unsigned, stale>>
      /\ \/ UNCHANGED <<runStatus, runJob>>
         \/ /\ runStatus' = [runStatus EXCEPT ![r] = "queued"]
            /\ runJob' = [runJob EXCEPT ![r] = IF @ = "none" THEN "queued" ELSE @]
  BY <1>2, Zenon DEF QueueResume
<1>4. /\ runStatus' \in [Runs -> {"none", "queued", "failed", "complete"}]
      /\ runJob' \in [Runs -> {"none", "queued", "claimed"}] /\ runStatus'[r] # "none"
      /\ \A s \in Runs : s # r => runStatus'[s] = runStatus[s] /\ runJob'[s] = runJob[s]
  BY <1>2, <1>3, TypesApart
<1>5. /\ agent' \in [Agents -> Agent] /\ agent'[a].run = First /\ agent'[a].at \notin {"prepare", "execute"}
      /\ \A d \in Agents : d # a => agent'[d] = agent[d]
  BY <1>1, <1>3, LeavingRests
<1>6. runStatus'[First] # "none" => AgentFits(a)'
  BY <1>1, <1>5, RestingFits
<1>7. RunFits(r)'
  <2>1. RunFits(r)
    BY DEF ContractInv
  <2>2. QED BY <1>2, <1>3, <1>4, <2>1 DEF RunFits
<1>8. QED BY <1>1, <1>3, <1>4, <1>5, <1>6, <1>7, TypesApart, OneStepKeeps

\* A fork for a resume is a new run with a contract of its own.
LEMMA ForkForResumeKeeps ==
    \A a \in ApiCalls, r \in Runs : ContractInv /\ ForkForResume(a, r) => ContractInv'
<1> SUFFICES ASSUME NEW a \in ApiCalls, NEW r \in Runs, ContractInv, ForkForResume(a, r) PROVE ContractInv'
  OBVIOUS
<1>1. a \in Agents /\ "api" \in Procs
  BY DEF Agents, Procs
<1>2. PICK config \in Configs \cup {Nothing} : config = agent[a].config
  BY <1>1, AgentIsAnAgent
<1>3. PICK row \in Row : row = Signed(config, "api") /\ row # Bare /\ row.config = config
  BY <1>1, SignedIsARow
<1>4. /\ runStatus[r] = "none" /\ contract' = [contract EXCEPT ![r] = row]
      /\ promised' = [promised EXCEPT ![r] = config] /\ runStatus' = [runStatus EXCEPT ![r] = "queued"]
      /\ runJob' = [runJob EXCEPT ![r] = "queued"] /\ Leave(a) /\ UNCHANGED <<release, unsigned, stale>>
  BY <1>2, <1>3, Zenon DEF ForkForResume
<1>5. /\ contract' \in [Runs -> Row] /\ promised' \in [Runs -> Configs \cup {Nothing}]
      /\ runStatus' \in [Runs -> {"none", "queued", "failed", "complete"}]
      /\ runJob' \in [Runs -> {"none", "queued", "claimed"}] /\ runStatus'[r] = "queued"
      /\ contract'[r] = row /\ promised'[r] = config
      /\ \A s \in Runs : s # r => /\ contract'[s] = contract[s] /\ promised'[s] = promised[s]
                                  /\ runStatus'[s] = runStatus[s] /\ runJob'[s] = runJob[s]
  BY <1>4, TypesApart
<1>6. /\ agent' \in [Agents -> Agent] /\ agent'[a].run = First /\ agent'[a].at \notin {"prepare", "execute"}
      /\ \A d \in Agents : d # a => agent'[d] = agent[d]
  BY <1>1, <1>4, LeavingRests
<1>7. runStatus'[First] # "none" => AgentFits(a)'
  BY <1>1, <1>6, RestingFits
<1>8. RunFits(r)'
  BY <1>3, <1>5 DEF RunFits
<1>9. QED BY <1>1, <1>4, <1>5, <1>6, <1>7, <1>8, TypesApart, OneStepKeeps

\* A plain fork copies the row of its source.
LEMMA ForkKeeps ==
    \A a \in ApiCalls, source, r \in Runs : ContractInv /\ Fork(a, source, r) => ContractInv'
<1> SUFFICES ASSUME NEW a \in ApiCalls, NEW source \in Runs, NEW r \in Runs, ContractInv, Fork(a, source, r)
             PROVE  ContractInv'
  OBVIOUS
<1>1. a \in Agents
  BY DEF Agents
<1>2. PICK row \in Row : row = contract[source]
  BY TypesApart
<1>3. /\ runStatus[r] = "none" /\ contract' = [contract EXCEPT ![r] = row]
      /\ unsigned' = (IF row = Bare THEN unsigned \cup {r} ELSE unsigned)
      /\ runStatus' = [runStatus EXCEPT ![r] = "queued"]
      /\ Leave(a) /\ UNCHANGED <<runJob, release, promised, stale>>
  BY <1>2, Zenon DEF Fork
<1>4. /\ contract' \in [Runs -> Row] /\ runStatus' \in [Runs -> {"none", "queued", "failed", "complete"}]
      /\ runStatus'[r] = "queued" /\ contract'[r] = row
      /\ \A s \in Runs : s # r => contract'[s] = contract[s] /\ runStatus'[s] = runStatus[s]
  BY <1>3, TypesApart
<1>5. unsigned \subseteq unsigned' /\ unsigned' \subseteq Runs /\ (row = Bare => r \in unsigned')
  BY <1>3, TypesApart
<1>6. /\ agent' \in [Agents -> Agent] /\ agent'[a].run = First /\ agent'[a].at \notin {"prepare", "execute"}
      /\ \A d \in Agents : d # a => agent'[d] = agent[d]
  BY <1>1, <1>3, LeavingRests
<1>7. runStatus'[First] # "none" => AgentFits(a)'
  BY <1>1, <1>6, RestingFits
<1>8. RunFits(r)'
  <2>1. promised'[r] = Nothing
    BY <1>3 DEF ContractInv, RunFits
  <2>2. QED BY <1>4, <1>5, <2>1 DEF RunFits
<1>9. QED BY <1>1, <1>3, <1>4, <1>5, <1>6, <1>7, <1>8, TypesApart, OneStepKeeps

\* A worker reads the row it has claimed.
LEMMA ClaimRunKeeps ==
    \A w \in RunWorkers, r \in Runs : ContractInv /\ ClaimRun(w, r) => ContractInv'
<1> SUFFICES ASSUME NEW w \in RunWorkers, NEW r \in Runs, ContractInv, ClaimRun(w, r) PROVE ContractInv'
  OBVIOUS
<1> DEFINE changes == [Idling EXCEPT !.at = "prepare", !.run = r, !.row = contract[r],
                                     !.status = runStatus[r]]
<1>1. w \in Agents
  BY DEF Agents
<1>2. /\ runJob[r] = "queued" /\ runJob' = [runJob EXCEPT ![r] = "claimed"] /\ Step(w, changes)
      /\ stale' = stale \ {w} /\ UNCHANGED <<contract, runStatus, release, promised, unsigned>>
  BY Zenon DEF ClaimRun
<1>3. RunFits(r) /\ runStatus[r] # "none"
  BY <1>2 DEF ContractInv, RunFits
<1>4. contract[r] \in Row /\ runStatus[r] \in {"none", "queued", "failed", "complete"}
  BY TypesApart
<1>5. changes \in Agent /\ changes.at = "prepare" /\ changes.run = r /\ changes.row = contract[r]
  BY <1>4, IdlingFits DEF Agent, AgentPoints
<1> HIDE DEF changes
<1>6. /\ agent' \in [Agents -> Agent] /\ agent'[w] = changes
      /\ \A d \in Agents : d # w => agent'[d] = agent[d]
  BY <1>1, <1>2, <1>5, StepsAreTyped
<1>7. AgentFits(w)'
  BY <1>2, <1>3, <1>5, <1>6 DEF AgentFits, RunFits, At
<1>8. /\ runJob' \in [Runs -> {"none", "queued", "claimed"}]
      /\ \A s \in Runs : s # r => runJob'[s] = runJob[s]
  BY <1>2, TypesApart
<1>9. RunFits(r)'
  BY <1>2, <1>3 DEF RunFits
<1>10. stale \ {w} \subseteq stale' /\ stale' \subseteq Agents
  BY <1>2, TypesApart
<1>11. QED BY <1>1, <1>2, <1>3, <1>6, <1>7, <1>8, <1>9, <1>10, TypesApart, OneStepKeeps

\* The worker signs a row without a contract, refuses one that does not match, and
\* executes under the contract otherwise.
LEMMA EnterRunKeeps == \A w \in RunWorkers : ContractInv /\ EnterRun(w) => ContractInv'
<1> SUFFICES ASSUME NEW w \in RunWorkers, ContractInv, EnterRun(w) PROVE ContractInv'
  OBVIOUS
<1>1. w \in Agents /\ w \in Procs /\ Proc(w) = w
  BY ProcsOfAgents DEF Agents, Procs
<1>2. PICK row \in Row, r \in Runs : row = agent[w].row /\ r = agent[w].run
  BY <1>1, AgentIsAnAgent
<1>3. PICK config \in Configs : config = Persisted(row, w)
  BY <1>1, PersistedIsAConfig
<1>4. PICK signed \in Row : signed = Signed(config, w) /\ signed # Bare
  BY <1>1, SignedIsARow
<1> DEFINE changes == [Idling EXCEPT !.at = "execute", !.run = r, !.config = config]
           error == RefusalOf(row, w)
<1>5. /\ At(w, "prepare") /\ UNCHANGED <<release, promised, unsigned>>
      /\ IF error # {} \/ agent[w].status = "complete"
         THEN /\ runStatus' = [runStatus EXCEPT ![r] = IF error # {} THEN "failed" ELSE @]
              /\ runJob' = [runJob EXCEPT ![r] = "none"]
              /\ Leave(w)
         ELSE Step(w, changes) /\ UNCHANGED <<runStatus, runJob>>
      /\ IF error = {} /\ NeedsNormalization(row) THEN Rewrite(w, r, signed)
         ELSE UNCHANGED <<contract, stale>>
  BY <1>2, <1>3, <1>4, Zenon DEF EnterRun
<1>6. error = {} <=> row = Bare \/ row = signed
  BY <1>3, <1>4 DEF RefusalOf, StoredSupport, Matches, HasContract
<1>7. NeedsNormalization(row) <=> row = Bare
  BY DEF NeedsNormalization, HasContract
<1> HIDE DEF error
<1>8. AgentFits(w) /\ runStatus[r] # "none" /\ RunFits(r)
  BY <1>1, <1>2, AgentIsAnAgent DEF ContractInv
<1>9. changes \in Agent /\ changes.at = "execute" /\ changes.run = r /\ changes.config = config
  BY IdlingFits DEF Agent, AgentPoints
<1> HIDE DEF changes
<1>10. /\ contract' \in [Runs -> Row] /\ \A s \in Runs : s # r => contract'[s] = contract[s]
       /\ stale \subseteq stale' /\ stale' \subseteq Agents
       /\ \/ contract'[r] = contract[r] /\ (error = {} => row # Bare)
          \/ contract'[r] = signed /\ r \in unsigned /\ Readers(r) \ {w} \subseteq stale'
  <2>1. CASE error = {} /\ row = Bare
    <3>1. Rewrite(w, r, signed)
      BY <1>5, <1>7, <2>1
    <3>2. r \in unsigned
      BY <1>2, <1>5, <1>8, <2>1 DEF AgentFits
    <3>3. QED BY <1>1, <3>1, <3>2, RewriteMarks
  <2>2. CASE ~(error = {} /\ row = Bare)
    <3>1. UNCHANGED <<contract, stale>>
      BY <1>5, <1>7, <2>2
    <3>2. QED BY <2>2, <3>1, TypesApart
  <2>3. QED BY <2>1, <2>2
<1>11. /\ agent' \in [Agents -> Agent] /\ \A d \in Agents : d # w => agent'[d] = agent[d]
       /\ \/ agent'[w].at \notin {"prepare", "execute"} /\ agent'[w].run = First
          \/ error = {} /\ agent'[w] = changes
  <2>1. CASE Leave(w)
    BY <1>1, <2>1, LeavingRests
  <2>2. CASE error = {} /\ Step(w, changes)
    BY <1>1, <1>9, <2>2, StepsAreTyped
  <2>3. QED BY <1>5, <2>1, <2>2
<1>12. /\ runStatus' \in [Runs -> {"none", "queued", "failed", "complete"}]
       /\ runJob' \in [Runs -> {"none", "queued", "claimed"}] /\ runStatus'[r] # "none"
       /\ \A s \in Runs : s # r => runStatus'[s] = runStatus[s] /\ runJob'[s] = runJob[s]
  BY <1>5, <1>8, TypesApart
<1>13. runStatus'[First] # "none" => AgentFits(w)'
  <2>1. CASE error = {} /\ agent'[w] = changes
    <3>1. Signed(agent[w].config, Proc(w))' = signed
      BY <1>1, <1>4, <1>5, <1>9, <2>1 DEF Signed
    <3>2. contract'[r] = signed \/ w \in stale'
      BY <1>1, <1>2, <1>5, <1>6, <1>8, <1>10, <2>1 DEF AgentFits
    <3>3. QED BY <1>9, <1>12, <2>1, <3>1, <3>2 DEF AgentFits, At
  <2>2. CASE agent'[w].at \notin {"prepare", "execute"} /\ agent'[w].run = First
    BY <1>1, <2>2, RestingFits
  <2>3. QED BY <1>11, <2>1, <2>2
<1>14. RunFits(r)'
  BY <1>4, <1>5, <1>8, <1>10, <1>12 DEF RunFits
<1>15. QED BY <1>1, <1>5, <1>10, <1>11, <1>12, <1>13, <1>14, TypesApart, OneStepKeeps

\* An execution ends.
LEMMA EndRunKeeps ==
    \A a \in Agents, status \in {"failed", "complete"} : ContractInv /\ EndRun(a, status) => ContractInv'
<1> SUFFICES ASSUME NEW a \in Agents, NEW status \in {"failed", "complete"}, ContractInv, EndRun(a, status)
             PROVE  ContractInv'
  OBVIOUS
<1>1. PICK r \in Runs : r = agent[a].run /\ runStatus[r] # "none"
  BY AgentIsAnAgent
<1>2. /\ Leave(a) /\ runStatus' = [runStatus EXCEPT ![r] = status]
      /\ runJob' = [runJob EXCEPT ![r] = IF a \in RunWorkers THEN "none" ELSE @]
      /\ stale' = stale \ {a} /\ UNCHANGED <<contract, release, promised, unsigned>>
  BY <1>1, Zenon DEF EndRun
<1>3. /\ runStatus' \in [Runs -> {"none", "queued", "failed", "complete"}]
      /\ runJob' \in [Runs -> {"none", "queued", "claimed"}] /\ runStatus'[r] # "none"
      /\ \A s \in Runs : s # r => runStatus'[s] = runStatus[s] /\ runJob'[s] = runJob[s]
      /\ stale \ {a} \subseteq stale' /\ stale' \subseteq Agents
  BY <1>2, TypesApart
<1>4. /\ agent' \in [Agents -> Agent] /\ agent'[a].run = First /\ agent'[a].at \notin {"prepare", "execute"}
      /\ \A d \in Agents : d # a => agent'[d] = agent[d]
  BY <1>2, LeavingRests
<1>5. runStatus'[First] # "none" => AgentFits(a)'
  BY <1>4, RestingFits
<1>6. RunFits(r)'
  <2>1. RunFits(r)
    BY DEF ContractInv
  <2>2. QED BY <1>1, <1>2, <1>3, <2>1 DEF RunFits
<1>7. QED BY <1>2, <1>3, <1>4, <1>5, <1>6, TypesApart, OneStepKeeps

\* A worker of the next release has read nothing.
LEMMA UpgradeKeeps == \A w \in RunWorkers : ContractInv /\ Upgrade(w) => ContractInv'
<1> SUFFICES ASSUME NEW w \in RunWorkers, ContractInv, Upgrade(w) PROVE ContractInv'
  OBVIOUS
<1>1. w \in Agents /\ w \in Procs /\ \A d \in Agents : d # w => Proc(d) # w
  BY ProcsOfAgents DEF Agents, Procs
<1>2. PICK r \in Runs : r = agent[w].run /\ runStatus[r] # "none"
  BY <1>1, AgentIsAnAgent
<1>3. /\ release[w] < MaxReleases /\ release' = [release EXCEPT ![w] = @ + 1] /\ Step(w, Idling)
      /\ runJob' = [runJob EXCEPT ![r] = IF At(w, "idle") THEN @ ELSE "queued"]
      /\ stale' = stale \ {w} /\ UNCHANGED <<contract, runStatus, promised, unsigned>>
  BY <1>2, Zenon DEF Upgrade
<1>4. release[w] + 1 \in 1..MaxReleases
  BY <1>1, <1>3, TypesApart, ExecutionContractAssumption DEF ExecutionContractAssumption
<1>5. /\ release' \in [Procs -> 1..MaxReleases]
      /\ \A d \in Agents : d # w => release'[Proc(d)] = release[Proc(d)]
  <2>1. release' \in [Procs -> 1..MaxReleases]
    BY <1>1, <1>3, <1>4, TypesApart
  <2>2. \A d \in Agents : Proc(d) \in Procs
    BY ProcsOfAgents
  <2>3. QED BY <1>1, <1>3, <2>1, <2>2, TypesApart
<1>6. /\ runJob' \in [Runs -> {"none", "queued", "claimed"}]
      /\ \A s \in Runs : s # r => runJob'[s] = runJob[s]
      /\ stale \ {w} \subseteq stale' /\ stale' \subseteq Agents
  BY <1>3, TypesApart
<1>7. /\ agent' \in [Agents -> Agent] /\ agent'[w].run = First /\ agent'[w].at \notin {"prepare", "execute"}
      /\ \A d \in Agents : d # w => agent'[d] = agent[d]
  BY <1>1, <1>3, IdlingFits, StepsAreTyped
<1>8. runStatus'[First] # "none" => AgentFits(w)'
  BY <1>1, <1>7, RestingFits
<1>9. RunFits(r)'
  <2>1. RunFits(r)
    BY DEF ContractInv
  <2>2. QED BY <1>2, <1>3, <2>1 DEF RunFits
<1>10. QED BY <1>1, <1>3, <1>2, <1>5, <1>6, <1>7, <1>8, <1>9, TypesApart, OneStepKeeps

\* An API process of the next release executes nothing of the last one's.
LEMMA UpgradeApiKeeps == ContractInv /\ UpgradeApi => ContractInv'
<1> SUFFICES ASSUME ContractInv, UpgradeApi PROVE ContractInv'
  OBVIOUS
<1>1. /\ release["api"] < MaxReleases /\ release' = [release EXCEPT !["api"] = @ + 1]
      /\ agent' = [a \in Agents |-> IF a \in ApiCalls /\ ~At(a, "idle")
                                    THEN [Idling EXCEPT !.at = "done"] ELSE agent[a]]
      /\ stale' = stale \ ApiCalls /\ UNCHANGED <<contract, runStatus, runJob, promised, unsigned>>
  BY Zenon DEF UpgradeApi
<1>2. release' \in [Procs -> 1..MaxReleases] /\ \A p \in Procs : p # "api" => release'[p] = release[p]
  <2>1. "api" \in Procs
    BY DEF Procs
  <2>2. release["api"] + 1 \in 1..MaxReleases
    BY <1>1, <2>1, TypesApart, ExecutionContractAssumption DEF ExecutionContractAssumption
  <2>3. QED BY <1>1, <2>1, <2>2, TypesApart
<1>3. agent' \in [Agents -> Agent]
  <2>1. [Idling EXCEPT !.at = "done"] \in Agent
    BY IdlingFits DEF AgentPoints
  <2>2. QED BY <1>1, <2>1, TypesApart
<1>4. ContractTypes'
  BY <1>1, <1>2, <1>3, TypesApart DEF ContractTypes, Procs
<1>5. runStatus'[First] # "none"
  BY <1>1 DEF ContractInv
<1>6. ASSUME NEW a \in Agents PROVE AgentFits(a)'
  <2>1. CASE a \in ApiCalls
    <3>1. agent'[a].at \notin {"prepare", "execute"} /\ agent'[a].run \in {First, agent[a].run}
      BY <1>1, <2>1, IdlingFits DEF At, AgentPoints
    <3>2. QED BY <1>1, <1>5, <3>1, AgentIsAnAgent, RestingFits
  <2>2. CASE a \notin ApiCalls
    <3>1. agent'[a] = agent[a] /\ (a \in stale => a \in stale')
      BY <1>1, <2>2
    <3>2. Proc(a) # "api" /\ Proc(a) \in Procs
      BY <2>2, ProcsOfAgents, ExecutionContractAssumption DEF ExecutionContractAssumption, Agents
    <3>3. runStatus'[agent[a].run] # "none" /\ contract' = contract /\ unsigned' = unsigned
      BY <1>1, AgentIsAnAgent
    <3>4. release'[Proc(a)] = release[Proc(a)]
      BY <1>2, <3>2
    <3>5. QED BY <3>1, <3>3, <3>4, OthersFit
  <2>3. QED BY <2>1, <2>2
<1>7. ASSUME NEW r \in Runs PROVE RunFits(r)'
  <2>1. RunFits(r)
    BY DEF ContractInv
  <2>2. QED BY <1>1, <2>1 DEF RunFits
<1>8. QED BY <1>4, <1>5, <1>6, <1>7, Zenon DEF ContractInv

\* The invariant of contracts holds for every set of runs, requests, workers,
\* environments and releases.
THEOREM ContractsAreInductive == ContractSpec => []ContractInv
<1>1. ContractInit => ContractInv
  BY ContractStart
<1>2. ContractInv /\ [ContractNext]_contractVars => ContractInv'
  <2> SUFFICES ASSUME ContractInv, [ContractNext]_contractVars PROVE ContractInv'
    OBVIOUS
  <2>1. CASE UpgradeApi
    BY <2>1, UpgradeApiKeeps
  <2>2. ASSUME NEW a \in ApiCalls, NEW r \in Runs, NEW want \in Wants,
               \/ \E profile \in {"default", "builder", "queued"} : Start(a, r, want, profile)
               \/ \E mode \in Modes : ReadForResume(a, r, want, mode)
        PROVE  ContractInv'
    BY <2>2, StartKeeps, ReadForResumeKeeps
  <2>3. ASSUME NEW a \in ApiCalls, PrepareResume(a) \/ DecideResume(a) \/ QueueResume(a)
        PROVE  ContractInv'
    BY <2>3, PrepareResumeKeeps, DecideResumeKeeps, QueueResumeKeeps
  <2>4. ASSUME NEW a \in ApiCalls, NEW r \in Runs,
               ForkForResume(a, r) \/ \E source \in Runs : Fork(a, source, r)
        PROVE  ContractInv'
    BY <2>4, ForkForResumeKeeps, ForkKeeps
  <2>5. ASSUME NEW a \in Agents, NEW status \in {"failed", "complete"}, EndRun(a, status)
        PROVE  ContractInv'
    BY <2>5, EndRunKeeps
  <2>6. ASSUME NEW w \in RunWorkers, EnterRun(w) \/ Upgrade(w) \/ \E r \in Runs : ClaimRun(w, r)
        PROVE  ContractInv'
    BY <2>6, EnterRunKeeps, UpgradeKeeps, ClaimRunKeeps
  <2>7. CASE UNCHANGED contractVars
    <3>1. ContractTypes'
      BY <2>7 DEF contractVars, ContractInv, ContractTypes
    <3>2. ASSUME NEW a \in Agents PROVE AgentFits(a)'
      <4>1. AgentFits(a)
        BY DEF ContractInv
      <4>2. QED BY <2>7, <4>1 DEF contractVars, AgentFits, At, Signed
    <3>3. ASSUME NEW r \in Runs PROVE RunFits(r)'
      <4>1. RunFits(r)
        BY DEF ContractInv
      <4>2. QED BY <2>7, <4>1 DEF contractVars, RunFits
    <3>4. runStatus'[First] # "none"
      BY <2>7 DEF contractVars, ContractInv
    <3>5. QED BY <3>1, <3>2, <3>3, <3>4, Zenon DEF ContractInv
  <2>8. QED BY <2>1, <2>2, <2>3, <2>4, <2>5, <2>6, <2>7, Zenon DEF ContractNext
<1>3. QED BY <1>1, <1>2, PTL DEF ContractSpec

\* Who executes a run does so under its contract, unless the row was rewritten
\* meanwhile; what a request made the contract of a run stays so until the next
\* one, unless the run once had none (agent/kernel.ts, prepareResumeExecutionConfig
\* and assertStoredExecutionContract).
THEOREM ContractAlwaysGoverns == ContractSpec => []ContractGoverns
<1>1. ContractInv => ContractGoverns
  BY DEF ContractInv, AgentFits, RunFits, ContractGoverns
<1>2. QED BY <1>1, ContractsAreInductive, PTL

\* The type invariant of contracts.
THEOREM ContractTypesHold == ContractSpec => []ContractTypeOK
<1>1. ContractInv => ContractTypeOK
  BY DEF ContractInv, ContractTypes, ContractTypeOK, Agent, Row
<1>2. QED BY <1>1, ContractsAreInductive, PTL

(***************************************************************************)
(* The migration of the schema.                                            *)
(***************************************************************************)

\* The stages of a process that has the statement of a stage behind it.
PastKey == {"settle", "serving"}
PastGraphs == PastKey \cup {"drop_key", "add_key"}
PastStepIndex == PastGraphs \cup {"validation", "drop_graphs", "graphs"}
PastAttemptIndex == PastStepIndex \cup {"step_index"}
PastDropIndex == PastAttemptIndex \cup {"attempt_index"}
PastStepChecks == PastDropIndex \cup {"drop_index"}
PastAttempts == PastStepChecks \cup {"step_checks"}
PastRunChecks == PastAttempts \cup {"attempts"}
PastRename == PastRunChecks \cup {"drop_checks", "add_checks"}
PastQueue == PastRename \cup {"rename"}
PastSchema == PastQueue \cup {"queue"}

\* A process is at one of these stages.
Within(points) == \E q \in Processes : stage[q] \in points

\* What the statements before a stage made and no statement takes away.
Lasts(point) ==
    /\ point \in PastSchema => schema.tables
    /\ point \in PastRename => schema.statuses = "new"
    /\ point \in PastAttempts => schema.attempt
    /\ point \in PastDropIndex => schema.stepIndex # "unique" \/ SwapWasCut
    /\ point \in PastAttemptIndex => schema.attemptIndex
    /\ point \in PastGraphs => schema.graphs = "current"
    /\ point \in PastKey => graphIds # "dangling"

\* What they made and another process may have dropped, to create it again next.
Returns(point) ==
    cut = {} =>
        /\ point \in PastQueue => "job_caps" \in schema.rules \/ Within({"queue"})
        /\ point \in PastRunChecks => "run_status" \in schema.rules \/ Within({"add_checks"})
        /\ point \in PastStepChecks =>
             {"step_status", "attempts"} \subseteq schema.rules \/ Within({"step_checks"})
        /\ point \in PastStepIndex =>
             schema.stepIndex = "plain" \/ Within({"attempt_index", "step_index"})
        /\ point \in PastKey => "graph_key" \in schema.rules \/ Within({"add_key"})

\* All that a statement relies on.
MigrationInv ==
    /\ MigrationTypeOK
    /\ \A p, q \in Processes : stage[p] \in Migrating /\ stage[q] \in Migrating => p = q
    /\ \A p \in Processes : Lasts(stage[p]) /\ Returns(stage[p])
    /\ ~schema.tables => ~TwiceTried
    /\ schema.stepIndex = "none" /\ schema.tables =>
         SwapWasCut \/ Within({"attempt_index", "step_index"})
    /\ refused # {} => SwapWasCut
    /\ \A p \in Processes : stage[p] = "failed" => SwapWasCut \/ graphIds = "dangling"

\* The stages one by one.
LEMMA OrderIs ==
    /\ DOMAIN Order = 1..16
    /\ Order[1] = "schema" /\ Order[2] = "queue" /\ Order[3] = "rename" /\ Order[4] = "drop_checks"
    /\ Order[5] = "add_checks" /\ Order[6] = "attempts" /\ Order[7] = "step_checks"
    /\ Order[8] = "drop_index" /\ Order[9] = "attempt_index" /\ Order[10] = "step_index"
    /\ Order[11] = "validation" /\ Order[12] = "drop_graphs" /\ Order[13] = "graphs"
    /\ Order[14] = "drop_key" /\ Order[15] = "add_key" /\ Order[16] = "settle"
BY DEF Order

\* The stages at which a process holds the lock.
LEMMA MigratingIs ==
    Migrating = {"schema", "queue", "rename", "drop_checks", "add_checks", "attempts",
                 "step_checks", "drop_index", "attempt_index", "step_index",
                 "validation", "drop_graphs", "graphs", "drop_key", "add_key", "settle"}
<1>1. \A i \in 1..16 : i = 1 \/ i = 2 \/ i = 3 \/ i = 4 \/ i = 5 \/ i = 6 \/ i = 7 \/ i = 8 \/ i = 9
        \/ i = 10 \/ i = 11 \/ i = 12 \/ i = 13 \/ i = 14 \/ i = 15 \/ i = 16
  OBVIOUS
<1>2. QED BY <1>1, OrderIs DEF Migrating

\* What comes after each stage.
LEMMA FollowingIs ==
    /\ Following("schema") = "queue" /\ Following("queue") = "rename"
    /\ Following("rename") = "drop_checks" /\ Following("drop_checks") = "add_checks"
    /\ Following("add_checks") = "attempts" /\ Following("attempts") = "step_checks"
    /\ Following("step_checks") = "drop_index" /\ Following("drop_index") = "attempt_index"
    /\ Following("attempt_index") = "step_index" /\ Following("step_index") = "validation"
    /\ Following("validation") = "drop_graphs" /\ Following("drop_graphs") = "graphs"
    /\ Following("graphs") = "drop_key" /\ Following("drop_key") = "add_key"
    /\ Following("add_key") = "settle" /\ Following("settle") = "serving"
<1>1. ASSUME NEW k \in 1..16
      PROVE  Following(Order[k]) = IF k < 16 THEN Order[k + 1] ELSE "serving"
  <2> DEFINE i == CHOOSE i \in DOMAIN Order : Order[i] = Order[k]
  <2>1. i \in 1..16 /\ Order[i] = Order[k]
    BY OrderIs
  <2>2. \A a, b \in 1..16 : Order[a] = Order[b] => a = b
    BY OrderIs
  <2>3. i = k
    BY <2>1, <2>2
  <2>4. Following(Order[k]) = IF i < 16 THEN Order[i + 1] ELSE "serving"
    BY Zenon DEF Following
  <2>5. QED BY <2>3, <2>4, Zenon
<1>2. QED BY <1>1, OrderIs

\* No process is up; the database is empty, or of an earlier version.
LEMMA MigrationStart == MigrationInit => MigrationInv
<1> SUFFICES ASSUME MigrationInit PROVE MigrationInv
  OBVIOUS
<1>1. PICK database \in Databases :
        /\ schema = SchemaOf(database)
        /\ graphIds = (IF database = "graphed" THEN "kept" ELSE "none")
        /\ steps \in [Slots -> IF database = "fresh" THEN {0} ELSE {0, 1}]
        /\ stage = [p \in Processes |-> "down"]
        /\ writing = [p \in Processes |-> [slot |-> CHOOSE s \in Slots : TRUE, attempt |-> 0]]
        /\ refused = {} /\ cut = {} /\ deaths = 0
  BY Zenon DEF MigrationInit
<1>2. /\ MaxAttempts \in Nat \ {0} /\ MaxDeaths \in Nat /\ Slots # {}
      /\ database \in {"fresh", "legacy", "graphed"}
  BY StoreMigrationAssumption DEF StoreMigrationAssumption
<1>3. schema \in SchemaType /\ (schema.stepIndex = "none" => ~schema.tables)
      /\ (~schema.tables => database = "fresh")
  BY <1>1, <1>2 DEF SchemaOf, SchemaType, Rules
<1>4. MigrationTypeOK
  <2>1. (CHOOSE s \in Slots : TRUE) \in Slots
    BY <1>2
  <2>2. writing \in [Processes -> [slot : Slots, attempt : 0..MaxAttempts]]
    BY <1>1, <1>2, <2>1
  <2>3. steps \in [Slots -> 0..MaxAttempts]
    BY <1>1, <1>2
  <2>4. stage \in [Processes -> Stages]
    BY <1>1 DEF Stages
  <2>5. graphIds \in {"none", "kept", "dangling"} /\ deaths \in 0..MaxDeaths
    BY <1>1, <1>2
  <2>6. QED BY <1>1, <1>3, <2>2, <2>3, <2>4, <2>5 DEF MigrationTypeOK
<1>5. ~schema.tables => ~TwiceTried
  BY <1>1, <1>3 DEF TwiceTried
<1>6. ASSUME NEW p \in Processes
      PROVE  Lasts(stage[p]) /\ Returns(stage[p]) /\ stage[p] \notin Migrating /\ stage[p] # "failed"
  BY <1>1, MigratingIs DEF Lasts, Returns, PastKey, PastGraphs, PastStepIndex, PastAttemptIndex,
     PastDropIndex, PastStepChecks, PastAttempts, PastRunChecks, PastRename, PastQueue, PastSchema
<1>7. QED BY <1>1, <1>3, <1>4, <1>5, <1>6 DEF MigrationInv

\* One process migrates at a time: where it stands is all that is within.
LEMMA OneIsWithin ==
    ASSUME MigrationInv, NEW p \in Processes, stage[p] \in Migrating,
           NEW points, points \subseteq Migrating
    PROVE  Within(points) <=> stage[p] \in points
BY DEF MigrationInv, Within

\* So is where it goes, once it has moved.
LEMMA OneMovesWithin ==
    ASSUME MigrationInv, NEW p \in Processes, stage[p] \in Migrating, NEW next, Go(p, next),
           NEW points, points \subseteq Migrating
    PROVE  Within(points)' <=> next \in points
<1>1. \A q \in Processes : stage'[q] = IF q = p THEN next ELSE stage[q]
  BY DEF MigrationInv, MigrationTypeOK, Go
<1>2. \A q \in Processes : q # p => stage[q] \notin points
  BY DEF MigrationInv
<1>3. QED BY <1>1, <1>2 DEF Within

\* A statement of the one process that migrates, which may have ended its migration.
LEMMA StatementKeeps ==
    ASSUME MigrationInv, NEW p \in Processes, NEW next \in Stages, stage[p] \in Migrating, Go(p, next),
           schema' \in SchemaType, graphIds' \in {"none", "kept", "dangling"},
           UNCHANGED <<steps, writing, refused, cut, deaths>>,
           Lasts(next)', Returns(next)',
           Lasts("serving") => Lasts("serving")',
           Lasts("serving") /\ Returns("serving") => Returns("serving")',
           schema.tables => schema'.tables,
           schema'.stepIndex = "none" /\ schema'.tables =>
             SwapWasCut \/ next \in {"attempt_index", "step_index"},
           next = "failed" => SwapWasCut \/ graphIds' = "dangling",
           graphIds = "dangling" => graphIds' = "dangling"
    PROVE  MigrationInv'
<1>1. \A q \in Processes : stage'[q] = IF q = p THEN next ELSE stage[q]
  BY DEF MigrationInv, MigrationTypeOK, Go
<1>2. MigrationTypeOK'
  BY DEF MigrationInv, MigrationTypeOK, Go
<1>3. \A q \in Processes : q # p => stage[q] \in Stages /\ stage[q] \notin Migrating
  BY DEF MigrationInv, MigrationTypeOK
<1>4. SwapWasCut' <=> SwapWasCut
  BY DEF SwapWasCut
<1>5. ASSUME NEW q \in Processes PROVE Lasts(stage[q])' /\ Returns(stage[q])'
  <2>1. CASE q = p
    <3>1. stage'[q] = next
      BY <1>1, <2>1
    <3>2. QED BY <3>1 DEF Lasts, Returns
  <2>2. CASE q # p /\ stage[q] = "serving"
    <3>1. Lasts("serving") /\ Returns("serving")
      BY <2>2 DEF MigrationInv
    <3>2. Lasts("serving")' /\ Returns("serving")' /\ stage'[q] = "serving"
      BY <1>1, <2>2, <3>1
    <3>3. QED BY <3>2 DEF Lasts, Returns
  <2>3. CASE q # p /\ stage[q] # "serving"
    <3>1. stage'[q] \in {"down", "wants", "failed"}
      BY <1>1, <1>3, <2>3 DEF Stages
    <3>2. QED BY <3>1 DEF Lasts, Returns, PastKey, PastGraphs, PastStepIndex, PastAttemptIndex,
            PastDropIndex, PastStepChecks, PastAttempts, PastRunChecks, PastRename, PastQueue, PastSchema
  <2>4. QED BY <2>1, <2>2, <2>3
<1>6. (~schema.tables => ~TwiceTried)'
  BY DEF MigrationInv, TwiceTried
<1>7. (schema.stepIndex = "none" /\ schema.tables =>
         SwapWasCut \/ Within({"attempt_index", "step_index"}))'
  BY <1>1, <1>4 DEF Within
<1>8. (\A q \in Processes : stage[q] = "failed" => SwapWasCut \/ graphIds = "dangling")'
  BY <1>1, <1>4 DEF MigrationInv
<1>9. (\A q, r \in Processes : stage[q] \in Migrating /\ stage[r] \in Migrating => q = r)'
  BY <1>1, <1>3
<1>10. (refused # {} => SwapWasCut)'
  BY <1>4 DEF MigrationInv
<1>11. QED BY <1>2, <1>5, <1>6, <1>7, <1>8, <1>9, <1>10, Zenon DEF MigrationInv

\* What a statement between two stages finds under way, and leaves under way.
LEMMA WithinAre ==
    ASSUME MigrationInv, NEW p \in Processes, stage[p] \in Migrating, NEW next, Go(p, next)
    PROVE  /\ Within({"queue"}) <=> stage[p] = "queue"
           /\ Within({"add_checks"}) <=> stage[p] = "add_checks"
           /\ Within({"step_checks"}) <=> stage[p] = "step_checks"
           /\ Within({"attempt_index", "step_index"}) <=> stage[p] \in {"attempt_index", "step_index"}
           /\ Within({"add_key"}) <=> stage[p] = "add_key"
           /\ Within({"queue"})' <=> next = "queue"
           /\ Within({"add_checks"})' <=> next = "add_checks"
           /\ Within({"step_checks"})' <=> next = "step_checks"
           /\ Within({"attempt_index", "step_index"})' <=> next \in {"attempt_index", "step_index"}
           /\ Within({"add_key"})' <=> next = "add_key"
<1>1. \A points \in SUBSET Migrating : Within(points) <=> stage[p] \in points
  BY OneIsWithin
<1>2. \A points \in SUBSET Migrating : Within(points)' <=> next \in points
  BY OneMovesWithin
<1>3. {{"queue"}, {"add_checks"}, {"step_checks"}, {"attempt_index", "step_index"}, {"add_key"}}
        \subseteq SUBSET Migrating
  BY MigratingIs
<1>4. QED BY <1>1, <1>2, <1>3

\* A schema that is this one but for its rules.
Alters(new, rules) ==
    /\ new \in SchemaType /\ new.rules = rules
    /\ new.tables = schema.tables /\ new.attempt = schema.attempt
    /\ new.stepIndex = schema.stepIndex /\ new.attemptIndex = schema.attemptIndex
    /\ new.statuses = schema.statuses /\ new.graphs = schema.graphs

\* Statements that only change rules, or nothing, alter nothing else.
LEMMA RulesChange ==
    ASSUME MigrationInv, NEW rules \in SUBSET Rules
    PROVE  /\ Alters(With(rules), schema.rules \cup rules)
           /\ Alters(Without(rules), schema.rules \ rules)
           /\ Alters(schema, schema.rules)
<1>1. schema \in SchemaType
  BY DEF MigrationInv, MigrationTypeOK
<1>2. schema.rules \cup rules \in SUBSET Rules /\ schema.rules \ rules \in SUBSET Rules
  BY <1>1 DEF SchemaType
<1>3. ASSUME NEW more \in SUBSET Rules PROVE Alters([schema EXCEPT !.rules = more], more)
  BY <1>1 DEF SchemaType, Alters
<1>4. With(rules) = [schema EXCEPT !.rules = schema.rules \cup rules]
  BY DEF With
<1>5. Without(rules) = [schema EXCEPT !.rules = schema.rules \ rules]
  BY DEF Without
<1>6. Alters(schema, schema.rules)
  BY <1>1 DEF Alters
<1>7. Alters(With(rules), schema.rules \cup rules)
  BY <1>2, <1>3, <1>4, Zenon
<1>8. Alters(Without(rules), schema.rules \ rules)
  BY <1>2, <1>3, <1>5, Zenon
<1>9. QED BY <1>6, <1>7, <1>8

\* The statuses of the old set are renamed.
LEMMA RenameStatusesKeeps == \A p \in Processes : MigrationInv /\ RenameStatuses(p) => MigrationInv'
<1> SUFFICES ASSUME NEW p \in Processes, MigrationInv, RenameStatuses(p) PROVE MigrationInv'
  OBVIOUS
<1> USE DEF PastKey, PastGraphs, PastStepIndex, PastAttemptIndex, PastDropIndex, PastStepChecks,
            PastAttempts, PastRunChecks, PastRename, PastQueue, PastSchema
<1>1. /\ stage[p] = "rename" /\ Go(p, "drop_checks") /\ schema' = [schema EXCEPT !.statuses = "new"]
      /\ UNCHANGED <<steps, writing, graphIds, refused, cut, deaths>>
  BY FollowingIs DEF RenameStatuses, Statement
<1>2. /\ schema'.statuses = "new" /\ schema'.tables = schema.tables /\ schema'.attempt = schema.attempt
      /\ schema'.stepIndex = schema.stepIndex /\ schema'.attemptIndex = schema.attemptIndex /\ schema'.rules = schema.rules
      /\ schema'.graphs = schema.graphs
      /\ schema' \in SchemaType
  BY <1>1 DEF MigrationInv, MigrationTypeOK, SchemaType, Rules
<1>3. "rename" \in Migrating /\ "drop_checks" \in Stages
  BY MigratingIs DEF Stages
<1>4. SwapWasCut' <=> SwapWasCut
  BY <1>1 DEF SwapWasCut
<1>5. Lasts("rename") /\ Returns("rename")
  BY <1>1 DEF MigrationInv
<1>6. Lasts("drop_checks")' /\ (Lasts("serving") => Lasts("serving")')
  BY <1>1, <1>2, <1>4, <1>5 DEF Lasts
<1>7. Returns("drop_checks")' /\ (Lasts("serving") /\ Returns("serving") => Returns("serving")')
  BY <1>1, <1>2, <1>3, <1>5, WithinAre DEF Returns, Lasts, SwapWasCut
<1>8. schema'.stepIndex = "none" /\ schema'.tables =>
        SwapWasCut \/ "drop_checks" \in {"attempt_index", "step_index"}
  BY <1>1, <1>2, <1>3, WithinAre DEF MigrationInv
<1>9. graphIds' \in {"none", "kept", "dangling"}
  BY <1>1 DEF MigrationInv, MigrationTypeOK
<1>10. QED BY <1>1, <1>2, <1>3, <1>6, <1>7, <1>8, <1>9, StatementKeeps

\* The column of attempts is added.
LEMMA AddAttemptsKeeps == \A p \in Processes : MigrationInv /\ AddAttempts(p) => MigrationInv'
<1> SUFFICES ASSUME NEW p \in Processes, MigrationInv, AddAttempts(p) PROVE MigrationInv'
  OBVIOUS
<1> USE DEF PastKey, PastGraphs, PastStepIndex, PastAttemptIndex, PastDropIndex, PastStepChecks,
            PastAttempts, PastRunChecks, PastRename, PastQueue, PastSchema
<1>1. /\ stage[p] = "attempts" /\ Go(p, "step_checks") /\ schema' = [schema EXCEPT !.attempt = TRUE]
      /\ UNCHANGED <<steps, writing, graphIds, refused, cut, deaths>>
  BY FollowingIs DEF AddAttempts, Statement
<1>2. /\ schema'.attempt = TRUE /\ schema'.tables = schema.tables /\ schema'.stepIndex = schema.stepIndex
      /\ schema'.attemptIndex = schema.attemptIndex /\ schema'.rules = schema.rules /\ schema'.statuses = schema.statuses
      /\ schema'.graphs = schema.graphs
      /\ schema' \in SchemaType
  BY <1>1 DEF MigrationInv, MigrationTypeOK, SchemaType, Rules
<1>3. "attempts" \in Migrating /\ "step_checks" \in Stages
  BY MigratingIs DEF Stages
<1>4. SwapWasCut' <=> SwapWasCut
  BY <1>1 DEF SwapWasCut
<1>5. Lasts("attempts") /\ Returns("attempts")
  BY <1>1 DEF MigrationInv
<1>6. Lasts("step_checks")' /\ (Lasts("serving") => Lasts("serving")')
  BY <1>1, <1>2, <1>4, <1>5 DEF Lasts
<1>7. Returns("step_checks")' /\ (Lasts("serving") /\ Returns("serving") => Returns("serving")')
  BY <1>1, <1>2, <1>3, <1>5, WithinAre DEF Returns, Lasts, SwapWasCut
<1>8. schema'.stepIndex = "none" /\ schema'.tables =>
        SwapWasCut \/ "step_checks" \in {"attempt_index", "step_index"}
  BY <1>1, <1>2, <1>3, WithinAre DEF MigrationInv
<1>9. graphIds' \in {"none", "kept", "dangling"}
  BY <1>1 DEF MigrationInv, MigrationTypeOK
<1>10. QED BY <1>1, <1>2, <1>3, <1>6, <1>7, <1>8, <1>9, StatementKeeps

\* Both checks of runs go; one of them comes back.
LEMMA DropRunChecksKeeps == \A p \in Processes : MigrationInv /\ DropRunChecks(p) => MigrationInv'
<1> SUFFICES ASSUME NEW p \in Processes, MigrationInv, DropRunChecks(p) PROVE MigrationInv'
  OBVIOUS
<1> USE DEF PastKey, PastGraphs, PastStepIndex, PastAttemptIndex, PastDropIndex, PastStepChecks,
            PastAttempts, PastRunChecks, PastRename, PastQueue, PastSchema
<1>1. /\ stage[p] = "drop_checks" /\ Go(p, "add_checks") /\ schema' = Without({"run_status", "validation_status"})
      /\ UNCHANGED <<steps, writing, graphIds, refused, cut, deaths>>
  BY FollowingIs DEF DropRunChecks, Statement
<1>2. /\ schema'.rules = schema.rules \ {"run_status", "validation_status"} /\ schema'.tables = schema.tables /\ schema'.attempt = schema.attempt
      /\ schema'.stepIndex = schema.stepIndex /\ schema'.attemptIndex = schema.attemptIndex /\ schema'.statuses = schema.statuses
      /\ schema'.graphs = schema.graphs
      /\ schema' \in SchemaType
  BY <1>1 DEF MigrationInv, MigrationTypeOK, SchemaType, Rules, Without
<1>3. "drop_checks" \in Migrating /\ "add_checks" \in Stages
  BY MigratingIs DEF Stages
<1>4. SwapWasCut' <=> SwapWasCut
  BY <1>1 DEF SwapWasCut
<1>5. Lasts("drop_checks") /\ Returns("drop_checks")
  BY <1>1 DEF MigrationInv
<1>6. Lasts("add_checks")' /\ (Lasts("serving") => Lasts("serving")')
  BY <1>1, <1>2, <1>4, <1>5 DEF Lasts
<1>7. Returns("add_checks")' /\ (Lasts("serving") /\ Returns("serving") => Returns("serving")')
  BY <1>1, <1>2, <1>3, <1>5, WithinAre DEF Returns, Lasts, SwapWasCut
<1>8. schema'.stepIndex = "none" /\ schema'.tables =>
        SwapWasCut \/ "add_checks" \in {"attempt_index", "step_index"}
  BY <1>1, <1>2, <1>3, WithinAre DEF MigrationInv
<1>9. graphIds' \in {"none", "kept", "dangling"}
  BY <1>1 DEF MigrationInv, MigrationTypeOK
<1>10. QED BY <1>1, <1>2, <1>3, <1>6, <1>7, <1>8, <1>9, StatementKeeps

\* The unique index goes: nobody serves, or it was gone already.
LEMMA DropStepIndexKeeps == \A p \in Processes : MigrationInv /\ DropStepIndex(p) => MigrationInv'
<1> SUFFICES ASSUME NEW p \in Processes, MigrationInv, DropStepIndex(p) PROVE MigrationInv'
  OBVIOUS
<1> USE DEF PastKey, PastGraphs, PastStepIndex, PastAttemptIndex, PastDropIndex, PastStepChecks,
            PastAttempts, PastRunChecks, PastRename, PastQueue, PastSchema
<1>1. /\ stage[p] = "drop_index" /\ Go(p, "attempt_index") /\ schema' = [schema EXCEPT !.stepIndex = "none"]
      /\ UNCHANGED <<steps, writing, graphIds, refused, cut, deaths>>
  BY FollowingIs DEF DropStepIndex, Statement
<1>2. /\ schema'.stepIndex = "none" /\ schema'.tables = schema.tables /\ schema'.attempt = schema.attempt
      /\ schema'.attemptIndex = schema.attemptIndex /\ schema'.rules = schema.rules /\ schema'.statuses = schema.statuses
      /\ schema'.graphs = schema.graphs
      /\ schema' \in SchemaType
  BY <1>1 DEF MigrationInv, MigrationTypeOK, SchemaType, Rules
<1>3. "drop_index" \in Migrating /\ "attempt_index" \in Stages
  BY MigratingIs DEF Stages
<1>4. SwapWasCut' <=> SwapWasCut
  BY <1>1 DEF SwapWasCut
<1>5. Lasts("drop_index") /\ Returns("drop_index")
  BY <1>1 DEF MigrationInv
<1>6. Lasts("attempt_index")' /\ (Lasts("serving") => Lasts("serving")')
  BY <1>1, <1>2, <1>4, <1>5 DEF Lasts
<1>7. Returns("attempt_index")' /\ (Lasts("serving") /\ Returns("serving") => Returns("serving")')
  BY <1>1, <1>2, <1>3, <1>5, WithinAre DEF Returns, Lasts, SwapWasCut
<1>8. schema'.stepIndex = "none" /\ schema'.tables =>
        SwapWasCut \/ "attempt_index" \in {"attempt_index", "step_index"}
  BY <1>1, <1>2, <1>3, WithinAre DEF MigrationInv
<1>9. graphIds' \in {"none", "kept", "dangling"}
  BY <1>1 DEF MigrationInv, MigrationTypeOK
<1>10. QED BY <1>1, <1>2, <1>3, <1>6, <1>7, <1>8, <1>9, StatementKeeps

\* The index of attempts is built.
LEMMA CreateAttemptIndexKeeps ==
    \A p \in Processes : MigrationInv /\ CreateAttemptIndex(p) => MigrationInv'
<1> SUFFICES ASSUME NEW p \in Processes, MigrationInv, CreateAttemptIndex(p) PROVE MigrationInv'
  OBVIOUS
<1> USE DEF PastKey, PastGraphs, PastStepIndex, PastAttemptIndex, PastDropIndex, PastStepChecks,
            PastAttempts, PastRunChecks, PastRename, PastQueue, PastSchema
<1>1. /\ stage[p] = "attempt_index" /\ Go(p, "step_index") /\ schema' = [schema EXCEPT !.attemptIndex = TRUE]
      /\ UNCHANGED <<steps, writing, graphIds, refused, cut, deaths>>
  BY FollowingIs DEF CreateAttemptIndex, Statement
<1>2. /\ schema'.attemptIndex = TRUE /\ schema'.tables = schema.tables /\ schema'.attempt = schema.attempt
      /\ schema'.stepIndex = schema.stepIndex /\ schema'.rules = schema.rules /\ schema'.statuses = schema.statuses
      /\ schema'.graphs = schema.graphs
      /\ schema' \in SchemaType
  BY <1>1 DEF MigrationInv, MigrationTypeOK, SchemaType, Rules
<1>3. "attempt_index" \in Migrating /\ "step_index" \in Stages
  BY MigratingIs DEF Stages
<1>4. SwapWasCut' <=> SwapWasCut
  BY <1>1 DEF SwapWasCut
<1>5. Lasts("attempt_index") /\ Returns("attempt_index")
  BY <1>1 DEF MigrationInv
<1>6. Lasts("step_index")' /\ (Lasts("serving") => Lasts("serving")')
  BY <1>1, <1>2, <1>4, <1>5 DEF Lasts
<1>7. Returns("step_index")' /\ (Lasts("serving") /\ Returns("serving") => Returns("serving")')
  BY <1>1, <1>2, <1>3, <1>5, WithinAre DEF Returns, Lasts, SwapWasCut
<1>8. schema'.stepIndex = "none" /\ schema'.tables =>
        SwapWasCut \/ "step_index" \in {"attempt_index", "step_index"}
  BY <1>1, <1>2, <1>3, WithinAre DEF MigrationInv
<1>9. graphIds' \in {"none", "kept", "dangling"}
  BY <1>1 DEF MigrationInv, MigrationTypeOK
<1>10. QED BY <1>1, <1>2, <1>3, <1>6, <1>7, <1>8, <1>9, StatementKeeps

\* The graph tables are created, in their current shape.
LEMMA CreateGraphsKeeps == \A p \in Processes : MigrationInv /\ CreateGraphs(p) => MigrationInv'
<1> SUFFICES ASSUME NEW p \in Processes, MigrationInv, CreateGraphs(p) PROVE MigrationInv'
  OBVIOUS
<1> USE DEF PastKey, PastGraphs, PastStepIndex, PastAttemptIndex, PastDropIndex, PastStepChecks,
            PastAttempts, PastRunChecks, PastRename, PastQueue, PastSchema
<1>1. /\ stage[p] = "graphs" /\ Go(p, "drop_key") /\ schema' = [schema EXCEPT !.graphs = "current"]
      /\ UNCHANGED <<steps, writing, graphIds, refused, cut, deaths>>
  BY FollowingIs DEF CreateGraphs, Statement
<1>2. /\ schema'.graphs = "current" /\ schema'.tables = schema.tables /\ schema'.attempt = schema.attempt
      /\ schema'.stepIndex = schema.stepIndex /\ schema'.attemptIndex = schema.attemptIndex /\ schema'.rules = schema.rules
      /\ schema'.statuses = schema.statuses
      /\ schema' \in SchemaType
  BY <1>1 DEF MigrationInv, MigrationTypeOK, SchemaType, Rules
<1>3. "graphs" \in Migrating /\ "drop_key" \in Stages
  BY MigratingIs DEF Stages
<1>4. SwapWasCut' <=> SwapWasCut
  BY <1>1 DEF SwapWasCut
<1>5. Lasts("graphs") /\ Returns("graphs")
  BY <1>1 DEF MigrationInv
<1>6. Lasts("drop_key")' /\ (Lasts("serving") => Lasts("serving")')
  BY <1>1, <1>2, <1>4, <1>5 DEF Lasts
<1>7. Returns("drop_key")' /\ (Lasts("serving") /\ Returns("serving") => Returns("serving")')
  BY <1>1, <1>2, <1>3, <1>5, WithinAre DEF Returns, Lasts, SwapWasCut
<1>8. schema'.stepIndex = "none" /\ schema'.tables =>
        SwapWasCut \/ "drop_key" \in {"attempt_index", "step_index"}
  BY <1>1, <1>2, <1>3, WithinAre DEF MigrationInv
<1>9. graphIds' \in {"none", "kept", "dangling"}
  BY <1>1 DEF MigrationInv, MigrationTypeOK
<1>10. QED BY <1>1, <1>2, <1>3, <1>6, <1>7, <1>8, <1>9, StatementKeeps

\* The key goes; it comes back next.
LEMMA DropGraphKeyKeeps == \A p \in Processes : MigrationInv /\ DropGraphKey(p) => MigrationInv'
<1> SUFFICES ASSUME NEW p \in Processes, MigrationInv, DropGraphKey(p) PROVE MigrationInv'
  OBVIOUS
<1> USE DEF PastKey, PastGraphs, PastStepIndex, PastAttemptIndex, PastDropIndex, PastStepChecks,
            PastAttempts, PastRunChecks, PastRename, PastQueue, PastSchema
<1>1. /\ stage[p] = "drop_key" /\ Go(p, "add_key") /\ schema' = Without({"graph_key"})
      /\ UNCHANGED <<steps, writing, graphIds, refused, cut, deaths>>
  BY FollowingIs DEF DropGraphKey, Statement
<1>2. /\ schema'.rules = schema.rules \ {"graph_key"} /\ schema'.tables = schema.tables /\ schema'.attempt = schema.attempt
      /\ schema'.stepIndex = schema.stepIndex /\ schema'.attemptIndex = schema.attemptIndex /\ schema'.statuses = schema.statuses
      /\ schema'.graphs = schema.graphs
      /\ schema' \in SchemaType
  BY <1>1 DEF MigrationInv, MigrationTypeOK, SchemaType, Rules, Without
<1>3. "drop_key" \in Migrating /\ "add_key" \in Stages
  BY MigratingIs DEF Stages
<1>4. SwapWasCut' <=> SwapWasCut
  BY <1>1 DEF SwapWasCut
<1>5. Lasts("drop_key") /\ Returns("drop_key")
  BY <1>1 DEF MigrationInv
<1>6. Lasts("add_key")' /\ (Lasts("serving") => Lasts("serving")')
  BY <1>1, <1>2, <1>4, <1>5 DEF Lasts
<1>7. Returns("add_key")' /\ (Lasts("serving") /\ Returns("serving") => Returns("serving")')
  BY <1>1, <1>2, <1>3, <1>5, WithinAre DEF Returns, Lasts, SwapWasCut
<1>8. schema'.stepIndex = "none" /\ schema'.tables =>
        SwapWasCut \/ "add_key" \in {"attempt_index", "step_index"}
  BY <1>1, <1>2, <1>3, WithinAre DEF MigrationInv
<1>9. graphIds' \in {"none", "kept", "dangling"}
  BY <1>1 DEF MigrationInv, MigrationTypeOK
<1>10. QED BY <1>1, <1>2, <1>3, <1>6, <1>7, <1>8, <1>9, StatementKeeps

\* The plain index is built, unless the unique one stands after a cut swap.
LEMMA CreateStepIndexKeeps ==
    \A p \in Processes : MigrationInv /\ CreateStepIndex(p) => MigrationInv'
<1> SUFFICES ASSUME NEW p \in Processes, MigrationInv, CreateStepIndex(p) PROVE MigrationInv'
  OBVIOUS
<1> USE DEF PastKey, PastGraphs, PastStepIndex, PastAttemptIndex, PastDropIndex, PastStepChecks,
            PastAttempts, PastRunChecks, PastRename, PastQueue, PastSchema
<1>1. PICK next \in {"validation"} :
      /\ stage[p] = "step_index" /\ Go(p, next) /\ UNCHANGED <<steps, writing, graphIds, refused, cut, deaths>>
      /\ \/ schema' = [schema EXCEPT !.stepIndex = IF @ = "none" THEN "plain" ELSE @]
  BY FollowingIs DEF CreateStepIndex, Statement
<1>2. /\ schema'.stepIndex = (IF schema.stepIndex = "none" THEN "plain" ELSE schema.stepIndex) /\ schema'.tables = schema.tables /\ schema'.attempt = schema.attempt
      /\ schema'.attemptIndex = schema.attemptIndex /\ schema'.rules = schema.rules /\ schema'.statuses = schema.statuses
      /\ schema'.graphs = schema.graphs
      /\ schema' \in SchemaType
  BY <1>1 DEF MigrationInv, MigrationTypeOK, SchemaType, Rules
<1>3. "step_index" \in Migrating /\ next \in Stages
  BY <1>1, MigratingIs DEF Stages
<1>4. SwapWasCut' <=> SwapWasCut
  BY <1>1 DEF SwapWasCut
<1>5. Lasts("step_index") /\ Returns("step_index")
  BY <1>1 DEF MigrationInv
<1>a. schema'.stepIndex = "plain" \/ (SwapWasCut /\ schema'.stepIndex # "none")
  BY <1>2, <1>5 DEF Lasts, MigrationInv, MigrationTypeOK, SchemaType
<1>6. Lasts(next)' /\ (Lasts("serving") => Lasts("serving")')
  BY <1>1, <1>2, <1>4, <1>5, <1>a DEF Lasts
<1>7. Returns(next)' /\ (Lasts("serving") /\ Returns("serving") => Returns("serving")')
  BY <1>1, <1>2, <1>3, <1>5, WithinAre, <1>a DEF Returns, Lasts, SwapWasCut
<1>8. schema'.stepIndex = "none" /\ schema'.tables =>
        SwapWasCut \/ next \in {"attempt_index", "step_index"}
  BY <1>1, <1>2, <1>3, WithinAre, <1>a DEF MigrationInv
<1>9. graphIds' \in {"none", "kept", "dangling"} /\ (graphIds = "dangling" => graphIds' = "dangling")
  BY <1>1 DEF MigrationInv, MigrationTypeOK
<1>10. next = "failed" => SwapWasCut \/ graphIds' = "dangling"
  BY <1>1, <1>2, <1>5, <1>a DEF Lasts, MigrationInv
<1>11. QED BY <1>1, <1>2, <1>3, <1>6, <1>7, <1>8, <1>9, <1>10, StatementKeeps

\* The check of job capabilities goes and comes back.
LEMMA MigrateRunQueueCapabilitySchemaKeeps ==
    \A p \in Processes : MigrationInv /\ MigrateRunQueueCapabilitySchema(p) => MigrationInv'
<1> SUFFICES ASSUME NEW p \in Processes, MigrationInv, MigrateRunQueueCapabilitySchema(p) PROVE MigrationInv'
  OBVIOUS
<1> USE DEF PastKey, PastGraphs, PastStepIndex, PastAttemptIndex, PastDropIndex, PastStepChecks,
            PastAttempts, PastRunChecks, PastRename, PastQueue, PastSchema
<1>1. PICK next \in {"queue", "rename"} :
      /\ stage[p] = "queue" /\ Go(p, next) /\ UNCHANGED <<steps, writing, graphIds, refused, cut, deaths>>
      /\ \/ next = "queue" /\ schema' = Without({"job_caps"})
         \/ next = "rename" /\ schema' = With({"job_caps"})
  BY FollowingIs DEF MigrateRunQueueCapabilitySchema, Statement, Go, MigrationInv, MigrationTypeOK
<1>2. /\ schema'.rules = (IF next = "queue" THEN schema.rules \ {"job_caps"}
                         ELSE schema.rules \cup {"job_caps"}) /\ schema'.tables = schema.tables /\ schema'.attempt = schema.attempt
      /\ schema'.stepIndex = schema.stepIndex /\ schema'.attemptIndex = schema.attemptIndex /\ schema'.statuses = schema.statuses
      /\ schema'.graphs = schema.graphs
      /\ schema' \in SchemaType
  <2>1. {"job_caps"} \in SUBSET Rules
    BY DEF Rules
  <2>2. CASE next = "queue"
    BY <1>1, <2>1, <2>2, RulesChange DEF Alters
  <2>3. CASE next # "queue"
    BY <1>1, <2>1, <2>3, RulesChange DEF Alters
  <2>4. QED BY <2>2, <2>3
<1>3. "queue" \in Migrating /\ next \in Stages
  BY <1>1, MigratingIs DEF Stages
<1>4. SwapWasCut' <=> SwapWasCut
  BY <1>1 DEF SwapWasCut
<1>5. Lasts("queue") /\ Returns("queue")
  BY <1>1 DEF MigrationInv
<1>6. Lasts(next)' /\ (Lasts("serving") => Lasts("serving")')
  BY <1>1, <1>2, <1>4, <1>5 DEF Lasts
<1>7. Returns(next)' /\ (Lasts("serving") /\ Returns("serving") => Returns("serving")')
  BY <1>1, <1>2, <1>3, <1>5, WithinAre DEF Returns, Lasts, SwapWasCut
<1>8. schema'.stepIndex = "none" /\ schema'.tables =>
        SwapWasCut \/ next \in {"attempt_index", "step_index"}
  BY <1>1, <1>2, <1>3, WithinAre DEF MigrationInv
<1>9. graphIds' \in {"none", "kept", "dangling"} /\ (graphIds = "dangling" => graphIds' = "dangling")
  BY <1>1 DEF MigrationInv, MigrationTypeOK
<1>10. next = "failed" => SwapWasCut \/ graphIds' = "dangling"
  BY <1>1, <1>2, <1>5 DEF Lasts, MigrationInv
<1>11. QED BY <1>1, <1>2, <1>3, <1>6, <1>7, <1>8, <1>9, <1>10, StatementKeeps

\* The check of step statuses goes and comes back, with that of attempts.
LEMMA ReplaceStepChecksKeeps ==
    \A p \in Processes : MigrationInv /\ ReplaceStepChecks(p) => MigrationInv'
<1> SUFFICES ASSUME NEW p \in Processes, MigrationInv, ReplaceStepChecks(p) PROVE MigrationInv'
  OBVIOUS
<1> USE DEF PastKey, PastGraphs, PastStepIndex, PastAttemptIndex, PastDropIndex, PastStepChecks,
            PastAttempts, PastRunChecks, PastRename, PastQueue, PastSchema
<1>1. PICK next \in {"step_checks", "drop_index"} :
      /\ stage[p] = "step_checks" /\ Go(p, next) /\ UNCHANGED <<steps, writing, graphIds, refused, cut, deaths>>
      /\ \/ next = "step_checks" /\ schema' = Without({"step_status"})
         \/ next = "drop_index" /\ schema' = With({"step_status", "attempts"})
  BY FollowingIs DEF ReplaceStepChecks, Statement, Go, MigrationInv, MigrationTypeOK
<1>2. /\ schema'.rules = (IF next = "step_checks" THEN schema.rules \ {"step_status"}
                         ELSE schema.rules \cup {"step_status", "attempts"}) /\ schema'.tables = schema.tables /\ schema'.attempt = schema.attempt
      /\ schema'.stepIndex = schema.stepIndex /\ schema'.attemptIndex = schema.attemptIndex /\ schema'.statuses = schema.statuses
      /\ schema'.graphs = schema.graphs
      /\ schema' \in SchemaType
  <2>1. {"step_status"} \in SUBSET Rules
    BY DEF Rules
  <2>2. {"step_status", "attempts"} \in SUBSET Rules
    BY DEF Rules
  <2>3. CASE next = "step_checks"
    BY <1>1, <2>1, <2>2, <2>3, RulesChange DEF Alters
  <2>4. CASE next # "step_checks"
    BY <1>1, <2>1, <2>2, <2>4, RulesChange DEF Alters
  <2>5. QED BY <2>3, <2>4
<1>3. "step_checks" \in Migrating /\ next \in Stages
  BY <1>1, MigratingIs DEF Stages
<1>4. SwapWasCut' <=> SwapWasCut
  BY <1>1 DEF SwapWasCut
<1>5. Lasts("step_checks") /\ Returns("step_checks")
  BY <1>1 DEF MigrationInv
<1>6. Lasts(next)' /\ (Lasts("serving") => Lasts("serving")')
  BY <1>1, <1>2, <1>4, <1>5 DEF Lasts
<1>7. Returns(next)' /\ (Lasts("serving") /\ Returns("serving") => Returns("serving")')
  BY <1>1, <1>2, <1>3, <1>5, WithinAre DEF Returns, Lasts, SwapWasCut
<1>8. schema'.stepIndex = "none" /\ schema'.tables =>
        SwapWasCut \/ next \in {"attempt_index", "step_index"}
  BY <1>1, <1>2, <1>3, WithinAre DEF MigrationInv
<1>9. graphIds' \in {"none", "kept", "dangling"} /\ (graphIds = "dangling" => graphIds' = "dangling")
  BY <1>1 DEF MigrationInv, MigrationTypeOK
<1>10. next = "failed" => SwapWasCut \/ graphIds' = "dangling"
  BY <1>1, <1>2, <1>5 DEF Lasts, MigrationInv
<1>11. QED BY <1>1, <1>2, <1>3, <1>6, <1>7, <1>8, <1>9, <1>10, StatementKeeps

\* The check of run statuses comes back: the statuses are renamed by then.
LEMMA AddRunChecksKeeps == \A p \in Processes : MigrationInv /\ AddRunChecks(p) => MigrationInv'
<1> SUFFICES ASSUME NEW p \in Processes, MigrationInv, AddRunChecks(p) PROVE MigrationInv'
  OBVIOUS
<1> USE DEF PastKey, PastGraphs, PastStepIndex, PastAttemptIndex, PastDropIndex, PastStepChecks,
            PastAttempts, PastRunChecks, PastRename, PastQueue, PastSchema
<1>1. PICK next \in {"attempts", "failed"} :
      /\ stage[p] = "add_checks" /\ Go(p, next) /\ UNCHANGED <<steps, writing, graphIds, refused, cut, deaths>>
      /\ \/ next = "attempts" /\ schema' = With({"run_status"})
         \/ next = "failed" /\ schema' = schema /\ schema.statuses = "old"
  BY FollowingIs DEF AddRunChecks, Statement
<1>2. /\ schema'.rules = (IF next = "attempts" THEN schema.rules \cup {"run_status"} ELSE schema.rules) /\ schema'.tables = schema.tables /\ schema'.attempt = schema.attempt
      /\ schema'.stepIndex = schema.stepIndex /\ schema'.attemptIndex = schema.attemptIndex /\ schema'.statuses = schema.statuses
      /\ schema'.graphs = schema.graphs
      /\ schema' \in SchemaType
  <2>1. {"run_status"} \in SUBSET Rules
    BY DEF Rules
  <2>2. Alters(schema', schema'.rules) /\ schema'.rules = (IF next = "attempts" THEN schema.rules \cup {"run_status"} ELSE schema.rules)
    BY <1>1, <2>1, RulesChange DEF Alters
  <2>3. QED BY <2>2 DEF Alters
<1>3. "add_checks" \in Migrating /\ next \in Stages
  BY <1>1, MigratingIs DEF Stages
<1>4. SwapWasCut' <=> SwapWasCut
  BY <1>1 DEF SwapWasCut
<1>5. Lasts("add_checks") /\ Returns("add_checks")
  BY <1>1 DEF MigrationInv
<1>6. Lasts(next)' /\ (Lasts("serving") => Lasts("serving")')
  BY <1>1, <1>2, <1>4, <1>5 DEF Lasts
<1>7. Returns(next)' /\ (Lasts("serving") /\ Returns("serving") => Returns("serving")')
  BY <1>1, <1>2, <1>3, <1>5, WithinAre DEF Returns, Lasts, SwapWasCut
<1>8. schema'.stepIndex = "none" /\ schema'.tables =>
        SwapWasCut \/ next \in {"attempt_index", "step_index"}
  BY <1>1, <1>2, <1>3, WithinAre DEF MigrationInv
<1>9. graphIds' \in {"none", "kept", "dangling"} /\ (graphIds = "dangling" => graphIds' = "dangling")
  BY <1>1 DEF MigrationInv, MigrationTypeOK
<1>10. next = "failed" => SwapWasCut \/ graphIds' = "dangling"
  BY <1>1, <1>2, <1>5 DEF Lasts, MigrationInv
<1>11. QED BY <1>1, <1>2, <1>3, <1>6, <1>7, <1>8, <1>9, <1>10, StatementKeeps

\* The column of the validation's status is added where it is missing.
LEMMA MigrateAgentRunValidationSchemaKeeps ==
    \A p \in Processes : MigrationInv /\ MigrateAgentRunValidationSchema(p) => MigrationInv'
<1> SUFFICES ASSUME NEW p \in Processes, MigrationInv, MigrateAgentRunValidationSchema(p) PROVE MigrationInv'
  OBVIOUS
<1> USE DEF PastKey, PastGraphs, PastStepIndex, PastAttemptIndex, PastDropIndex, PastStepChecks,
            PastAttempts, PastRunChecks, PastRename, PastQueue, PastSchema
<1>1. PICK next \in {"drop_graphs"} :
      /\ stage[p] = "validation" /\ Go(p, next) /\ UNCHANGED <<steps, writing, graphIds, refused, cut, deaths>>
      /\ \/ schema' = IF schema.validation THEN schema
                   ELSE [With({"validation_status"}) EXCEPT !.validation = TRUE]
  BY FollowingIs DEF MigrateAgentRunValidationSchema, Statement
<1>2. /\ schema.rules \subseteq schema'.rules /\ schema'.tables = schema.tables /\ schema'.attempt = schema.attempt
      /\ schema'.stepIndex = schema.stepIndex /\ schema'.attemptIndex = schema.attemptIndex /\ schema'.statuses = schema.statuses
      /\ schema'.graphs = schema.graphs
      /\ schema' \in SchemaType
  <2>1. PICK new \in SchemaType : new = With({"validation_status"})
    BY RulesChange DEF Rules, Alters
  <2>2. /\ new.rules = schema.rules \cup {"validation_status"}
        /\ new.tables = schema.tables /\ new.attempt = schema.attempt
        /\ new.stepIndex = schema.stepIndex /\ new.attemptIndex = schema.attemptIndex
        /\ new.statuses = schema.statuses /\ new.graphs = schema.graphs
    BY <2>1, RulesChange DEF Rules, Alters
  <2>3. schema' = schema \/ schema' = [new EXCEPT !.validation = TRUE]
    BY <1>1, <2>1, Zenon
  <2>4. CASE schema' = schema
    BY <2>4 DEF MigrationInv, MigrationTypeOK
  <2>5. CASE schema' = [new EXCEPT !.validation = TRUE]
    BY <2>2, <2>5 DEF SchemaType
  <2>6. QED BY <2>3, <2>4, <2>5
<1>3. "validation" \in Migrating /\ next \in Stages
  BY <1>1, MigratingIs DEF Stages
<1>4. SwapWasCut' <=> SwapWasCut
  BY <1>1 DEF SwapWasCut
<1>5. Lasts("validation") /\ Returns("validation")
  BY <1>1 DEF MigrationInv
<1>6. Lasts(next)' /\ (Lasts("serving") => Lasts("serving")')
  BY <1>1, <1>2, <1>4, <1>5 DEF Lasts
<1>7. Returns(next)' /\ (Lasts("serving") /\ Returns("serving") => Returns("serving")')
  BY <1>1, <1>2, <1>3, <1>5, WithinAre DEF Returns, Lasts, SwapWasCut
<1>8. schema'.stepIndex = "none" /\ schema'.tables =>
        SwapWasCut \/ next \in {"attempt_index", "step_index"}
  BY <1>1, <1>2, <1>3, WithinAre DEF MigrationInv
<1>9. graphIds' \in {"none", "kept", "dangling"} /\ (graphIds = "dangling" => graphIds' = "dangling")
  BY <1>1 DEF MigrationInv, MigrationTypeOK
<1>10. next = "failed" => SwapWasCut \/ graphIds' = "dangling"
  BY <1>1, <1>2, <1>5 DEF Lasts, MigrationInv
<1>11. QED BY <1>1, <1>2, <1>3, <1>6, <1>7, <1>8, <1>9, <1>10, StatementKeeps

\* The key comes back, or runs point at graphs that are gone.
LEMMA AddGraphKeyKeeps == \A p \in Processes : MigrationInv /\ AddGraphKey(p) => MigrationInv'
<1> SUFFICES ASSUME NEW p \in Processes, MigrationInv, AddGraphKey(p) PROVE MigrationInv'
  OBVIOUS
<1> USE DEF PastKey, PastGraphs, PastStepIndex, PastAttemptIndex, PastDropIndex, PastStepChecks,
            PastAttempts, PastRunChecks, PastRename, PastQueue, PastSchema
<1>1. PICK next \in {"settle", "failed"} :
      /\ stage[p] = "add_key" /\ Go(p, next) /\ UNCHANGED <<steps, writing, graphIds, refused, cut, deaths>>
      /\ \/ next = "settle" /\ schema' = With({"graph_key"}) /\ graphIds # "dangling"
         \/ next = "failed" /\ schema' = schema /\ graphIds = "dangling"
  BY FollowingIs DEF AddGraphKey, Statement
<1>2. /\ schema'.rules = (IF next = "settle" THEN schema.rules \cup {"graph_key"} ELSE schema.rules) /\ schema'.tables = schema.tables /\ schema'.attempt = schema.attempt
      /\ schema'.stepIndex = schema.stepIndex /\ schema'.attemptIndex = schema.attemptIndex /\ schema'.statuses = schema.statuses
      /\ schema'.graphs = schema.graphs
      /\ schema' \in SchemaType
  <2>1. {"graph_key"} \in SUBSET Rules
    BY DEF Rules
  <2>2. Alters(schema', schema'.rules) /\ schema'.rules = (IF next = "settle" THEN schema.rules \cup {"graph_key"} ELSE schema.rules)
    BY <1>1, <2>1, RulesChange, SMTT(40) DEF Alters
  <2>3. QED BY <2>2 DEF Alters
<1>3. "add_key" \in Migrating /\ next \in Stages
  BY <1>1, MigratingIs DEF Stages
<1>4. SwapWasCut' <=> SwapWasCut
  BY <1>1 DEF SwapWasCut
<1>5. Lasts("add_key") /\ Returns("add_key")
  BY <1>1 DEF MigrationInv
<1>6. Lasts(next)' /\ (Lasts("serving") => Lasts("serving")')
  BY <1>1, <1>2, <1>4, <1>5 DEF Lasts
<1>7. Returns(next)' /\ (Lasts("serving") /\ Returns("serving") => Returns("serving")')
  BY <1>1, <1>2, <1>3, <1>5, WithinAre DEF Returns, Lasts, SwapWasCut
<1>8. schema'.stepIndex = "none" /\ schema'.tables =>
        SwapWasCut \/ next \in {"attempt_index", "step_index"}
  BY <1>1, <1>2, <1>3, WithinAre DEF MigrationInv
<1>9. graphIds' \in {"none", "kept", "dangling"} /\ (graphIds = "dangling" => graphIds' = "dangling")
  BY <1>1 DEF MigrationInv, MigrationTypeOK
<1>10. next = "failed" => SwapWasCut \/ graphIds' = "dangling"
  BY <1>1, <1>2, <1>5 DEF Lasts, MigrationInv
<1>11. QED BY <1>1, <1>2, <1>3, <1>6, <1>7, <1>8, <1>9, <1>10, StatementKeeps

\* The migration is over: tables and columns are there.
LEMMA SettleKeeps == \A p \in Processes : MigrationInv /\ Settle(p) => MigrationInv'
<1> SUFFICES ASSUME NEW p \in Processes, MigrationInv, Settle(p) PROVE MigrationInv'
  OBVIOUS
<1> USE DEF PastKey, PastGraphs, PastStepIndex, PastAttemptIndex, PastDropIndex, PastStepChecks,
            PastAttempts, PastRunChecks, PastRename, PastQueue, PastSchema
<1>1. PICK next \in {"serving", "failed"} :
      /\ stage[p] = "settle" /\ Go(p, next) /\ UNCHANGED <<steps, writing, graphIds, refused, cut, deaths>>
      /\ \/ next = "serving" /\ schema' = schema
         \/ next = "failed" /\ schema' = schema /\ ~(schema.tables /\ schema.graphs = "current" /\ schema.attempt)
  BY FollowingIs DEF Settle, Statement
<1>2. /\ schema'.tables = schema.tables /\ schema'.attempt = schema.attempt /\ schema'.stepIndex = schema.stepIndex
      /\ schema'.attemptIndex = schema.attemptIndex /\ schema'.rules = schema.rules /\ schema'.statuses = schema.statuses
      /\ schema'.graphs = schema.graphs
      /\ schema' \in SchemaType
  BY <1>1 DEF MigrationInv, MigrationTypeOK, SchemaType, Rules
<1>3. "settle" \in Migrating /\ next \in Stages
  BY <1>1, MigratingIs DEF Stages
<1>4. SwapWasCut' <=> SwapWasCut
  BY <1>1 DEF SwapWasCut
<1>5. Lasts("settle") /\ Returns("settle")
  BY <1>1 DEF MigrationInv
<1>6. Lasts(next)' /\ (Lasts("serving") => Lasts("serving")')
  BY <1>1, <1>2, <1>4, <1>5 DEF Lasts
<1>7. Returns(next)' /\ (Lasts("serving") /\ Returns("serving") => Returns("serving")')
  BY <1>1, <1>2, <1>3, <1>5, WithinAre DEF Returns, Lasts, SwapWasCut
<1>8. schema'.stepIndex = "none" /\ schema'.tables =>
        SwapWasCut \/ next \in {"attempt_index", "step_index"}
  BY <1>1, <1>2, <1>3, WithinAre DEF MigrationInv
<1>9. graphIds' \in {"none", "kept", "dangling"} /\ (graphIds = "dangling" => graphIds' = "dangling")
  BY <1>1 DEF MigrationInv, MigrationTypeOK
<1>10. next = "failed" => SwapWasCut \/ graphIds' = "dangling"
  BY <1>1, <1>2, <1>5 DEF Lasts, MigrationInv
<1>11. QED BY <1>1, <1>2, <1>3, <1>6, <1>7, <1>8, <1>9, <1>10, StatementKeeps

\* Graph tables of the earlier shape go; then no process has served yet.
LEMMA DropLegacyGraphsKeeps ==
    \A p \in Processes : MigrationInv /\ DropLegacyGraphs(p) => MigrationInv'
<1> SUFFICES ASSUME NEW p \in Processes, MigrationInv, DropLegacyGraphs(p) PROVE MigrationInv'
  OBVIOUS
<1> USE DEF PastKey, PastGraphs, PastStepIndex, PastAttemptIndex, PastDropIndex, PastStepChecks,
            PastAttempts, PastRunChecks, PastRename, PastQueue, PastSchema
<1>1. PICK next \in {"graphs"} :
      /\ stage[p] = "drop_graphs" /\ Go(p, next) /\ UNCHANGED <<steps, writing, refused, cut, deaths>>
      /\ \/ /\ schema.graphs = "legacy" /\ schema' = [Without({"graph_key"}) EXCEPT !.graphs = "none"]
            /\ graphIds' = IF graphIds = "kept" THEN "dangling" ELSE graphIds
         \/ UNCHANGED <<schema, graphIds>>
  BY FollowingIs DEF DropLegacyGraphs, Statement
<1>2. /\ schema'.tables = schema.tables /\ schema'.attempt = schema.attempt /\ schema'.stepIndex = schema.stepIndex
      /\ schema'.attemptIndex = schema.attemptIndex /\ schema'.statuses = schema.statuses
      /\ schema.rules \ {"graph_key"} \subseteq schema'.rules
      /\ \/ schema'.graphs = schema.graphs /\ schema'.rules = schema.rules /\ graphIds' = graphIds
         \/ schema.graphs = "legacy"
      /\ schema' \in SchemaType
  <2>1. PICK new \in SchemaType : new = Without({"graph_key"})
    BY RulesChange DEF Rules, Alters
  <2>2. /\ new.rules = schema.rules \ {"graph_key"}
        /\ new.tables = schema.tables /\ new.attempt = schema.attempt
        /\ new.stepIndex = schema.stepIndex /\ new.attemptIndex = schema.attemptIndex
        /\ new.statuses = schema.statuses /\ new.graphs = schema.graphs
    BY <2>1, RulesChange DEF Rules, Alters
  <2>3. CASE UNCHANGED <<schema, graphIds>>
    BY <2>3 DEF MigrationInv, MigrationTypeOK
  <2>4. CASE schema.graphs = "legacy" /\ schema' = [new EXCEPT !.graphs = "none"]
    BY <2>2, <2>4 DEF SchemaType
  <2>5. QED BY <1>1, <2>1, <2>3, <2>4
<1>3. "drop_graphs" \in Migrating /\ next \in Stages
  BY <1>1, MigratingIs DEF Stages
<1>4. SwapWasCut' <=> SwapWasCut
  BY <1>1 DEF SwapWasCut
<1>5. Lasts("drop_graphs") /\ Returns("drop_graphs")
  BY <1>1 DEF MigrationInv
<1>6. Lasts(next)' /\ (Lasts("serving") => Lasts("serving")')
  BY <1>1, <1>2, <1>4, <1>5 DEF Lasts
<1>7. Returns(next)' /\ (Lasts("serving") /\ Returns("serving") => Returns("serving")')
  BY <1>1, <1>2, <1>3, <1>5, WithinAre DEF Returns, Lasts, SwapWasCut
<1>8. schema'.stepIndex = "none" /\ schema'.tables =>
        SwapWasCut \/ next \in {"attempt_index", "step_index"}
  BY <1>1, <1>2, <1>3, WithinAre DEF MigrationInv
<1>9. graphIds' \in {"none", "kept", "dangling"} /\ (graphIds = "dangling" => graphIds' = "dangling")
  BY <1>1 DEF MigrationInv, MigrationTypeOK
<1>10. next = "failed" => SwapWasCut \/ graphIds' = "dangling"
  BY <1>1, <1>2, <1>5 DEF Lasts, MigrationInv
<1>11. QED BY <1>1, <1>2, <1>3, <1>6, <1>7, <1>8, <1>9, <1>10, StatementKeeps

\* The schema is created where names are free, the unique index among them.
LEMMA CreateSchemaKeeps == \A p \in Processes : MigrationInv /\ CreateSchema(p) => MigrationInv'
<1> SUFFICES ASSUME NEW p \in Processes, MigrationInv, CreateSchema(p) PROVE MigrationInv'
  OBVIOUS
<1> USE DEF PastKey, PastGraphs, PastStepIndex, PastAttemptIndex, PastDropIndex, PastStepChecks,
            PastAttempts, PastRunChecks, PastRename, PastQueue, PastSchema
<1>1. PICK next \in {"queue", "failed"} :
      /\ stage[p] = "schema" /\ Go(p, next) /\ UNCHANGED <<steps, writing, graphIds, refused, cut, deaths>>
      /\ \/ next = "failed" /\ schema' = schema /\ schema.stepIndex = "none" /\ TwiceTried
         \/ /\ next = "queue"
            /\ schema' = [schema EXCEPT
                  !.tables = TRUE,
                  !.stepIndex = IF @ = "none" THEN "unique" ELSE @,
                  !.attempt = @ \/ ~schema.tables, !.validation = @ \/ ~schema.tables,
                  !.rules = IF schema.tables THEN @
                            ELSE {"run_status", "validation_status", "step_status"}]
  BY FollowingIs DEF CreateSchema, Statement
<1>2. /\ schema'.attemptIndex = schema.attemptIndex /\ schema'.statuses = schema.statuses
      /\ schema'.graphs = schema.graphs /\ (next = "queue" => schema'.tables)
      /\ schema.tables => schema'.tables /\ schema'.attempt = schema.attempt /\ schema'.rules = schema.rules
      /\ next = "queue" => schema'.stepIndex # "none"
      /\ schema'.stepIndex = schema.stepIndex \/ (schema.stepIndex = "none" /\ schema'.stepIndex = "unique")
      /\ next = "failed" => schema' = schema
      /\ schema' \in SchemaType
  <2> DEFINE stepIndex == IF schema.stepIndex = "none" THEN "unique" ELSE schema.stepIndex
             attempt == schema.attempt \/ ~schema.tables
             validation == schema.validation \/ ~schema.tables
             rules == IF schema.tables THEN schema.rules
                      ELSE {"run_status", "validation_status", "step_status"}
  <2>1. schema \in SchemaType
    BY DEF MigrationInv, MigrationTypeOK
  <2>2. /\ stepIndex \in {"unique", "plain"}
        /\ stepIndex = schema.stepIndex \/ (schema.stepIndex = "none" /\ stepIndex = "unique")
    BY <2>1 DEF SchemaType
  <2>3. attempt \in BOOLEAN /\ validation \in BOOLEAN
    BY <2>1, Zenon DEF SchemaType
  <2>4. rules \in SUBSET Rules
    BY <2>1 DEF SchemaType, Rules
  <2>5. schema.tables => attempt = schema.attempt /\ rules = schema.rules
    BY <2>1 DEF SchemaType
  <2>6. next = "queue" => schema' = [schema EXCEPT !.tables = TRUE, !.stepIndex = stepIndex, !.attempt = attempt,
                                                   !.validation = validation, !.rules = rules]
    BY <1>1, Zenon
  <2> HIDE DEF stepIndex, attempt, validation, rules
  <2>7. CASE next = "queue"
    BY <2>1, <2>2, <2>3, <2>4, <2>5, <2>6, <2>7 DEF SchemaType
  <2>8. CASE next = "failed"
    BY <1>1, <2>1, <2>8
  <2>9. QED BY <1>1, <2>7, <2>8
<1>3. "schema" \in Migrating /\ next \in Stages
  BY <1>1, MigratingIs DEF Stages
<1>4. SwapWasCut' <=> SwapWasCut
  BY <1>1 DEF SwapWasCut
<1>5. Lasts("schema") /\ Returns("schema")
  BY <1>1 DEF MigrationInv
<1>a. next = "failed" => SwapWasCut
  <2>1. "schema" \notin {"attempt_index", "step_index"}
    OBVIOUS
  <2>2. QED BY <1>1, <1>3, <2>1, WithinAre DEF MigrationInv
<1>b. schema.stepIndex = "none" /\ schema.tables => SwapWasCut
  BY <1>1, <1>3, WithinAre DEF MigrationInv
<1>6. Lasts(next)' /\ (Lasts("serving") => Lasts("serving")')
  BY <1>1, <1>2, <1>4, <1>5, <1>a, <1>b DEF Lasts
<1>7. Returns(next)' /\ (Lasts("serving") /\ Returns("serving") => Returns("serving")')
  BY <1>1, <1>2, <1>3, <1>5, WithinAre, <1>a, <1>b DEF Returns, Lasts, SwapWasCut
<1>8. schema'.stepIndex = "none" /\ schema'.tables =>
        SwapWasCut \/ next \in {"attempt_index", "step_index"}
  BY <1>1, <1>2, <1>3, WithinAre, <1>a, <1>b DEF MigrationInv
<1>9. graphIds' \in {"none", "kept", "dangling"} /\ (graphIds = "dangling" => graphIds' = "dangling")
  BY <1>1 DEF MigrationInv, MigrationTypeOK
<1>10. next = "failed" => SwapWasCut \/ graphIds' = "dangling"
  BY <1>1, <1>2, <1>5, <1>a, <1>b DEF Lasts, MigrationInv
<1>11. QED BY <1>1, <1>2, <1>3, <1>6, <1>7, <1>8, <1>9, <1>10, StatementKeeps

\* A process that waits, waits for the lock, or dies where it does not migrate.
LEMMA MoveKeeps ==
    ASSUME MigrationInv, NEW p \in Processes, NEW next \in {"down", "wants", "schema"}, Go(p, next),
           stage[p] \notin Migrating, next = "schema" => ~Locked,
           MigrationTypeOK', UNCHANGED <<steps, schema, graphIds, refused, cut>>
    PROVE  MigrationInv'
<1>1. \A q \in Processes : stage'[q] = IF q = p THEN next ELSE stage[q]
  BY DEF MigrationInv, MigrationTypeOK, Go
<1>2. (\A q, r \in Processes : stage[q] \in Migrating /\ stage[r] \in Migrating => q = r)'
  BY <1>1, MigratingIs DEF MigrationInv, Locked
<1>3. ASSUME NEW points, points \subseteq Migrating, "schema" \notin points
      PROVE  Within(points)' <=> Within(points)
  BY <1>1, <1>3, MigratingIs DEF Within
<1>4. /\ Within({"queue"})' <=> Within({"queue"})
      /\ Within({"add_checks"})' <=> Within({"add_checks"})
      /\ Within({"step_checks"})' <=> Within({"step_checks"})
      /\ Within({"attempt_index", "step_index"})' <=> Within({"attempt_index", "step_index"})
      /\ Within({"add_key"})' <=> Within({"add_key"})
  BY <1>3, MigratingIs
<1>5. SwapWasCut' <=> SwapWasCut
  BY DEF SwapWasCut
<1>6. ASSUME NEW q \in Processes PROVE Lasts(stage[q])' /\ Returns(stage[q])'
  <2>1. CASE q = p
    BY <1>1, <2>1 DEF Lasts, Returns, PastKey, PastGraphs, PastStepIndex, PastAttemptIndex,
       PastDropIndex, PastStepChecks, PastAttempts, PastRunChecks, PastRename, PastQueue, PastSchema
  <2>2. CASE q # p
    <3>1. stage'[q] = stage[q] /\ Lasts(stage[q]) /\ Returns(stage[q])
      BY <1>1, <2>2 DEF MigrationInv
    <3>2. Lasts(stage[q])'
      BY <1>5, <3>1 DEF Lasts
    <3>3. Returns(stage[q])'
      BY <1>4, <3>1 DEF Returns
    <3>4. QED BY <3>2, <3>3
  <2>3. QED BY <2>1, <2>2
<1>7. (~schema.tables => ~TwiceTried)'
  BY DEF MigrationInv, TwiceTried
<1>8. (schema.stepIndex = "none" /\ schema.tables =>
         SwapWasCut \/ Within({"attempt_index", "step_index"}))'
  BY <1>4, <1>5 DEF MigrationInv
<1>9. (\A q \in Processes : stage[q] = "failed" => SwapWasCut \/ graphIds = "dangling")'
  BY <1>1, <1>5 DEF MigrationInv
<1>10. (refused # {} => SwapWasCut)'
  BY <1>5 DEF MigrationInv
<1>11. QED BY <1>2, <1>6, <1>7, <1>8, <1>9, <1>10, Zenon DEF MigrationInv

\* A process starts and waits for the lock.
LEMMA ConnectKeeps == \A p \in Processes : MigrationInv /\ Connect(p) => MigrationInv'
<1> SUFFICES ASSUME NEW p \in Processes, MigrationInv, Connect(p) PROVE MigrationInv'
  OBVIOUS
<1>1. /\ stage[p] = "down" /\ Go(p, "wants")
      /\ UNCHANGED <<steps, writing, schema, graphIds, refused, cut, deaths>>
  BY DEF Connect
<1>2. MigrationTypeOK'
  BY <1>1 DEF MigrationInv, MigrationTypeOK, Go, Stages
<1>3. QED BY <1>1, <1>2, MigratingIs, MoveKeeps

\* A process gets the lock when nobody migrates.
LEMMA AcquireKeeps == \A p \in Processes : MigrationInv /\ AcquireAdvisoryLock(p) => MigrationInv'
<1> SUFFICES ASSUME NEW p \in Processes, MigrationInv, AcquireAdvisoryLock(p) PROVE MigrationInv'
  OBVIOUS
<1>1. /\ stage[p] = "wants" /\ ~Locked /\ Go(p, "schema")
      /\ UNCHANGED <<steps, writing, schema, graphIds, refused, cut, deaths>>
  BY DEF AcquireAdvisoryLock
<1>2. "schema" \in Stages
  BY MigratingIs DEF Stages
<1>3. MigrationTypeOK'
  BY <1>1, <1>2 DEF MigrationInv, MigrationTypeOK, Go
<1>4. QED BY <1>1, <1>3, MigratingIs, MoveKeeps

\* Nothing that tells of the schema has changed.
LEMMA SchemaStays ==
    ASSUME MigrationInv, MigrationTypeOK', UNCHANGED <<stage, schema, graphIds, cut>>,
           schema.tables \/ steps' = steps, refused' # {} => SwapWasCut
    PROVE  MigrationInv'
<1>1. \A points : Within(points)' <=> Within(points)
  BY DEF Within
<1>2. SwapWasCut' <=> SwapWasCut
  BY DEF SwapWasCut
<1>3. ASSUME NEW q \in Processes PROVE Lasts(stage[q])' /\ Returns(stage[q])'
  <2>1. stage'[q] = stage[q] /\ Lasts(stage[q]) /\ Returns(stage[q])
    BY DEF MigrationInv
  <2>2. Lasts(stage[q])'
    BY <1>2, <2>1 DEF Lasts
  <2>3. Returns(stage[q])'
    BY <1>1, <2>1 DEF Returns
  <2>4. QED BY <2>2, <2>3
<1>4. (~schema.tables => ~TwiceTried)'
  BY DEF MigrationInv, TwiceTried
<1>5. (schema.stepIndex = "none" /\ schema.tables =>
         SwapWasCut \/ Within({"attempt_index", "step_index"}))'
  BY <1>1, <1>2 DEF MigrationInv
<1>6. (\A q \in Processes : stage[q] = "failed" => SwapWasCut \/ graphIds = "dangling")'
  BY <1>2 DEF MigrationInv
<1>7. (\A q, r \in Processes : stage[q] \in Migrating /\ stage[r] \in Migrating => q = r)'
  BY DEF MigrationInv
<1>8. (refused # {} => SwapWasCut)'
  BY <1>2
<1>9. QED BY <1>3, <1>4, <1>5, <1>6, <1>7, <1>8, Zenon DEF MigrationInv

\* An INSERT of a step begins.
LEMMA BeginStepKeeps ==
    \A p \in Processes, s \in Slots : MigrationInv /\ BeginStep(p, s) => MigrationInv'
<1> SUFFICES ASSUME NEW p \in Processes, NEW s \in Slots, MigrationInv, BeginStep(p, s) PROVE MigrationInv'
  OBVIOUS
<1>1. /\ steps[s] < MaxAttempts /\ writing' = [writing EXCEPT ![p] = [slot |-> s, attempt |-> steps[s] + 1]]
      /\ UNCHANGED <<stage, steps, schema, graphIds, refused, cut, deaths>>
  BY DEF BeginStep
<1>2. steps[s] \in 0..MaxAttempts /\ MaxAttempts \in Nat
  BY StoreMigrationAssumption DEF StoreMigrationAssumption, MigrationInv, MigrationTypeOK
<1>3. steps[s] + 1 \in 0..MaxAttempts
  BY <1>1, <1>2
<1>4. MigrationTypeOK'
  BY <1>1, <1>3 DEF MigrationInv, MigrationTypeOK
<1>5. QED BY <1>1, <1>4, SchemaStays DEF MigrationInv

\* It ends; only the unique index can bar it.
LEMMA EndStepKeeps == \A p \in Processes : MigrationInv /\ EndStep(p) => MigrationInv'
<1> SUFFICES ASSUME NEW p \in Processes, MigrationInv, EndStep(p) PROVE MigrationInv'
  OBVIOUS
<1>1. PICK s \in Slots, attempt \in 0..MaxAttempts : s = writing[p].slot /\ attempt = writing[p].attempt
  BY DEF MigrationInv, MigrationTypeOK
<1>2. /\ stage[p] = "serving" /\ writing' = [writing EXCEPT ![p].attempt = 0]
      /\ steps' \in {steps, [steps EXCEPT ![s] = attempt]}
      /\ refused' = refused \/ (schema.stepIndex = "unique" /\ refused' = refused \cup {s})
      /\ UNCHANGED <<stage, schema, graphIds, cut, deaths>>
  BY <1>1 DEF EndStep
<1>3. Lasts("serving")
  BY <1>2 DEF MigrationInv
<1>4. schema.tables /\ (schema.stepIndex = "unique" => SwapWasCut)
  BY <1>3 DEF Lasts, PastKey, PastGraphs, PastStepIndex, PastAttemptIndex,
     PastDropIndex, PastStepChecks, PastAttempts, PastRunChecks, PastRename, PastQueue, PastSchema
<1>5. 0 \in 0..MaxAttempts
  BY StoreMigrationAssumption DEF StoreMigrationAssumption
<1>6. MigrationTypeOK'
  <2>1. writing' \in [Processes -> [slot : Slots, attempt : 0..MaxAttempts]]
    BY <1>2, <1>5 DEF MigrationInv, MigrationTypeOK
  <2>2. steps' \in [Slots -> 0..MaxAttempts]
    BY <1>2 DEF MigrationInv, MigrationTypeOK
  <2>3. refused' \subseteq Slots
    BY <1>2 DEF MigrationInv, MigrationTypeOK
  <2>4. QED BY <1>2, <2>1, <2>2, <2>3 DEF MigrationInv, MigrationTypeOK
<1>7. QED BY <1>2, <1>4, <1>6, SchemaStays DEF MigrationInv

\* A process dies; a migration it cuts short is remembered.
LEMMA DieKeeps == \A p \in Processes : MigrationInv /\ Die(p) => MigrationInv'
<1> SUFFICES ASSUME NEW p \in Processes, MigrationInv, Die(p) PROVE MigrationInv'
  OBVIOUS
<1>1. /\ Go(p, "down") /\ deaths < MaxDeaths /\ deaths' = deaths + 1
      /\ writing' = [writing EXCEPT ![p].attempt = 0]
      /\ cut' = (IF stage[p] \in Migrating THEN cut \cup {stage[p]} ELSE cut)
      /\ UNCHANGED <<steps, schema, graphIds, refused>>
  BY DEF Die
<1>2. MigrationTypeOK'
  <2>1. 0 \in 0..MaxAttempts /\ MaxDeaths \in Nat
    BY StoreMigrationAssumption DEF StoreMigrationAssumption
  <2>2. writing' \in [Processes -> [slot : Slots, attempt : 0..MaxAttempts]]
    BY <1>1, <2>1 DEF MigrationInv, MigrationTypeOK
  <2>3. deaths' \in 0..MaxDeaths
    BY <1>1, <2>1 DEF MigrationInv, MigrationTypeOK
  <2>4. cut' \subseteq Migrating
    BY <1>1 DEF MigrationInv, MigrationTypeOK
  <2>5. stage' \in [Processes -> Stages]
    BY <1>1 DEF MigrationInv, MigrationTypeOK, Go, Stages
  <2>6. QED BY <1>1, <2>2, <2>3, <2>4, <2>5 DEF MigrationInv, MigrationTypeOK
<1>3. CASE stage[p] \notin Migrating
  BY <1>1, <1>2, <1>3, MoveKeeps
<1>4. CASE stage[p] \in Migrating
  <2>1. \A q \in Processes : stage'[q] = IF q = p THEN "down" ELSE stage[q]
    BY <1>1 DEF MigrationInv, MigrationTypeOK, Go
  <2>2. cut' # {} /\ (SwapWasCut => SwapWasCut')
        /\ (stage[p] \in {"attempt_index", "step_index"} => SwapWasCut')
    BY <1>1, <1>4 DEF SwapWasCut
  <2>3. ASSUME NEW q \in Processes PROVE Lasts(stage[q])' /\ Returns(stage[q])'
    <3>1. Returns(stage[q])'
      BY <2>2 DEF Returns
    <3>2. CASE q = p
      BY <2>1, <3>1, <3>2 DEF Lasts, PastKey, PastGraphs, PastStepIndex, PastAttemptIndex,
         PastDropIndex, PastStepChecks, PastAttempts, PastRunChecks, PastRename, PastQueue, PastSchema
    <3>3. CASE q # p
      <4>1. stage'[q] = stage[q] /\ Lasts(stage[q])
        BY <2>1, <3>3 DEF MigrationInv
      <4>2. Lasts(stage[q])'
        BY <1>1, <2>2, <4>1 DEF Lasts
      <4>3. QED BY <3>1, <4>2
    <3>4. QED BY <3>2, <3>3
  <2>4. (~schema.tables => ~TwiceTried)'
    BY <1>1 DEF MigrationInv, TwiceTried
  <2>5. (schema.stepIndex = "none" /\ schema.tables =>
           SwapWasCut \/ Within({"attempt_index", "step_index"}))'
    BY <1>1, <1>4, <2>2, WithinAre DEF MigrationInv
  <2>6. (\A q \in Processes : stage[q] = "failed" => SwapWasCut \/ graphIds = "dangling")'
    BY <1>1, <2>1, <2>2 DEF MigrationInv
  <2>7. (\A q, r \in Processes : stage[q] \in Migrating /\ stage[r] \in Migrating => q = r)'
    BY <2>1, MigratingIs DEF MigrationInv
  <2>8. (refused # {} => SwapWasCut)'
    BY <1>1, <2>2 DEF MigrationInv
  <2>9. QED BY <1>2, <2>3, <2>4, <2>5, <2>6, <2>7, <2>8, Zenon DEF MigrationInv
<1>5. QED BY <1>3, <1>4

\* The invariant of migrations holds for every number of processes and deaths.
THEOREM MigrationsAreInductive == MigrationSpec => []MigrationInv
<1>1. MigrationInit => MigrationInv
  BY MigrationStart
<1>2. MigrationInv /\ [MigrationNext]_storeSchemaVars => MigrationInv'
  <2> SUFFICES ASSUME MigrationInv, [MigrationNext]_storeSchemaVars PROVE MigrationInv'
    OBVIOUS
  <2>1. ASSUME NEW p \in Processes, Connect(p) \/ AcquireAdvisoryLock(p) PROVE MigrationInv'
    BY <2>1, ConnectKeeps, AcquireKeeps
  <2>2. ASSUME NEW p \in Processes, Migrate(p) PROVE MigrationInv'
    BY <2>2, CreateSchemaKeeps, MigrateRunQueueCapabilitySchemaKeeps, RenameStatusesKeeps,
       DropRunChecksKeeps, AddRunChecksKeeps, AddAttemptsKeeps, ReplaceStepChecksKeeps,
       DropStepIndexKeeps, CreateAttemptIndexKeeps, CreateStepIndexKeeps,
       MigrateAgentRunValidationSchemaKeeps, DropLegacyGraphsKeeps, CreateGraphsKeeps,
       DropGraphKeyKeeps, AddGraphKeyKeeps, SettleKeeps, Zenon DEF Migrate
  <2>3. ASSUME NEW p \in Processes, (\E s \in Slots : BeginStep(p, s)) \/ EndStep(p) \/ Die(p)
        PROVE  MigrationInv'
    BY <2>3, BeginStepKeeps, EndStepKeeps, DieKeeps
  <2>4. CASE UNCHANGED storeSchemaVars
    <3>1. MigrationTypeOK'
      BY <2>4 DEF MigrationInv, MigrationTypeOK, storeSchemaVars
    <3>2. QED BY <2>4, <3>1, SchemaStays DEF storeSchemaVars, MigrationInv
  <2>5. QED BY <2>1, <2>2, <2>3, <2>4, Zenon DEF MigrationNext
<1>3. QED BY <1>1, <1>2, PTL DEF MigrationSpec

\* A process that serves may record any attempt of a step, and a process starts,
\* unless a death cut the swap of the indexes or runs point at graphs of the
\* earlier version; who serves when nobody migrates or died migrating serves a
\* complete schema (project-store.ts, initialize).
THEOREM SchemaAlwaysServes == MigrationSpec => []SchemaServes
<1>1. MigrationInv => SchemaServes
  <2> SUFFICES ASSUME MigrationInv PROVE SchemaServes
    OBVIOUS
  <2>1. ASSUME NEW p \in Processes, stage[p] = "serving", ~Locked, cut = {}
        PROVE  /\ schema.stepIndex = "plain" /\ schema.attemptIndex /\ schema.attempt
               /\ Rules \ {"validation_status"} \subseteq schema.rules /\ graphIds # "dangling"
    <3>1. Lasts("serving") /\ Returns("serving")
      BY <2>1 DEF MigrationInv
    <3>2. ASSUME NEW points, points \subseteq Migrating PROVE ~Within(points)
      BY <2>1, <3>2 DEF Within, Locked
    <3>3. ~Within({"queue"}) /\ ~Within({"add_checks"}) /\ ~Within({"step_checks"})
          /\ ~Within({"attempt_index", "step_index"}) /\ ~Within({"add_key"})
      BY <3>2, MigratingIs
    <3>4. QED BY <2>1, <3>1, <3>3 DEF Lasts, Returns, Rules, PastKey, PastGraphs, PastStepIndex,
            PastAttemptIndex, PastDropIndex, PastStepChecks, PastAttempts, PastRunChecks, PastRename,
            PastQueue, PastSchema
  <2>2. QED BY <2>1 DEF SchemaServes, MigrationInv
<1>2. QED BY <1>1, MigrationsAreInductive, PTL

\* The type invariant of migrations.
THEOREM MigrationTypesHold == MigrationSpec => []MigrationTypeOK
<1>1. MigrationInv => MigrationTypeOK
  BY DEF MigrationInv
<1>2. QED BY <1>1, MigrationsAreInductive, PTL

(***************************************************************************)
(* The page of the web client.                                             *)
(***************************************************************************)

\* What the page can hold, and what a handler can have under way.
Views == [user : BOOLEAN, workspace : Workspaces \cup {None}, list : Workspaces \cup {None},
          project : Projects \cup {None}, file : Projects \cup {None},
          commits : Projects \cup {None}, diff : Projects \cup {None},
          deployments : SUBSET Shown, deployment : Projects \cup {None},
          logs : Projects \cup {None}, runs : Projects \cup {None},
          run : Projects \cup {None}, detail : Projects \cup {None}, timer : BOOLEAN]

OfWorkspace == {"projects"}
OfProject == {"select", "file", "reopen", "git", "diff", "deployments", "deployments_only", "logs",
              "deploy", "runs", "detail", "resume"}
OfNobody == {"account", "login", "logout", "act"}

PageCalls ==
    [op : OfWorkspace, of : Workspaces, arg : {None}, auth : BOOLEAN]
    \cup [op : OfProject, of : Projects, arg : Projects \cup {None}, auth : BOOLEAN]
    \cup [op : OfNobody, of : Projects \cup {None}, arg : Projects \cup {None}, auth : BOOLEAN]

RestSteps == Steps \cup {"account"}
PageTasks == [calls : SUBSET PageCalls, rest : Seq(RestSteps), boot : BOOLEAN]

PageTypes ==
    /\ view \in Views /\ tasks \in [Handlers -> PageTasks] /\ session \in BOOLEAN
    /\ deployed \in [Projects -> {"none", "building", "ended"}] /\ failures \in Nat

\* Entering a workspace is followed by the load of its projects.
Entered(rest) ==
    \A i \in DOMAIN rest :
        /\ rest[i] = "account" => i + 1 \in DOMAIN rest /\ rest[i + 1] = "enter"
        /\ rest[i] = "enter" => i + 1 \in DOMAIN rest /\ rest[i + 1] = "projects"

\* Who asks for the account or for a project, or logs in, waits for that alone.
HandlersFit ==
    \A t \in Handlers :
        /\ Entered(tasks[t].rest)
        /\ \A c \in tasks[t].calls :
             /\ c.op \in {"account", "login", "select"} => tasks[t].calls = {c}
             /\ c.op \in {"account", "login"} =>
                  tasks[t].rest # <<>> /\ Head(tasks[t].rest) \in {"enter", "projects"}
             /\ c.op = "login" => Head(tasks[t].rest) = "projects"

\* The answer that will make a part the open project's.
Loaders(part) ==
    CASE part \in {"list", "project"} -> {"projects"}
      [] part = "commits" -> {"git"}
      [] part = "deployments" -> {"deployments"}
      [] part = "polling" -> {"deployments", "deployments_only", "logs"}
      [] part = "logs" -> {"deployments", "logs"}
      [] part = "runs" -> {"runs"}
      [] OTHER -> {}

Loading(part) ==
    \E t \in Handlers : \E c \in tasks[t].calls : c.op \in Loaders(part) /\ ~Late(c)

\* A handler's next step asks for it.
Asks(t, part) ==
    /\ t \in Due
    /\ \/ Head(tasks[t].rest) = "projects" /\ part \in {"list", "project"}
       \/ Head(tasks[t].rest) = "loads" /\ part \in {"commits", "deployments", "logs", "polling", "runs"}

AboutToLoad(part) == \E t \in Handlers : Asks(t, part)

PageLoads ==
    \A part \in Parts : Foreign(view, part) => part \in blind \/ Loading(part) \/ AboutToLoad(part)

\* A page that looks signed in without a session has a call under way that will
\* be refused, or is about to make one.
SignOutDue ==
    /\ view.timer => view.project # None
    /\ ~session /\ failures = 0 /\ (view.user \/ view.project # None) =>
         \E t \in Handlers :
            \/ \E c \in tasks[t].calls : ~c.auth /\ c.op \notin {"login", "logout"}
            \/ t \in Due /\ Head(tasks[t].rest) = "enter"
            \/ t \in Due /\ Head(tasks[t].rest) = "projects" /\ view.workspace # None
            \/ t \in Due /\ Head(tasks[t].rest) = "loads"

PageInv == PageTypes /\ HandlersFit /\ PageLoads /\ SignOutDue

\* A record of views has a view's fields.
LEMMA ViewFields ==
    ASSUME NEW v \in Views
    PROVE  /\ v.user \in BOOLEAN /\ v.timer \in BOOLEAN
           /\ v.workspace \in Workspaces \cup {None} /\ v.list \in Workspaces \cup {None}
           /\ v.deployments \in SUBSET Shown
           /\ v.project \in Projects \cup {None} /\ v.file \in Projects \cup {None}
           /\ v.commits \in Projects \cup {None} /\ v.deployment \in Projects \cup {None}
           /\ v.runs \in Projects \cup {None} /\ v.run \in Projects \cup {None}
           /\ v.detail \in Projects \cup {None} /\ v.diff \in Projects \cup {None}
           /\ v.logs \in Projects \cup {None}
BY DEF Views

\* What a call asks for, by the kind of its target.
LEMMA CallFields ==
    ASSUME NEW c \in PageCalls
    PROVE  /\ c.auth \in BOOLEAN /\ c.op \in OfWorkspace \cup OfProject \cup OfNobody
           /\ c.op = "projects" => c.of \in Workspaces
           /\ c.op \in OfProject => c.of \in Projects /\ c.arg \in Projects \cup {None}
BY DEF PageCalls, OfWorkspace, OfProject, OfNobody

\* A call sent for a workspace, for a project, or for neither is a call of the page.
LEMMA CallsSent ==
    ASSUME session \in BOOLEAN
    PROVE  /\ \A op \in OfWorkspace, w \in Workspaces : Call(op, w, None) \in PageCalls
           /\ \A op \in OfProject, p \in Projects, a \in Projects \cup {None} : Call(op, p, a) \in PageCalls
           /\ \A op \in OfNobody, p \in Projects \cup {None} : Call(op, p, None) \in PageCalls
BY DEF PageCalls, Call

\* When each part of a page is foreign.
LEMMA ForeignParts ==
    ASSUME NEW v
    PROVE  /\ Foreign(v, "list") <=> v.list \notin {None, v.workspace}
           /\ Foreign(v, "project") <=> v.project # None /\ Home[v.project] # v.workspace
           /\ Foreign(v, "polling") <=>
                v.project # None /\ ~v.timer /\ \E d \in v.deployments : d.building
           /\ Foreign(v, "deployments") <=>
                /\ v.project # None
                /\ v.deployment \notin {None, v.project} \/ \E d \in v.deployments : d.of # v.project
           /\ Foreign(v, "file") <=> v.project # None /\ v.file \notin {None, v.project}
           /\ Foreign(v, "commits") <=> v.project # None /\ v.commits \notin {None, v.project}
           /\ Foreign(v, "diff") <=> v.project # None /\ v.diff \notin {None, v.project}
           /\ Foreign(v, "logs") <=> v.project # None /\ v.logs \notin {None, v.project}
           /\ Foreign(v, "runs") <=> v.project # None /\ v.runs \notin {None, v.project}
           /\ Foreign(v, "run") <=> v.project # None /\ v.run \notin {None, v.project}
           /\ Foreign(v, "detail") <=> v.project # None /\ v.detail \notin {None, v.project}
BY DEF Foreign

\* An answer that loads a part writes it.
LEMMA LoadersWrite ==
    ASSUME NEW part \in Parts, NEW op \in Loaders(part)
    PROVE  part \in Written(op)
BY DEF Parts, Loaders, Written

\* The rest of a handler's steps is well formed, and begins as it should.
LEMMA TailEntered ==
    ASSUME NEW rest \in Seq(RestSteps), rest # <<>>, Entered(rest)
    PROVE  /\ Tail(rest) \in Seq(RestSteps) /\ Entered(Tail(rest)) /\ Head(rest) \in RestSteps
           /\ Head(rest) = "account" => Tail(rest) # <<>> /\ Head(Tail(rest)) = "enter"
           /\ Head(rest) = "enter" => Tail(rest) # <<>> /\ Head(Tail(rest)) = "projects"
<1>1. /\ Tail(rest) \in Seq(RestSteps) /\ Len(Tail(rest)) = Len(rest) - 1 /\ Len(rest) \in Nat
      /\ Len(rest) > 0 /\ Head(rest) = rest[1] /\ rest[1] \in RestSteps
      /\ \A i \in 1..Len(Tail(rest)) : Tail(rest)[i] = rest[i + 1]
      /\ DOMAIN Tail(rest) = 1..Len(Tail(rest)) /\ DOMAIN rest = 1..Len(rest)
    OBVIOUS
<1>2. Entered(Tail(rest))
    <2>1. SUFFICES ASSUME NEW i \in DOMAIN Tail(rest)
                   PROVE  /\ Tail(rest)[i] = "account" =>
                               i + 1 \in DOMAIN Tail(rest) /\ Tail(rest)[i + 1] = "enter"
                          /\ Tail(rest)[i] = "enter" =>
                               i + 1 \in DOMAIN Tail(rest) /\ Tail(rest)[i + 1] = "projects"
        BY DEF Entered
    <2>2. i + 1 \in DOMAIN rest /\ Tail(rest)[i] = rest[i + 1] /\ i \in Nat
        BY <1>1
    <2>3. /\ rest[i + 1] = "account" => (i + 1) + 1 \in DOMAIN rest /\ rest[(i + 1) + 1] = "enter"
          /\ rest[i + 1] = "enter" => (i + 1) + 1 \in DOMAIN rest /\ rest[(i + 1) + 1] = "projects"
        BY <2>2, Zenon DEF Entered
    <2>4. (i + 1) + 1 \in DOMAIN rest =>
              i + 1 \in DOMAIN Tail(rest) /\ Tail(rest)[i + 1] = rest[(i + 1) + 1]
        BY <1>1, <2>2
    <2> QED  BY <2>2, <2>3, <2>4
<1>3. 2 \in DOMAIN rest => Tail(rest) # <<>> /\ Head(Tail(rest)) = rest[2]
    BY <1>1
<1>4. /\ rest[1] = "account" => 1 + 1 \in DOMAIN rest /\ rest[1 + 1] = "enter"
      /\ rest[1] = "enter" => 1 + 1 \in DOMAIN rest /\ rest[1 + 1] = "projects"
    <2>1. 1 \in DOMAIN rest
        BY <1>1
    <2> QED  BY <2>1, Zenon DEF Entered
<1>5. 1 + 1 = 2
    OBVIOUS
<1> QED  BY <1>1, <1>2, <1>3, <1>4, <1>5

\* Putting the loads or the reopening of the file in front keeps it well formed.
LEMMA FrontEntered ==
    ASSUME NEW rest \in Seq(RestSteps), Entered(rest), NEW s \in {"loads", "reopen"}
    PROVE  /\ <<s>> \o rest \in Seq(RestSteps) /\ Entered(<<s>> \o rest)
           /\ <<s>> \o rest # <<>> /\ Head(<<s>> \o rest) = s
<1> DEFINE long == <<s>> \o rest
<1>0. <<s>> \in Seq(RestSteps) /\ Len(<<s>>) = 1 /\ <<s>>[1] = s
    BY DEF RestSteps, Steps
<1>1. /\ long \in Seq(RestSteps) /\ Len(long) = Len(rest) + 1 /\ Len(rest) \in Nat /\ long[1] = s
      /\ \A i \in 1..Len(rest) : long[i + 1] = rest[i]
      /\ DOMAIN long = 1..Len(long) /\ DOMAIN rest = 1..Len(rest)
    BY <1>0, ConcatProperties, LenProperties
<1>2. ASSUME NEW i \in DOMAIN long
      PROVE  /\ long[i] = "account" => i + 1 \in DOMAIN long /\ long[i + 1] = "enter"
             /\ long[i] = "enter" => i + 1 \in DOMAIN long /\ long[i + 1] = "projects"
    <2> HIDE DEF long
    <2>1. CASE i = 1
        BY <1>1, <2>1
    <2>2. CASE i # 1
        <3>1. i - 1 \in DOMAIN rest /\ long[i] = rest[i - 1] /\ i \in Nat
            BY <1>1, <1>2, <2>2
        <3>2. i \in DOMAIN rest => i + 1 \in DOMAIN long /\ long[i + 1] = rest[i]
            BY <1>1, <3>1
        <3>3. /\ rest[i - 1] = "account" => (i - 1) + 1 \in DOMAIN rest /\ rest[(i - 1) + 1] = "enter"
              /\ rest[i - 1] = "enter" => (i - 1) + 1 \in DOMAIN rest /\ rest[(i - 1) + 1] = "projects"
            BY <3>1, Zenon DEF Entered
        <3>4. (i - 1) + 1 = i
            BY <3>1
        <3> QED  BY <3>1, <3>2, <3>3, <3>4
    <2> QED  BY <2>1, <2>2
<1>3. Entered(long)
    BY <1>2 DEF Entered
<1> QED  BY <1>1, <1>3

\* What moving a handler on does to the handlers.
LEMMA AdvanceMoves ==
    ASSUME tasks \in [Handlers -> PageTasks], NEW t \in Handlers, NEW calls \in SUBSET PageCalls,
           NEW rest \in Seq(RestSteps), Advance(t, calls, rest)
    PROVE  /\ tasks' \in [Handlers -> PageTasks]
           /\ tasks'[t].calls = calls /\ tasks'[t].rest = rest
           /\ \A u \in Handlers \ {t} : tasks'[u] = tasks[u]
<1>1. NoTask \in PageTasks /\ NoTask.calls = {} /\ NoTask.rest = <<>>
    BY DEF NoTask, PageTasks
<1>2. tasks[t] \in PageTasks
    OBVIOUS
<1> DEFINE moved == [tasks[t] EXCEPT !.calls = calls, !.rest = rest]
<1>3. moved \in PageTasks /\ moved.calls = calls /\ moved.rest = rest
    BY <1>2 DEF PageTasks
<1>4. tasks' = [tasks EXCEPT ![t] = IF calls = {} /\ rest = <<>> THEN NoTask ELSE moved]
    BY DEF Advance
<1> HIDE DEF moved
<1> QED  BY <1>1, <1>3, <1>4

\* A part that is foreign before a step of t and after it stays accounted for, if
\* the step neither takes a call that loads it nor was the one to ask for it.
LEMMA LoadKeeps ==
    ASSUME PageLoads, NEW t \in Handlers, NEW part \in Parts, Foreign(view, part), ~Asks(t, part),
           \A u \in Handlers \ {t} : tasks'[u] = tasks[u],
           part \in blind => part \in blind',
           IF part \in {"list", "project"} THEN view'.workspace = view.workspace
                                           ELSE view'.project = view.project,
           \A d \in tasks[t].calls : d.op \in Loaders(part) /\ ~Late(d) => d \in tasks'[t].calls
    PROVE  part \in blind' \/ Loading(part)' \/ AboutToLoad(part)'
<1>1. part \in blind \/ Loading(part) \/ AboutToLoad(part)
    BY DEF PageLoads
<1>2. ASSUME AboutToLoad(part) PROVE AboutToLoad(part)'
    <2>1. PICK u \in Handlers : Asks(u, part)
        BY <1>2 DEF AboutToLoad
    <2>2. tasks'[u] = tasks[u]
        BY <2>1
    <2>3. Asks(u, part)'
        BY <2>1, <2>2 DEF Asks, Due
    <2> QED  BY <2>3 DEF AboutToLoad, Handlers
<1>3. ASSUME Loading(part) PROVE Loading(part)'
    <2>0. PICK u \in Handlers : \E d \in tasks[u].calls : d.op \in Loaders(part) /\ ~Late(d)
        BY <1>3 DEF Loading
    <2>1. PICK d \in tasks[u].calls : d.op \in Loaders(part) /\ ~Late(d)
        BY <2>0
    <2>2. d \in tasks'[u].calls
        BY <2>1
    <2>3. d.op = "projects" <=> part \in {"list", "project"}
        BY <2>1 DEF Loaders, Parts
    <2>4. d.op # "select"
        BY <2>1 DEF Loaders, Parts
    <2>5. ~Late(d)'
        BY <2>1, <2>3, <2>4 DEF Late
    <2> QED  BY <2>1, <2>2, <2>5 DEF Loading, Handlers, Loaders
<1> QED  BY <1>1, <1>2, <1>3

\* The same for a step that answers the call c of t, or in which it throws: the
\* parts it is suspected to have left foreign are marked.
LEMMA AnswerKeeps ==
    ASSUME PageLoads, NEW t \in Handlers, NEW c \in tasks[t].calls, Due = {}, NEW part \in Parts,
           NEW suspects, blind' = {q \in blind \cup suspects : Foreign(view', q)},
           \A u \in Handlers \ {t} : tasks'[u] = tasks[u],
           tasks[t].calls \ {c} \subseteq tasks'[t].calls, Foreign(view', part),
           \/ part \in suspects
           \/ /\ Foreign(view, part) /\ (c.op \notin Loaders(part) \/ Late(c))
              /\ IF part \in {"list", "project"} THEN view'.workspace = view.workspace
                                                 ELSE view'.project = view.project
    PROVE  part \in blind' \/ Loading(part)' \/ AboutToLoad(part)'
<1>1. CASE part \in suspects
    <2>1. part \in {q \in blind \cup suspects : Foreign(view', q)}
        BY <1>1
    <2> QED  BY <2>1
<1>2. CASE part \notin suspects
    <2>1. ~Asks(t, part)
        BY DEF Asks
    <2>2. ASSUME part \in blind PROVE part \in blind'
        <3>1. part \in {q \in blind \cup suspects : Foreign(view', q)}
            BY <2>2
        <3> QED  BY <3>1
    <2>3. \A d \in tasks[t].calls : d.op \in Loaders(part) /\ ~Late(d) => d \in tasks'[t].calls
        BY <1>2
    <2>4. IF part \in {"list", "project"} THEN view'.workspace = view.workspace
                                          ELSE view'.project = view.project
        BY <1>2
    <2> QED  BY <1>2, <2>1, <2>2, <2>3, <2>4, LoadKeeps
<1> QED  BY <1>1, <1>2

\* What it means for a page that it will be signed out.
WillSignOut ==
    \E t \in Handlers :
        \/ \E c \in tasks[t].calls : ~c.auth /\ c.op \notin {"login", "logout"}
        \/ t \in Due /\ Head(tasks[t].rest) = "enter"
        \/ t \in Due /\ Head(tasks[t].rest) = "projects" /\ view.workspace # None
        \/ t \in Due /\ Head(tasks[t].rest) = "loads"

\* An answer that came under a session leaves the calls that went out without one.
LEMMA SignKeeps ==
    ASSUME SignOutDue, NEW t \in Handlers, NEW c \in tasks[t].calls, Due = {},
           \A u \in Handlers \ {t} : tasks'[u] = tasks[u],
           tasks[t].calls \ {c} \subseteq tasks'[t].calls,
           view'.timer => view'.project # None,
           ~session' /\ failures' = 0 /\ (view'.user \/ view'.project # None) =>
               \/ WillSignOut'
               \/ ~session /\ failures = 0 /\ (view.user \/ view.project # None) /\ c.auth
    PROVE  SignOutDue'
<1> SUFFICES ASSUME ~session' /\ failures' = 0, view'.user \/ view'.project # None
             PROVE  WillSignOut'
    BY DEF SignOutDue, WillSignOut
<1>1. CASE ~session /\ failures = 0 /\ (view.user \/ view.project # None) /\ c.auth
    <2>0. PICK u \in Handlers : \E d \in tasks[u].calls : ~d.auth /\ d.op \notin {"login", "logout"}
        BY <1>1 DEF SignOutDue
    <2>1. PICK d \in tasks[u].calls : ~d.auth /\ d.op \notin {"login", "logout"}
        BY <2>0
    <2>2. d \in tasks'[u].calls
        BY <1>1, <2>1
    <2> QED  BY <2>1, <2>2 DEF WillSignOut, Handlers
<1> QED  BY <1>1

\* Handlers stay in shape when a call is taken from one of them.
LEMMA AnswerFits ==
    ASSUME PageTypes, HandlersFit, NEW t \in Handlers, NEW c \in tasks[t].calls, NEW follow,
           \A d \in follow : d.op \notin {"account", "login", "select"},
           \A u \in Handlers \ {t} : tasks'[u] = tasks[u],
           tasks'[t].calls = (tasks[t].calls \ {c}) \cup follow, Entered(tasks'[t].rest)
    PROVE  HandlersFit'
<1>1. ASSUME NEW d \in tasks'[t].calls PROVE d.op \notin {"account", "login", "select"}
    <2>1. CASE d \in follow
        BY <2>1
    <2>2. CASE d \in tasks[t].calls /\ d # c
        BY <2>2 DEF HandlersFit
    <2> QED  BY <1>1, <2>1, <2>2
<1>2. ASSUME NEW u \in Handlers \ {t}
      PROVE  /\ Entered(tasks'[u].rest)
             /\ \A d \in tasks'[u].calls :
                  /\ d.op \in {"account", "login", "select"} => tasks'[u].calls = {d}
                  /\ d.op \in {"account", "login"} =>
                       tasks'[u].rest # <<>> /\ Head(tasks'[u].rest) \in {"enter", "projects"}
                  /\ d.op = "login" => Head(tasks'[u].rest) = "projects"
    <2>1. tasks'[u] = tasks[u] /\ u \in Handlers
        BY <1>2
    <2> QED  BY <2>1 DEF HandlersFit
<1> QED  BY <1>1, <1>2 DEF HandlersFit, Handlers

\* An answer that is taken: what it leaves of the calls and of the page.
LEMMA AnswerMoves ==
    ASSUME PageTypes, HandlersFit, NEW t \in Handlers, NEW c \in tasks[t].calls,
           NEW v \in Views, NEW follow \in SUBSET PageCalls,
           \A d \in follow : d.op \notin {"account", "login", "select"},
           NEW front \in {<<>>, <<"loads">>}, Answered(t, c, v, follow, front),
           session' \in BOOLEAN, deployed' \in [Projects -> {"none", "building", "ended"}]
    PROVE  /\ PageTypes' /\ HandlersFit' /\ view' = v /\ failures' = failures
           /\ blind' = {q \in blind \cup Suspects(c) : Foreign(v, q)}
           /\ tasks'[t].calls = (tasks[t].calls \ {c}) \cup follow
           /\ tasks'[t].rest = front \o tasks[t].rest
           /\ \A u \in Handlers \ {t} : tasks'[u] = tasks[u]
<1>1. tasks[t] \in PageTasks /\ tasks[t].calls \in SUBSET PageCalls /\ tasks[t].rest \in Seq(RestSteps)
    BY DEF PageTypes, PageTasks
<1>2. Entered(tasks[t].rest)
    BY DEF HandlersFit
<1>3. front \o tasks[t].rest \in Seq(RestSteps) /\ Entered(front \o tasks[t].rest)
    <2>1. CASE front = <<>>
        <3>1. <<>> \o tasks[t].rest = tasks[t].rest
            BY <1>1, ConcatEmptySeq
        <3> QED  BY <1>1, <1>2, <2>1, <3>1
    <2>2. CASE front = <<"loads">>
        BY <1>1, <1>2, <2>2, FrontEntered
    <2> QED  BY <2>1, <2>2
<1>4. /\ Advance(t, (tasks[t].calls \ {c}) \cup follow, front \o tasks[t].rest)
      /\ view' = v /\ failures' = failures
      /\ blind' = {q \in blind \cup Suspects(c) : Foreign(v, q)}
    BY DEF Answered, Show
<1>5. tasks \in [Handlers -> PageTasks] /\ (tasks[t].calls \ {c}) \cup follow \in SUBSET PageCalls
    BY <1>1 DEF PageTypes
<1>6. /\ tasks' \in [Handlers -> PageTasks]
      /\ tasks'[t].calls = (tasks[t].calls \ {c}) \cup follow
      /\ tasks'[t].rest = front \o tasks[t].rest
      /\ \A u \in Handlers \ {t} : tasks'[u] = tasks[u]
    <2> DEFINE calls == (tasks[t].calls \ {c}) \cup follow
               rest == front \o tasks[t].rest
    <2>1. calls \in SUBSET PageCalls /\ rest \in Seq(RestSteps) /\ Advance(t, calls, rest)
        BY <1>3, <1>4, <1>5
    <2> HIDE DEF calls, rest
    <2>2. /\ tasks' \in [Handlers -> PageTasks]
          /\ tasks'[t].calls = calls /\ tasks'[t].rest = rest
          /\ \A u \in Handlers \ {t} : tasks'[u] = tasks[u]
        BY <1>5, <2>1, AdvanceMoves
    <2> QED  BY <2>2 DEF calls, rest
<1>7. Entered(tasks'[t].rest)
    BY <1>3, <1>6
<1>8. HandlersFit'
    BY <1>6, <1>7, AnswerFits
<1>9. PageTypes'
    BY <1>4, <1>6 DEF PageTypes, Handlers, Views, PageTasks, PageCalls
<1> QED  BY <1>4, <1>6, <1>8, <1>9

\* An answer that leaves the user, the project and the workspace as they are keeps
\* the invariant, if it leaves no part foreign that it should have filled.
LEMMA PlainAnswer ==
    ASSUME PageInv, NEW t \in Handlers, NEW c \in tasks[t].calls, Due = {}, c.auth \/ session,
           NEW v \in Views, NEW follow \in SUBSET PageCalls,
           \A d \in follow : d.op \notin {"account", "login", "select"},
           Answered(t, c, v, follow, <<>>), session' = session,
           deployed' \in [Projects -> {"none", "building", "ended"}],
           v.user = view.user, v.project = view.project, v.workspace = view.workspace,
           v.timer => v.project # None,
           \A part \in Parts : Foreign(v, part) =>
               \/ part \in Written(c.op) /\ Late(c)
               \/ Foreign(view, part) /\ (c.op \notin Loaders(part) \/ Late(c))
               \/ \E d \in follow : /\ d.op \in Loaders(part) \ {"projects", "select"}
                                    /\ d.of = v.project
    PROVE  PageInv'
<1>1. /\ PageTypes /\ HandlersFit /\ PageLoads /\ SignOutDue /\ session \in BOOLEAN
    BY DEF PageInv, PageTypes
<1>2. /\ PageTypes' /\ HandlersFit' /\ view' = v /\ failures' = failures
      /\ blind' = {q \in blind \cup Suspects(c) : Foreign(v, q)}
      /\ tasks'[t].calls = (tasks[t].calls \ {c}) \cup follow
      /\ \A u \in Handlers \ {t} : tasks'[u] = tasks[u]
    BY <1>1, AnswerMoves
<1>3. ASSUME NEW part \in Parts, Foreign(v, part)
      PROVE  part \in blind' \/ Loading(part)' \/ AboutToLoad(part)'
    <2>1. CASE \E d \in follow : d.op \in Loaders(part) \ {"projects", "select"} /\ d.of = v.project
        <3>1. PICK d \in follow : d.op \in Loaders(part) \ {"projects", "select"} /\ d.of = v.project
            BY <2>1
        <3>2. d \in tasks'[t].calls /\ ~Late(d)'
            BY <1>2, <3>1 DEF Late
        <3> QED  BY <3>1, <3>2 DEF Loading, Handlers, Loaders
    <2>2. CASE part \in Written(c.op) /\ Late(c)
        <3>1. part \in Suspects(c)
            BY <2>2 DEF Suspects
        <3> QED  BY <1>2, <1>3, <3>1
    <2>3. CASE Foreign(view, part) /\ (c.op \notin Loaders(part) \/ Late(c))
        <3>0. Foreign(view', part) /\ view'.workspace = view.workspace /\ view'.project = view.project
            BY <1>2, <1>3
        <3>1. \A d \in tasks[t].calls : d.op \in Loaders(part) /\ ~Late(d) => d \in tasks'[t].calls
            BY <1>2, <2>3
        <3>2. part \in blind => part \in blind'
            BY <1>2, <1>3
        <3>3. ~Asks(t, part)
            BY DEF Asks
        <3> QED  BY <1>1, <1>2, <2>3, <3>0, <3>1, <3>2, <3>3, LoadKeeps
    <2> QED  BY <1>3, <2>1, <2>2, <2>3
<1>4. PageLoads'
    BY <1>2, <1>3 DEF PageLoads
<1>5. SignOutDue'
    BY <1>1, <1>2, SignKeeps
<1> QED  BY <1>2, <1>4, <1>5 DEF PageInv

\* A call that is answered, with its types.
LEMMA CallAnswered ==
    ASSUME PageInv, NEW t \in Handlers, NEW ops, NEW c \in Answers(t, ops)
    PROVE  /\ c \in tasks[t].calls /\ Due = {} /\ (c.auth \/ session) /\ c.op \in ops
           /\ c \in PageCalls /\ c.arg \in {None, c.of}
           /\ view \in Views /\ session \in BOOLEAN /\ (view.timer => view.project # None)
           /\ c.op \in OfProject => c.of \in Projects /\ c.arg \in Projects \cup {None}
           /\ deployed \in [Projects -> {"none", "building", "ended"}]
<1>1. c \in tasks[t].calls /\ Due = {} /\ (c.auth \/ session) /\ c.op \in ops /\ c.arg \in {None, c.of}
    BY DEF Answers
<1>2. c \in PageCalls
    BY <1>1 DEF PageInv, PageTypes, PageTasks
<1> QED  BY <1>1, <1>2, CallFields DEF PageInv, PageTypes, SignOutDue

\* The answers that write one thing of the project.
LEMMA FileAnswers ==
    ASSUME PageInv, NEW t \in Handlers, FileAnswered(t) \/ GitAnswered(t) \/ DiffAnswered(t)
    PROVE  PageInv'
<1>1. ASSUME FileAnswered(t) PROVE PageInv'
    <2>1. PICK c \in Answers(t, {"file", "reopen"}) :
              /\ Answered(t, c, [view EXCEPT !.file = c.of], {}, <<>>)
              /\ UNCHANGED <<session, deployed>>
        BY <1>1 DEF FileAnswered
    <2> DEFINE v == [view EXCEPT !.file = c.of]
               none == {}
    <2>2. /\ c \in tasks[t].calls /\ Due = {} /\ (c.auth \/ session) /\ c.op \in {"file", "reopen"}
          /\ view \in Views /\ c.of \in Projects /\ (view.timer => view.project # None)
          /\ c.arg \in {None, c.of} /\ deployed \in [Projects -> {"none", "building", "ended"}]
        BY <2>1, CallAnswered DEF OfProject
    <2>3. v \in Views /\ v = [view EXCEPT !.file = c.of]
        BY <2>2 DEF Views
    <2>4. /\ v.user = view.user /\ v.project = view.project /\ v.workspace = view.workspace
          /\ v.timer = view.timer /\ v.list = view.list /\ v.file = c.of
          /\ v.commits = view.commits /\ v.diff = view.diff /\ v.deployments = view.deployments
          /\ v.deployment = view.deployment /\ v.logs = view.logs
          /\ v.runs = view.runs /\ v.run = view.run /\ v.detail = view.detail
        BY <2>2 DEF Views
    <2> HIDE DEF v
    <2>5. ASSUME NEW part \in Parts, Foreign(v, part)
          PROVE  \/ part \in Written(c.op) /\ Late(c)
                 \/ Foreign(view, part) /\ (c.op \notin Loaders(part) \/ Late(c))
        <3>1. c.op \notin Loaders(part)
            BY <2>2 DEF Loaders, Parts
        <3>2. "file" \in Written(c.op) /\ (Late(c) <=> c.of # view.project)
            BY <2>2 DEF Written, Late
        <3> QED  BY <2>2, <2>4, <2>5, <3>1, <3>2, ForeignParts DEF Parts
    <2>6. /\ Answered(t, c, v, none, <<>>) /\ none \in SUBSET PageCalls /\ session' = session
          /\ \A d \in none : d.op \notin {"account", "login", "select"}
          /\ deployed' \in [Projects -> {"none", "building", "ended"}]
        BY <2>1, <2>2, <2>3
    <2>7. v.timer => v.project # None
        BY <2>2, <2>4
    <2> HIDE DEF none
    <2> QED  BY <2>2, <2>3, <2>4, <2>5, <2>6, <2>7, PlainAnswer
<1>2. ASSUME GitAnswered(t) PROVE PageInv'
    <2>1. PICK c \in Answers(t, {"git"}) :
              /\ Answered(t, c, [view EXCEPT !.commits = c.of], {}, <<>>)
              /\ UNCHANGED <<session, deployed>>
        BY <1>2 DEF GitAnswered
    <2> DEFINE v == [view EXCEPT !.commits = c.of]
               none == {}
    <2>2. /\ c \in tasks[t].calls /\ Due = {} /\ (c.auth \/ session) /\ c.op = "git"
          /\ view \in Views /\ c.of \in Projects /\ (view.timer => view.project # None)
          /\ c.arg \in {None, c.of} /\ deployed \in [Projects -> {"none", "building", "ended"}]
        BY <2>1, CallAnswered DEF OfProject
    <2>3. v \in Views /\ v = [view EXCEPT !.commits = c.of]
        BY <2>2 DEF Views
    <2>4. /\ v.user = view.user /\ v.project = view.project /\ v.workspace = view.workspace
          /\ v.timer = view.timer /\ v.list = view.list /\ v.file = view.file
          /\ v.commits = c.of /\ v.diff = view.diff /\ v.deployments = view.deployments
          /\ v.deployment = view.deployment /\ v.logs = view.logs
          /\ v.runs = view.runs /\ v.run = view.run /\ v.detail = view.detail
        BY <2>2 DEF Views
    <2> HIDE DEF v
    <2>5. ASSUME NEW part \in Parts, Foreign(v, part)
          PROVE  \/ part \in Written(c.op) /\ Late(c)
                 \/ Foreign(view, part) /\ (c.op \notin Loaders(part) \/ Late(c))
        <3>1. part # "commits" => c.op \notin Loaders(part)
            BY <2>2 DEF Loaders, Parts
        <3>2. "commits" \in Written(c.op) /\ (Late(c) <=> c.of # view.project)
            BY <2>2 DEF Written, Late
        <3> QED  BY <2>2, <2>4, <2>5, <3>1, <3>2, ForeignParts DEF Parts
    <2>6. /\ Answered(t, c, v, none, <<>>) /\ none \in SUBSET PageCalls /\ session' = session
          /\ \A d \in none : d.op \notin {"account", "login", "select"}
          /\ deployed' \in [Projects -> {"none", "building", "ended"}]
        BY <2>1, <2>2, <2>3
    <2>7. v.timer => v.project # None
        BY <2>2, <2>4
    <2> HIDE DEF none
    <2> QED  BY <2>2, <2>3, <2>4, <2>5, <2>6, <2>7, PlainAnswer
<1>3. ASSUME DiffAnswered(t) PROVE PageInv'
    <2>1. PICK c \in Answers(t, {"diff"}) :
              /\ Answered(t, c, [view EXCEPT !.diff = c.of], {}, <<>>)
              /\ UNCHANGED <<session, deployed>>
        BY <1>3 DEF DiffAnswered
    <2> DEFINE v == [view EXCEPT !.diff = c.of]
               none == {}
    <2>2. /\ c \in tasks[t].calls /\ Due = {} /\ (c.auth \/ session) /\ c.op = "diff"
          /\ view \in Views /\ c.of \in Projects /\ (view.timer => view.project # None)
          /\ c.arg \in {None, c.of} /\ deployed \in [Projects -> {"none", "building", "ended"}]
        BY <2>1, CallAnswered DEF OfProject
    <2>3. v \in Views /\ v = [view EXCEPT !.diff = c.of]
        BY <2>2 DEF Views
    <2>4. /\ v.user = view.user /\ v.project = view.project /\ v.workspace = view.workspace
          /\ v.timer = view.timer /\ v.list = view.list /\ v.file = view.file
          /\ v.commits = view.commits /\ v.diff = c.of /\ v.deployments = view.deployments
          /\ v.deployment = view.deployment /\ v.logs = view.logs
          /\ v.runs = view.runs /\ v.run = view.run /\ v.detail = view.detail
        BY <2>2 DEF Views
    <2> HIDE DEF v
    <2>5. ASSUME NEW part \in Parts, Foreign(v, part)
          PROVE  \/ part \in Written(c.op) /\ Late(c)
                 \/ Foreign(view, part) /\ (c.op \notin Loaders(part) \/ Late(c))
        <3>1. c.op \notin Loaders(part)
            BY <2>2 DEF Loaders, Parts
        <3>2. "diff" \in Written(c.op) /\ (Late(c) <=> c.of # view.project)
            BY <2>2 DEF Written, Late
        <3> QED  BY <2>2, <2>4, <2>5, <3>1, <3>2, ForeignParts DEF Parts
    <2>6. /\ Answered(t, c, v, none, <<>>) /\ none \in SUBSET PageCalls /\ session' = session
          /\ \A d \in none : d.op \notin {"account", "login", "select"}
          /\ deployed' \in [Projects -> {"none", "building", "ended"}]
        BY <2>1, <2>2, <2>3
    <2>7. v.timer => v.project # None
        BY <2>2, <2>4
    <2> HIDE DEF none
    <2> QED  BY <2>2, <2>3, <2>4, <2>5, <2>6, <2>7, PlainAnswer
<1> QED  BY <1>1, <1>2, <1>3

\* The answers that show a run, and the deployment that was asked for.
LEMMA RunAnswers ==
    ASSUME PageInv, NEW t \in Handlers,
           DetailAnswered(t) \/ ResumeAnswered(t) \/ DeployAnswered(t)
    PROVE  PageInv'
<1>1. ASSUME DetailAnswered(t) PROVE PageInv'
    <2>1. PICK c \in Answers(t, {"detail"}) :
              /\ Answered(t, c, [view EXCEPT !.run = c.arg, !.detail = c.arg], {}, <<>>)
              /\ UNCHANGED <<session, deployed>>
        BY <1>1 DEF DetailAnswered
    <2> DEFINE v == [view EXCEPT !.run = c.arg, !.detail = c.arg]
               none == {}
    <2>2. /\ c \in tasks[t].calls /\ Due = {} /\ (c.auth \/ session) /\ c.op = "detail"
          /\ view \in Views /\ c.of \in Projects /\ (view.timer => view.project # None)
          /\ c.arg \in {None, c.of} /\ deployed \in [Projects -> {"none", "building", "ended"}]
        BY <2>1, CallAnswered DEF OfProject
    <2>3. v \in Views /\ v = [view EXCEPT !.run = c.arg, !.detail = c.arg]
        <3>1. c.arg \in Projects \cup {None}
            BY <2>2
        <3> DEFINE w == [view EXCEPT !.run = c.arg]
        <3>2. w \in Views
            BY <2>2, <3>1 DEF Views
        <3>3. v = [w EXCEPT !.detail = c.arg]
            BY <2>2 DEF Views
        <3> HIDE DEF w, v
        <3>4. v \in Views
            BY <3>1, <3>2, <3>3 DEF Views
        <3> QED  BY <3>4 DEF v
    <2>4. /\ v.user = view.user /\ v.project = view.project /\ v.workspace = view.workspace
          /\ v.timer = view.timer /\ v.list = view.list /\ v.file = view.file
          /\ v.commits = view.commits /\ v.diff = view.diff /\ v.deployments = view.deployments
          /\ v.deployment = view.deployment /\ v.logs = view.logs
          /\ v.runs = view.runs /\ v.run = c.arg /\ v.detail = c.arg
        BY <2>2 DEF Views
    <2> HIDE DEF v
    <2>5. ASSUME NEW part \in Parts, Foreign(v, part)
          PROVE  \/ part \in Written(c.op) /\ Late(c)
                 \/ Foreign(view, part) /\ (c.op \notin Loaders(part) \/ Late(c))
        <3>1. c.op \notin Loaders(part)
            BY <2>2 DEF Loaders, Parts
        <3>2. "run" \in Written(c.op) /\ "detail" \in Written(c.op) /\ (Late(c) <=> c.of # view.project)
            BY <2>2 DEF Written, Late
        <3> QED  BY <2>2, <2>4, <2>5, <3>1, <3>2, ForeignParts DEF Parts
    <2>6. /\ Answered(t, c, v, none, <<>>) /\ none \in SUBSET PageCalls /\ session' = session
          /\ \A d \in none : d.op \notin {"account", "login", "select"}
          /\ deployed' \in [Projects -> {"none", "building", "ended"}]
        BY <2>1, <2>2, <2>3
    <2>7. v.timer => v.project # None
        BY <2>2, <2>4
    <2> HIDE DEF none
    <2> QED  BY <2>2, <2>3, <2>4, <2>5, <2>6, <2>7, PlainAnswer
<1>2. ASSUME ResumeAnswered(t) PROVE PageInv'
    <2>1. PICK c \in Answers(t, {"resume"}) :
              /\ Answered(t, c, [view EXCEPT !.detail = c.arg], {}, <<>>)
              /\ UNCHANGED <<session, deployed>>
        BY <1>2 DEF ResumeAnswered
    <2> DEFINE v == [view EXCEPT !.detail = c.arg]
               none == {}
    <2>2. /\ c \in tasks[t].calls /\ Due = {} /\ (c.auth \/ session) /\ c.op = "resume"
          /\ view \in Views /\ c.of \in Projects /\ (view.timer => view.project # None)
          /\ c.arg \in {None, c.of} /\ deployed \in [Projects -> {"none", "building", "ended"}]
        BY <2>1, CallAnswered DEF OfProject
    <2>3. v \in Views /\ v = [view EXCEPT !.detail = c.arg]
        BY <2>2 DEF Views
    <2>4. /\ v.user = view.user /\ v.project = view.project /\ v.workspace = view.workspace
          /\ v.timer = view.timer /\ v.list = view.list /\ v.file = view.file
          /\ v.commits = view.commits /\ v.diff = view.diff /\ v.deployments = view.deployments
          /\ v.deployment = view.deployment /\ v.logs = view.logs
          /\ v.runs = view.runs /\ v.run = view.run /\ v.detail = c.arg
        BY <2>2 DEF Views
    <2> HIDE DEF v
    <2>5. ASSUME NEW part \in Parts, Foreign(v, part)
          PROVE  \/ part \in Written(c.op) /\ Late(c)
                 \/ Foreign(view, part) /\ (c.op \notin Loaders(part) \/ Late(c))
        <3>1. c.op \notin Loaders(part)
            BY <2>2 DEF Loaders, Parts
        <3>2. "detail" \in Written(c.op) /\ (Late(c) <=> c.of # view.project)
            BY <2>2 DEF Written, Late
        <3> QED  BY <2>2, <2>4, <2>5, <3>1, <3>2, ForeignParts DEF Parts
    <2>6. /\ Answered(t, c, v, none, <<>>) /\ none \in SUBSET PageCalls /\ session' = session
          /\ \A d \in none : d.op \notin {"account", "login", "select"}
          /\ deployed' \in [Projects -> {"none", "building", "ended"}]
        BY <2>1, <2>2, <2>3
    <2>7. v.timer => v.project # None
        BY <2>2, <2>4
    <2> HIDE DEF none
    <2> QED  BY <2>2, <2>3, <2>4, <2>5, <2>6, <2>7, PlainAnswer
<1>3. ASSUME DeployAnswered(t) PROVE PageInv'
    <2>1. PICK c \in Answers(t, {"deploy"}) :
              /\ Answered(t, c, [view EXCEPT !.deployment = c.of], {}, <<>>)
              /\ session' = session /\ deployed' = [deployed EXCEPT ![c.of] = "building"]
        BY <1>3 DEF DeployAnswered
    <2> DEFINE v == [view EXCEPT !.deployment = c.of]
               none == {}
    <2>2. /\ c \in tasks[t].calls /\ Due = {} /\ (c.auth \/ session) /\ c.op = "deploy"
          /\ view \in Views /\ c.of \in Projects /\ (view.timer => view.project # None)
          /\ c.arg \in {None, c.of} /\ deployed \in [Projects -> {"none", "building", "ended"}]
        BY <2>1, CallAnswered DEF OfProject
    <2>3. v \in Views /\ v = [view EXCEPT !.deployment = c.of]
        BY <2>2 DEF Views
    <2>4. /\ v.user = view.user /\ v.project = view.project /\ v.workspace = view.workspace
          /\ v.timer = view.timer /\ v.list = view.list /\ v.file = view.file
          /\ v.commits = view.commits /\ v.diff = view.diff /\ v.deployments = view.deployments
          /\ v.deployment = c.of
          /\ v.logs = view.logs /\ v.runs = view.runs /\ v.run = view.run /\ v.detail = view.detail
        BY <2>2 DEF Views
    <2> HIDE DEF v
    <2>5. ASSUME NEW part \in Parts, Foreign(v, part)
          PROVE  \/ part \in Written(c.op) /\ Late(c)
                 \/ Foreign(view, part) /\ (c.op \notin Loaders(part) \/ Late(c))
        <3>1. c.op \notin Loaders(part)
            BY <2>2 DEF Loaders, Parts
        <3>2. "deployments" \in Written(c.op) /\ (Late(c) <=> c.of # view.project)
            BY <2>2 DEF Written, Late
        <3> QED  BY <2>2, <2>4, <2>5, <3>1, <3>2, ForeignParts DEF Parts
    <2>6. /\ Answered(t, c, v, none, <<>>) /\ none \in SUBSET PageCalls /\ session' = session
          /\ \A d \in none : d.op \notin {"account", "login", "select"}
          /\ deployed' \in [Projects -> {"none", "building", "ended"}]
        BY <2>1, <2>2, <2>3
    <2>7. v.timer => v.project # None
        BY <2>2, <2>4
    <2> HIDE DEF none
    <2> QED  BY <2>2, <2>3, <2>4, <2>5, <2>6, <2>7, PlainAnswer
<1> QED  BY <1>1, <1>2, <1>3

\* Saving, generating, committing, creating and validating write nothing.
LEMMA OtherAnswers ==
    ASSUME PageInv, NEW t \in Handlers, OtherAnswered(t)
    PROVE  PageInv'
<1>1. PICK c \in Answers(t, {"act"}) :
          Answered(t, c, view, {}, <<>>) /\ UNCHANGED <<session, deployed>>
    BY DEF OtherAnswered
<1>2. /\ c \in tasks[t].calls /\ Due = {} /\ (c.auth \/ session) /\ c.op = "act"
      /\ view \in Views /\ (view.timer => view.project # None)
      /\ deployed \in [Projects -> {"none", "building", "ended"}]
    BY <1>1, CallAnswered
<1> DEFINE v == view
           none == {}
<1>3. /\ Answered(t, c, v, none, <<>>) /\ none \in SUBSET PageCalls /\ session' = session
      /\ \A d \in none : d.op \notin {"account", "login", "select"}
      /\ deployed' \in [Projects -> {"none", "building", "ended"}]
    BY <1>1, <1>2
<1>4. \A part \in Parts : c.op \notin Loaders(part)
    BY <1>2 DEF Loaders, Parts
<1>5. /\ v \in Views /\ v.user = view.user /\ v.project = view.project
      /\ v.workspace = view.workspace /\ (v.timer => v.project # None)
      /\ \A part \in Parts : Foreign(v, part) => Foreign(view, part)
    BY <1>2
<1> HIDE DEF v, none
<1> QED  BY <1>2, <1>3, <1>4, <1>5, PlainAnswer

\* What the server serves of a project is of that project.
LEMMA ServedFits ==
    ASSUME PageTypes, NEW p \in Projects
    PROVE  Served(p) \in SUBSET Shown /\ \A d \in Served(p) : d.of = p
BY DEF Served, Shown, PageTypes

\* A page whose polling was just set has it right, and little else is changed.
LEMMA SyncedFits ==
    ASSUME NEW v \in Views
    PROVE  /\ Synced(v) \in Views /\ ~Foreign(Synced(v), "polling")
           /\ Synced(v).timer => Synced(v).project # None
           /\ Synced(v).user = v.user /\ Synced(v).workspace = v.workspace
           /\ Synced(v).list = v.list
           /\ Synced(v).project = v.project /\ Synced(v).file = v.file
           /\ Synced(v).commits = v.commits /\ Synced(v).diff = v.diff
           /\ Synced(v).deployments = v.deployments /\ Synced(v).deployment = v.deployment
           /\ Synced(v).logs = v.logs
           /\ Synced(v).runs = v.runs /\ Synced(v).run = v.run /\ Synced(v).detail = v.detail
<1> DEFINE polls == v.project # None /\ \E d \in v.deployments : d.building
           s == [v EXCEPT !.timer = polls]
<1>1. polls \in BOOLEAN
    OBVIOUS
<1>2. Synced(v) = s /\ (polls <=> v.project # None /\ \E d \in v.deployments : d.building)
    BY DEF Synced
<1> HIDE DEF polls
<1>3. /\ s \in Views /\ s.timer = polls
      /\ s.user = v.user /\ s.workspace = v.workspace /\ s.list = v.list
      /\ s.project = v.project /\ s.file = v.file /\ s.commits = v.commits /\ s.diff = v.diff
      /\ s.deployments = v.deployments /\ s.deployment = v.deployment /\ s.logs = v.logs
      /\ s.runs = v.runs /\ s.run = v.run /\ s.detail = v.detail
    BY <1>1 DEF Views
<1> HIDE DEF s
<1>4. ~Foreign(s, "polling")
    BY <1>2, <1>3, ForeignParts
<1> QED  BY <1>2, <1>3, <1>4

\* The list of deployments, its logs, and the timer that polls them.
LEMMA LogsAnswers ==
    ASSUME PageInv, NEW t \in Handlers, LogsAnswered(t)
    PROVE  PageInv'
<1>1. PICK c \in Answers(t, {"logs"}) :
          Answered(t, c, WithLogs(view, c.of), {}, <<>>) /\ UNCHANGED <<session, deployed>>
    BY DEF LogsAnswered
<1>2. /\ c \in tasks[t].calls /\ Due = {} /\ (c.auth \/ session) /\ c.op = "logs"
      /\ view \in Views /\ c.of \in Projects
      /\ deployed \in [Projects -> {"none", "building", "ended"}]
    BY <1>1, CallAnswered DEF OfProject
<1> DEFINE shown == {d \in view.deployments : d.of # c.of} \cup Served(c.of)
           w == [view EXCEPT !.deployment = c.of, !.logs = c.of, !.deployments = shown]
           v == Synced(w)
           none == {}
<1>3. shown \in SUBSET Shown /\ \A d \in shown : d.of = c.of \/ d \in view.deployments
    BY <1>2, ServedFits, ViewFields DEF PageInv
<1>4. WithLogs(view, c.of) = v
    BY <1>2 DEF WithLogs, Views
<1> HIDE DEF shown
<1>5. /\ w \in Views /\ w.deployment = c.of /\ w.logs = c.of /\ w.deployments = shown
      /\ w.user = view.user /\ w.workspace = view.workspace /\ w.list = view.list
      /\ w.project = view.project /\ w.file = view.file /\ w.commits = view.commits
      /\ w.diff = view.diff
      /\ w.runs = view.runs /\ w.run = view.run /\ w.detail = view.detail
    BY <1>2, <1>3 DEF Views
<1> HIDE DEF w
<1>6. /\ v \in Views /\ ~Foreign(v, "polling") /\ (v.timer => v.project # None)
      /\ v.deployment = c.of /\ v.logs = c.of /\ v.deployments = shown
      /\ v.user = view.user /\ v.workspace = view.workspace /\ v.list = view.list
      /\ v.project = view.project /\ v.file = view.file /\ v.commits = view.commits
      /\ v.diff = view.diff
      /\ v.runs = view.runs /\ v.run = view.run /\ v.detail = view.detail
    BY <1>5, SyncedFits
<1>7. /\ Answered(t, c, v, none, <<>>) /\ none \in SUBSET PageCalls /\ session' = session
      /\ \A d \in none : d.op \notin {"account", "login", "select"}
      /\ deployed' \in [Projects -> {"none", "building", "ended"}]
    BY <1>1, <1>2, <1>4
<1> HIDE DEF v, none
<1>8. ASSUME NEW part \in Parts, Foreign(v, part)
      PROVE  \/ part \in Written(c.op) /\ Late(c)
             \/ Foreign(view, part) /\ (c.op \notin Loaders(part) \/ Late(c))
    <2>1. part \notin {"polling", "logs"} => c.op \notin Loaders(part)
        BY <1>2 DEF Loaders, Parts
    <2>2. "deployments" \in Written(c.op) /\ "logs" \in Written(c.op) /\ (Late(c) <=> c.of # view.project)
        BY <1>2 DEF Written, Late
    <2>3. CASE part = "deployments"
        BY <1>3, <1>6, <1>8, <2>1, <2>2, <2>3, ForeignParts
    <2>4. CASE part = "logs"
        BY <1>2, <1>6, <1>8, <2>2, <2>4, ForeignParts
    <2>5. CASE part \notin {"deployments", "logs"}
        BY <1>6, <1>8, <2>1, <2>5, ForeignParts DEF Parts
    <2> QED  BY <2>3, <2>4, <2>5
<1> QED  BY <1>2, <1>6, <1>7, <1>8, PlainAnswer

\* The list of runs.
LEMMA RunsAnswers ==
    ASSUME PageInv, NEW t \in Handlers, RunsAnswered(t)
    PROVE  PageInv'
<1> DEFINE follow(v) == IF v.project = None THEN {} ELSE {Call("detail", v.project, v.run)}
<1>1. PICK c \in Answers(t, {"runs"}) :
          /\ Answered(t, c, WithRuns(view, c.of), follow(WithRuns(view, c.of)), <<>>)
          /\ UNCHANGED <<session, deployed>>
    BY DEF RunsAnswered
<1>2. /\ c \in tasks[t].calls /\ Due = {} /\ (c.auth \/ session) /\ c.op = "runs"
      /\ view \in Views /\ c.of \in Projects /\ (view.timer => view.project # None)
      /\ deployed \in [Projects -> {"none", "building", "ended"}]
      /\ session \in BOOLEAN
    BY <1>1, CallAnswered DEF OfProject
<1> DEFINE v == WithRuns(view, c.of)
           next == follow(v)
<1>3. /\ v \in Views /\ v.runs = c.of /\ v.run = c.of /\ v.detail \in {None, view.detail}
      /\ v.deployment = view.deployment /\ v.logs = view.logs /\ v.deployments = view.deployments
      /\ v.user = view.user /\ v.workspace = view.workspace /\ v.list = view.list
      /\ v.project = view.project /\ v.file = view.file /\ v.commits = view.commits
      /\ v.diff = view.diff
      /\ v.timer = view.timer
    <2>1. CASE view.run = c.of
        BY <1>2, <2>1 DEF WithRuns, Views
    <2>2. CASE view.run # c.of
        BY <1>2, <2>2 DEF WithRuns, Views
    <2> QED  BY <2>1, <2>2
<1>4. Answered(t, c, v, next, <<>>)
    BY <1>1
<1> HIDE DEF v
<1>5. next \in SUBSET PageCalls /\ \A d \in next : d.op \notin {"account", "login", "select"}
    <2>1. CASE v.project = None
        BY <2>1
    <2>2. CASE v.project # None
        <3>1. v.project \in Projects /\ v.run \in Projects \cup {None}
            BY <1>3, <2>2, ViewFields
        <3>2. Call("detail", v.project, v.run) \in PageCalls
            BY <1>2, <3>1, CallsSent DEF OfProject
        <3>3. Call("detail", v.project, v.run).op = "detail"
            BY DEF Call
        <3> QED  BY <2>2, <3>2, <3>3
    <2> QED  BY <2>1, <2>2
<1> HIDE DEF next
<1>6. /\ session' = session /\ deployed' \in [Projects -> {"none", "building", "ended"}]
    BY <1>1, <1>2
<1>8. ASSUME NEW part \in Parts, Foreign(v, part)
      PROVE  \/ part \in Written(c.op) /\ Late(c)
             \/ Foreign(view, part) /\ (c.op \notin Loaders(part) \/ Late(c))
    <2>1. part # "runs" => c.op \notin Loaders(part)
        BY <1>2 DEF Loaders, Parts
    <2>2. /\ "runs" \in Written(c.op) /\ "run" \in Written(c.op) /\ "detail" \in Written(c.op)
          /\ (Late(c) <=> c.of # view.project)
        BY <1>2 DEF Written, Late
    <2> QED  BY <1>2, <1>3, <1>8, <2>1, <2>2, ForeignParts DEF Parts
<1>9. v.timer => v.project # None
    BY <1>2, <1>3
<1> QED  BY <1>2, <1>3, <1>4, <1>5, <1>6, <1>8, <1>9, PlainAnswer

\* The list of deployments: the logs of the shown one are asked for next.
LEMMA DeploymentsAnswers ==
    ASSUME PageInv, NEW t \in Handlers, DeploymentsAnswered(t)
    PROVE  PageInv'
<1> DEFINE listed(c) == WithDeployments(view, c.of)
           logs(c) == c.op = "deployments" /\ listed(c).project # None /\ listed(c).deployment # None
           asked(c) == {Call("logs", listed(c).project, listed(c).deployment)}
<1>1. PICK c \in Answers(t, {"deployments", "deployments_only"}) :
          /\ IF logs(c) THEN Answered(t, c, listed(c), asked(c), <<>>)
             ELSE Answered(t, c, Synced(listed(c)), {}, <<>>)
          /\ UNCHANGED <<session, deployed>>
    BY DEF DeploymentsAnswered
<1>2. /\ c \in tasks[t].calls /\ Due = {} /\ (c.auth \/ session)
      /\ c.op \in {"deployments", "deployments_only"}
      /\ view \in Views /\ c.of \in Projects /\ (view.timer => view.project # None)
      /\ deployed \in [Projects -> {"none", "building", "ended"}]
      /\ session \in BOOLEAN
    BY <1>1, CallAnswered DEF OfProject
<1> DEFINE w == listed(c)
           next == IF logs(c) THEN asked(c) ELSE {}
           v == IF logs(c) THEN w ELSE Synced(w)
<1>3. /\ w \in Views /\ w.deployments = Served(c.of) /\ w.deployment \in {None, c.of}
      /\ w.user = view.user /\ w.workspace = view.workspace /\ w.list = view.list
      /\ w.project = view.project /\ w.file = view.file /\ w.commits = view.commits
      /\ w.diff = view.diff
      /\ w.runs = view.runs /\ w.run = view.run /\ w.detail = view.detail
      /\ w.timer = view.timer /\ (w.deployment = None => w.logs = None)
      /\ w.logs \in {None, view.logs}
    <2> DEFINE kept == \E d \in Served(c.of) : d.of = view.deployment
               text == IF kept THEN view.logs ELSE None
               chosen == IF kept THEN view.deployment
                         ELSE IF Served(c.of) = {} THEN None ELSE c.of
    <2>1. /\ Served(c.of) \in SUBSET Shown /\ chosen \in {None, c.of}
          /\ text \in {None, view.logs} /\ (chosen = None => text = None)
        <3>1. kept => view.deployment = c.of /\ c.of # None
            BY <1>2, ServedFits, ClientAssumption DEF PageInv
        <3>2. Served(c.of) \in SUBSET Shown
            BY <1>2, ServedFits DEF PageInv
        <3> QED  BY <3>1, <3>2
    <2>2. w = [view EXCEPT !.deployments = Served(c.of), !.deployment = chosen, !.logs = text]
        <3>1. CASE kept
            BY <1>2, <3>1 DEF WithDeployments, Views
        <3>2. CASE ~kept
            BY <1>2, <3>2 DEF WithDeployments, Views
        <3> QED  BY <3>1, <3>2
    <2>3. text \in Projects \cup {None} /\ chosen \in Projects \cup {None}
        BY <1>2, <2>1, ViewFields
    <2> HIDE DEF chosen, text, kept
    <2>4. /\ w \in Views /\ w.deployments = Served(c.of) /\ w.deployment = chosen /\ w.logs = text
          /\ w.user = view.user /\ w.workspace = view.workspace /\ w.list = view.list
          /\ w.project = view.project /\ w.file = view.file /\ w.commits = view.commits
          /\ w.diff = view.diff /\ w.runs = view.runs /\ w.run = view.run /\ w.detail = view.detail
          /\ w.timer = view.timer
        <3> DEFINE s == Served(c.of)
        <3>1. s \in SUBSET Shown /\ w = [view EXCEPT !.deployments = s, !.deployment = chosen, !.logs = text]
            BY <2>1, <2>2
        <3> DEFINE u == [view EXCEPT !.deployments = s, !.deployment = chosen]
        <3> HIDE DEF w, s
        <3>2. /\ u.deployments = s /\ u.deployment = chosen
              /\ u.user = view.user /\ u.workspace = view.workspace /\ u.list = view.list
              /\ u.project = view.project /\ u.file = view.file /\ u.commits = view.commits
              /\ u.diff = view.diff /\ u.runs = view.runs /\ u.run = view.run
              /\ u.detail = view.detail
              /\ u.timer = view.timer
            BY <1>2 DEF Views
        <3>5. u \in Views
            BY <1>2, <2>3, <3>1 DEF Views
        <3>3. w = [u EXCEPT !.logs = text]
            BY <1>2, <3>1 DEF Views
        <3> HIDE DEF u
        <3>4. /\ w.deployments = u.deployments /\ w.deployment = u.deployment /\ w.logs = text
              /\ w.user = u.user /\ w.workspace = u.workspace /\ w.list = u.list
              /\ w.project = u.project /\ w.file = u.file /\ w.commits = u.commits
              /\ w.diff = u.diff /\ w.runs = u.runs /\ w.run = u.run /\ w.detail = u.detail
              /\ w.timer = u.timer
            BY <3>3, <3>5 DEF Views
        <3>6. w \in Views
            BY <2>3, <3>3, <3>5 DEF Views
        <3> QED  BY <3>2, <3>4, <3>6 DEF s
    <2> QED  BY <2>1, <2>4
<1>4. Answered(t, c, v, next, <<>>)
    BY <1>1
<1>5. next \in SUBSET PageCalls /\ \A d \in next : d.op \notin {"account", "login", "select"}
    <2>1. CASE ~logs(c)
        BY <2>1
    <2>2. CASE logs(c)
        <3>0. w.project # None /\ next = {Call("logs", w.project, w.deployment)}
            BY <2>2
        <3> HIDE DEF w, v, next
        <3>1. w.project \in Projects /\ w.deployment \in Projects \cup {None}
            BY <1>3, <3>0, ViewFields
        <3>2. Call("logs", w.project, w.deployment) \in PageCalls
            BY <1>2, <3>1, CallsSent DEF OfProject
        <3>3. Call("logs", w.project, w.deployment).op = "logs"
            BY DEF Call
        <3> QED  BY <3>0, <3>2, <3>3
    <2> QED  BY <2>1, <2>2
<1>6. /\ session' = session /\ deployed' \in [Projects -> {"none", "building", "ended"}]
    BY <1>1, <1>2
<1>7. /\ v \in Views /\ (v.timer => v.project # None)
      /\ v.deployments = w.deployments /\ v.deployment = w.deployment /\ v.logs = w.logs
      /\ v.user = view.user /\ v.workspace = view.workspace /\ v.list = view.list
      /\ v.project = view.project /\ v.file = view.file /\ v.commits = view.commits
      /\ v.diff = view.diff
      /\ v.runs = view.runs /\ v.run = view.run /\ v.detail = view.detail
      /\ logs(c) \/ ~Foreign(v, "polling")
    <2> HIDE DEF w
    <2>1. CASE logs(c)
        BY <1>2, <1>3, <2>1
    <2>2. CASE ~logs(c)
        BY <1>3, <2>2, SyncedFits
    <2> QED  BY <2>1, <2>2
<1>8. ASSUME logs(c) PROVE \E d \in next : d.op = "logs" /\ d.of = v.project
    BY <1>8 DEF Call
<1>10. c.op = "deployments" => logs(c) \/ w.project = None \/ w.deployment = None
    OBVIOUS
<1> HIDE DEF v, w, next, logs
<1>9. ASSUME NEW part \in Parts, Foreign(v, part)
      PROVE  \/ part \in Written(c.op) /\ Late(c)
             \/ Foreign(view, part) /\ (c.op \notin Loaders(part) \/ Late(c))
             \/ \E d \in next : d.op \in Loaders(part) \ {"projects", "select"} /\ d.of = v.project
    <2>1. part \notin {"polling", "deployments", "logs"} => c.op \notin Loaders(part)
        BY <1>2 DEF Loaders, Parts
    <2>2. "deployments" \in Written(c.op) /\ (Late(c) <=> c.of # view.project)
        BY <1>2 DEF Written, Late
    <2>3. CASE part = "deployments"
        BY <1>3, <1>2, <1>7, <1>9, <2>2, <2>3, ServedFits, ForeignParts DEF PageInv
    <2>4. CASE part = "polling"
        <3>1. "logs" \in Loaders(part) \ {"projects", "select"}
            BY <2>4 DEF Loaders
        <3> QED  BY <1>7, <1>8, <1>9, <2>4, <3>1
    <2>6. CASE part = "logs"
        <3>1. Foreign(view, part)
            BY <1>2, <1>3, <1>7, <1>9, <2>6, ForeignParts
        <3>2. c.op = "deployments_only" => c.op \notin Loaders(part)
            BY <2>6 DEF Loaders
        <3>3. c.op = "deployments" => logs(c)
            BY <1>3, <1>7, <1>9, <1>10, <2>6, ForeignParts
        <3>4. "logs" \in Loaders(part) \ {"projects", "select"}
            BY <2>6 DEF Loaders
        <3> QED  BY <1>2, <1>8, <3>1, <3>2, <3>3, <3>4
    <2>5. CASE part \notin {"polling", "deployments", "logs"}
        BY <1>7, <1>9, <2>1, <2>5, ForeignParts DEF Parts
    <2> QED  BY <2>3, <2>4, <2>5, <2>6
<1> QED  BY <1>2, <1>4, <1>5, <1>6, <1>7, <1>9, PlainAnswer

\* A signed-out page holds nothing, whether or not its file is cleared once more.
Cleared == {SignedOut, [SignedOut EXCEPT !.file = None]}

LEMMA SignedOutFits ==
    ASSUME NEW v \in Cleared
    PROVE  /\ v \in Views /\ ~v.user /\ v.project = None /\ ~v.timer
           /\ \A part \in Parts : ~Foreign(v, part)
<1>1. /\ v \in Views /\ ~v.user /\ v.project = None /\ ~v.timer
      /\ v.list = None
    <2>1. /\ SignedOut \in Views /\ ~SignedOut.user /\ SignedOut.project = None
          /\ ~SignedOut.timer /\ SignedOut.list = None
        BY DEF SignedOut, Views
    <2> DEFINE s == [SignedOut EXCEPT !.file = None]
    <2>2. /\ s \in Views /\ s.user = SignedOut.user /\ s.project = SignedOut.project
          /\ s.timer = SignedOut.timer /\ s.list = SignedOut.list
        BY <2>1 DEF Views
    <2> HIDE DEF s
    <2>3. v = SignedOut \/ v = s
        BY DEF Cleared, s
    <2> QED  BY <2>1, <2>2, <2>3
<1>2. ASSUME NEW part \in Parts PROVE ~Foreign(v, part)
    BY <1>1, ForeignParts DEF Parts
<1> QED  BY <1>1, <1>2

\* The list of projects.
LEMMA ProjectsAnswers ==
    ASSUME PageInv, NEW t \in Handlers, ProjectsAnswered(t)
    PROVE  PageInv'
<1> DEFINE follow(x) == IF x.project = None THEN {} ELSE {Call("deployments_only", x.project, None)}
<1>1. PICK c \in Answers(t, {"projects"}) :
          /\ Answered(t, c, Listed(view, c.of), follow(Listed(view, c.of)), <<>>)
          /\ UNCHANGED <<session, deployed>>
    BY DEF ProjectsAnswered
<1>2. /\ c \in tasks[t].calls /\ Due = {} /\ (c.auth \/ session) /\ c.op = "projects"
      /\ view \in Views /\ (view.timer => view.project # None)
      /\ deployed \in [Projects -> {"none", "building", "ended"}]
      /\ session \in BOOLEAN /\ c \in PageCalls
    BY <1>1, CallAnswered
<1>3. c.of \in Workspaces
    BY <1>2, CallFields
<1> DEFINE v == Listed(view, c.of)
           next == follow(v)
           gone == view.project # None /\ Home[view.project] # c.of
<1>4. /\ v \in Views /\ v.list = c.of /\ v.user = view.user /\ v.workspace = view.workspace
      /\ (v.timer => v.project # None)
      /\ gone => v.project = None
      /\ ~gone => /\ v.project = view.project /\ v.file = view.file /\ v.commits = view.commits /\ v.diff = view.diff
                  /\ v.deployments = view.deployments /\ v.deployment = view.deployment
                  /\ v.logs = view.logs
                  /\ v.runs = view.runs /\ v.run = view.run /\ v.detail = view.detail
                  /\ v.timer = view.timer
    <2> DEFINE l == [view EXCEPT !.list = c.of]
    <2>1. /\ l \in Views /\ l.list = c.of /\ l.user = view.user /\ l.workspace = view.workspace
          /\ l.project = view.project /\ l.file = view.file /\ l.commits = view.commits
          /\ l.diff = view.diff
          /\ l.deployments = view.deployments /\ l.deployment = view.deployment
          /\ l.logs = view.logs
          /\ l.runs = view.runs /\ l.run = view.run /\ l.detail = view.detail
          /\ l.timer = view.timer
        BY <1>2, <1>3 DEF Views
    <2>2. v = IF gone THEN WithoutProject(l) ELSE l
        BY DEF Listed
    <2> HIDE DEF l, v
    <2>3. CASE gone
        <3> DEFINE x == WithoutWorkspace(l)
        <3>1. /\ x \in Views /\ x.user = l.user /\ x.workspace = l.workspace /\ x.project = None
              /\ x.timer = FALSE
            BY <2>1 DEF WithoutWorkspace, Views
        <3>2. v = [x EXCEPT !.list = c.of, !.file = None, !.commits = None, !.diff = None]
            BY <2>1, <2>2, <2>3 DEF WithoutProject
        <3> HIDE DEF x, gone
        <3>3. /\ v \in Views /\ v.list = c.of /\ v.user = view.user /\ v.workspace = view.workspace
              /\ v.timer = FALSE /\ v.project = None
            <4>1. x \in Views /\ c.of \in Workspaces \cup {None}
                BY <1>3, <3>1
            <4>2. /\ v \in Views /\ v.list = c.of /\ v.user = x.user /\ v.workspace = x.workspace
                  /\ v.timer = x.timer /\ v.project = x.project
                BY <3>2, <4>1 DEF Views
            <4> QED  BY <2>1, <3>1, <4>2
        <3> QED  BY <2>3, <3>3
    <2>4. CASE ~gone
        BY <1>2, <2>1, <2>2, <2>4
    <2> QED  BY <2>3, <2>4
<1>5. Answered(t, c, v, next, <<>>)
    BY <1>1
<1> HIDE DEF v
<1>6. next \in SUBSET PageCalls /\ \A d \in next : d.op \notin {"account", "login", "select"}
    <2>1. CASE v.project = None
        BY <2>1
    <2>2. CASE v.project # None
        <3>1. v.project \in Projects
            BY <1>4, <2>2, ViewFields
        <3>2. Call("deployments_only", v.project, None) \in PageCalls
            BY <1>2, <3>1, CallsSent DEF OfProject
        <3>3. Call("deployments_only", v.project, None).op = "deployments_only"
            BY DEF Call
        <3> QED  BY <2>2, <3>2, <3>3
    <2> QED  BY <2>1, <2>2
<1> HIDE DEF next
<1>7. /\ session' = session /\ deployed' \in [Projects -> {"none", "building", "ended"}]
    BY <1>1, <1>2
<1>8. PageTypes /\ HandlersFit /\ PageLoads /\ SignOutDue
    BY DEF PageInv
<1>9. /\ PageTypes' /\ HandlersFit' /\ view' = v /\ failures' = failures
      /\ blind' = {q \in blind \cup Suspects(c) : Foreign(v, q)}
      /\ tasks'[t].calls = (tasks[t].calls \ {c}) \cup next
      /\ \A u \in Handlers \ {t} : tasks'[u] = tasks[u]
    <2>1. session' \in BOOLEAN
        BY <1>2, <1>7
    <2> QED  BY <1>2, <1>4, <1>5, <1>6, <1>7, <1>8, <2>1, AnswerMoves
<1>10. ASSUME NEW part \in Parts, Foreign(v, part)
       PROVE  part \in blind' \/ Loading(part)' \/ AboutToLoad(part)'
    <2> DEFINE suspects == Suspects(c)
    <2>1. blind' = {q \in blind \cup suspects : Foreign(view', q)} /\ Foreign(view', part)
        BY <1>9, <1>10
    <2>2. ~Late(c) => part \notin {"list", "project"}
        BY <1>2, <1>4, <1>10, ForeignParts DEF Late
    <2>3. Late(c) => "list" \in suspects /\ "project" \in suspects
        BY <1>2 DEF Written, Suspects
    <2>4. part \notin {"list", "project"} =>
              /\ view'.project = view.project /\ Foreign(view, part) /\ c.op \notin Loaders(part)
        <3>1. part \notin {"list", "project"} => c.op \notin Loaders(part)
            BY <1>2 DEF Loaders, Parts
        <3> QED  BY <1>4, <1>9, <1>10, <3>1, ForeignParts DEF Parts
    <2> HIDE DEF suspects
    <2> QED  BY <1>2, <1>8, <1>9, <1>10, <2>1, <2>2, <2>3, <2>4, AnswerKeeps
<1>11. PageLoads'
    BY <1>9, <1>10 DEF PageLoads
<1>12. SignOutDue'
    <2>1. ~session' /\ failures' = 0 /\ (view'.user \/ view'.project # None) =>
              ~session /\ failures = 0 /\ (view.user \/ view.project # None) /\ c.auth
        BY <1>2, <1>4, <1>7, <1>9
    <2>2. view'.timer => view'.project # None
        BY <1>4, <1>9
    <2> QED  BY <1>2, <1>8, <1>9, <2>1, <2>2, SignKeeps
<1> QED  BY <1>9, <1>11, <1>12 DEF PageInv

\* The project that is opened: its parts are asked for next.
LEMMA SelectAnswers ==
    ASSUME PageInv, NEW t \in Handlers, SelectAnswered(t)
    PROVE  PageInv'
<1>1. PICK c \in Answers(t, {"select"}) :
          Answered(t, c, Selected(view, c.of), {}, <<"loads">>) /\ UNCHANGED <<session, deployed>>
    BY DEF SelectAnswered
<1>2. /\ c \in tasks[t].calls /\ Due = {} /\ (c.auth \/ session) /\ c.op = "select"
      /\ view \in Views /\ c.of \in Projects /\ session \in BOOLEAN
      /\ deployed \in [Projects -> {"none", "building", "ended"}]
    BY <1>1, CallAnswered DEF OfProject
<1> DEFINE v == Selected(view, c.of)
           none == {}
<1>3. /\ v \in Views /\ v.project = c.of /\ v.file = None /\ v.run = None /\ v.detail = None
      /\ v.user = view.user /\ v.workspace = view.workspace /\ v.list = view.list
    BY <1>2 DEF Selected, Views
<1>4. /\ Answered(t, c, v, none, <<"loads">>) /\ none \in SUBSET PageCalls
      /\ \A d \in none : d.op \notin {"account", "login", "select"}
      /\ session' \in BOOLEAN /\ session' = session
      /\ deployed' \in [Projects -> {"none", "building", "ended"}]
    BY <1>1, <1>2
<1>5. PageTypes /\ HandlersFit /\ PageLoads /\ SignOutDue
    BY DEF PageInv
<1>6. c.of # None
    BY <1>2, ClientAssumption
<1> HIDE DEF v, none
<1>7. /\ PageTypes' /\ HandlersFit' /\ view' = v /\ failures' = failures
      /\ blind' = {q \in blind \cup Suspects(c) : Foreign(v, q)}
      /\ tasks'[t].calls = (tasks[t].calls \ {c}) \cup none
      /\ tasks'[t].rest = <<"loads">> \o tasks[t].rest
      /\ \A u \in Handlers \ {t} : tasks'[u] = tasks[u]
    BY <1>2, <1>3, <1>4, <1>5, AnswerMoves
<1>8. tasks'[t].calls = {} /\ t \in Due' /\ Head(tasks'[t].rest) = "loads"
    <2>1. tasks[t].calls = {c}
        BY <1>2, <1>5 DEF HandlersFit
    <2>2. tasks[t].rest \in Seq(RestSteps) /\ Entered(tasks[t].rest)
        BY <1>5 DEF PageTypes, PageTasks, HandlersFit
    <2>3. <<"loads">> \o tasks[t].rest # <<>> /\ Head(<<"loads">> \o tasks[t].rest) = "loads"
        BY <2>2, FrontEntered
    <2> QED  BY <1>7, <2>1, <2>3 DEF Due, Handlers, none
<1>9. ASSUME NEW part \in Parts, Foreign(v, part)
      PROVE  part \in blind' \/ Loading(part)' \/ AboutToLoad(part)'
    <2>1. CASE part \in {"commits", "deployments", "logs", "polling", "runs"}
        <3>1. Asks(t, part)'
            BY <1>8, <2>1 DEF Asks
        <3> QED  BY <3>1 DEF AboutToLoad, Handlers
    <2>2. CASE part \in {"file", "run", "detail"}
        BY <1>3, <1>9, <2>2, ForeignParts
    <2>3. CASE part = "project"
        <3>1. part \in Suspects(c)
            BY <1>2, <1>3, <1>9, <2>3, ForeignParts DEF Late, Written, Suspects
        <3> QED  BY <1>7, <1>9, <3>1
    <2>4. CASE part = "list"
        <3> DEFINE suspects == Suspects(c)
        <3>1. blind' = {q \in blind \cup suspects : Foreign(view', q)} /\ Foreign(view', part)
            BY <1>7, <1>9
        <3>2. Foreign(view, part) /\ c.op \notin Loaders(part) /\ view'.workspace = view.workspace
            BY <1>2, <1>3, <1>7, <1>9, <2>4, ForeignParts DEF Loaders
        <3> HIDE DEF suspects
        <3> QED  BY <1>2, <1>5, <1>7, <1>9, <2>4, <3>1, <3>2, AnswerKeeps
    <2>5. CASE part = "diff"
        <3>1. part \in Suspects(c)
            BY <1>2, <2>5 DEF Suspects
        <3> QED  BY <1>7, <1>9, <3>1
    <2> QED  BY <2>1, <2>2, <2>3, <2>4, <2>5 DEF Parts
<1>10. PageLoads'
    BY <1>7, <1>9 DEF PageLoads
<1>11. SignOutDue'
    <2>1. WillSignOut'
        BY <1>8 DEF WillSignOut, Handlers
    <2>2. view'.timer => view'.project # None
        BY <1>3, <1>6, <1>7
    <2> QED  BY <2>1, <2>2 DEF SignOutDue, WillSignOut
<1> QED  BY <1>7, <1>10, <1>11 DEF PageInv

\* Answers that can change the workspace: the account, a login.
LEMMA AccountAnswers ==
    ASSUME PageInv, NEW t \in Handlers, AccountAnswered(t) \/ LoginAnswered(t)
    PROVE  PageInv'
<1>0. PageTypes /\ HandlersFit /\ PageLoads /\ SignOutDue /\ view \in Views /\ session \in BOOLEAN
      /\ deployed \in [Projects -> {"none", "building", "ended"}]
    BY DEF PageInv, PageTypes
<1>1. ASSUME AccountAnswered(t) PROVE PageInv'
    <2>1. PICK c \in Answers(t, {"account"}), x \in Workspaces :
              Answered(t, c, SignedIn(view, x), {}, <<>>) /\ UNCHANGED <<session, deployed>>
        BY <1>1 DEF AccountAnswered
    <2>2. c \in tasks[t].calls /\ Due = {} /\ c.op = "account"
        BY <2>1, CallAnswered
    <2> DEFINE v == SignedIn(view, x)
               none == {}
    <2>3. /\ v \in Views /\ v.workspace # None /\ (view.workspace # None => v.workspace = view.workspace)
          /\ v.project = view.project /\ v.list = view.list /\ v.file = view.file
          /\ v.commits = view.commits /\ v.diff = view.diff /\ v.deployments = view.deployments
          /\ v.deployment = view.deployment /\ v.logs = view.logs /\ v.runs = view.runs
          /\ v.run = view.run
          /\ v.detail = view.detail /\ v.timer = view.timer
        <3> DEFINE chosen == IF view.workspace = None THEN x ELSE view.workspace
        <3>1. /\ chosen \in Workspaces \cup {None} /\ chosen # None
              /\ (view.workspace # None => chosen = view.workspace)
            BY <1>0, <2>1, ClientAssumption, ViewFields
        <3>2. v = [view EXCEPT !.user = TRUE, !.workspace = chosen]
            BY <1>0 DEF SignedIn, Views
        <3> HIDE DEF chosen, v
        <3> QED  BY <1>0, <3>1, <3>2 DEF Views
    <2>4. /\ Answered(t, c, v, none, <<>>) /\ none \in SUBSET PageCalls
          /\ \A d \in none : d.op \notin {"account", "login", "select"}
          /\ session' \in BOOLEAN /\ deployed' \in [Projects -> {"none", "building", "ended"}]
        BY <1>0, <2>1
    <2> HIDE DEF v, none
    <2>5. /\ PageTypes' /\ HandlersFit' /\ view' = v /\ failures' = failures
          /\ blind' = {q \in blind \cup Suspects(c) : Foreign(v, q)}
          /\ tasks'[t].calls = (tasks[t].calls \ {c}) \cup none
          /\ tasks'[t].rest = <<>> \o tasks[t].rest
          /\ \A u \in Handlers \ {t} : tasks'[u] = tasks[u]
        BY <1>0, <2>2, <2>3, <2>4, AnswerMoves
    <2>6. /\ t \in Due' /\ Head(tasks'[t].rest) \in {"enter", "projects"}
        <3>1. /\ tasks[t].calls = {c} /\ tasks[t].rest # <<>>
              /\ Head(tasks[t].rest) \in {"enter", "projects"} /\ tasks[t].rest \in Seq(RestSteps)
            BY <1>0, <2>2 DEF HandlersFit, PageTypes, PageTasks
        <3>2. <<>> \o tasks[t].rest = tasks[t].rest
            BY <3>1, ConcatEmptySeq
        <3> QED  BY <2>5, <3>1, <3>2 DEF Due, Handlers, none
    <2>7. ASSUME NEW part \in Parts, Foreign(v, part)
          PROVE  part \in blind' \/ Loading(part)' \/ AboutToLoad(part)'
        <3> DEFINE suspects == Suspects(c)
        <3>1. blind' = {q \in blind \cup suspects : Foreign(view', q)} /\ Foreign(view', part)
            BY <2>5, <2>7
        <3>2. c.op \notin Loaders(part)
            BY <2>2 DEF Loaders, Parts
        <3> HIDE DEF suspects
        <3>3. CASE part \notin {"list", "project"}
            <4>1. Foreign(view, part) /\ view'.project = view.project
                BY <2>3, <2>5, <2>7, <3>3, ForeignParts DEF Parts
            <4> QED  BY <1>0, <2>2, <2>5, <2>7, <3>1, <3>2, <3>3, <4>1, AnswerKeeps
        <3>4. CASE part \in {"list", "project"} /\ view.workspace # None
            <4>1. Foreign(view, part) /\ view'.workspace = view.workspace
                BY <2>3, <2>5, <2>7, <3>4, ForeignParts
            <4> QED  BY <1>0, <2>2, <2>5, <2>7, <3>1, <3>2, <3>4, <4>1, AnswerKeeps
        <3>5. CASE part \in {"list", "project"} /\ view.workspace = None
            <4>1. Foreign(view, part)
                <5>1. view.project # None => Home[view.project] # None
                    BY <1>0, ClientAssumption, ViewFields
                <5> QED  BY <2>3, <2>7, <3>5, <5>1, ForeignParts
            <4>2. ~Loading(part)
                <5>1. SUFFICES ASSUME NEW u \in Handlers, NEW d \in tasks[u].calls,
                                      d.op \in Loaders(part), ~Late(d)
                               PROVE  FALSE
                    BY DEF Loading
                <5>2. d \in PageCalls
                    BY <1>0 DEF PageTypes, PageTasks
                <5>3. d.op = "projects"
                    BY <3>5, <5>1 DEF Loaders
                <5>4. d.of \in Workspaces /\ d.of = None
                    BY <3>5, <5>1, <5>2, <5>3, CallFields DEF Late
                <5> QED  BY <5>4, ClientAssumption
            <4>3. ~AboutToLoad(part)
                BY <2>2 DEF AboutToLoad, Asks
            <4>4. part \in blind
                BY <1>0, <4>1, <4>2, <4>3 DEF PageLoads
            <4> QED  BY <3>1, <4>4
        <3> QED  BY <3>3, <3>4, <3>5
    <2>8. PageLoads'
        BY <2>5, <2>7 DEF PageLoads
    <2>9. SignOutDue'
        <3>1. WillSignOut'
            BY <2>3, <2>5, <2>6 DEF WillSignOut, Handlers
        <3>2. view'.timer => view'.project # None
            BY <1>0, <2>3, <2>5 DEF SignOutDue
        <3> QED  BY <3>1, <3>2 DEF SignOutDue, WillSignOut
    <2> QED  BY <2>5, <2>8, <2>9 DEF PageInv
<1>2. ASSUME LoginAnswered(t) PROVE PageInv'
    <2>1. PICK c \in tasks[t].calls, x \in Workspaces :
              /\ Due = {} /\ c.op = "login" /\ session' = TRUE
              /\ Answered(t, c, [view EXCEPT !.user = TRUE, !.workspace = x], {}, <<>>)
              /\ UNCHANGED deployed
        BY <1>2 DEF LoginAnswered
    <2> DEFINE v == [view EXCEPT !.user = TRUE, !.workspace = x]
               w == [view EXCEPT !.user = TRUE]
               none == {}
    <2>2. w \in Views /\ v = [w EXCEPT !.workspace = x]
        <3>1. v = [w EXCEPT !.workspace = x]
            BY <1>0 DEF Views
        <3> HIDE DEF v
        <3>2. w \in Views
            BY <1>0 DEF Views
        <3> QED  BY <3>1, <3>2
    <2>10. /\ w.project = view.project /\ w.file = view.file
          /\ w.commits = view.commits /\ w.diff = view.diff /\ w.deployments = view.deployments
          /\ w.deployment = view.deployment /\ w.logs = view.logs /\ w.runs = view.runs
          /\ w.run = view.run
          /\ w.detail = view.detail /\ w.timer = view.timer
        BY <1>0, <2>1 DEF Views
    <2> HIDE DEF w
    <2>3. /\ v \in Views /\ v.project = view.project /\ v.file = view.file
          /\ v.commits = view.commits /\ v.diff = view.diff /\ v.deployments = view.deployments
          /\ v.deployment = view.deployment /\ v.logs = view.logs /\ v.runs = view.runs
          /\ v.run = view.run
          /\ v.detail = view.detail /\ v.timer = view.timer
        <3> HIDE DEF v
        <3>1. v \in Views
            BY <2>1, <2>2 DEF Views
        <3>2. /\ v.project = w.project /\ v.file = w.file
              /\ v.commits = w.commits /\ v.diff = w.diff /\ v.deployments = w.deployments
              /\ v.deployment = w.deployment /\ v.logs = w.logs /\ v.runs = w.runs /\ v.run = w.run
              /\ v.detail = w.detail /\ v.timer = w.timer
            BY <2>2 DEF Views
        <3> QED  BY <2>10, <3>1, <3>2
    <2>4. /\ Answered(t, c, v, none, <<>>) /\ none \in SUBSET PageCalls
          /\ \A d \in none : d.op \notin {"account", "login", "select"}
          /\ session' \in BOOLEAN /\ deployed' \in [Projects -> {"none", "building", "ended"}]
        BY <1>0, <2>1
    <2> HIDE DEF v, none
    <2>5. /\ PageTypes' /\ HandlersFit' /\ view' = v /\ failures' = failures
          /\ blind' = {q \in blind \cup Suspects(c) : Foreign(v, q)}
          /\ tasks'[t].calls = (tasks[t].calls \ {c}) \cup none
          /\ tasks'[t].rest = <<>> \o tasks[t].rest
          /\ \A u \in Handlers \ {t} : tasks'[u] = tasks[u]
        BY <1>0, <2>1, <2>3, <2>4, AnswerMoves
    <2>6. /\ t \in Due' /\ Head(tasks'[t].rest) = "projects"
        <3>1. /\ tasks[t].calls = {c} /\ tasks[t].rest # <<>>
              /\ Head(tasks[t].rest) = "projects" /\ tasks[t].rest \in Seq(RestSteps)
            BY <1>0, <2>1 DEF HandlersFit, PageTypes, PageTasks
        <3>2. <<>> \o tasks[t].rest = tasks[t].rest
            BY <3>1, ConcatEmptySeq
        <3> QED  BY <2>5, <3>1, <3>2 DEF Due, Handlers, none
    <2>7. ASSUME NEW part \in Parts, Foreign(v, part)
          PROVE  part \in blind' \/ Loading(part)' \/ AboutToLoad(part)'
        <3>1. CASE part \in {"list", "project"}
            <4>1. Asks(t, part)'
                BY <2>6, <3>1 DEF Asks
            <4> QED  BY <4>1 DEF AboutToLoad, Handlers
        <3>2. CASE part \notin {"list", "project"}
            <4> DEFINE suspects == Suspects(c)
            <4>1. blind' = {q \in blind \cup suspects : Foreign(view', q)} /\ Foreign(view', part)
                BY <2>5, <2>7
            <4>2. c.op \notin Loaders(part)
                BY <2>1 DEF Loaders, Parts
            <4> HIDE DEF suspects
            <4>3. Foreign(view, part) /\ view'.project = view.project
                BY <2>3, <2>5, <2>7, <3>2, ForeignParts DEF Parts
            <4> QED  BY <1>0, <2>1, <2>5, <2>7, <3>2, <4>1, <4>2, <4>3, AnswerKeeps
        <3> QED  BY <3>1, <3>2
    <2>8. PageLoads'
        BY <2>5, <2>7 DEF PageLoads
    <2>9. SignOutDue'
        BY <1>0, <2>1, <2>3, <2>5 DEF SignOutDue
    <2> QED  BY <2>5, <2>8, <2>9 DEF PageInv
<1> QED  BY <1>1, <1>2

\* What a call that throws leaves of the page: the page, perhaps without its file,
\* or nothing.
LEMMA PageFades ==
    ASSUME PageInv, NEW p \in Cleared \cup {view, [view EXCEPT !.file = None]}
    PROVE  /\ p \in Views /\ (p.timer => p.project # None)
           /\ p.user \/ p.project # None => view.user \/ view.project # None
           /\ \A part \in Parts : Foreign(p, part) =>
                /\ Foreign(view, part) /\ p.workspace = view.workspace
                /\ p.project = view.project
<1>0. view \in Views /\ (view.timer => view.project # None)
    BY DEF PageInv, PageTypes, SignOutDue
<1>1. CASE p = view
    BY <1>0, <1>1
<1>2. CASE p \in Cleared
    BY <1>2, SignedOutFits
<1>3. CASE p = [view EXCEPT !.file = None]
    <2>1. /\ p \in Views /\ p.user = view.user /\ p.project = view.project /\ p.workspace = view.workspace
          /\ p.timer = view.timer /\ p.list = view.list /\ p.file = None
          /\ p.commits = view.commits /\ p.diff = view.diff
          /\ p.deployments = view.deployments /\ p.deployment = view.deployment
          /\ p.logs = view.logs
          /\ p.runs = view.runs /\ p.run = view.run /\ p.detail = view.detail
        BY <1>0, <1>3 DEF Views
    <2>2. \A part \in Parts : Foreign(p, part) => Foreign(view, part)
        BY <2>1, ForeignParts DEF Parts
    <2> QED  BY <1>0, <2>1, <2>2
<1> QED  BY <1>1, <1>2, <1>3

\* A call that throws keeps the invariant, unless it is refused for the want of a
\* session and the page is kept.
LEMMA ThrowKeeps ==
    ASSUME PageInv, NEW t \in Handlers, NEW c \in tasks[t].calls, Due = {},
           NEW v, v = view \/ v = SignedOut, Thrown(t, c, v),
           failures' \in Nat, failures' = failures \/ failures' # 0,
           v = SignedOut \/ c.auth \/ session \/ failures' # 0
    PROVE  PageInv'
<1>0. /\ PageTypes /\ HandlersFit /\ PageLoads /\ SignOutDue /\ view \in Views
      /\ tasks \in [Handlers -> PageTasks]
    BY DEF PageInv, PageTypes
<1>1. PICK p, rest :
          /\ p \in Cleared \cup {view, [view EXCEPT !.file = None]} /\ (v = SignedOut => p \in Cleared)
          /\ rest \in {<<>>, tasks[t].rest}
          /\ Advance(t, tasks[t].calls \ {c}, rest)
          /\ view' = p /\ blind' = {q \in blind \cup Written(c.op) : Foreign(p, q)}
    <2>1. CASE c.op = "reopen"
        <3> DEFINE p == [v EXCEPT !.file = None]
        <3>2. /\ Advance(t, tasks[t].calls \ {c}, tasks[t].rest)
              /\ view' = p /\ blind' = {q \in blind \cup Written(c.op) : Foreign(p, q)}
            BY <2>1 DEF Thrown, Show
        <3>3. (v = SignedOut => p \in Cleared) /\ (v = view => p = [view EXCEPT !.file = None])
            BY DEF Cleared
        <3> QED  BY <3>2, <3>3
    <2>2. CASE c.op # "reopen"
        <3> DEFINE p == IF c.op = "logout" \/ tasks[t].boot THEN SignedOut ELSE v
        <3>1. /\ Advance(t, tasks[t].calls \ {c}, <<>>)
              /\ view' = p /\ blind' = {q \in blind \cup Written(c.op) : Foreign(p, q)}
            BY <2>2 DEF Thrown, Show
        <3>2. p \in Cleared \cup {view} /\ (v = SignedOut => p \in Cleared)
            BY DEF Cleared
        <3> QED  BY <3>1, <3>2
    <2> QED  BY <2>1, <2>2
<1>2. /\ p \in Views /\ (p.timer => p.project # None)
      /\ p.user \/ p.project # None => view.user \/ view.project # None
      /\ \A part \in Parts : Foreign(p, part) =>
           /\ Foreign(view, part) /\ p.workspace = view.workspace
           /\ p.project = view.project
    BY <1>1, PageFades
<1>3. /\ tasks[t].calls \in SUBSET PageCalls /\ tasks[t].rest \in Seq(RestSteps)
      /\ Entered(tasks[t].rest)
    BY <1>0 DEF PageTasks, HandlersFit
<1>4. rest \in Seq(RestSteps) /\ Entered(rest)
    <2>1. <<>> \in Seq(RestSteps) /\ Entered(<<>>)
        BY DEF Entered
    <2> QED  BY <1>1, <1>3, <2>1
<1> DEFINE calls == tasks[t].calls \ {c}
<1>5. calls \in SUBSET PageCalls /\ Advance(t, calls, rest)
    BY <1>1, <1>3
<1> HIDE DEF calls
<1>6. /\ tasks' \in [Handlers -> PageTasks] /\ tasks'[t].calls = calls /\ tasks'[t].rest = rest
      /\ \A u \in Handlers \ {t} : tasks'[u] = tasks[u]
    BY <1>0, <1>4, <1>5, AdvanceMoves
<1>7. HandlersFit'
    <2> DEFINE none == {}
    <2>1. tasks'[t].calls = (tasks[t].calls \ {c}) \cup none
        BY <1>6 DEF calls
    <2>2. \A d \in none : d.op \notin {"account", "login", "select"}
        OBVIOUS
    <2>3. Entered(tasks'[t].rest)
        BY <1>4, <1>6
    <2> HIDE DEF none
    <2> QED  BY <1>0, <1>6, <2>1, <2>2, <2>3, AnswerFits
<1>8. PageTypes'
    <2>1. session' = session /\ deployed' = deployed
        BY DEF Thrown
    <2> QED  BY <1>0, <1>1, <1>2, <1>6, <2>1 DEF PageTypes, Handlers, Views, PageTasks, PageCalls
<1>9. ASSUME NEW part \in Parts, Foreign(p, part)
      PROVE  part \in blind' \/ Loading(part)' \/ AboutToLoad(part)'
    <2> DEFINE suspects == Written(c.op)
    <2>1. blind' = {q \in blind \cup suspects : Foreign(view', q)} /\ Foreign(view', part)
        BY <1>1, <1>9
    <2>2. part \in suspects \/ c.op \notin Loaders(part)
        BY LoadersWrite
    <2>3. Foreign(view, part) /\ view'.workspace = view.workspace /\ view'.project = view.project
        BY <1>1, <1>2, <1>9
    <2>4. tasks[t].calls \ {c} \subseteq tasks'[t].calls
        BY <1>6 DEF calls
    <2> HIDE DEF suspects
    <2> QED  BY <1>0, <1>6, <1>9, <2>1, <2>2, <2>3, <2>4, AnswerKeeps
<1>10. PageLoads'
    BY <1>1, <1>9 DEF PageLoads
<1>11. SignOutDue'
    <2>1. /\ view'.timer => view'.project # None
          /\ session' = session
          /\ view'.user \/ view'.project # None =>
               view.user \/ view.project # None
        BY <1>1, <1>2 DEF Thrown
    <2>2. v = SignedOut => ~view'.user /\ view'.project = None
        BY <1>1, SignedOutFits
    <2>3. ~session' /\ failures' = 0 /\ (view'.user \/ view'.project # None) =>
              ~session /\ failures = 0 /\ (view.user \/ view.project # None) /\ c.auth
        BY <2>1, <2>2
    <2>4. tasks[t].calls \ {c} \subseteq tasks'[t].calls /\ (view'.timer => view'.project # None)
        BY <1>6, <2>1 DEF calls
    <2> QED  BY <1>0, <1>6, <2>3, <2>4, SignKeeps
<1> QED  BY <1>7, <1>8, <1>10, <1>11 DEF PageInv

\* A call that is refused or lost, or sent without a session.
LEMMA CallsThrow ==
    ASSUME PageInv, NEW t \in Handlers, CallRefused(t) \/ CallFails(t) \/ Unauthorized(t)
    PROVE  PageInv'
<1>0. failures \in Nat
    BY DEF PageInv, PageTypes
<1>1. ASSUME CallRefused(t) PROVE PageInv'
    <2>1. PICK c \in tasks[t].calls :
              Due = {} /\ (c.auth \/ session) /\ Thrown(t, c, view) /\ UNCHANGED failures
        BY <1>1 DEF CallRefused
    <2> DEFINE v == view
    <2>2. v = view /\ Thrown(t, c, v) /\ failures' = failures
        BY <2>1
    <2> HIDE DEF v
    <2> QED  BY <1>0, <2>1, <2>2, ThrowKeeps
<1>2. ASSUME CallFails(t) PROVE PageInv'
    <2>1. PICK c \in tasks[t].calls :
              Due = {} /\ Thrown(t, c, view) /\ failures' = failures + 1
        BY <1>2 DEF CallFails
    <2> DEFINE v == view
    <2>2. v = view /\ Thrown(t, c, v) /\ failures' \in Nat /\ failures' # 0
        BY <1>0, <2>1
    <2> HIDE DEF v
    <2> QED  BY <2>1, <2>2, ThrowKeeps
<1>3. ASSUME Unauthorized(t) PROVE PageInv'
    <2>1. PICK c \in tasks[t].calls :
              Due = {} /\ Thrown(t, c, SignedOut) /\ UNCHANGED failures
        BY <1>3 DEF Unauthorized
    <2> DEFINE v == SignedOut
    <2>2. v = SignedOut /\ Thrown(t, c, v) /\ failures' = failures
        BY <2>1
    <2> HIDE DEF v
    <2> QED  BY <1>0, <2>1, <2>2, ThrowKeeps
<1> QED  BY <1>1, <1>2, <1>3

\* A logout that is answered leaves nothing.
LEMMA LogoutAnswers ==
    ASSUME PageInv, NEW t \in Handlers, LogoutAnswered(t)
    PROVE  PageInv'
<1>1. PICK c \in tasks[t].calls :
          Due = {} /\ c.op = "logout" /\ session' = FALSE
          /\ Answered(t, c, SignedOut, {}, <<>>) /\ UNCHANGED deployed
    BY DEF LogoutAnswered
<1> DEFINE v == SignedOut
           none == {}
<1>2. PageTypes /\ HandlersFit /\ deployed \in [Projects -> {"none", "building", "ended"}]
    BY DEF PageInv, PageTypes
<1>3. /\ Answered(t, c, v, none, <<>>) /\ none \in SUBSET PageCalls
      /\ \A d \in none : d.op \notin {"account", "login", "select"}
      /\ session' \in BOOLEAN /\ deployed' \in [Projects -> {"none", "building", "ended"}]
    BY <1>1, <1>2
<1>4. /\ v \in Views /\ ~v.user /\ v.project = None /\ ~v.timer
      /\ \A part \in Parts : ~Foreign(v, part)
    <2>1. SignedOut \in Cleared
        BY DEF Cleared
    <2> QED  BY <2>1, SignedOutFits
<1> HIDE DEF v, none
<1>5. PageTypes' /\ HandlersFit' /\ view' = v
    BY <1>1, <1>2, <1>3, <1>4, AnswerMoves
<1>6. PageLoads'
    BY <1>4, <1>5 DEF PageLoads
<1>7. SignOutDue'
    BY <1>4, <1>5 DEF SignOutDue
<1> QED  BY <1>5, <1>6, <1>7 DEF PageInv

\* A handler's next step that sends calls keeps the invariant.
LEMMA SendKeeps ==
    ASSUME PageInv, NEW t \in Due, NEW calls \in SUBSET PageCalls, NEW rest \in Seq(RestSteps),
           Entered(rest), Advance(t, calls, rest),
           UNCHANGED <<view, blind, session, deployed, failures>>,
           \A d \in calls : /\ d.op \in {"account", "select"} => calls = {d}
                            /\ d.op = "account" => rest # <<>> /\ Head(rest) = "enter"
                            /\ d.op \notin {"login", "logout"} /\ d.auth = session,
           calls # {}, Head(tasks[t].rest) # "enter",
           Head(tasks[t].rest) = "projects" =>
               \E d \in calls : d.op = "projects" /\ d.of = view.workspace,
           Head(tasks[t].rest) = "loads" =>
               \A op \in {"git", "deployments", "runs"} : \E d \in calls : d.op = op /\ d.of = view.project
    PROVE  PageInv'
<1>0. /\ PageTypes /\ HandlersFit /\ PageLoads /\ SignOutDue /\ t \in Handlers
      /\ tasks \in [Handlers -> PageTasks] /\ tasks[t].calls = {}
    BY DEF PageInv, PageTypes, Due
<1>1. /\ tasks' \in [Handlers -> PageTasks] /\ tasks'[t].calls = calls /\ tasks'[t].rest = rest
      /\ \A u \in Handlers \ {t} : tasks'[u] = tasks[u]
    BY <1>0, AdvanceMoves
<1>2. PageTypes'
    BY <1>0, <1>1 DEF PageTypes, Handlers, Views, PageTasks, PageCalls
<1>3. HandlersFit'
    <2>1. ASSUME NEW u \in Handlers
          PROVE  /\ Entered(tasks'[u].rest)
                 /\ \A d \in tasks'[u].calls :
                      /\ d.op \in {"account", "login", "select"} => tasks'[u].calls = {d}
                      /\ d.op \in {"account", "login"} =>
                           tasks'[u].rest # <<>> /\ Head(tasks'[u].rest) \in {"enter", "projects"}
                      /\ d.op = "login" => Head(tasks'[u].rest) = "projects"
        <3>1. CASE u = t
            BY <1>1, <3>1
        <3>2. CASE u # t
            BY <1>0, <1>1, <3>2 DEF HandlersFit
        <3> QED  BY <3>1, <3>2
    <2> QED  BY <2>1 DEF HandlersFit, Handlers
<1>4. ASSUME NEW part \in Parts, Foreign(view, part)
      PROVE  part \in blind' \/ Loading(part)' \/ AboutToLoad(part)'
    <2>1. CASE Asks(t, part)
        <3>1. \E d \in calls : d.op \in Loaders(part) /\ ~Late(d)
            <4>1. CASE Head(tasks[t].rest) = "projects" /\ part \in {"list", "project"}
                BY <4>1 DEF Loaders, Late
            <4>2. CASE Head(tasks[t].rest) = "loads" /\ part \in {"commits", "deployments", "logs", "polling", "runs"}
                <5>1. PICK op \in {"git", "deployments", "runs"} : op \in Loaders(part)
                    BY <4>2 DEF Loaders
                <5>2. PICK d \in calls : d.op = op /\ d.of = view.project
                    BY <4>2
                <5> QED  BY <5>1, <5>2 DEF Late
            <4> QED  BY <2>1, <4>1, <4>2 DEF Asks
        <3>2. PICK d \in calls : d.op \in Loaders(part) /\ ~Late(d)
            BY <3>1
        <3>3. d \in tasks'[t].calls /\ ~Late(d)'
            BY <1>1, <3>2 DEF Late
        <3> QED  BY <1>0, <3>2, <3>3 DEF Loading, Handlers, Loaders
    <2>2. CASE ~Asks(t, part)
        BY <1>0, <1>1, <1>4, <2>2, LoadKeeps
    <2> QED  BY <2>1, <2>2
<1>5. PageLoads'
    BY <1>4 DEF PageLoads
<1>6. SignOutDue'
    <2> SUFFICES ASSUME ~session, failures = 0, view.user \/ view.project # None
                 PROVE  WillSignOut'
        BY <1>0 DEF SignOutDue, WillSignOut
    <2>1. PICK u \in Handlers :
              \/ \E d \in tasks[u].calls : ~d.auth /\ d.op \notin {"login", "logout"}
              \/ u \in Due /\ Head(tasks[u].rest) = "enter"
              \/ u \in Due /\ Head(tasks[u].rest) = "projects" /\ view.workspace # None
              \/ u \in Due /\ Head(tasks[u].rest) = "loads"
        BY <1>0 DEF SignOutDue
    <2>2. CASE u = t
        <3>1. PICK d \in calls : TRUE
            OBVIOUS
        <3>2. d \in tasks'[t].calls /\ ~d.auth /\ d.op \notin {"login", "logout"}
            BY <1>1, <3>1
        <3> QED  BY <1>0, <3>2 DEF WillSignOut, Handlers
    <2>3. CASE u # t
        <3>1. tasks'[u] = tasks[u]
            BY <1>1, <2>3
        <3>2. u \in Due => u \in Due'
            BY <3>1 DEF Due, Handlers
        <3> QED  BY <2>1, <3>1, <3>2 DEF WillSignOut, Handlers
    <2> QED  BY <2>2, <2>3
<1> QED  BY <1>2, <1>3, <1>5, <1>6 DEF PageInv

\* A handler's next step that finds nothing to ask for keeps it too.
LEMMA SkipKeeps ==
    ASSUME PageInv, NEW t \in Due, NEW v \in Views, Skips(t, v),
           UNCHANGED <<session, deployed, failures>>,
           v.timer => v.project # None, v.user = view.user,
           v.project # None => view.project # None, view.workspace # None => v.workspace # None,
           Head(tasks[t].rest) # "loads",
           Head(tasks[t].rest) = "projects" => view.workspace = None,
           Head(tasks[t].rest) = "enter" => v.workspace # None,
           \A part \in Parts : Foreign(v, part) =>
               \/ Head(tasks[t].rest) = "enter" /\ part \in {"list", "project"}
               \/ /\ Head(tasks[t].rest) # "projects" /\ Foreign(view, part)
                  /\ IF part \in {"list", "project"} THEN v.workspace = view.workspace
                                                     ELSE v.project = view.project
    PROVE  PageInv'
<1>0. /\ PageTypes /\ HandlersFit /\ PageLoads /\ SignOutDue /\ t \in Handlers
      /\ tasks \in [Handlers -> PageTasks] /\ tasks[t].calls = {} /\ tasks[t].rest # <<>>
    BY DEF PageInv, PageTypes, Due
<1>1. tasks[t].rest \in Seq(RestSteps) /\ Entered(tasks[t].rest)
    BY <1>0 DEF PageTasks, HandlersFit
<1> DEFINE rest == Tail(tasks[t].rest)
           none == {}
<1>2. /\ rest \in Seq(RestSteps) /\ Entered(rest)
      /\ Head(tasks[t].rest) = "enter" => rest # <<>> /\ Head(rest) = "projects"
    BY <1>0, <1>1, TailEntered
<1>3. /\ Advance(t, none, rest) /\ none \in SUBSET PageCalls
      /\ view' = v /\ blind' = {q \in blind : Foreign(v, q)}
    BY DEF Skips, Show
<1> HIDE DEF rest, none
<1>4. /\ tasks' \in [Handlers -> PageTasks] /\ tasks'[t].calls = none /\ tasks'[t].rest = rest
      /\ \A u \in Handlers \ {t} : tasks'[u] = tasks[u]
    BY <1>0, <1>2, <1>3, AdvanceMoves
<1>5. PageTypes'
    BY <1>0, <1>3, <1>4 DEF PageTypes, Handlers, Views, PageTasks, PageCalls
<1>6. HandlersFit'
    <2>1. ASSUME NEW u \in Handlers
          PROVE  /\ Entered(tasks'[u].rest)
                 /\ \A d \in tasks'[u].calls :
                      /\ d.op \in {"account", "login", "select"} => tasks'[u].calls = {d}
                      /\ d.op \in {"account", "login"} =>
                           tasks'[u].rest # <<>> /\ Head(tasks'[u].rest) \in {"enter", "projects"}
                      /\ d.op = "login" => Head(tasks'[u].rest) = "projects"
        <3>1. CASE u = t
            BY <1>2, <1>4, <3>1 DEF none
        <3>2. CASE u # t
            BY <1>0, <1>4, <3>2 DEF HandlersFit
        <3> QED  BY <3>1, <3>2
    <2> QED  BY <2>1 DEF HandlersFit, Handlers
<1>7. Head(tasks[t].rest) = "enter" => t \in Due' /\ Head(tasks'[t].rest) = "projects"
    BY <1>0, <1>2, <1>4 DEF Due, Handlers, none
<1>8. ASSUME NEW part \in Parts, Foreign(v, part)
      PROVE  part \in blind' \/ Loading(part)' \/ AboutToLoad(part)'
    <2>1. CASE Head(tasks[t].rest) = "enter" /\ part \in {"list", "project"}
        <3>1. Asks(t, part)'
            BY <1>7, <2>1 DEF Asks
        <3> QED  BY <1>0, <3>1 DEF AboutToLoad, Handlers
    <2>2. CASE /\ Head(tasks[t].rest) # "projects" /\ Foreign(view, part)
               /\ IF part \in {"list", "project"} THEN v.workspace = view.workspace
                                                  ELSE v.project = view.project
        <3>1. ~Asks(t, part)
            BY <2>2 DEF Asks
        <3>2. part \in blind => part \in blind'
            BY <1>3, <1>8
        <3>3. \A d \in tasks[t].calls : d.op \in Loaders(part) /\ ~Late(d) => d \in tasks'[t].calls
            BY <1>0
        <3>4. IF part \in {"list", "project"} THEN view'.workspace = view.workspace
                                              ELSE view'.project = view.project
            BY <1>3, <2>2
        <3> QED  BY <1>0, <1>4, <2>2, <3>1, <3>2, <3>3, <3>4, LoadKeeps
    <2> QED  BY <1>8, <2>1, <2>2
<1>9. PageLoads'
    BY <1>3, <1>8 DEF PageLoads
<1>10. SignOutDue'
    <2> SUFFICES ASSUME ~session, failures = 0, v.user \/ v.project # None
                 PROVE  WillSignOut'
        BY <1>3 DEF SignOutDue, WillSignOut
    <2>1. PICK u \in Handlers :
              \/ \E d \in tasks[u].calls : ~d.auth /\ d.op \notin {"login", "logout"}
              \/ u \in Due /\ Head(tasks[u].rest) = "enter"
              \/ u \in Due /\ Head(tasks[u].rest) = "projects" /\ view.workspace # None
              \/ u \in Due /\ Head(tasks[u].rest) = "loads"
        BY <1>0 DEF SignOutDue
    <2>2. CASE u = t
        BY <1>0, <1>3, <1>7, <2>1, <2>2 DEF WillSignOut, Handlers
    <2>3. CASE u # t
        <3>1. tasks'[u] = tasks[u]
            BY <1>4, <2>3
        <3>2. u \in Due => u \in Due'
            BY <3>1 DEF Due, Handlers
        <3> QED  BY <1>3, <2>1, <3>1, <3>2 DEF WillSignOut, Handlers
    <2> QED  BY <2>2, <2>3
<1> QED  BY <1>5, <1>6, <1>9, <1>10 DEF PageInv

\* A handler that begins keeps the invariant, if it is in shape and asks for what
\* its choice leaves foreign.
LEMMA BeginKeeps ==
    ASSUME PageInv, NEW t \in Handlers, AtRest(t), Due = {}, NEW handler \in PageTasks,
           tasks' = [tasks EXCEPT ![t] = handler], UNCHANGED <<session, deployed, failures>>,
           Entered(handler.rest),
           \A d \in handler.calls :
              /\ d.op \in {"login", "select"} => handler.calls = {d}
              /\ d.op # "account"
              /\ d.op = "login" => handler.rest # <<>> /\ Head(handler.rest) = "projects",
           view' \in Views, view'.timer => view'.project # None, view'.user = view.user,
           view'.project = view.project,
           \A part \in blind : Foreign(view', part) => part \in blind',
           \A part \in Parts : Foreign(view', part) =>
               \/ /\ handler.calls = {} /\ handler.rest # <<>> /\ Head(handler.rest) = "projects"
                  /\ part \in {"list", "project"}
               \/ /\ Foreign(view, part)
                  /\ part \in {"list", "project"} => view'.workspace = view.workspace
    PROVE  PageInv'
<1>0. /\ PageTypes /\ HandlersFit /\ PageLoads /\ SignOutDue
      /\ tasks \in [Handlers -> PageTasks] /\ tasks[t].calls = {}
    BY DEF PageInv, PageTypes, AtRest, NoTask
<1>1. /\ tasks' \in [Handlers -> PageTasks] /\ tasks'[t] = handler
      /\ \A u \in Handlers \ {t} : tasks'[u] = tasks[u]
    BY <1>0
<1>2. PageTypes'
    BY <1>0, <1>1 DEF PageTypes, Handlers, Views, PageTasks, PageCalls
<1>3. HandlersFit'
    <2>1. ASSUME NEW u \in Handlers
          PROVE  /\ Entered(tasks'[u].rest)
                 /\ \A d \in tasks'[u].calls :
                      /\ d.op \in {"account", "login", "select"} => tasks'[u].calls = {d}
                      /\ d.op \in {"account", "login"} =>
                           tasks'[u].rest # <<>> /\ Head(tasks'[u].rest) \in {"enter", "projects"}
                      /\ d.op = "login" => Head(tasks'[u].rest) = "projects"
        <3>1. CASE u = t
            BY <1>1, <3>1
        <3>2. CASE u # t
            BY <1>0, <1>1, <3>2 DEF HandlersFit
        <3> QED  BY <3>1, <3>2
    <2> QED  BY <2>1 DEF HandlersFit, Handlers
<1>4. ASSUME NEW part \in Parts, Foreign(view', part)
      PROVE  part \in blind' \/ Loading(part)' \/ AboutToLoad(part)'
    <2>1. CASE /\ handler.calls = {} /\ handler.rest # <<>> /\ Head(handler.rest) = "projects"
               /\ part \in {"list", "project"}
        <3>1. Asks(t, part)'
            BY <1>1, <2>1 DEF Asks, Due, Handlers
        <3> QED  BY <3>1 DEF AboutToLoad, Handlers
    <2>2. CASE /\ Foreign(view, part)
               /\ part \in {"list", "project"} => view'.workspace = view.workspace
        <3>1. ~Asks(t, part)
            BY DEF Asks
        <3>2. part \in blind => part \in blind'
            BY <1>4
        <3>3. \A d \in tasks[t].calls : d.op \in Loaders(part) /\ ~Late(d) => d \in tasks'[t].calls
            BY <1>0
        <3>4. IF part \in {"list", "project"} THEN view'.workspace = view.workspace
                                              ELSE view'.project = view.project
            BY <2>2
        <3> QED  BY <1>0, <1>1, <2>2, <3>1, <3>2, <3>3, <3>4, LoadKeeps
    <2> QED  BY <1>4, <2>1, <2>2
<1>5. PageLoads'
    BY <1>4 DEF PageLoads
<1>6. SignOutDue'
    <2> SUFFICES ASSUME ~session, failures = 0, view.user \/ view.project # None
                 PROVE  WillSignOut'
        BY DEF SignOutDue, WillSignOut
    <2>1. PICK u \in Handlers : \E d \in tasks[u].calls : ~d.auth /\ d.op \notin {"login", "logout"}
        BY <1>0 DEF SignOutDue
    <2>2. tasks'[u] = tasks[u]
        BY <1>0, <1>1, <2>1
    <2> QED  BY <2>1, <2>2 DEF WillSignOut, Handlers
<1> QED  BY <1>2, <1>3, <1>5, <1>6 DEF PageInv

\* The next step of a handler.
LEMMA ContinueKeeps ==
    ASSUME PageInv, NEW t \in Handlers, Continue(t)
    PROVE  PageInv'
<1> DEFINE step == Head(tasks[t].rest)
           rest == Tail(tasks[t].rest)
           none == {}
<1>0. /\ PageTypes /\ HandlersFit /\ t \in Due /\ view \in Views /\ session \in BOOLEAN
      /\ (view.timer => view.project # None) /\ tasks[t].rest # <<>>
      /\ UNCHANGED <<session, deployed, failures>>
    BY DEF PageInv, PageTypes, Continue, Due, SignOutDue
<1>1. AccountStep(t, step) \/ ProjectStep(t, step) \/ EmptyStep(t, step)
    BY DEF Continue
<1>2. tasks[t].rest \in Seq(RestSteps) /\ Entered(tasks[t].rest)
    BY <1>0 DEF PageTypes, PageTasks, HandlersFit
<1>3. /\ rest \in Seq(RestSteps) /\ Entered(rest)
      /\ step = "account" => rest # <<>> /\ Head(rest) = "enter"
    BY <1>0, <1>2, TailEntered
<1>4. <<>> \o rest = rest
    BY <1>3, ConcatEmptySeq
<1> HIDE DEF step, rest, none
<1>5. ASSUME NEW calls, Sends(t, calls, <<>>)
      PROVE  Advance(t, calls, rest) /\ UNCHANGED <<view, blind>>
    BY <1>4, <1>5 DEF Sends, rest
<1>6. ASSUME NEW op, NEW of, NEW arg
      PROVE  /\ Call(op, of, arg).op = op /\ Call(op, of, arg).of = of
             /\ Call(op, of, arg).auth = session
    BY DEF Call
<1>7. ASSUME AccountStep(t, step) PROVE PageInv'
    <2>1. ASSUME step = "account", Sends(t, {Call("account", None, None)}, <<>>) PROVE PageInv'
        <3> DEFINE calls == {Call("account", None, None)}
        <3>1. calls \in SUBSET PageCalls /\ calls # {}
            BY <1>0, CallsSent DEF OfNobody
        <3>2. Advance(t, calls, rest) /\ UNCHANGED <<view, blind>>
            BY <1>5, <2>1
        <3>3. \A d \in calls : calls = {d} /\ d.op = "account" /\ d.auth = session
            BY <1>6
        <3> HIDE DEF calls
        <3> QED  BY <1>0, <1>3, <2>1, <3>1, <3>2, <3>3, SendKeeps DEF step
    <2>2. ASSUME step = "enter", NEW w \in Workspaces, Skips(t, [view EXCEPT !.workspace = w])
          PROVE  PageInv'
        <3> DEFINE v == [view EXCEPT !.workspace = w]
        <3>1. /\ v \in Views /\ v.user = view.user /\ v.workspace = w /\ w # None
              /\ v.project = view.project /\ v.file = view.file /\ v.commits = view.commits
              /\ v.diff = view.diff
              /\ v.deployments = view.deployments /\ v.deployment = view.deployment
              /\ v.logs = view.logs
              /\ v.runs = view.runs /\ v.run = view.run /\ v.detail = view.detail
              /\ v.timer = view.timer
            BY <1>0, ClientAssumption DEF Views
        <3>2. Skips(t, v)
            BY <2>2
        <3> HIDE DEF v
        <3>3. \A part \in Parts : Foreign(v, part) => part \in {"list", "project"} \/ Foreign(view, part)
            BY <3>1, ForeignParts DEF Parts
        <3> QED  BY <1>0, <2>2, <3>1, <3>2, <3>3, SkipKeeps DEF step
    <2>3. ASSUME step = "projects", view.workspace = None, Skips(t, WithoutWorkspace(view))
          PROVE  PageInv'
        <3> DEFINE v == WithoutWorkspace(view)
        <3>1. /\ v \in Views /\ v.user = view.user /\ v.workspace = view.workspace
              /\ v.project = None /\ v.list = None /\ v.timer = FALSE
            BY <1>0 DEF Views, WithoutWorkspace
        <3>2. Skips(t, v)
            BY <2>3
        <3> HIDE DEF v
        <3>3. \A part \in Parts : ~Foreign(v, part)
            BY <3>1, ForeignParts DEF Parts
        <3> QED  BY <1>0, <2>3, <3>1, <3>2, <3>3, SkipKeeps DEF step
    <2>4. ASSUME step = "projects", view.workspace # None,
                 Sends(t, {Call("projects", view.workspace, None)}, <<>>)
          PROVE  PageInv'
        <3> DEFINE calls == {Call("projects", view.workspace, None)}
        <3>0. view.workspace \in Workspaces
            BY <1>0, <2>4, ViewFields
        <3>1. calls \in SUBSET PageCalls /\ calls # {}
            BY <1>0, <3>0, CallsSent DEF OfWorkspace
        <3>2. Advance(t, calls, rest) /\ UNCHANGED <<view, blind>>
            BY <1>5, <2>4
        <3>3. /\ \A d \in calls : d.op = "projects" /\ d.auth = session
              /\ \E d \in calls : d.op = "projects" /\ d.of = view.workspace
            BY <1>6
        <3> HIDE DEF calls
        <3> QED  BY <1>0, <1>3, <2>4, <3>1, <3>2, <3>3, SendKeeps DEF step
    <2>5. ASSUME step = "first", NEW p \in Projects, Sends(t, {Call("select", p, None)}, <<>>)
          PROVE  PageInv'
        <3> DEFINE calls == {Call("select", p, None)}
        <3>1. calls \in SUBSET PageCalls /\ calls # {}
            BY <1>0, CallsSent DEF OfProject
        <3>2. Advance(t, calls, rest) /\ UNCHANGED <<view, blind>>
            BY <1>5, <2>5
        <3>3. \A d \in calls : d.op = "select" /\ d.auth = session /\ calls = {d}
            BY <1>6
        <3> HIDE DEF calls
        <3> QED  BY <1>0, <1>3, <2>5, <3>1, <3>2, <3>3, SendKeeps DEF step
    <2>6. ASSUME step = "first", Skips(t, view) PROVE PageInv'
        <3> DEFINE v == view
        <3>1. Skips(t, v) /\ v = view
            BY <2>6
        <3> HIDE DEF v
        <3> QED  BY <1>0, <2>6, <3>1, SkipKeeps DEF step
    <2> QED  BY <1>7, <2>1, <2>2, <2>3, <2>4, <2>5, <2>6 DEF AccountStep
<1>8. ASSUME ProjectStep(t, step) PROVE PageInv'
    <2>0. view.project \in Projects /\ view.project # None
        BY <1>0, <1>8, ViewFields DEF ProjectStep
    <2>1. ASSUME step = "refresh", NEW next,
                 \/ next = rest
                 \/ next = <<"reopen">> \o rest,
                 Advance(t, {Call("select", view.project, None)}, next), UNCHANGED <<view, blind>>
          PROVE  PageInv'
        <3> DEFINE calls == {Call("select", view.project, None)}
        <3>1. calls \in SUBSET PageCalls /\ calls # {}
            BY <1>0, <2>0, CallsSent DEF OfProject
        <3>2. Advance(t, calls, next)
            BY <2>1
        <3>3. \A d \in calls : d.op = "select" /\ d.auth = session /\ calls = {d}
            BY <1>6
        <3>4. next \in Seq(RestSteps) /\ Entered(next)
            BY <1>3, <2>1, FrontEntered
        <3> HIDE DEF calls
        <3> QED  BY <1>0, <2>1, <3>1, <3>2, <3>3, <3>4, SendKeeps DEF step
    <2>2. ASSUME step = "loads",
                 Sends(t, {Call(op, view.project, None) : op \in {"git", "deployments", "runs"}}, <<>>)
          PROVE  PageInv'
        <3> DEFINE calls == {Call(op, view.project, None) : op \in {"git", "deployments", "runs"}}
        <3>1. calls \in SUBSET PageCalls /\ calls # {}
            BY <1>0, <2>0, CallsSent DEF OfProject
        <3>2. Advance(t, calls, rest) /\ UNCHANGED <<view, blind>>
            BY <1>5, <2>2
        <3>3. /\ \A d \in calls : d.op \in {"git", "deployments", "runs"} /\ d.auth = session
              /\ \A op \in {"git", "deployments", "runs"} :
                     \E d \in calls : d.op = op /\ d.of = view.project
            BY <1>6
        <3> HIDE DEF calls
        <3> QED  BY <1>0, <1>3, <2>2, <3>1, <3>2, <3>3, SendKeeps DEF step
    <2>3. ASSUME NEW op \in {"git", "deployments", "runs", "reopen", "file", "detail"},
                 NEW arg \in Projects \cup {None}, step \notin {"enter", "projects", "loads"},
                 Sends(t, {Call(op, view.project, arg)}, <<>>)
          PROVE  PageInv'
        <3> DEFINE calls == {Call(op, view.project, arg)}
        <3>1. calls \in SUBSET PageCalls /\ calls # {}
            BY <1>0, <2>0, CallsSent DEF OfProject
        <3>2. Advance(t, calls, rest) /\ UNCHANGED <<view, blind>>
            BY <1>5, <2>3
        <3>3. \A d \in calls : d.op = op /\ d.auth = session
            BY <1>6
        <3> HIDE DEF calls
        <3> QED  BY <1>0, <1>3, <2>3, <3>1, <3>2, <3>3, SendKeeps DEF step
    <2>4. ASSUME step \notin {"enter", "projects", "loads"}, Skips(t, view) PROVE PageInv'
        <3> DEFINE v == view
        <3>1. Skips(t, v) /\ v = view
            BY <2>4
        <3> HIDE DEF v
        <3> QED  BY <1>0, <2>4, <3>1, SkipKeeps DEF step
    <2>5. CASE /\ step = "refresh"
               /\ Sends(t, {Call("select", view.project, None)},
                        IF view.file = None THEN <<>> ELSE <<"reopen">>)
        <3> DEFINE next == (IF view.file = None THEN <<>> ELSE <<"reopen">>) \o rest
        <3>1. next = rest \/ next = <<"reopen">> \o rest
            BY <1>4
        <3>2. Advance(t, {Call("select", view.project, None)}, next) /\ UNCHANGED <<view, blind>>
            BY <2>5 DEF Sends, rest
        <3> HIDE DEF next
        <3> QED  BY <2>1, <2>5, <3>1, <3>2
    <2>6. CASE step \in {"git", "deployments", "runs", "reopen"}
               /\ Sends(t, {Call(step, view.project, None)}, <<>>)
        BY <2>3, <2>6
    <2>7. CASE step = "file_if_none" /\ Sends(t, {Call("file", view.project, None)}, <<>>)
        BY <2>3, <2>7
    <2>8. CASE step = "detail" /\ Sends(t, {Call("detail", view.project, view.run)}, <<>>)
        <3>1. view.run \in Projects \cup {None}
            BY <1>0, ViewFields
        <3> DEFINE a == view.run
        <3>2. a \in Projects \cup {None} /\ Sends(t, {Call("detail", view.project, a)}, <<>>)
            BY <2>8, <3>1
        <3> HIDE DEF a
        <3> QED  BY <2>3, <2>8, <3>2
    <2> QED  BY <1>8, <2>2, <2>4, <2>5, <2>6, <2>7, <2>8 DEF ProjectStep
<1>9. ASSUME EmptyStep(t, step) PROVE PageInv'
    <2>0. view.project = None
        BY <1>9 DEF EmptyStep
    <2>1. ASSUME step \in {"refresh", "reopen", "file_if_none", "detail", "git", "deployments", "runs"},
                 NEW v \in Views, Skips(t, v), v.user = view.user, v.project = None,
                 v.workspace = view.workspace, v.list = view.list,
                 v.timer => view.timer
          PROVE  PageInv'
        <3>1. \A part \in Parts : Foreign(v, part) =>
                  /\ Foreign(view, part) /\ v.workspace = view.workspace /\ v.project = view.project
            BY <2>0, <2>1, ForeignParts DEF Parts
        <3> QED  BY <1>0, <2>0, <2>1, <3>1, SkipKeeps DEF step
    <2>2. CASE step \in {"refresh", "reopen", "file_if_none", "detail"} /\ Skips(t, view)
        <3> DEFINE v == view
        <3>1. Skips(t, v) /\ v = view
            BY <2>2
        <3> HIDE DEF v
        <3> QED  BY <1>0, <2>0, <2>1, <2>2, <3>1
    <2>3. CASE step = "git" /\ Skips(t, [view EXCEPT !.commits = None, !.diff = None])
        <3> DEFINE v == [view EXCEPT !.commits = None, !.diff = None]
        <3>1. /\ v \in Views /\ v.user = view.user /\ v.project = view.project /\ v.timer = view.timer
              /\ v.workspace = view.workspace /\ v.list = view.list
            BY <1>0 DEF Views
        <3>2. Skips(t, v)
            BY <2>3
        <3> HIDE DEF v
        <3> QED  BY <2>0, <2>1, <2>3, <3>1, <3>2
    <2>4. CASE step = "deployments" /\ Skips(t, WithoutDeployments(view))
        <3> DEFINE v == WithoutDeployments(view)
        <3>1. /\ v \in Views /\ v.user = view.user /\ v.project = view.project /\ v.timer = FALSE
              /\ v.workspace = view.workspace /\ v.list = view.list
            BY <1>0 DEF Views, WithoutDeployments
        <3>2. Skips(t, v)
            BY <2>4
        <3> HIDE DEF v
        <3> QED  BY <2>0, <2>1, <2>4, <3>1, <3>2
    <2>5. CASE step = "runs" /\ Skips(t, WithoutRuns(view))
        <3> DEFINE v == WithoutRuns(view)
        <3>1. /\ v \in Views /\ v.user = view.user /\ v.project = view.project /\ v.timer = view.timer
              /\ v.workspace = view.workspace /\ v.list = view.list
            BY <1>0 DEF Views, WithoutRuns
        <3>2. Skips(t, v)
            BY <2>5
        <3> HIDE DEF v
        <3> QED  BY <2>0, <2>1, <2>5, <3>1, <3>2
    <2> QED  BY <1>9, <2>2, <2>3, <2>4, <2>5 DEF EmptyStep
<1> QED  BY <1>1, <1>7, <1>8, <1>9

\* What a click can start.
Startable ==
    {h \in PageTasks :
        /\ Entered(h.rest)
        /\ \A d \in h.calls :
              /\ d.op \in {"login", "select"} => h.calls = {d}
              /\ d.op # "account"
              /\ d.op = "login" => h.rest # <<>> /\ Head(h.rest) = "projects"}

\* The steps that follow a click.
LEMMA RestsFit ==
    ASSUME NEW rest \in {<<>>, <<"projects">>, <<"refresh">>, <<"git">>, <<"runs">>, <<"deployments">>,
                         <<"projects", "first">>, <<"refresh", "git">>, <<"projects", "refresh">>,
                         <<"runs", "detail">>, <<"projects", "refresh", "file_if_none">>,
                         <<"account", "enter", "projects">>}
    PROVE  rest \in Seq(RestSteps) /\ Entered(rest)
<1>1. CASE rest = <<"account", "enter", "projects">>
    <2>1. /\ rest \in Seq(RestSteps) /\ DOMAIN rest = {1, 2, 3}
          /\ rest[1] = "account" /\ rest[2] = "enter" /\ rest[3] = "projects"
        BY <1>1 DEF RestSteps, Steps
    <2>2. 1 + 1 = 2 /\ 2 + 1 = 3
        OBVIOUS
    <2> QED  BY <2>1, <2>2 DEF Entered
<1>2. CASE rest # <<"account", "enter", "projects">>
    <2> DEFINE Quiet == RestSteps \ {"account", "enter"}
    <2>0. \A x, y, z \in Quiet : /\ <<>> \in Seq(Quiet) /\ <<x>> \in Seq(Quiet)
                               /\ <<x, y>> \in Seq(Quiet) /\ <<x, y, z>> \in Seq(Quiet)
        OBVIOUS
    <2>1. rest \in Seq(Quiet)
        <3>1. {"projects", "refresh", "git", "runs", "deployments", "first", "detail",
               "file_if_none"} \subseteq Quiet
            BY DEF RestSteps, Steps
        <3> HIDE DEF Quiet
        <3> QED  BY <1>2, <2>0, <3>1
    <2>2. rest \in Seq(RestSteps) /\ \A i \in DOMAIN rest : rest[i] \notin {"account", "enter"}
        BY <2>1
    <2> QED  BY <2>2 DEF Entered
<1> QED  BY <1>1, <1>2

\* A handler with at most one call, that is neither for the account nor a login.
LEMMA StartOne ==
    ASSUME NEW rest \in Seq(RestSteps), Entered(rest), NEW calls \in SUBSET PageCalls,
           \A d \in calls : calls = {d} /\ d.op \notin {"account", "login"}
    PROVE  Task(calls, rest) \in Startable
BY DEF Task, Startable, PageTasks

\* Every handler that a click can start fits.
LEMMA HandlersBegin ==
    ASSUME PageInv
    PROVE  /\ AuthHandlers \cup AccountHandlers \cup ListHandlers \subseteq Startable
           /\ view.project # None => FileHandlers \cup RunHandlers \cup DeployHandlers \subseteq Startable
           /\ Task({}, <<"projects">>) \in Startable /\ Task({}, <<"deployments">>) \in Startable
<1>0. session \in BOOLEAN /\ view \in Views
    BY DEF PageInv, PageTypes
<1>1. ASSUME NEW rest \in Seq(RestSteps), Entered(rest)
      PROVE  /\ Task({}, rest) \in Startable
             /\ Task({Call("act", None, None)}, rest) \in Startable
             /\ Task({Call("logout", None, None)}, rest) \in Startable
             /\ \A op \in OfProject, p \in Projects, a \in Projects \cup {None} :
                    Task({Call(op, p, a)}, rest) \in Startable
             /\ \A p \in Projects : Task({Call("act", p, None)}, rest) \in Startable
             /\ \A p \in Projects, a \in Projects \cup {None} :
                    Task({Call("act", p, a)}, rest) \in Startable
    <2>1. ASSUME NEW op \in (OfProject \cup OfNobody) \ {"account", "login"},
                 NEW p, NEW a, Call(op, p, a) \in PageCalls
          PROVE  Task({Call(op, p, a)}, rest) \in Startable
        <3> DEFINE calls == {Call(op, p, a)}
        <3>1. calls \in SUBSET PageCalls /\ \A d \in calls : calls = {d} /\ d.op \notin {"account", "login"}
            BY <2>1 DEF Call
        <3> HIDE DEF calls
        <3>2. Task(calls, rest) \in Startable
            BY <1>1, <3>1, StartOne
        <3> QED  BY <3>2 DEF calls
    <2>2. Task({}, rest) \in Startable
        <3> DEFINE calls == {}
        <3>1. calls \in SUBSET PageCalls /\ \A d \in calls : calls = {d} /\ d.op \notin {"account", "login"}
            OBVIOUS
        <3> HIDE DEF calls
        <3>2. Task(calls, rest) \in Startable
            BY <1>1, <3>1, StartOne
        <3> QED  BY <3>2 DEF calls
    <2>3. \A p \in Projects, a \in Projects \cup {None} : Call("act", p, a) \in PageCalls
        BY <1>0 DEF PageCalls, Call, OfNobody
    <2> QED  BY <1>0, <2>1, <2>2, <2>3, CallsSent DEF OfProject, OfNobody
<1>2. AuthHandlers \subseteq Startable
    <2>1. Task({Call("logout", None, None)}, <<>>) \in Startable
        BY <1>1, RestsFit
    <2>2. Task({Call("login", None, None)}, <<"projects", "first">>) \in Startable
        <3> DEFINE calls == {Call("login", None, None)}
                   rest == <<"projects", "first">>
        <3>1. calls \in SUBSET PageCalls /\ \A d \in calls : calls = {d} /\ d.op = "login"
            BY <1>0, CallsSent DEF OfNobody, Call
        <3>2. rest \in Seq(RestSteps) /\ Entered(rest) /\ rest # <<>> /\ Head(rest) = "projects"
            BY RestsFit
        <3> HIDE DEF calls, rest
        <3>3. Task(calls, rest) \in Startable
            BY <3>1, <3>2 DEF Task, Startable, PageTasks
        <3> QED  BY <3>3 DEF calls, rest
    <2> QED  BY <2>1, <2>2 DEF AuthHandlers
<1>3. AccountHandlers \subseteq Startable
    <2>1. Task({Call("act", None, None)}, <<"account", "enter", "projects">>) \in Startable
        BY <1>1, RestsFit
    <2>2. Task({Call("act", None, None)}, <<"projects", "first">>) \in Startable
        BY <1>1, RestsFit
    <2>3. Task({}, <<"projects">>) \in Startable
        BY <1>1, RestsFit
    <2> QED  BY <2>1, <2>2, <2>3 DEF AccountHandlers
<1>4. ListHandlers \subseteq Startable
    <2>1. \A p \in Projects : Task({Call("select", p, None)}, <<>>) \in Startable
        BY <1>1, RestsFit DEF OfProject
    <2> QED  BY <2>1 DEF ListHandlers
<1>5. ASSUME view.project # None
      PROVE  FileHandlers \cup RunHandlers \cup DeployHandlers \subseteq Startable
    <2> DEFINE p == view.project
    <2>1. /\ p \in Projects /\ view.run \in Projects \cup {None} /\ view.runs \in Projects \cup {None}
          /\ \A d \in view.deployments : d.of \in Projects
        BY <1>0, <1>5, ViewFields DEF Shown
    <2>2. /\ Task({Call("file", p, None)}, <<>>) \in Startable
          /\ Task({Call("diff", p, None)}, <<>>) \in Startable
          /\ Task({}, <<"refresh">>) \in Startable /\ Task({}, <<"git">>) \in Startable
          /\ Task({Call("act", p, None)}, <<"projects", "refresh", "file_if_none">>) \in Startable
          /\ Task({Call("act", p, None)}, <<"refresh", "git">>) \in Startable
          /\ Task({Call("act", p, None)}, <<"projects", "refresh">>) \in Startable
        BY <1>1, <2>1, RestsFit DEF OfProject
    <2>3. /\ Task({}, <<"runs">>) \in Startable
          /\ Task({Call("detail", p, view.runs)}, <<>>) \in Startable
          /\ Task({Call("act", p, view.run)}, <<"runs", "detail">>) \in Startable
          /\ Task({Call("resume", p, view.run)}, <<"runs", "detail">>) \in Startable
        BY <1>1, <2>1, RestsFit DEF OfProject
    <2>4. /\ Task({}, <<"deployments">>) \in Startable
          /\ \A d \in view.deployments : Task({Call("logs", p, d.of)}, <<>>) \in Startable
          /\ Task({Call("deploy", p, view.run)}, <<"deployments">>) \in Startable
        BY <1>1, <2>1, RestsFit DEF OfProject
    <2> HIDE DEF p
    <2>5. FileHandlers \subseteq Startable
        BY <2>2 DEF FileHandlers, p
    <2>6. RunHandlers \subseteq Startable
        BY <2>3 DEF RunHandlers, p
    <2>7. DeployHandlers \subseteq Startable
        BY <2>4 DEF DeployHandlers, p
    <2> QED  BY <2>5, <2>6, <2>7
<1>6. Task({}, <<"projects">>) \in Startable /\ Task({}, <<"deployments">>) \in Startable
    BY <1>1, RestsFit
<1> QED  BY <1>2, <1>3, <1>4, <1>5, <1>6

\* A click, the choice of a workspace, and the timer.
LEMMA BeginsKeep ==
    ASSUME PageInv, NEW t \in Handlers, Click(t) \/ ChooseWorkspace(t) \/ Poll
    PROVE  PageInv'
<1>0. /\ view \in Views /\ (view.timer => view.project # None)
    BY DEF PageInv, PageTypes, SignOutDue
<1>1. ASSUME NEW u \in Handlers, NEW handler \in Startable, AtRest(u), Due = {},
             tasks' = [tasks EXCEPT ![u] = handler], UNCHANGED <<session, deployed, failures, view, blind>>
      PROVE  PageInv'
    <2>1. /\ handler \in PageTasks /\ Entered(handler.rest)
          /\ \A d \in handler.calls :
              /\ d.op \in {"login", "select"} => handler.calls = {d}
              /\ d.op # "account"
              /\ d.op = "login" => handler.rest # <<>> /\ Head(handler.rest) = "projects"
        BY <1>1 DEF Startable
    <2> QED  BY <1>0, <1>1, <2>1, BeginKeeps
<1>2. ASSUME Click(t) PROVE PageInv'
    <2>1. PICK handler \in AuthHandlers
                      \cup (IF view.user THEN AccountHandlers \cup ListHandlers ELSE {})
                      \cup (IF view.user /\ view.project # None
                            THEN FileHandlers \cup RunHandlers \cup DeployHandlers ELSE {}) :
              Begin(t, handler) /\ UNCHANGED <<view, blind>>
        BY <1>2 DEF Click
    <2>2. handler \in Startable
        BY <2>1, HandlersBegin
    <2> QED  BY <1>1, <2>1, <2>2 DEF Begin
<1>3. ASSUME Poll PROVE PageInv'
    <2> DEFINE handler == Task({}, <<"deployments">>)
    <2>1. handler \in Startable /\ Poller \in Handlers
        BY HandlersBegin DEF Handlers
    <2>2. /\ AtRest(Poller) /\ Due = {} /\ tasks' = [tasks EXCEPT ![Poller] = handler]
          /\ UNCHANGED <<session, deployed, failures, view, blind>>
        BY <1>3 DEF Poll
    <2> HIDE DEF handler
    <2> QED  BY <1>1, <2>1, <2>2
<1>4. ASSUME ChooseWorkspace(t) PROVE PageInv'
    <2> DEFINE handler == Task({}, <<"projects">>)
    <2>1. PICK w \in Workspaces \ {view.workspace} :
              /\ Begin(t, handler) /\ Show([view EXCEPT !.workspace = w], {})
        BY <1>4 DEF ChooseWorkspace
    <2>2. /\ view' \in Views /\ view'.user = view.user
          /\ view'.project = view.project /\ view'.file = view.file
          /\ view'.commits = view.commits /\ view'.diff = view.diff
          /\ view'.deployments = view.deployments /\ view'.deployment = view.deployment
          /\ view'.logs = view.logs
          /\ view'.runs = view.runs /\ view'.run = view.run /\ view'.detail = view.detail
          /\ view'.timer = view.timer
        BY <1>0, <2>1 DEF Show, Views
    <2>3. \A part \in blind : Foreign(view', part) => part \in blind'
        BY <2>1 DEF Show
    <2>4. handler \in Startable /\ handler.calls = {} /\ handler.rest # <<>> /\ Head(handler.rest) = "projects"
        BY HandlersBegin DEF Task
    <2> HIDE DEF handler
    <2>5. /\ handler \in PageTasks /\ Entered(handler.rest)
          /\ \A d \in handler.calls :
              /\ d.op \in {"login", "select"} => handler.calls = {d}
              /\ d.op # "account"
              /\ d.op = "login" => handler.rest # <<>> /\ Head(handler.rest) = "projects"
        BY <2>4 DEF Startable
    <2>6. /\ AtRest(t) /\ Due = {} /\ tasks' = [tasks EXCEPT ![t] = handler]
          /\ UNCHANGED <<session, deployed, failures>>
        BY <2>1 DEF Begin
    <2>7. \A part \in Parts : Foreign(view', part) => part \in {"list", "project"} \/ Foreign(view, part)
        BY <2>2, ForeignParts DEF Parts
    <2>8. view'.timer => view'.project # None
        BY <1>0, <2>2
    <2> QED  BY <2>2, <2>3, <2>4, <2>5, <2>6, <2>7, <2>8, BeginKeeps
<1> QED  BY <1>2, <1>3, <1>4

\* The end of a deployment changes nothing on the page.
LEMMA ServerKeeps ==
    ASSUME PageInv, DeploymentEnds \/ UNCHANGED clientVars
    PROVE  PageInv'
<1>1. UNCHANGED <<view, tasks, session, blind, failures>>
    BY DEF DeploymentEnds, clientVars
<1>2. deployed' \in [Projects -> {"none", "building", "ended"}]
    <2>1. deployed \in [Projects -> {"none", "building", "ended"}]
        BY DEF PageInv, PageTypes
    <2> QED  BY <2>1 DEF DeploymentEnds, clientVars
<1>3. PageTypes'
    BY <1>1, <1>2 DEF PageInv, PageTypes, Handlers, Views, PageTasks, PageCalls
<1>4. HandlersFit' /\ PageLoads' /\ SignOutDue'
    BY <1>1 DEF PageInv, HandlersFit, PageLoads, SignOutDue, Handlers, Loading, AboutToLoad,
                Asks, Due, Late, Loaders, Parts
<1> QED  BY <1>3, <1>4 DEF PageInv

\* A page starts signed out, asking who is there.
LEMMA PageStarts ==
    ASSUME ClientInit
    PROVE  PageInv
<1>1. PICK boot \in Tasks :
          tasks = [t \in Tasks \cup {Poller} |->
                      IF t # boot THEN NoTask
                      ELSE [calls |-> {Call("account", None, None)}, rest |-> <<"projects", "first">>,
                            boot |-> TRUE]]
    BY DEF ClientInit
<1> DEFINE calls == {Call("account", None, None)}
           rest == <<"projects", "first">>
           first == [calls |-> calls, rest |-> rest, boot |-> TRUE]
<1>2. session \in BOOLEAN /\ view = SignedOut /\ SignedOut \in Cleared
    BY DEF ClientInit, Cleared
<1>3. calls \in SUBSET PageCalls /\ \A c \in calls : calls = {c} /\ c.op = "account"
    BY <1>2, CallsSent DEF OfNobody, Call
<1>4. rest \in Seq(RestSteps) /\ Entered(rest) /\ rest # <<>> /\ Head(rest) = "projects"
    BY RestsFit
<1>5. \A t \in Handlers : tasks[t] = IF t # boot THEN NoTask ELSE first
    BY <1>1 DEF Handlers
<1>6. tasks = [t \in Handlers |-> tasks[t]]
    BY <1>1 DEF Handlers
<1> HIDE DEF calls, rest
<1>7. /\ NoTask \in PageTasks /\ NoTask.calls = {} /\ Entered(NoTask.rest)
      /\ first \in PageTasks /\ first.calls = calls /\ first.rest = rest
    BY <1>3, <1>4 DEF NoTask, PageTasks, Entered
<1> HIDE DEF first
<1>8. PageTypes
    <2>1. tasks \in [Handlers -> PageTasks]
        BY <1>5, <1>6, <1>7
    <2> QED  BY <1>2, <2>1, SignedOutFits DEF PageTypes, ClientInit
<1>9. HandlersFit
    BY <1>3, <1>4, <1>5, <1>7 DEF HandlersFit
<1>10. PageLoads /\ SignOutDue
    BY <1>2, SignedOutFits DEF PageLoads, SignOutDue
<1> QED  BY <1>8, <1>9, <1>10 DEF PageInv

\* What is always true between the callbacks of the page.
THEOREM PageIsAccountedFor == ClientSpec => []PageInv
<1>1. ClientInit => PageInv
    BY PageStarts
<1>2. ASSUME PageInv, [ClientNext]_clientVars PROVE PageInv'
    <2>1. ASSUME NEW t \in Handlers,
                 \/ AccountAnswered(t) \/ LoginAnswered(t) \/ LogoutAnswered(t)
                 \/ ProjectsAnswered(t) \/ SelectAnswered(t) \/ FileAnswered(t) \/ GitAnswered(t)
                 \/ DiffAnswered(t)
                 \/ DeploymentsAnswered(t) \/ LogsAnswered(t) \/ DeployAnswered(t)
                 \/ RunsAnswered(t) \/ DetailAnswered(t) \/ ResumeAnswered(t) \/ OtherAnswered(t)
                 \/ CallRefused(t) \/ CallFails(t) \/ Unauthorized(t)
                 \/ Continue(t) \/ Click(t) \/ ChooseWorkspace(t)
          PROVE  PageInv'
        BY <1>2, <2>1, AccountAnswers, LogoutAnswers, ProjectsAnswers, SelectAnswers, FileAnswers,
           DeploymentsAnswers, LogsAnswers, RunAnswers, RunsAnswers, OtherAnswers, CallsThrow,
           ContinueKeeps, BeginsKeep, Zenon
    <2>2. ASSUME Poll PROVE PageInv'
        <3>1. Poller \in Handlers
            BY DEF Handlers
        <3> QED  BY <1>2, <2>2, <3>1, BeginsKeep
    <2>3. ASSUME DeploymentEnds \/ UNCHANGED clientVars PROVE PageInv'
        BY <1>2, <2>3, ServerKeeps
    <2> QED  BY <1>2, <2>1, <2>2, <2>3 DEF ClientNext
<1> QED  BY <1>1, <1>2, PTL DEF ClientSpec

\* The page shows one project, but for what a late answer wrote, a failed load left
\* or a load under way will fill, and for the diff of a commit, which stays when
\* another project is opened; and whatever answers come after a sign-out, once
\* they have all come the page is signed out.
THEOREM PageAlwaysHoldsTogether == ClientSpec => []PageHoldsTogether
<1>1. ASSUME PageInv PROVE PageHoldsTogether
    <2>1. PageIsOfOneProject
        <3>1. SUFFICES ASSUME Due = {}, NEW part \in Parts, Foreign(view, part), part \notin blind
                       PROVE  BeingLoaded(part)
            BY DEF PageIsOfOneProject
        <3>2. ~AboutToLoad(part)
            BY <3>1 DEF AboutToLoad, Asks
        <3>3. Loading(part)
            BY <1>1, <3>1, <3>2 DEF PageInv, PageLoads
        <3>4. part \notin {"file", "run", "detail", "diff"}
            BY <3>3 DEF Loading, Loaders
        <3> QED  BY <3>3, <3>4, LoadersWrite DEF Loading, BeingLoaded
    <2>2. SignOutWins
        <3>1. SUFFICES ASSUME \A t \in Handlers : AtRest(t), ~session, failures = 0
                       PROVE  ~view.user /\ view.project = None /\ ~view.timer
            BY DEF SignOutWins
        <3>2. \A t \in Handlers : tasks[t].calls = {} /\ tasks[t].rest = <<>>
            BY <3>1 DEF AtRest, NoTask
        <3>3. ~(view.user \/ view.project # None)
            BY <1>1, <3>1, <3>2 DEF PageInv, SignOutDue, Due
        <3> QED  BY <1>1, <3>3 DEF PageInv, SignOutDue
    <2> QED  BY <2>1, <2>2 DEF PageHoldsTogether
<1> QED  BY <1>1, PageIsAccountedFor, PTL
=============================================================================
