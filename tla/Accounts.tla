------------------------------ MODULE Accounts ------------------------------
(***************************************************************************)
(* Users, organizations, memberships and workspaces.  A route is a row of  *)
(* statements, each of which commits by itself: registering and creating   *)
(* an organization stop half way when a statement fails or the process     *)
(* ends, and what a route checked may have changed when it writes.         *)
(***************************************************************************)
EXTENDS Naturals, FiniteSets

CONSTANTS
    Users,      \* e-mail addresses
    Calls,      \* requests, numbers in the order of their arrival; an organization is
                \* named after the request that creates it
    LoginMax,   \* rateLimitConfig.loginMax
    MaxSlugs,   \* candidates that createOrganizationWithUniqueSlug tries (60)
    MaxErrors   \* bound: statements that fail and processes that end

ASSUME AccountsAssumption ==
    /\ 1 \in Calls /\ Calls \subseteq Nat
    /\ LoginMax \in Nat /\ MaxSlugs \in Nat \ {0} /\ MaxErrors \in Nat

VARIABLES
    users,      \* rows of users
    slug,       \* organizations: the number of each one's slug, 0 if there is no row
    role,       \* organization_memberships
    workspaces, \* organizations with a workspace
    sessions,   \* users with a session
    logins,     \* login attempts of each user in this window
    call,       \* what a request is and where it stands
    halved,     \* history variable: registrations and creations that ended early
    lowered,    \* history variable: organizations whose manager lowered their own role
    outdated,   \* history variable: organizations written by one no longer their manager
    errors

accountVars == <<users, slug, role, workspaces, sessions, logins, call, halved, lowered,
                 outdated, errors>>

Managers == {"owner", "admin"}  \* isOrgManager
Roles == Managers \cup {"member", "none"}
Points == {"new", "user", "slug", "owner", "workspace", "session", "check", "find", "insert",
           "update", "ok", "error"}
CallKinds == {"register", "login", "create_org", "add_member", "create_workspace"}

AccountsTypeOK ==
    /\ users \subseteq Users /\ slug \in [Calls -> 0..MaxSlugs]
    /\ role \in [Calls -> [Users -> Roles]] /\ workspaces \subseteq Calls
    /\ sessions \subseteq Users /\ logins \in [Users -> 0..LoginMax + 1]
    /\ call \in [Calls -> [kind : CallKinds, at : Points, by : Users, org : Calls, whom : Users,
                           as : Roles, candidate : 1..MaxSlugs, rank : Roles]]
    /\ halved \subseteq Calls /\ lowered \subseteq Calls /\ outdated \subseteq Calls
    /\ errors \in 0..MaxErrors

Orgs == {o \in Calls : slug[o] > 0}

Unasked(c, u) == [kind |-> "register", at |-> "new", by |-> u, org |-> c, whom |-> u,
                  as |-> "none", candidate |-> 1, rank |-> "none"]

\* Nobody has registered; or request 1 has, by a user who has made all others
\* admins since.
AccountsInit ==
    /\ halved = {} /\ lowered = {} /\ outdated = {} /\ errors = 0
    /\ logins = [u \in Users |-> 0]
    /\ \E founder \in Users, settled \in BOOLEAN :
        /\ users = (IF settled THEN Users ELSE {}) /\ sessions = users
        /\ slug = [c \in Calls |-> IF settled /\ c = 1 THEN 1 ELSE 0] /\ workspaces = Orgs
        /\ role = [o \in Calls |-> [u \in Users |-> IF o \notin Orgs THEN "none"
                                                  ELSE IF u = founder THEN "owner" ELSE "admin"]]
        /\ call = [c \in Calls |-> [Unasked(c, founder) EXCEPT !.at = IF c \in Orgs THEN "ok" ELSE @]]

Stands(c, kinds, point) == call[c].kind \in kinds /\ call[c].at = point
To(c, point) == call' = [call EXCEPT ![c].at = point]
Creation == {"register", "create_org"}

IsNext(c) == call[c].at = "new" /\ \A d \in Calls : d < c => call[d].at # "new"

-----------------------------------------------------------------------------
\* A request arrives; all but registering and login need a session.
Ask(c, kind, u, at) ==
    /\ IsNext(c) /\ (kind \in {"register", "login"} \/ u \in sessions)
    /\ call' = [call EXCEPT ![c].kind = kind, ![c].by = u, ![c].org = c, ![c].whom = u, ![c].at = at]
    /\ UNCHANGED <<users, slug, role, workspaces, sessions, halved, lowered, outdated, errors>>

Register(c, u) == Ask(c, "register", u, "user") /\ UNCHANGED logins
CreateOrg(c, u) == Ask(c, "create_org", u, "slug") /\ UNCHANGED logins

\* enforceRateLimit counts before it refuses, in one statement.
Login(c, u) ==
    /\ Ask(c, "login", u, IF logins[u] < LoginMax /\ u \in users THEN "session" ELSE "error")
    /\ logins[u] <= LoginMax /\ logins' = [logins EXCEPT ![u] = @ + 1]

NextWindow ==
    /\ \E u \in Users : logins[u] > LoginMax
    /\ logins' = [u \in Users |-> 0]
    /\ UNCHANGED <<users, slug, role, workspaces, sessions, call, halved, lowered, outdated, errors>>

\* addMemberSchema knows the roles admin and member.
AskInOrg(c, kind, u, o, v, as) ==
    /\ IsNext(c) /\ u \in sessions /\ o \in Orgs \ {c}
    /\ call' = [call EXCEPT ![c].kind = kind, ![c].by = u, ![c].org = o, ![c].whom = v,
                            ![c].as = as, ![c].at = "check"]
    /\ UNCHANGED <<users, slug, role, workspaces, sessions, logins, halved, lowered, outdated,
                   errors>>

\* createUser: the address is unique.
CreateUser(c) ==
    /\ Stands(c, {"register"}, "user")
    /\ IF call[c].by \in users THEN To(c, "error") /\ UNCHANGED users
       ELSE To(c, "slug") /\ users' = users \cup {call[c].by}
    /\ UNCHANGED <<slug, role, workspaces, sessions, logins, halved, lowered, outdated, errors>>

\* One round of createOrganizationWithUniqueSlug: all names have one slug.
CreateOrganization(c) ==
    /\ Stands(c, Creation, "slug")
    /\ IF \A o \in Orgs : slug[o] # call[c].candidate
       THEN To(c, "owner") /\ slug' = [slug EXCEPT ![c] = call[c].candidate] /\ UNCHANGED halved
       ELSE /\ IF call[c].candidate < MaxSlugs
               THEN call' = [call EXCEPT ![c].candidate = @ + 1] /\ UNCHANGED halved
               ELSE To(c, "error") /\ halved' = halved \cup {c}
            /\ UNCHANGED slug
    /\ UNCHANGED <<users, role, workspaces, sessions, logins, lowered, outdated, errors>>

CreateOwner(c) ==
    /\ Stands(c, Creation, "owner") /\ To(c, "workspace")
    /\ role' = [role EXCEPT ![c][call[c].by] = IF @ = "none" THEN "owner" ELSE @]
    /\ UNCHANGED <<users, slug, workspaces, sessions, logins, halved, lowered, outdated, errors>>

CreateWorkspace(c) ==
    /\ Stands(c, Creation \cup {"create_workspace"}, "workspace")
    /\ workspaces' = workspaces \cup {call[c].org}
    /\ To(c, IF call[c].kind = "register" THEN "session" ELSE "ok")
    /\ UNCHANGED <<users, slug, role, sessions, logins, halved, lowered, outdated, errors>>

\* createAndSetSession.
CreateSession(c) ==
    /\ Stands(c, {"register", "login"}, "session") /\ To(c, "ok")
    /\ sessions' = sessions \cup {call[c].by}
    /\ UNCHANGED <<users, slug, role, workspaces, logins, halved, lowered, outdated, errors>>

\* Mutant: any membership will do.
CheckMember(c) ==
    /\ call[c].at = "check"
    /\ LET rank == role[call[c].org][call[c].by]
       IN  call' = [call EXCEPT ![c].rank = rank,
                        ![c].at = IF rank = "none" THEN "error"
                                  ELSE IF call[c].kind = "add_member" THEN "find" ELSE "workspace"]
    /\ UNCHANGED <<users, slug, role, workspaces, sessions, logins, halved, lowered, outdated,
                   errors>>

\* getMembership, and the role it shows.
CheckManager(c) ==
    /\ call[c].at = "check"
    /\ LET rank == role[call[c].org][call[c].by]
       IN  call' = [call EXCEPT ![c].rank = rank,
                        ![c].at = IF rank \notin Managers THEN "error"
                                  ELSE IF call[c].kind = "add_member" THEN "find" ELSE "workspace"]
    /\ UNCHANGED <<users, slug, role, workspaces, sessions, logins, halved, lowered, outdated,
                   errors>>

\* findUserByEmail.
FindUser(c) ==
    /\ Stands(c, {"add_member"}, "find")
    /\ To(c, IF call[c].whom \in users THEN "insert" ELSE "error")
    /\ UNCHANGED <<users, slug, role, workspaces, sessions, logins, halved, lowered, outdated,
                   errors>>

Writes(c, as) ==
    LET o == call[c].org
        changes == role[o][call[c].whom] \in Managers /\ as \notin Managers
    IN  /\ role' = [role EXCEPT ![o][call[c].whom] = as]
        /\ lowered' = IF changes /\ call[c].by = call[c].whom THEN lowered \cup {o} ELSE lowered
        /\ outdated' = IF call[c].rank \in Managers /\ role[o][call[c].by] \notin Managers
                       THEN outdated \cup {o} ELSE outdated

\* createMembership: ON CONFLICT DO NOTHING.
InsertMembership(c) ==
    /\ Stands(c, {"add_member"}, "insert") /\ To(c, "update")
    /\ IF role[call[c].org][call[c].whom] = "none" THEN Writes(c, call[c].as)
       ELSE UNCHANGED <<role, lowered, outdated>>
    /\ UNCHANGED <<users, slug, workspaces, sessions, logins, halved, errors>>

UpdateMembershipRole(c) ==
    /\ Stands(c, {"add_member"}, "update") /\ To(c, "ok")
    /\ Writes(c, call[c].as)
    /\ UNCHANGED <<users, slug, workspaces, sessions, logins, halved, errors>>

\* A statement of c fails: the route answers with an error and undoes nothing.
StatementFails(c) ==
    /\ call[c].at \notin {"new", "ok", "error"} /\ errors < MaxErrors
    /\ To(c, "error") /\ errors' = errors + 1
    /\ halved' = IF call[c].kind \in Creation /\ call[c].at # "user" THEN halved \cup {c} ELSE halved
    /\ UNCHANGED <<users, slug, role, workspaces, sessions, logins, lowered, outdated>>

\* The process ends: every request does.
ProcessEnds ==
    LET open == {c \in Calls : call[c].at \notin {"new", "ok", "error"}}
    IN  /\ open # {} /\ errors < MaxErrors /\ errors' = errors + 1
        /\ call' = [c \in Calls |-> IF c \in open THEN [call[c] EXCEPT !.at = "error"] ELSE call[c]]
        /\ halved' = halved \cup {c \in open : call[c].kind \in Creation /\ call[c].at # "user"}
        /\ UNCHANGED <<users, slug, role, workspaces, sessions, logins, lowered, outdated>>

AccountsNext ==
    \/ NextWindow \/ ProcessEnds
    \/ \E c \in Calls :
           \/ \E u \in Users : Register(c, u) \/ Login(c, u) \/ CreateOrg(c, u)
           \/ \E u, v \in Users, o \in Orgs, as \in {"admin", "member"} :
                  AskInOrg(c, "add_member", u, o, v, as)
           \/ \E u \in Users, o \in Orgs : AskInOrg(c, "create_workspace", u, o, u, "none")
           \/ CreateUser(c) \/ CreateOrganization(c) \/ CreateOwner(c) \/ CreateWorkspace(c)
           \/ CreateSession(c) \/ CheckManager(c) \/ FindUser(c)
           \/ InsertMembership(c) \/ UpdateMembershipRole(c) \/ StatementFails(c)

AccountsSpec == AccountsInit /\ [][AccountsNext]_accountVars

-----------------------------------------------------------------------------
Under(c) == call[c].at \notin {"new", "ok", "error"}

\* An organization has somebody who manages it, and a place to work in, from
\* the end of its creation on; it is without one only when its creation ended
\* early, when a manager lowered their own role, or when a request wrote
\* after its sender had lost the role that allowed it.  A user without any
\* membership is one whose registration ended early, and can still sign in.
AccountsHoldTogether ==
    /\ \A o \in Orgs :
           /\ o \in workspaces \/ Under(o) \/ o \in halved
           /\ \/ \E u \in Users : role[o][u] \in Managers
              \/ Under(o) \/ o \in halved \cup lowered \cup outdated
    /\ \A u \in users :
           \/ \E o \in Orgs : role[o][u] # "none"
           \/ \E c \in Calls : call[c].kind = "register" /\ call[c].by = u /\ (Under(c) \/ c \in halved)
=============================================================================
