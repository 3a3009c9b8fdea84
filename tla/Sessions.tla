------------------------------ MODULE Sessions ------------------------------
(***************************************************************************)
(* Sessions of one browser: the rows of auth_sessions, the cookies its     *)
(* tabs share, and calls of the web client, which refreshes the session    *)
(* when a call is refused and then calls again.  A refresh rotates the     *)
(* refresh token, and the server revokes a session whose old token comes   *)
(* back.  Tokens are numbered as they are made.                            *)
(***************************************************************************)
EXTENDS Naturals, Sequences

CONSTANTS
    Calls, TabOf,            \* calls under way together, and the tab each one belongs to
    KindsOf,                 \* what each one may be
    MaxSessions, MaxTokens,  \* bounds
    MaxLosses                \* bound of the answers that are lost

ASSUME SessionsAssumption ==
    /\ {MaxSessions, MaxTokens, MaxLosses} \subseteq Nat
    /\ DOMAIN TabOf = Calls /\ KindsOf \in [Calls -> SUBSET {"api", "logout", "login"}]

VARIABLES
    session,  \* auth_sessions: the token whose hash is stored, revoked_at
    jar,      \* the cookies: session of the access token, refresh token
    call,     \* the calls
    tokens,   \* refresh tokens made so far
    losses,
    reused,   \* history: sessions revoked because an old token came back
    excused   \* history: sessions with a lost rotation or refreshes that overlapped

sessVars == <<session, jar, call, tokens, losses, reused, excused>>

Sids == 0..MaxSessions      \* 0: no cookie
Tokens == 0..MaxTokens
Cookies == [access : Sids, sid : Sids, token : Tokens]
NoCookies == [access |-> 0, sid |-> 0, token |-> 0]
Refreshing == {"refresh", "rotate", "revoke_reused", "refreshed"}
CallPoints == {"idle", "sent", "revoke", "answered", "waiting"} \cup Refreshing

Idle == [kind |-> "api", at |-> "idle", sent |-> NoCookies, again |-> FALSE,
         reply |-> "ok", set |-> NoCookies]

SessTypeOK ==
    /\ Len(session) <= MaxSessions
    /\ \A s \in DOMAIN session : session[s] \in [hash : Tokens, revoked : BOOLEAN]
    /\ jar \in Cookies
    /\ call \in [Calls -> [kind : {"api", "logout", "login"}, at : CallPoints, sent : Cookies,
                           again : BOOLEAN, reply : {"ok", "denied", "cleared", "set"},
                           set : Cookies]]
    /\ tokens \in Tokens /\ losses \in 0..MaxLosses
    /\ reused \subseteq Sids /\ excused \subseteq Sids

SessInit ==
    /\ session = <<>> /\ jar = NoCookies /\ call = [c \in Calls |-> Idle]
    /\ tokens = 0 /\ losses = 0 /\ reused = {} /\ excused = {}

\* The cookies a call is judged by, and those a refresh is.
AccessOf(cookies) == [NoCookies EXCEPT !.access = cookies.access]
RefreshOf(cookies) == [cookies EXCEPT !.access = 0]

Revoked(s) == [session EXCEPT ![s].revoked = TRUE]
Reply(c, point, reply) ==
    call' = [call EXCEPT ![c].at = point, ![c].reply = reply,
               ![c].sent = IF point = "answered" THEN NoCookies ELSE @]

\* What setAuthCookies and clearAuthCookies of an answer do to the cookies.
Received(c) ==
    CASE call[c].reply = "set" -> call[c].set
      [] call[c].reply = "cleared" -> NoCookies
      [] OTHER -> jar

(***************************************************************************)
(* Calls.                                                                  *)
(***************************************************************************)

Send(c) ==
    /\ call[c].at = "idle"
    /\ \E kind \in KindsOf[c] :
         call' = [call EXCEPT ![c] = [Idle EXCEPT !.kind = kind, !.at = "sent",
                                  !.sent = IF kind = "login" THEN @ ELSE AccessOf(jar)]]
    /\ UNCHANGED <<session, jar, tokens, losses, reused, excused>>

\* authRequired; a session row is there for ever, since pruning takes 30 days.
Authenticate(c) ==
    LET sid == call[c].sent.access
    IN
    /\ call[c].at = "sent" /\ call[c].kind # "login"
    /\ CASE sid = 0 -> Reply(c, "answered", "denied")
         [] sid # 0 /\ session[sid].revoked -> Reply(c, "answered", "cleared")
         [] OTHER -> IF call[c].kind = "logout" THEN Reply(c, "revoke", "cleared")
                     ELSE Reply(c, "answered", "ok")
    /\ UNCHANGED <<session, jar, tokens, losses, reused, excused>>

\* POST logout, after authRequired.
Logout(c) ==
    /\ call[c].at = "revoke"
    /\ session' = Revoked(call[c].sent.access)
    /\ Reply(c, "answered", "cleared")
    /\ UNCHANGED <<jar, tokens, losses, reused, excused>>

\* createAndSetSession
Login(c) ==
    LET sid == Len(session) + 1
        token == tokens + 1
    IN
    /\ call[c].at = "sent" /\ call[c].kind = "login"
    /\ sid <= MaxSessions /\ token <= MaxTokens
    /\ session' = Append(session, [hash |-> token, revoked |-> FALSE])
    /\ tokens' = token
    /\ call' = [call EXCEPT ![c].at = "answered", ![c].reply = "set", ![c].sent = NoCookies,
                  ![c].set = [access |-> sid, sid |-> sid, token |-> token]]
    /\ UNCHANGED <<jar, losses, reused, excused>>

\* The browser has the answer: a refused call waits for a refresh, once.
Receive(c) ==
    /\ call[c].at = "answered"
    /\ jar' = Received(c)
    /\ call' = IF call[c].kind = "api" /\ ~call[c].again /\ call[c].reply # "ok"
               THEN [call EXCEPT ![c].at = "waiting", ![c].reply = "ok"] ELSE [call EXCEPT ![c] = Idle]
    /\ UNCHANGED <<session, tokens, losses, reused, excused>>

LoseAnswer(c) ==
    /\ call[c].at = "answered" /\ losses < MaxLosses /\ losses' = losses + 1
    /\ call' = [call EXCEPT ![c] = Idle]
    /\ UNCHANGED <<session, jar, tokens, reused, excused>>

\* The access token and its cookie are short-lived.
AccessExpires ==
    /\ jar.access # 0 /\ jar' = [jar EXCEPT !.access = 0]
    /\ UNCHANGED <<session, call, tokens, losses, reused, excused>>

(***************************************************************************)
(* The refresh.                                                            *)
(***************************************************************************)

\* Mutant of MayRefresh: every refused call refreshes for itself.
MayRefreshAlone(c) == call[c].at = "waiting"

\* refreshInFlight: one refresh at a time in a tab, and others wait for it.
MayRefresh(c) == \A d \in Calls : TabOf[d] = TabOf[c] => call[d].at \notin Refreshing

StartRefresh(c) ==
    /\ call[c].at = "waiting" /\ MayRefresh(c)
    /\ call' = [call EXCEPT ![c].at = "refresh", ![c].sent = RefreshOf(jar)]
    /\ excused' = IF \E d \in Calls : /\ TabOf[d] # TabOf[c] /\ call[d].at \in Refreshing
                                      /\ call[d].sent.sid = jar.sid
                  THEN excused \cup {jar.sid} ELSE excused
    /\ UNCHANGED <<session, jar, tokens, losses, reused>>

\* POST refresh up to the comparison of the hashes.
ReadSession(c) ==
    LET sent == call[c].sent
    IN
    /\ call[c].at = "refresh"
    /\ CASE sent.sid = 0 -> Reply(c, "refreshed", "denied")
         [] sent.sid # 0 /\ session[sent.sid].revoked -> Reply(c, "refreshed", "cleared")
         [] OTHER -> IF session[sent.sid].hash # sent.token THEN Reply(c, "revoke_reused", "cleared")
                     ELSE Reply(c, "rotate", "set")
    /\ UNCHANGED <<session, jar, tokens, losses, reused, excused>>

\* Refresh token reuse detected.
RevokeReused(c) ==
    LET sid == call[c].sent.sid
    IN
    /\ call[c].at = "revoke_reused" /\ Reply(c, "refreshed", "cleared")
    /\ session' = Revoked(sid) /\ reused' = reused \cup {sid}
    /\ UNCHANGED <<jar, tokens, losses, excused>>

\* rotateSession clears revoked_at as well.
RotateSession(c) ==
    LET sid == call[c].sent.sid
        token == tokens + 1
    IN
    /\ call[c].at = "rotate" /\ token <= MaxTokens
    /\ session' = [session EXCEPT ![sid] = [hash |-> token, revoked |-> FALSE]]
    /\ tokens' = token
    /\ call' = [call EXCEPT ![c].at = "refreshed", ![c].reply = "set",
                  ![c].set = [access |-> sid, sid |-> sid, token |-> token]]
    /\ UNCHANGED <<jar, losses, reused, excused>>

\* All calls that waited in the tab go on: they call again, or give up.
AfterRefresh(c, ok, cookies) ==
    [d \in Calls |->
       IF d = c \/ (TabOf[d] = TabOf[c] /\ call[d].at = "waiting")
       THEN IF ok THEN [call[d] EXCEPT !.at = "sent", !.sent = AccessOf(cookies), !.again = TRUE,
                          !.reply = "ok", !.set = NoCookies]
            ELSE Idle
       ELSE call[d]]

ReceiveRefresh(c) ==
    /\ call[c].at = "refreshed"
    /\ jar' = Received(c)
    /\ call' = AfterRefresh(c, call[c].reply = "set", Received(c))
    /\ UNCHANGED <<session, tokens, losses, reused, excused>>

LoseRefresh(c) ==
    /\ call[c].at = "refreshed" /\ losses < MaxLosses /\ losses' = losses + 1
    /\ call' = AfterRefresh(c, FALSE, NoCookies)
    /\ excused' = IF call[c].reply = "set" THEN excused \cup {call[c].sent.sid} ELSE excused
    /\ UNCHANGED <<session, jar, tokens, reused>>

SessNext ==
    \/ AccessExpires
    \/ \E c \in Calls :
         \/ Send(c) \/ Authenticate(c) \/ Logout(c) \/ Login(c) \/ Receive(c) \/ LoseAnswer(c)
         \/ StartRefresh(c) \/ ReadSession(c) \/ RevokeReused(c) \/ RotateSession(c)
         \/ ReceiveRefresh(c) \/ LoseRefresh(c)

SessSpec == SessInit /\ [][SessNext]_sessVars

(***************************************************************************)
(* Properties.                                                             *)
(***************************************************************************)

\* The server takes a rotated token for reused only when the answer to the
\* rotation was lost or two tabs refreshed the session together: however the
\* calls of the tabs, logins and logouts interleave, the web client does not
\* lose its session otherwise.
ReuseHasAReason == reused \subseteq excused
=============================================================================
