----------------------------- MODULE ApiServer -----------------------------
(***************************************************************************)
(* The life of one API process: main() initialises the store and listens,  *)
(* requests come and go, SIGTERM drains, and the process ends by itself,   *)
(* by its grace timer or by being killed.  What requests do is left to the *)
(* modules that extend this one.                                           *)
(***************************************************************************)
EXTENDS Integers, FiniteSets

CONSTANTS Requests, MaxServerStops  \* MaxServerStops bounds the ends of the process

ASSUME ApiServerAssumption == MaxServerStops \in Nat

VARIABLES
    main,      \* where main() stands
    life,      \* serverLifecycleState
    stopping,  \* where shutdown() stands; "early" if there was no HTTP server yet
    pool,      \* the store's connection pool is open
    inflight,  \* requests that were accepted and not answered
    serverStops

serverVars == <<main, life, stopping, pool, inflight, serverStops>>

ServerTypeOK ==
    /\ main \in {"down", "init", "listen", "serving"}
    /\ life \in {"starting", "ready", "draining"}
    /\ stopping \in {"no", "http", "store", "early"}
    /\ pool \in BOOLEAN /\ inflight \subseteq Requests /\ serverStops \in 0..MaxServerStops

ServerInit ==
    /\ main = "down" /\ life = "starting" /\ stopping = "no"
    /\ pool = FALSE /\ inflight = {} /\ serverStops = 0

\* main: configuration is valid, the pool exists.
Boot ==
    /\ main = "down"
    /\ main' = "init" /\ life' = "starting" /\ pool' = TRUE
    /\ UNCHANGED <<stopping, inflight, serverStops>>

\* store.initialize, initializeSchema and enforceRuntimeCompatibility.
InitializeStore ==
    /\ main = "init" /\ pool
    /\ main' = "listen"
    /\ UNCHANGED <<life, stopping, pool, inflight, serverStops>>

\* The server listens; a shutdown that began before is not looked at.
Listen ==
    /\ main = "listen"
    /\ main' = "serving" /\ life' = "ready"
    /\ UNCHANGED <<stopping, pool, inflight, serverStops>>

\* A request passes the draining middleware.
AcceptRequest(r) ==
    /\ main = "serving" /\ stopping \in {"no", "early"} /\ life # "draining"
    /\ r \notin inflight
    /\ inflight' = inflight \cup {r}
    /\ UNCHANGED <<main, life, stopping, pool, serverStops>>

AnswerRequest(r) ==
    /\ r \in inflight /\ inflight' = inflight \ {r}
    /\ UNCHANGED <<main, life, stopping, pool, serverStops>>

\* SIGTERM: shutdown() runs once.
Shutdown ==
    /\ main # "down" /\ stopping = "no" /\ serverStops < MaxServerStops
    /\ life' = "draining"
    /\ stopping' = IF main = "serving" THEN "http" ELSE "early"
    /\ serverStops' = serverStops + 1
    /\ UNCHANGED <<main, pool, inflight>>

\* The HTTP server is closed when its last connection is.
CloseHttpServer ==
    /\ stopping = "http" /\ inflight = {}
    /\ stopping' = "store"
    /\ UNCHANGED <<main, life, pool, inflight, serverStops>>

\* closeStoreOnce: from here on every statement of this process fails.
CloseStore ==
    /\ stopping \in {"store", "early"} /\ pool
    /\ pool' = FALSE
    /\ UNCHANGED <<main, life, stopping, inflight, serverStops>>

ProcessEnds ==
    /\ main' = "down" /\ life' = "starting" /\ stopping' = "no"
    /\ pool' = FALSE /\ inflight' = {}

\* process.exit, at the end of shutdown or by its grace timer.
ShutdownEnds ==
    /\ stopping # "no" /\ ProcessEnds /\ UNCHANGED serverStops

Killed ==
    /\ main # "down" /\ serverStops < MaxServerStops /\ serverStops' = serverStops + 1
    /\ ProcessEnds
=============================================================================
