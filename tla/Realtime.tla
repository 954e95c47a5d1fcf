------------------------------- MODULE Realtime -------------------------------
(***************************************************************************)
(* The sockets between browsers and backend: the hub of                    *)
(* backend/src/websocket/index.ts, the clients of frontend/src/api/client  *)
(* (wsClient, which the onboarding page connects) and of                   *)
(* frontend/src/hooks/useWebSocket.ts (mounted with the dashboard), and    *)
(* what decides when they connect: the session kept by                     *)
(* frontend/src/stores/authStore.ts, the routes of App.tsx and the 401     *)
(* interceptor.                                                            *)
(*                                                                         *)
(* A socket has two ends that learn of its end in their own time, and a    *)
(* link that may die without telling either.  Sockets are slots, used      *)
(* again once both ends have forgotten them.                               *)
(***************************************************************************)
EXTENDS Naturals, FiniteSets, Functions

CONSTANTS
    Tabs,           \* browsers, a tab each
    Users, Tenant,  \* Tenant[u]
    Sockets,
    MaxAttempts,    \* maxReconnectAttempts and reconnectAttempts
    NoUser, NoSocket,
    MaxEvents       \* logins, logouts, crashes, dead links, expiring tokens, failing calls

ASSUME TabsAssumption == Tabs # {}
ASSUME TenantAssumption == DOMAIN Tenant = Users
ASSUME BoundsAssumption == {MaxAttempts, MaxEvents} \subseteq Nat /\ IsFiniteSet(Sockets)

VARIABLES
    store,          \* the user the store shows, with isAuthenticated
    token,          \* localStorage's token
    page, import,   \* what the tab displays; the onboarding page's import
    post, fallback, \* its call of /sync/channel, its timer of ten seconds
    attempts, timers, current,      \* of a client: reconnects, pending timers, its latest socket
    sock,           \* the client's end of each socket, and the link
    srv, alive, id, \* the server's end: readyState, isAlive, connectionId
    entries,        \* connectionsByTenant: the socket listed under each id
    sameMs,         \* the last socket accepted in the current millisecond
    collided,       \* sockets whose id another one was given too
    up,             \* whether the backend runs
    onboarded,      \* users.onboarding_complete
    seen,           \* the tab's own copy of onboarded
    events

tabVars == <<store, token, page, import, post, fallback, onboarded, seen>>
clientVars == <<attempts, timers, current, sock>>
hubVars == <<srv, alive, id, entries, sameMs, collided, up>>
vars == <<tabVars, clientVars, hubVars, events>>

\* A tab has wsClient, and the hook while the dashboard is mounted.
Clients == Tabs \X {"wsClient", "hook"}
Token == {"none", "good", "expired"}

Free == [client |-> CHOOSE c \in Clients : TRUE, user |-> NoUser, token |-> "none",
         end |-> "none", link |-> FALSE]

TypeOK ==
    /\ store \in [Tabs -> Users \cup {NoUser}] /\ token \in [Tabs -> Token]
    /\ page \in [Tabs -> {"login", "onboarding", "dashboard"}]
    /\ import \in [Tabs -> {"idle", "running", "done"}]
    /\ post \in [Tabs -> BOOLEAN] /\ fallback \in [Tabs -> BOOLEAN]
    /\ attempts \in [Clients -> 0..MaxAttempts]
    /\ timers \in [Clients -> Nat]
    /\ current \in [Clients -> Sockets \cup {NoSocket}]
    /\ sock \in [Sockets -> [client : Clients, user : Users \cup {NoUser}, token : Token,
                             end : {"none", "connecting", "open", "closing"}, link : BOOLEAN]]
    /\ srv \in [Sockets -> {"none", "open", "closed"}]
    /\ alive \in [Sockets -> BOOLEAN] /\ id \in [Sockets -> Sockets]
    /\ DOMAIN entries \subseteq Sockets /\ Range(entries) \subseteq Sockets
    /\ sameMs \in Sockets \cup {NoSocket} /\ collided \subseteq Sockets
    /\ up \in BOOLEAN /\ onboarded \in [Users -> BOOLEAN] /\ seen \in [Tabs -> BOOLEAN]
    /\ events \in 0..MaxEvents

Init ==
    /\ store = [t \in Tabs |-> NoUser] /\ token = [t \in Tabs |-> "none"]
    /\ page = [t \in Tabs |-> "login"] /\ import = [t \in Tabs |-> "idle"]
    /\ post = [t \in Tabs |-> FALSE] /\ fallback = [t \in Tabs |-> FALSE]
    /\ attempts = [c \in Clients |-> 0] /\ timers = [c \in Clients |-> 0]
    /\ current = [c \in Clients |-> NoSocket]
    /\ sock = [s \in Sockets |-> Free]
    /\ srv = [s \in Sockets |-> "none"] /\ alive = [s \in Sockets |-> FALSE]
    /\ id = [s \in Sockets |-> s] /\ entries = <<>>
    /\ sameMs = NoSocket /\ collided = {} /\ up = TRUE
    /\ onboarded = [u \in Users |-> FALSE] /\ seen = [t \in Tabs |-> FALSE] /\ events = 0

Event == events < MaxEvents /\ events' = events + 1

Listed == Range(entries)

\* What is left of a socket its client forgot: the server may still hold it.
Forgotten(s) == [Free EXCEPT !.link = sock[s].link /\ srv[s] # "none"]
Unused(s) == sock[s].end = "none" /\ srv[s] = "none" /\ s \notin Listed

-----------------------------------------------------------------------------
(* The clients *)

\* new WebSocket(url): the client forgets the socket it had, which stays as it
\* is.  Without a token wsClient does not connect; the hook never sends one.
Connect(c, s) ==
    IF c[2] = "wsClient" /\ token[c[1]] = "none" THEN UNCHANGED <<current, sock>>
    ELSE /\ Unused(s)
         /\ current' = [current EXCEPT ![c] = s]
         /\ sock' = [sock EXCEPT ![s] =
                [client |-> c, user |-> store[c[1]], end |-> "connecting", link |-> TRUE,
                 token |-> IF c[2] = "wsClient" THEN token[c[1]] ELSE "none"]]

\* Mutant of Reconnecting: the attempts are not counted.
MutNotCounted(c) ==
    IF attempts[c] < MaxAttempts
    THEN /\ UNCHANGED attempts
         /\ timers' = [timers EXCEPT ![c] = 1]
    ELSE UNCHANGED <<attempts, timers>>

\* Mutant of Reconnecting: one attempt too many.
MutOneMore(c) ==
    IF attempts[c] <= MaxAttempts
    THEN /\ attempts' = [attempts EXCEPT ![c] = @ + 1]
         /\ timers' = [timers EXCEPT ![c] = @ + 1]
    ELSE UNCHANGED <<attempts, timers>>

\* onclose, whichever socket of the client it was.
Reconnecting(c) ==
    IF attempts[c] < MaxAttempts
    THEN /\ attempts' = [attempts EXCEPT ![c] = @ + 1]
         /\ timers' = [timers EXCEPT ![c] = @ + 1]
    ELSE UNCHANGED <<attempts, timers>>

\* The client learns that its socket is closed, or that it could not connect.
CloseSeen(s) ==
    /\ \/ sock[s].end = "open" /\ (srv[s] # "open" \/ ~sock[s].link)
       \/ sock[s].end = "connecting" /\ (~up \/ ~sock[s].link)
       \/ sock[s].end = "closing"
    /\ sock' = [sock EXCEPT ![s] = Forgotten(s)]
    /\ Reconnecting(sock[s].client)
    /\ UNCHANGED <<tabVars, hubVars, current, events>>

TimerFires(c) ==
    /\ timers[c] > 0
    /\ \E s \in Sockets : Connect(c, s)
    /\ timers' = [timers EXCEPT ![c] = @ - 1]
    /\ UNCHANGED <<tabVars, attempts, hubVars, events>>

-----------------------------------------------------------------------------
(* The hub *)

\* connectionId is the user and the millisecond.
Shares(s) == sameMs # NoSocket /\ sock[sameMs].user = sock[s].user
NewId(s) ==
    IF Shares(s) THEN id[sameMs]
    ELSE CHOOSE i \in Sockets : i \notin {id[x] : x \in {y \in Sockets \ {s} : ~Unused(y)}}

\* The handshake, which resets the client's attempts; then the handler closes
\* the socket of a client without a valid token, or lists it.
Accept(s) ==
    /\ up /\ sock[s].end = "connecting" /\ sock[s].link
    /\ sock' = [sock EXCEPT ![s].end = "open"]
    /\ attempts' = [attempts EXCEPT ![sock[s].client] = 0]
    /\ IF sock[s].token = "good"
       THEN /\ id' = [id EXCEPT ![s] = NewId(s)]
            /\ srv' = [srv EXCEPT ![s] = "open"]
            /\ alive' = [alive EXCEPT ![s] = TRUE]
            /\ entries' = [i \in DOMAIN entries \cup {NewId(s)} |->
                              IF i = NewId(s) THEN s ELSE entries[i]]
            /\ collided' = IF Shares(s) THEN collided \cup {s, sameMs} ELSE collided
            /\ sameMs' = s
       ELSE UNCHANGED <<srv, alive, id, entries, collided, sameMs>>
    /\ UNCHANGED <<tabVars, timers, current, up, events>>

Tick ==
    /\ sameMs # NoSocket /\ sameMs' = NoSocket
    /\ UNCHANGED <<tabVars, clientVars, srv, alive, id, entries, collided, up, events>>

\* Mutant of RemoveConnection: the tenant's whole map goes.
MutRemoveTenant(i) == entries' = <<>>

\* Whatever socket is listed under the id.
RemoveConnection(i) == entries' = Restrict(entries, DOMAIN entries \ {i})

\* The server's end learns that the client is gone and emits "close".
CloseEvent(s) ==
    /\ srv[s] = "closed" \/ (srv[s] = "open" /\ sock[s].link /\ sock[s].end \in {"none", "closing"})
    /\ srv' = [srv EXCEPT ![s] = "none"]
    /\ RemoveConnection(id[s])
    /\ alive' = [alive EXCEPT ![s] = FALSE] /\ id' = [id EXCEPT ![s] = s]
    /\ sock' = [sock EXCEPT ![s].link = @ /\ sock[s].end # "none"]
    /\ collided' = collided \ {s} /\ sameMs' = IF sameMs = s THEN NoSocket ELSE sameMs
    /\ UNCHANGED <<tabVars, attempts, timers, current, up, events>>

\* Mutant of Sweep: the sweep pings, and asks nothing.
MutPingOnly ==
    /\ up /\ entries # <<>>
    /\ alive' = [s \in Sockets |-> alive[s] /\ s \notin Listed]
    /\ UNCHANGED <<tabVars, clientVars, srv, entries, id, sameMs, collided, up, events>>

\* Every 30 s: who did not answer the last ping is terminated, the others are
\* pinged.  Time has passed.
Sweep ==
    LET silent == {s \in Listed : ~alive[s]} IN
    /\ up /\ entries # <<>>
    /\ srv' = [s \in Sockets |-> IF s \in silent /\ srv[s] = "open" THEN "closed" ELSE srv[s]]
    /\ entries' = Restrict(entries, {i \in DOMAIN entries : entries[i] \notin silent})
    /\ alive' = [s \in Sockets |-> alive[s] /\ s \notin Listed]
    /\ sameMs' = NoSocket
    /\ UNCHANGED <<tabVars, clientVars, id, collided, up, events>>

Pong(s) ==
    /\ srv[s] = "open" /\ ~alive[s] /\ sock[s].link /\ sock[s].end = "open"
    /\ alive' = [alive EXCEPT ![s] = TRUE]
    /\ UNCHANGED <<tabVars, clientVars, srv, id, entries, sameMs, collided, up, events>>

LinkDies(s) ==
    /\ sock[s].end # "none" /\ sock[s].link /\ Event
    /\ sock' = [sock EXCEPT ![s].link = FALSE]
    /\ UNCHANGED <<tabVars, attempts, timers, current, hubVars>>

\* closeAllConnections and the end of the process, or its crash.
ServerStops ==
    /\ up /\ Event /\ up' = FALSE
    /\ srv' = [s \in Sockets |-> "none"] /\ entries' = <<>> /\ sameMs' = NoSocket
    /\ alive' = [s \in Sockets |-> FALSE] /\ id' = [s \in Sockets |-> s] /\ collided' = {}
    /\ UNCHANGED <<tabVars, clientVars>>

ServerStarts ==
    /\ ~up /\ Event /\ up' = TRUE
    /\ UNCHANGED <<tabVars, clientVars, srv, alive, id, entries, sameMs, collided>>

-----------------------------------------------------------------------------
(* The tab: session, routes and onboarding *)

\* Where the routes of App.tsx leave a tab that asks for a page.
Guarded(asked, user, complete) ==
    IF user = NoUser THEN "login"
    ELSE IF ~complete THEN "onboarding"
    ELSE IF asked = "login" THEN "dashboard" ELSE asked

Show(t, p) == page' = [page EXCEPT ![t] = p]

\* Leaving the dashboard unmounts the hook: its last timer is cleared and its
\* last socket closed, whose onclose connects again.
Unmount(t) ==
    LET c == <<t, "hook">> IN
    /\ timers' = [timers EXCEPT ![c] = IF @ > 0 THEN @ - 1 ELSE 0]
    /\ sock' = [s \in Sockets |-> IF current[c] = s /\ sock[s].end # "none"
                                  THEN [sock[s] EXCEPT !.end = "closing"] ELSE sock[s]]

Login(t, u) ==
    /\ page[t] = "login" /\ store[t] = NoUser /\ up /\ Event
    /\ store' = [store EXCEPT ![t] = u] /\ token' = [token EXCEPT ![t] = "good"]
    /\ Show(t, Guarded("dashboard", u, onboarded[u]))
    /\ seen' = [seen EXCEPT ![t] = onboarded[u]]
    /\ import' = [import EXCEPT ![t] = "idle"]
    /\ UNCHANGED <<post, fallback, onboarded, clientVars, hubVars>>

\* logout() clears session and token; no socket is closed but the hook's.
Logout(t) ==
    /\ store[t] # NoUser /\ Event
    /\ store' = [store EXCEPT ![t] = NoUser] /\ token' = [token EXCEPT ![t] = "none"]
    /\ Show(t, "login")
    /\ import' = [import EXCEPT ![t] = "idle"]
    /\ fallback' = [fallback EXCEPT ![t] = FALSE] /\ post' = [post EXCEPT ![t] = FALSE]
    /\ IF page[t] = "dashboard" THEN Unmount(t) ELSE UNCHANGED <<timers, sock>>
    /\ UNCHANGED <<attempts, current, onboarded, seen, hubVars>>

\* The dashboard mounts the hook, which connects.
Mount(t) ==
    /\ page[t] = "dashboard" /\ current[<<t, "hook">>] = NoSocket
    /\ \E s \in Sockets : Connect(<<t, "hook">>, s)
    /\ UNCHANGED <<tabVars, attempts, timers, hubVars, events>>

TokenExpires(t) ==
    /\ token[t] = "good" /\ Event
    /\ token' = [token EXCEPT ![t] = "expired"]
    /\ UNCHANGED <<store, page, import, post, fallback, onboarded, seen, clientVars, hubVars>>

\* The page's queries are refused: the interceptor clears the token, leaves the
\* store, and loads /login, where the routes see a user who is logged in.  The
\* new document has new clients; the old one's sockets are closed.
Refused(t) ==
    /\ up /\ page[t] # "login" /\ token[t] # "good"
    /\ page[t] = "onboarding" => post[t]
    /\ token' = [token EXCEPT ![t] = "none"]
    /\ page' = [page EXCEPT ![t] = "login"]
    /\ import' = [import EXCEPT ![t] = "idle"] /\ post' = [post EXCEPT ![t] = FALSE]
    /\ fallback' = [fallback EXCEPT ![t] = FALSE]
    /\ attempts' = [c \in Clients |-> IF c[1] = t THEN 0 ELSE attempts[c]]
    /\ timers' = [c \in Clients |-> IF c[1] = t THEN 0 ELSE timers[c]]
    /\ current' = [c \in Clients |-> IF c[1] = t THEN NoSocket ELSE current[c]]
    /\ sock' = [s \in Sockets |-> IF sock[s].end # "none" /\ sock[s].client[1] = t THEN Forgotten(s)
                                  ELSE sock[s]]
    /\ UNCHANGED <<store, onboarded, seen, hubVars, events>>

\* PublicRoute.
Redirected(t) ==
    /\ page[t] = "login" /\ store[t] # NoUser
    /\ Show(t, Guarded("login", store[t], seen[t]))
    /\ UNCHANGED <<store, token, import, post, fallback, onboarded, seen, clientVars, hubVars, events>>

\* handleImportProducts, and the effect that connects wsClient.
StartImport(t) ==
    /\ page[t] = "onboarding" /\ import[t] = "idle"
    /\ import' = [import EXCEPT ![t] = "running"]
    /\ post' = [post EXCEPT ![t] = TRUE]
    /\ \E s \in Sockets : Connect(<<t, "wsClient">>, s)
    /\ UNCHANGED <<store, token, page, fallback, onboarded, seen, attempts, timers, hubVars, events>>

Finished(t) == import' = [import EXCEPT ![t] = IF page[t] = "onboarding" THEN "done" ELSE @]

\* Mutant of PostAnswered: the page waits for the socket alone.
MutNoFallback(t) ==
    /\ post[t] /\ up /\ token[t] = "good"
    /\ post' = [post EXCEPT ![t] = FALSE]
    /\ UNCHANGED <<store, token, page, import, fallback, onboarded, seen, clientVars, hubVars, events>>

PostAnswered(t) ==
    /\ post[t] /\ up /\ token[t] = "good"
    /\ post' = [post EXCEPT ![t] = FALSE]
    /\ fallback' = [fallback EXCEPT ![t] = TRUE]
    /\ UNCHANGED <<store, token, page, import, onboarded, seen, clientVars, hubVars, events>>

\* No answer, or one that is no success and no 401.
PostFails(t) ==
    /\ post[t]
    /\ (~up /\ UNCHANGED events) \/ (up /\ Event)
    /\ post' = [post EXCEPT ![t] = FALSE]
    /\ Finished(t)
    /\ UNCHANGED <<store, token, page, fallback, onboarded, seen, clientVars, hubVars>>

FallbackFires(t) ==
    /\ fallback[t] /\ fallback' = [fallback EXCEPT ![t] = FALSE]
    /\ Finished(t)
    /\ UNCHANGED <<store, token, page, post, onboarded, seen, clientVars, hubVars, events>>

\* broadcastToTenant: sync_completed reaches the listed open sockets of the
\* tenant, and the page of whatever user the tab has by now.
SyncCompletes(n) ==
    LET told == {sock[s].client[1] : s \in {x \in Listed :
                    srv[x] = "open" /\ sock[x].link /\ sock[x].end = "open"
                    /\ sock[x].client[2] = "wsClient" /\ Tenant[sock[x].user] = n}}
    IN  /\ \E t \in told : import[t] = "running"
        /\ import' = [t \in Tabs |-> IF t \in told /\ import[t] = "running" THEN "done" ELSE import[t]]
        /\ UNCHANGED <<store, token, page, post, fallback, onboarded, seen, clientVars, hubVars, events>>

\* completeOnboarding: the store at once, the backend if the call succeeds; a
\* failure is only logged.
CompleteOnboarding(t) ==
    /\ page[t] = "onboarding" /\ import[t] = "done"
    /\ seen' = [seen EXCEPT ![t] = TRUE]
    /\ \/ up /\ token[t] = "good" /\ onboarded' = [onboarded EXCEPT ![store[t]] = TRUE]
          /\ UNCHANGED events
       \/ (~up \/ token[t] # "good") /\ UNCHANGED <<onboarded, events>>
       \/ Event /\ UNCHANGED onboarded
    /\ Show(t, "dashboard")
    /\ import' = [import EXCEPT ![t] = "idle"]
    /\ UNCHANGED <<store, token, post, fallback, clientVars, hubVars>>

-----------------------------------------------------------------------------

Next ==
    \/ Tick \/ Sweep \/ ServerStops \/ ServerStarts
    \/ \E s \in Sockets : Accept(s) \/ CloseSeen(s) \/ CloseEvent(s) \/ Pong(s) \/ LinkDies(s)
    \/ \E c \in Clients : TimerFires(c)
    \/ \E t \in Tabs :
         \/ \E u \in Users : Login(t, u)
         \/ Logout(t) \/ Mount(t) \/ TokenExpires(t) \/ Refused(t) \/ Redirected(t)
         \/ StartImport(t) \/ PostAnswered(t) \/ PostFails(t) \/ FallbackFires(t)
         \/ CompleteOnboarding(t)
    \/ \E u \in Users : SyncCompletes(Tenant[u])

Spec == Init /\ [][Next]_vars

\* Timers fire, answers and refusals arrive, and both ends hear of a close the
\* network tells them; whether a link dies, or a server starts again, is open.
FairSpec ==
    /\ Spec /\ WF_vars(Sweep)
    /\ \A s \in Sockets : WF_vars(Accept(s)) /\ WF_vars(CloseSeen(s)) /\ WF_vars(CloseEvent(s))
    /\ \A c \in Clients : WF_vars(TimerFires(c))
    /\ \A t \in Tabs : /\ WF_vars(PostAnswered(t)) /\ WF_vars(PostFails(t))
                       /\ WF_vars(FallbackFires(t)) /\ WF_vars(Refused(t)) /\ WF_vars(Redirected(t))

-----------------------------------------------------------------------------
(* Properties *)

\* An accepted socket that is still open is in the hub's map, and so gets the
\* broadcasts and the pings, however sockets of the same user come and go; only
\* two connections of one user in one millisecond can hide each other
\* (connectionId, websocket/index.ts:102, and removeConnection, :236).
OpenIsListed ==
    \A s \in Sockets : srv[s] = "open" /\ s \notin collided =>
        id[s] \in DOMAIN entries /\ entries[id[s]] = s

\* A socket whose link is dead leaves the hub's map (startHeartbeat,
\* websocket/index.ts:254).
DeadEntriesLeave ==
    \A s \in Sockets : (s \in Listed /\ ~sock[s].link) ~> (s \notin Listed)

\* With the backend gone for good every client stops trying
\* (scheduleReconnect, client.ts:716, and the hook's onclose, useWebSocket.ts:173).
GivesUp ==
    <>[](~up) => <>[](\A c \in Clients : timers[c] = 0)

\* An import ends on the onboarding page, whatever happens to the socket that
\* should announce it (handleImportProducts, Onboarding/index.tsx:192).
ImportEnds ==
    \A t \in Tabs : import[t] = "running" ~> import[t] # "running"

\* "Redirect to login if not already there" (client.ts:230): a tab that was sent
\* to the login page leaves it with a new token only.
LoginPageHolds ==
    [][\A t \in Tabs : page[t] = "login" /\ page'[t] # "login" => token'[t] = "good"]_vars
=============================================================================
