---------------------------- MODULE RealtimeProofs ----------------------------
(***************************************************************************)
(* Proofs about Realtime: that the hub knows every socket that is open, for *)
(* any number of tabs, users and sockets, and however connections, closes, *)
(* sweeps, dead links and restarts of the backend follow each other; and    *)
(* the type invariant.                                                      *)
(***************************************************************************)
EXTENDS Realtime, FiniteSetTheorems, TLAPS

-----------------------------------------------------------------------------
(* The inductive invariant *)

Shapes ==
    /\ id \in [Sockets -> Sockets] /\ srv \in [Sockets -> {"none", "open", "closed"}]
    /\ DOMAIN sock = Sockets /\ \A s \in Sockets : "end" \in DOMAIN sock[s]

\* What is listed under an id has this id, and an end that was not closed yet:
\* this is why removing "whatever is listed" removes the socket that closed.
Paired ==
    \A i \in DOMAIN entries :
        entries[i] \in Sockets /\ id[entries[i]] = i /\ srv[entries[i]] # "none"

\* Two sockets with one id were opened in one millisecond.
Twins ==
    \A x, y \in Sockets :
        x # y /\ srv[x] # "none" /\ srv[y] # "none" /\ id[x] = id[y] => x \in collided

\* The socket a new one could collide with is open.
Latest == sameMs # NoSocket => sameMs \in Sockets /\ srv[sameMs] = "open"

\* The server has nothing of a socket whose handshake is under way.
Waiting == \A s \in Sockets : sock[s].end = "connecting" => srv[s] = "none"

HubInv == Shapes /\ Paired /\ Twins /\ Latest /\ Waiting /\ OpenIsListed

-----------------------------------------------------------------------------
(* Ids *)

\* The others cannot have used up all ids.
LEMMA FreshId ==
    ASSUME NEW s \in Sockets, NEW S \in SUBSET (Sockets \ {s})
    PROVE  \E i \in Sockets : i \notin {id[x] : x \in S}
<1>1. SUFFICES ASSUME \A i \in Sockets : \E x \in S : id[x] = i
               PROVE  FALSE
  OBVIOUS
<1> DEFINE others == Sockets \ {s}
           bearer == [i \in Sockets |-> CHOOSE x \in S : id[x] = i]
<1>2. \A i \in Sockets : bearer[i] \in S /\ id[bearer[i]] = i
  BY <1>1
<1>3. bearer \in [Sockets -> others]
  BY <1>2
<1>4. /\ IsFiniteSet(Sockets) /\ IsFiniteSet(others)
      /\ Cardinality(others) = Cardinality(Sockets) - 1 /\ Cardinality(Sockets) \in Nat
  BY BoundsAssumption, FS_RemoveElement, FS_CardinalityType
<1> HIDE DEF others, bearer
<1>5. Cardinality(others) < Cardinality(Sockets)
  BY <1>4
<1>6. PICK x, y \in Sockets : x # y /\ bearer[x] = bearer[y]
  BY <1>3, <1>4, <1>5, FS_PigeonHole
<1>7. QED
  BY <1>2, <1>6

LEMMA NewIdIsFresh ==
    ASSUME HubInv, NEW s \in Sockets, srv[s] = "none"
    PROVE  /\ NewId(s) \in Sockets
           /\ Shares(s) => sameMs \in Sockets /\ sameMs # s /\ NewId(s) = id[sameMs]
                           /\ srv[sameMs] # "none"
           /\ ~Shares(s) => \A x \in Sockets : srv[x] # "none" => id[x] # NewId(s)
<1>1. CASE Shares(s)
  BY <1>1 DEF Shares, NewId, HubInv, Latest, Shapes
<1>2. CASE ~Shares(s)
  <2> DEFINE others == {y \in Sockets \ {s} : ~Unused(y)}
  <2>1. NewId(s) \in Sockets /\ NewId(s) \notin {id[x] : x \in others}
    <3>1. \E i \in Sockets : i \notin {id[x] : x \in others}
      BY FreshId
    <3>2. NewId(s) = CHOOSE i \in Sockets : i \notin {id[x] : x \in others}
      BY <1>2 DEF NewId
    <3>3. QED
      BY <3>1, <3>2
  <2>2. \A x \in Sockets : srv[x] # "none" => x \in others
    BY DEF Unused
  <2>3. QED
    BY <1>2, <2>1, <2>2
<1>3. QED
  BY <1>1, <1>2

-----------------------------------------------------------------------------
(* The steps *)

\* The hub is as it was, and no socket it holds begins to connect.
LEMMA ClientsKeep ==
    ASSUME HubInv, UNCHANGED hubVars, DOMAIN sock' = Sockets,
           \A s \in Sockets : "end" \in DOMAIN sock'[s],
           \A s \in Sockets : sock'[s].end = "connecting" =>
               sock[s].end = "connecting" \/ srv[s] = "none"
    PROVE  HubInv'
BY DEF HubInv, Shapes, Paired, Twins, Latest, Waiting, OpenIsListed, hubVars

LEMMA SocketsKeep ==
    ASSUME HubInv, UNCHANGED <<hubVars, sock>>
    PROVE  HubInv'
BY ClientsKeep DEF HubInv, Shapes

LEMMA ConnectInv ==
    ASSUME HubInv, NEW c, NEW s \in Sockets, Connect(c, s), UNCHANGED hubVars
    PROVE  HubInv'
<1>1. CASE UNCHANGED sock
  BY <1>1, SocketsKeep
<1>2. CASE ~UNCHANGED sock
  <2>1. Unused(s)
    BY <1>2 DEF Connect
  <2> DEFINE r == [client |-> c, user |-> store[c[1]], end |-> "connecting", link |-> TRUE,
                   token |-> IF c[2] = "wsClient" THEN token[c[1]] ELSE "none"]
  <2>2. sock' = [sock EXCEPT ![s] = r]
    BY <1>2 DEF Connect
  <2>3. "end" \in DOMAIN r
    OBVIOUS
  <2> HIDE DEF r
  <2>4. QED
    BY <2>1, <2>2, <2>3, ClientsKeep DEF HubInv, Shapes, Unused
<1>3. QED
  BY <1>1, <1>2

LEMMA FreeHasEnd ==
    ASSUME NEW s
    PROVE  "end" \in DOMAIN Forgotten(s) /\ Forgotten(s).end = "none"
BY DEF Forgotten, Free

LEMMA AcceptInv ==
    ASSUME HubInv, NEW s \in Sockets, Accept(s)
    PROVE  HubInv'
<1>1. sock' = [sock EXCEPT ![s].end = "open"] /\ sock[s].end = "connecting"
  BY DEF Accept
<1>2. srv[s] = "none"
  BY <1>1 DEF HubInv, Waiting
<1>3. /\ DOMAIN sock' = Sockets /\ sock'[s].end = "open"
      /\ \A x \in Sockets : "end" \in DOMAIN sock'[x]
      /\ \A x \in Sockets \ {s} : sock'[x] = sock[x]
  BY <1>1 DEF HubInv, Shapes
<1>4. CASE sock[s].token # "good"
  <2>1. UNCHANGED hubVars
    BY <1>4 DEF Accept, hubVars
  <2>2. QED
    BY <1>2, <1>3, <2>1, ClientsKeep
<1>5. CASE sock[s].token = "good"
  <2> DEFINE n == NewId(s)
  <2>1. /\ id' = [id EXCEPT ![s] = n] /\ srv' = [srv EXCEPT ![s] = "open"]
        /\ entries' = [i \in DOMAIN entries \cup {n} |-> IF i = n THEN s ELSE entries[i]]
        /\ collided' = IF Shares(s) THEN collided \cup {s, sameMs} ELSE collided
        /\ sameMs' = s
    BY <1>5 DEF Accept
  <2>2. /\ n \in Sockets
        /\ Shares(s) => sameMs \in Sockets /\ sameMs # s /\ n = id[sameMs] /\ srv[sameMs] # "none"
        /\ ~Shares(s) => \A x \in Sockets : srv[x] # "none" => id[x] # n
    BY <1>2, NewIdIsFresh
  <2> HIDE DEF n
  <2>3. Shapes' /\ Latest'
    BY <1>3, <2>1, <2>2 DEF HubInv, Shapes, Latest
  <2>4. Waiting'
    BY <1>2, <1>3, <2>1 DEF HubInv, Waiting, Shapes
  <2>5. Paired'
    BY <1>2, <2>1, <2>2 DEF HubInv, Paired, Shapes
  <2>6. ASSUME NEW x \in Sockets \ {s}, srv[x] # "none", id[x] = n
        PROVE  x \in collided' /\ s \in collided'
    BY <2>1, <2>2, <2>6 DEF HubInv, Twins
  <2>7. Twins'
    BY <1>2, <2>1, <2>2, <2>6 DEF HubInv, Twins, Shapes
  <2>8. OpenIsListed'
    <3>1. ASSUME NEW x \in Sockets, srv'[x] = "open", x \notin collided'
          PROVE  id'[x] \in DOMAIN entries' /\ entries'[id'[x]] = x
      <4>1. CASE x = s
        BY <2>1, <2>2, <4>1 DEF HubInv, Shapes
      <4>2. CASE x # s
        <5>1. srv[x] = "open" /\ id'[x] = id[x] /\ x \notin collided /\ id[x] # n
          BY <2>1, <2>6, <3>1, <4>2 DEF HubInv, Shapes
        <5>2. id[x] \in DOMAIN entries /\ entries[id[x]] = x
          BY <5>1 DEF HubInv, OpenIsListed
        <5>3. QED
          BY <2>1, <5>1, <5>2
      <4>3. QED
        BY <4>1, <4>2
    <3>2. QED
      BY <3>1 DEF OpenIsListed
  <2>9. QED
    BY <2>3, <2>4, <2>5, <2>7, <2>8 DEF HubInv
<1>6. QED
  BY <1>4, <1>5

LEMMA CloseEventInv ==
    ASSUME HubInv, NEW s \in Sockets, CloseEvent(s)
    PROVE  HubInv'
<1>1. /\ srv[s] # "none" /\ srv' = [srv EXCEPT ![s] = "none"] /\ id' = [id EXCEPT ![s] = s]
      /\ collided' = collided \ {s} /\ sameMs' = IF sameMs = s THEN NoSocket ELSE sameMs
  BY DEF CloseEvent
<1>2. /\ DOMAIN entries' = DOMAIN entries \ {id[s]}
      /\ \A i \in DOMAIN entries' : entries'[i] = entries[i]
  BY DEF CloseEvent, RemoveConnection, Restrict
<1>3. /\ DOMAIN sock' = Sockets /\ \A x \in Sockets : "end" \in DOMAIN sock'[x]
      /\ \A x \in Sockets : sock'[x].end = sock[x].end
  BY DEF CloseEvent, HubInv, Shapes
<1>4. Shapes' /\ Latest' /\ Waiting'
  BY <1>1, <1>3 DEF HubInv, Shapes, Latest, Waiting
<1>5. Paired'
  BY <1>1, <1>2 DEF HubInv, Paired, Shapes
<1>6. Twins'
  BY <1>1 DEF HubInv, Twins, Shapes
<1>7. OpenIsListed'
  <2>1. ASSUME NEW x \in Sockets, srv'[x] = "open", x \notin collided'
        PROVE  id'[x] \in DOMAIN entries' /\ entries'[id'[x]] = x
    <3>1. x # s /\ srv[x] = "open" /\ x \notin collided /\ id'[x] = id[x]
      BY <1>1, <2>1 DEF HubInv, Shapes
    <3>2. id[x] # id[s]
      BY <1>1, <3>1 DEF HubInv, Twins
    <3>3. id[x] \in DOMAIN entries /\ entries[id[x]] = x
      BY <3>1 DEF HubInv, OpenIsListed
    <3>4. QED
      BY <1>2, <3>1, <3>2, <3>3
  <2>2. QED
    BY <2>1 DEF OpenIsListed
<1>8. QED
  BY <1>4, <1>5, <1>6, <1>7 DEF HubInv

LEMMA SweepInv ==
    ASSUME HubInv, Sweep
    PROVE  HubInv'
<1> DEFINE silent == {s \in Listed : ~alive[s]}
<1>1. /\ srv' = [s \in Sockets |-> IF s \in silent /\ srv[s] = "open" THEN "closed" ELSE srv[s]]
      /\ entries' = Restrict(entries, {i \in DOMAIN entries : entries[i] \notin silent})
      /\ sameMs' = NoSocket /\ UNCHANGED <<id, collided, sock>>
  BY DEF Sweep, clientVars
<1> HIDE DEF silent
<1>2. /\ DOMAIN entries' = {i \in DOMAIN entries : entries[i] \notin silent}
      /\ \A i \in DOMAIN entries' : entries'[i] = entries[i]
  BY <1>1 DEF Restrict
<1>3. \A x \in Sockets : /\ srv'[x] = "none" <=> srv[x] = "none"
                         /\ srv'[x] = "open" => srv[x] = "open" /\ x \notin silent
                         /\ srv'[x] \in {"none", "open", "closed"}
  BY <1>1 DEF HubInv, Shapes
<1>4. Shapes' /\ Latest' /\ Waiting'
  BY <1>1, <1>3 DEF HubInv, Shapes, Latest, Waiting
<1>5. Paired' /\ Twins'
  BY <1>1, <1>2, <1>3 DEF HubInv, Paired, Twins
<1>6. OpenIsListed'
  BY <1>1, <1>2, <1>3 DEF HubInv, OpenIsListed
<1>7. QED
  BY <1>4, <1>5, <1>6 DEF HubInv

LEMMA ServerStopsInv ==
    ASSUME HubInv, ServerStops
    PROVE  HubInv'
<1>1. /\ srv' = [s \in Sockets |-> "none"] /\ entries' = <<>> /\ sameMs' = NoSocket
      /\ id' = [s \in Sockets |-> s] /\ UNCHANGED sock
  BY DEF ServerStops, clientVars
<1>2. DOMAIN entries' = {}
  BY <1>1
<1>3. QED
  BY <1>1, <1>2 DEF HubInv, Shapes, Paired, Twins, Latest, Waiting, OpenIsListed

LEMMA TickInv ==
    ASSUME HubInv, Tick
    PROVE  HubInv'
BY DEF Tick, clientVars, HubInv, Shapes, Paired, Twins, Latest, Waiting, OpenIsListed

\* Steps of a tab that leave some of its sockets closing, or forgotten.
LEMMA UnmountInv ==
    ASSUME HubInv, NEW t, Unmount(t), UNCHANGED hubVars
    PROVE  HubInv'
<1> DEFINE c == <<t, "hook">>
<1>1. sock' = [s \in Sockets |-> IF current[c] = s /\ sock[s].end # "none"
                                 THEN [sock[s] EXCEPT !.end = "closing"] ELSE sock[s]]
  BY DEF Unmount
<1>2. ASSUME NEW s \in Sockets
      PROVE  /\ "end" \in DOMAIN sock'[s]
             /\ sock'[s].end = "connecting" => sock[s].end = "connecting"
  BY <1>1 DEF HubInv, Shapes
<1>3. QED
  BY <1>1, <1>2, ClientsKeep

LEMMA RefusedInv ==
    ASSUME HubInv, NEW t, Refused(t)
    PROVE  HubInv'
<1>1. /\ sock' = [s \in Sockets |-> IF sock[s].end # "none" /\ sock[s].client[1] = t
                                    THEN Forgotten(s) ELSE sock[s]]
      /\ UNCHANGED hubVars
  BY DEF Refused
<1>2. ASSUME NEW s \in Sockets
      PROVE  /\ "end" \in DOMAIN sock'[s]
             /\ sock'[s].end = "connecting" => sock[s].end = "connecting"
  BY <1>1, FreeHasEnd DEF HubInv, Shapes
<1>3. QED
  BY <1>1, <1>2, ClientsKeep

LEMMA HubInit ==
    ASSUME Init
    PROVE  HubInv
<1>1. /\ sock = [s \in Sockets |-> Free] /\ srv = [s \in Sockets |-> "none"]
      /\ id = [s \in Sockets |-> s] /\ entries = <<>> /\ sameMs = NoSocket
  BY DEF Init
<1>2. DOMAIN entries = {} /\ "end" \in DOMAIN Free /\ Free.end = "none"
  BY <1>1 DEF Free
<1>3. QED
  BY <1>1, <1>2 DEF HubInv, Shapes, Paired, Twins, Latest, Waiting, OpenIsListed

LEMMA HubNext ==
    ASSUME HubInv, [Next]_vars
    PROVE  HubInv'
<1>1. CASE Tick \/ Sweep \/ ServerStops
  BY <1>1, TickInv, SweepInv, ServerStopsInv
<1>2. CASE ServerStarts
  BY <1>2 DEF ServerStarts, clientVars, HubInv, Shapes, Paired, Twins, Latest, Waiting, OpenIsListed
<1>3. ASSUME NEW s \in Sockets, Accept(s) \/ CloseEvent(s)
      PROVE  HubInv'
  BY <1>3, AcceptInv, CloseEventInv
<1>4. ASSUME NEW s \in Sockets, CloseSeen(s)
      PROVE  HubInv'
  <2>1. sock' = [sock EXCEPT ![s] = Forgotten(s)] /\ UNCHANGED hubVars
    BY <1>4 DEF CloseSeen
  <2>2. QED
    BY <2>1, FreeHasEnd, ClientsKeep DEF HubInv, Shapes
<1>5. ASSUME NEW s \in Sockets, Pong(s)
      PROVE  HubInv'
  BY <1>5 DEF Pong, clientVars, HubInv, Shapes, Paired, Twins, Latest, Waiting, OpenIsListed
<1>6. ASSUME NEW s \in Sockets, LinkDies(s)
      PROVE  HubInv'
  <2>1. sock' = [sock EXCEPT ![s].link = FALSE] /\ UNCHANGED hubVars
    BY <1>6 DEF LinkDies
  <2>2. DOMAIN sock' = Sockets /\ \A x \in Sockets : "end" \in DOMAIN sock'[x]
                                                     /\ sock'[x].end = sock[x].end
    BY <2>1 DEF HubInv, Shapes
  <2>3. QED
    BY <2>1, <2>2, ClientsKeep
<1>7. ASSUME NEW c \in Clients, TimerFires(c)
      PROVE  HubInv'
  BY <1>7, ConnectInv DEF TimerFires
<1>8. ASSUME NEW t \in Tabs, Mount(t) \/ StartImport(t)
      PROVE  HubInv'
  BY <1>8, ConnectInv DEF Mount, StartImport
<1>9. ASSUME NEW t \in Tabs, Refused(t)
      PROVE  HubInv'
  BY <1>9, RefusedInv
<1>10. ASSUME NEW t \in Tabs, Logout(t)
       PROVE  HubInv'
  BY <1>10, UnmountInv, SocketsKeep DEF Logout
<1>11. ASSUME NEW t \in Tabs,
              \/ \E u \in Users : Login(t, u)
              \/ TokenExpires(t) \/ Redirected(t) \/ PostAnswered(t) \/ PostFails(t)
              \/ FallbackFires(t) \/ CompleteOnboarding(t)
       PROVE  HubInv'
  <2>1. UNCHANGED <<hubVars, sock>>
    BY <1>11 DEF Login, TokenExpires, Redirected, PostAnswered, PostFails, FallbackFires,
                 CompleteOnboarding, clientVars
  <2>2. QED
    BY <2>1, SocketsKeep
<1>12. ASSUME NEW n, SyncCompletes(n)
       PROVE  HubInv'
  BY <1>12, SocketsKeep DEF SyncCompletes, clientVars
<1>13. CASE UNCHANGED vars
  BY <1>13, SocketsKeep DEF vars, clientVars
<1>14. QED
  BY <1>1, <1>2, <1>3, <1>4, <1>5, <1>6, <1>7, <1>8, <1>9, <1>10, <1>11, <1>12, <1>13 DEF Next

-----------------------------------------------------------------------------
(* Types *)

End == {"none", "connecting", "open", "closing"}
Socket == [client : Clients, user : Users \cup {NoUser}, token : Token, end : End, link : BOOLEAN]

TabTypes ==
    /\ store \in [Tabs -> Users \cup {NoUser}] /\ token \in [Tabs -> Token]
    /\ page \in [Tabs -> {"login", "onboarding", "dashboard"}]
    /\ import \in [Tabs -> {"idle", "running", "done"}]
    /\ post \in [Tabs -> BOOLEAN] /\ fallback \in [Tabs -> BOOLEAN]
    /\ onboarded \in [Users -> BOOLEAN] /\ seen \in [Tabs -> BOOLEAN]

ClientTypes ==
    /\ attempts \in [Clients -> 0..MaxAttempts] /\ timers \in [Clients -> Nat]
    /\ current \in [Clients -> Sockets \cup {NoSocket}]
    /\ sock \in [Sockets -> Socket]

HubTypes == alive \in [Sockets -> BOOLEAN] /\ collided \subseteq Sockets /\ up \in BOOLEAN

TypeInv == HubInv /\ TabTypes /\ ClientTypes /\ HubTypes /\ events \in 0..MaxEvents

LEMMA TypeInvIsTyped ==
    ASSUME TypeInv
    PROVE  TypeOK
<1>1. DOMAIN entries \subseteq Sockets /\ Range(entries) \subseteq Sockets
  BY DEF TypeInv, HubInv, Shapes, Paired, Range
<1>2. sameMs \in Sockets \cup {NoSocket}
  BY DEF TypeInv, HubInv, Latest
<1>3. sock \in [Sockets -> [client : Clients, user : Users \cup {NoUser}, token : Token,
                             end : {"none", "connecting", "open", "closing"}, link : BOOLEAN]]
  BY DEF TypeInv, ClientTypes, Socket, End
<1>4. QED
  BY <1>1, <1>2, <1>3
  DEF TypeInv, TypeOK, TabTypes, ClientTypes, HubTypes, HubInv, Shapes

LEMMA ClientOfTab ==
    /\ \A t \in Tabs : <<t, "wsClient">> \in Clients /\ <<t, "hook">> \in Clients
    /\ \A c \in Clients : c[1] \in Tabs
BY DEF Clients

LEMMA FreeTyped ==
    Free \in Socket
<1>1. \E c \in Clients : TRUE
  BY TabsAssumption, ClientOfTab
<1>2. (CHOOSE c \in Clients : TRUE) \in Clients
  BY <1>1
<1>3. QED
  BY <1>2 DEF Free, Socket, Token, End

LEMMA ForgottenTyped ==
    ASSUME ClientTypes, NEW s \in Sockets
    PROVE  Forgotten(s) \in Socket
<1>1. (sock[s].link /\ srv[s] # "none") \in BOOLEAN
  OBVIOUS
<1>2. QED
  BY <1>1, FreeTyped DEF Forgotten, Socket

LEMMA ConnectTyped ==
    ASSUME TabTypes, ClientTypes, NEW c \in Clients, NEW s \in Sockets, Connect(c, s)
    PROVE  current' \in [Clients -> Sockets \cup {NoSocket}] /\ sock' \in [Sockets -> Socket]
<1>1. CASE UNCHANGED <<current, sock>>
  BY <1>1 DEF ClientTypes
<1>2. CASE ~UNCHANGED <<current, sock>>
  <2> DEFINE r == [client |-> c, user |-> store[c[1]], end |-> "connecting", link |-> TRUE,
                   token |-> IF c[2] = "wsClient" THEN token[c[1]] ELSE "none"]
  <2>1. /\ current' = [current EXCEPT ![c] = s] /\ sock' = [sock EXCEPT ![s] = r]
    BY <1>2 DEF Connect
  <2>2. store[c[1]] \in Users \cup {NoUser} /\ token[c[1]] \in Token
    BY ClientOfTab DEF TabTypes
  <2>3. r \in Socket
    BY <2>2 DEF Socket, Token, End
  <2> HIDE DEF r
  <2>4. QED
    BY <2>1, <2>3 DEF ClientTypes
<1>3. QED
  BY <1>1, <1>2

LEMMA ReconnectingTyped ==
    ASSUME ClientTypes, NEW c \in Clients, Reconnecting(c)
    PROVE  attempts' \in [Clients -> 0..MaxAttempts] /\ timers' \in [Clients -> Nat]
BY BoundsAssumption DEF ClientTypes, Reconnecting

LEMMA EventTyped ==
    ASSUME events \in 0..MaxEvents, Event
    PROVE  events' \in 0..MaxEvents
BY BoundsAssumption DEF Event

LEMMA GuardedTyped ==
    ASSUME NEW asked \in {"login", "onboarding", "dashboard"}, NEW user, NEW complete
    PROVE  Guarded(asked, user, complete) \in {"login", "onboarding", "dashboard"}
BY DEF Guarded

LEMMA UnmountTyped ==
    ASSUME ClientTypes, NEW t \in Tabs, Unmount(t)
    PROVE  timers' \in [Clients -> Nat] /\ sock' \in [Sockets -> Socket]
<1> DEFINE c == <<t, "hook">>
<1>1. /\ timers' = [timers EXCEPT ![c] = IF @ > 0 THEN @ - 1 ELSE 0]
      /\ sock' = [s \in Sockets |-> IF current[c] = s /\ sock[s].end # "none"
                                    THEN [sock[s] EXCEPT !.end = "closing"] ELSE sock[s]]
  BY DEF Unmount
<1>2. timers' \in [Clients -> Nat]
  <2>1. timers \in [Clients -> Nat]
    BY DEF ClientTypes
  <2>2. c \in Clients
    BY ClientOfTab
  <2> HIDE DEF c
  <2>3. timers[c] \in Nat
    BY <2>1, <2>2
  <2>4. (IF timers[c] > 0 THEN timers[c] - 1 ELSE 0) \in Nat
    BY <2>3
  <2>5. QED
    BY <1>1, <2>1, <2>4
<1>3. \A s \in Sockets : sock[s] \in Socket
  BY DEF ClientTypes
<1>4. \A s \in Sockets : [sock[s] EXCEPT !.end = "closing"] \in Socket
  BY <1>3 DEF Socket, End
<1>5. QED
  BY <1>1, <1>2, <1>3, <1>4

\* Steps of the sockets' two ends.
LEMMA SocketStepsTyped ==
    ASSUME TypeInv, NEW s \in Sockets, HubInv',
           Accept(s) \/ CloseSeen(s) \/ CloseEvent(s) \/ Pong(s) \/ LinkDies(s)
    PROVE  TypeInv'
<1>1. sock[s] \in Socket /\ sock[s].client \in Clients /\ sock \in [Sockets -> Socket]
  BY DEF TypeInv, ClientTypes, Socket
<1>2. alive \in [Sockets -> BOOLEAN] /\ collided \subseteq Sockets
  BY DEF TypeInv, HubTypes
<1>3. UNCHANGED tabVars
  BY DEF Accept, CloseSeen, CloseEvent, Pong, LinkDies
<1>4. TabTypes'
  BY <1>3 DEF TypeInv, TabTypes, tabVars
<1>5. CASE Accept(s)
  <2>1. sock' \in [Sockets -> Socket]
    BY <1>1, <1>5 DEF Accept, Socket, End
  <2>2. attempts' \in [Clients -> 0..MaxAttempts]
    BY <1>1, <1>5, BoundsAssumption DEF Accept, TypeInv, ClientTypes
  <2>3. alive' \in [Sockets -> BOOLEAN]
    BY <1>2, <1>5 DEF Accept
  <2>4. collided' \subseteq Sockets
    BY <1>2, <1>5 DEF Accept, Shares, TypeInv, HubInv, Latest
  <2>5. UNCHANGED <<timers, current, up, events>>
    BY <1>5 DEF Accept
  <2>6. QED
    BY <1>4, <2>1, <2>2, <2>3, <2>4, <2>5 DEF TypeInv, ClientTypes, HubTypes
<1>6. CASE CloseSeen(s)
  <2>1. /\ attempts' \in [Clients -> 0..MaxAttempts] /\ timers' \in [Clients -> Nat]
    BY <1>1, <1>6, ReconnectingTyped DEF CloseSeen, TypeInv
  <2>2. sock' \in [Sockets -> Socket]
    BY <1>1, <1>6, ForgottenTyped DEF CloseSeen, TypeInv
  <2>3. UNCHANGED <<hubVars, current, events>>
    BY <1>6 DEF CloseSeen
  <2>4. QED
    BY <1>4, <2>1, <2>2, <2>3 DEF TypeInv, ClientTypes, HubTypes, hubVars
<1>7. CASE CloseEvent(s)
  <2>1. (sock[s].link /\ sock[s].end # "none") \in BOOLEAN
    OBVIOUS
  <2>2. sock' \in [Sockets -> Socket]
    BY <1>1, <1>7, <2>1 DEF CloseEvent, Socket
  <2>3. alive' \in [Sockets -> BOOLEAN] /\ collided' \subseteq Sockets
    BY <1>2, <1>7 DEF CloseEvent
  <2>4. UNCHANGED <<attempts, timers, current, up, events>>
    BY <1>7 DEF CloseEvent
  <2>5. QED
    BY <1>4, <2>2, <2>3, <2>4 DEF TypeInv, ClientTypes, HubTypes
<1>8. CASE Pong(s)
  BY <1>2, <1>4, <1>8 DEF Pong, clientVars, TypeInv, ClientTypes, HubTypes
<1>9. CASE LinkDies(s)
  <2>1. sock' \in [Sockets -> Socket]
    BY <1>1, <1>9 DEF LinkDies, Socket
  <2>2. QED
    BY <1>4, <1>9, <2>1, EventTyped
    DEF LinkDies, hubVars, TypeInv, ClientTypes, HubTypes
<1>10. QED
  BY <1>5, <1>6, <1>7, <1>8, <1>9

\* Steps of the hub.
LEMMA HubStepsTyped ==
    ASSUME TypeInv, HubInv', Tick \/ Sweep \/ ServerStops \/ ServerStarts
    PROVE  TypeInv'
<1>1. alive \in [Sockets -> BOOLEAN] /\ collided \subseteq Sockets /\ up \in BOOLEAN
  BY DEF TypeInv, HubTypes
<1>2. UNCHANGED <<tabVars, clientVars>>
  BY DEF Tick, Sweep, ServerStops, ServerStarts
<1>3. TabTypes' /\ ClientTypes'
  BY <1>2 DEF TypeInv, TabTypes, ClientTypes, tabVars, clientVars
<1>4. alive' \in [Sockets -> BOOLEAN]
  BY <1>1 DEF Tick, Sweep, ServerStops, ServerStarts
<1>5. collided' \subseteq Sockets /\ up' \in BOOLEAN
  BY <1>1 DEF Tick, Sweep, ServerStops, ServerStarts
<1>6. events' \in 0..MaxEvents
  BY EventTyped DEF Tick, Sweep, ServerStops, ServerStarts, TypeInv
<1>7. QED
  BY <1>3, <1>4, <1>5, <1>6 DEF TypeInv, HubTypes

\* Steps in which a client connects.
LEMMA ClientStepsTyped ==
    ASSUME TypeInv, HubInv',
           \/ \E c \in Clients : TimerFires(c)
           \/ \E t \in Tabs : Mount(t) \/ StartImport(t)
    PROVE  TypeInv'
<1>1. \E c \in Clients, s \in Sockets : Connect(c, s)
  BY ClientOfTab DEF TimerFires, Mount, StartImport
<1>2. current' \in [Clients -> Sockets \cup {NoSocket}] /\ sock' \in [Sockets -> Socket]
  BY <1>1, ConnectTyped DEF TypeInv
<1>3. UNCHANGED <<attempts, hubVars, events>>
  BY DEF TimerFires, Mount, StartImport
<1>4. timers' \in [Clients -> Nat]
  <2>1. timers \in [Clients -> Nat]
    BY DEF TypeInv, ClientTypes
  <2>2. ASSUME NEW c \in Clients, TimerFires(c)
        PROVE  timers' \in [Clients -> Nat]
    <3>1. timers[c] - 1 \in Nat /\ timers' = [timers EXCEPT ![c] = timers[c] - 1]
      BY <2>1, <2>2 DEF TimerFires
    <3>2. QED
      BY <2>1, <3>1
  <2>3. QED
    BY <2>1, <2>2 DEF Mount, StartImport
<1>5. TabTypes'
  <2>1. CASE UNCHANGED tabVars
    BY <2>1 DEF TypeInv, TabTypes, tabVars
  <2>2. ASSUME NEW t \in Tabs, StartImport(t)
        PROVE  TabTypes'
    BY <2>2 DEF StartImport, TypeInv, TabTypes
  <2>3. QED
    BY <2>1, <2>2 DEF TimerFires, Mount
<1>6. QED
  BY <1>2, <1>3, <1>4, <1>5 DEF TypeInv, ClientTypes, HubTypes, hubVars

\* Steps of a tab in which no socket begins or ends.
LEMMA PageStepsTyped ==
    ASSUME TypeInv, HubInv', NEW t \in Tabs,
           \/ \E u \in Users : Login(t, u)
           \/ TokenExpires(t) \/ Redirected(t) \/ PostAnswered(t) \/ PostFails(t)
           \/ FallbackFires(t) \/ CompleteOnboarding(t)
    PROVE  TypeInv'
<1>1. UNCHANGED <<clientVars, hubVars>>
  BY DEF Login, TokenExpires, Redirected, PostAnswered, PostFails, FallbackFires,
         CompleteOnboarding
<1>2. ClientTypes' /\ HubTypes'
  BY <1>1 DEF TypeInv, ClientTypes, HubTypes, clientVars, hubVars
<1>3. events' \in 0..MaxEvents
  BY EventTyped DEF Login, TokenExpires, Redirected, PostAnswered, PostFails, FallbackFires,
                    CompleteOnboarding, TypeInv
<1>4. TabTypes'
  <2>1. ASSUME NEW u \in Users, Login(t, u)
        PROVE  TabTypes'
    <3>1. onboarded[u] \in BOOLEAN
      BY DEF TypeInv, TabTypes
    <3>2. Guarded("dashboard", u, onboarded[u]) \in {"login", "onboarding", "dashboard"}
      BY GuardedTyped
    <3>3. seen' \in [Tabs -> BOOLEAN]
      BY <2>1, <3>1 DEF Login, TypeInv, TabTypes
    <3>4. QED
      BY <2>1, <3>2, <3>3 DEF Login, Show, TypeInv, TabTypes, Token
  <2>2. CASE TokenExpires(t)
    BY <2>2 DEF TokenExpires, TypeInv, TabTypes, Token
  <2>3. CASE Redirected(t)
    <3>1. Guarded("login", store[t], seen[t]) \in {"login", "onboarding", "dashboard"}
      BY GuardedTyped
    <3>2. QED
      BY <2>3, <3>1 DEF Redirected, Show, TypeInv, TabTypes
  <2>4. CASE PostAnswered(t)
    BY <2>4 DEF PostAnswered, TypeInv, TabTypes
  <2>5. CASE PostFails(t)
    BY <2>5 DEF PostFails, Finished, TypeInv, TabTypes
  <2>6. CASE FallbackFires(t)
    BY <2>6 DEF FallbackFires, Finished, TypeInv, TabTypes
  <2>7. CASE CompleteOnboarding(t)
    <3>1. onboarded' \in [Users -> BOOLEAN] /\ seen' \in [Tabs -> BOOLEAN]
      BY <2>7 DEF CompleteOnboarding, TypeInv, TabTypes
    <3>2. QED
      BY <2>7, <3>1 DEF CompleteOnboarding, Show, TypeInv, TabTypes
  <2>8. QED
    BY <2>1, <2>2, <2>3, <2>4, <2>5, <2>6, <2>7
<1>5. QED
  BY <1>2, <1>3, <1>4 DEF TypeInv

LEMMA LogoutTyped ==
    ASSUME TypeInv, HubInv', NEW t \in Tabs, Logout(t)
    PROVE  TypeInv'
<1>1. timers' \in [Clients -> Nat] /\ sock' \in [Sockets -> Socket]
  BY UnmountTyped DEF Logout, TypeInv, ClientTypes
<1>2. TabTypes'
  BY DEF Logout, Show, TypeInv, TabTypes, Token
<1>3. UNCHANGED <<attempts, current, hubVars>> /\ Event
  BY DEF Logout
<1>4. QED
  BY <1>1, <1>2, <1>3, EventTyped DEF TypeInv, ClientTypes, HubTypes, hubVars

LEMMA RefusedTyped ==
    ASSUME TypeInv, HubInv', NEW t \in Tabs, Refused(t)
    PROVE  TypeInv'
<1>1. TabTypes'
  BY DEF Refused, TypeInv, TabTypes, Token
<1>2. \A s \in Sockets : sock[s] \in Socket /\ Forgotten(s) \in Socket
  BY ForgottenTyped DEF TypeInv, ClientTypes
<1>3. sock' \in [Sockets -> Socket]
  BY <1>2 DEF Refused
<1>4. attempts' \in [Clients -> 0..MaxAttempts] /\ timers' \in [Clients -> Nat]
  BY BoundsAssumption DEF Refused, TypeInv, ClientTypes
<1>5. current' \in [Clients -> Sockets \cup {NoSocket}]
  BY DEF Refused, TypeInv, ClientTypes
<1>6. UNCHANGED <<hubVars, events>>
  BY DEF Refused
<1>7. QED
  BY <1>1, <1>3, <1>4, <1>5, <1>6 DEF TypeInv, ClientTypes, HubTypes, hubVars

LEMMA TypesInit ==
    ASSUME Init
    PROVE  TypeInv
<1>1. HubInv
  BY HubInit
<1>2. TabTypes /\ HubTypes
  BY DEF Init, TabTypes, HubTypes, Token
<1>3. ClientTypes
  BY FreeTyped, BoundsAssumption DEF Init, ClientTypes
<1>4. QED
  BY <1>1, <1>2, <1>3, BoundsAssumption DEF Init, TypeInv

LEMMA TypesNext ==
    ASSUME TypeInv, [Next]_vars
    PROVE  TypeInv'
<1>0. HubInv'
  BY HubNext DEF TypeInv
<1>1. ASSUME NEW n, SyncCompletes(n)
      PROVE  TypeInv'
  <2>1. /\ UNCHANGED <<store, token, page, post, fallback, onboarded, seen, clientVars, hubVars, events>>
        /\ \E told : import' = [t \in Tabs |-> IF t \in told /\ import[t] = "running"
                                               THEN "done" ELSE import[t]]
    BY <1>1 DEF SyncCompletes
  <2>2. TabTypes'
    BY <2>1 DEF TypeInv, TabTypes
  <2>3. QED
    BY <1>0, <2>1, <2>2 DEF TypeInv, ClientTypes, HubTypes, clientVars, hubVars
<1>2. CASE UNCHANGED vars
  BY <1>0, <1>2
  DEF vars, TypeInv, TabTypes, ClientTypes, HubTypes, tabVars, clientVars, hubVars
<1>3. QED
  BY <1>0, <1>1, <1>2, SocketStepsTyped, HubStepsTyped, ClientStepsTyped, PageStepsTyped,
     LogoutTyped, RefusedTyped DEF Next

-----------------------------------------------------------------------------
(* The theorems *)

\* A socket that is open is in the hub's map under its id, unless another one of
\* the same user was opened in the same millisecond (connectionId,
\* websocket/index.ts:102, removeConnection, :236): for any number of tabs, users
\* and sockets, and through any number of restarts.
THEOREM OpenSocketsAreListed == Spec => []OpenIsListed
<1>1. Init => HubInv
  BY HubInit
<1>2. HubInv /\ [Next]_vars => HubInv'
  BY HubNext
<1>3. HubInv => OpenIsListed
  BY DEF HubInv
<1>4. QED
  BY <1>1, <1>2, <1>3, PTL DEF Spec

\* Every state is well typed: ids and entries are sockets', a client counts no
\* attempt beyond the limit (scheduleReconnect, client.ts:716), and no tab shows a
\* page the routes do not have.
THEOREM RealtimeTypeOK == Spec => []TypeOK
<1>1. Init => TypeInv
  BY TypesInit
<1>2. TypeInv /\ [Next]_vars => TypeInv'
  BY TypesNext
<1>3. TypeInv => TypeOK
  BY TypeInvIsTyped
<1>4. QED
  BY <1>1, <1>2, <1>3, PTL DEF Spec
=============================================================================
