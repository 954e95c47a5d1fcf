----------------------- MODULE TenantOrchestratorProofs -----------------------
(***************************************************************************)
(* Proofs about TenantOrchestrator: its type invariant, that a tenant has  *)
(* at most one living process, the one the orchestrator knows, and that    *)
(* the health check kills only children that do not answer, for any number *)
(* of tenants, processes, overlapping discoveries and crashes, as long as  *)
(* no graceful stop was given up.                                          *)
(***************************************************************************)
EXTENDS TenantOrchestrator, TLAPS

-----------------------------------------------------------------------------
(* The inductive invariant.  Many steps pass through entries and processes *)
(* that are not yet those of the next state: w and c stand for either.     *)

WorkersOK(w) == w \in [Tenants -> Info \cup {NoWorker}]

\* A process has a tenant; a free slot has sent nothing.
ProcsOK(c) ==
    /\ c \in [Procs -> Process]
    /\ \A p \in Procs : c[p].st # "free" => c[p].tenant \in Tenants
    /\ \A p \in Procs : c[p].ready => c[p].st # "free"

\* Entries and processes, dead ones included until their exit was handled,
\* belong to each other one to one.
Paired(w, c) ==
    /\ \A p \in Procs : c[p].st # "free" =>
          w[c[p].tenant] # NoWorker /\ w[c[p].tenant].proc = p
    /\ \A t \in Tenants : w[t] # NoWorker =>
          c[w[t].proc].st # "free" /\ c[w[t].proc].tenant = t

\* stop() waits for every process an entry has, until none is left.
Drained(s, w, d) ==
    /\ s = "shutting_down" => \A t \in Tenants : w[t] # NoWorker => w[t].proc \in d
    /\ s = "stopped" => \A t \in Tenants : w[t] = NoWorker

TInv == TypeOK /\ ProcsOK(proc)

StrayInv == timeouts = 0 => Paired(worker, proc) /\ Drained(state, worker, drain)

IInv == TInv /\ StrayInv

\* What the invariant sees of entries and processes.
Alike(w, c, w2, c2) ==
    /\ \A t \in Tenants : (w2[t] = NoWorker <=> w[t] = NoWorker)
                          /\ (w[t] # NoWorker => w2[t].proc = w[t].proc)
    /\ \A p \in Procs : (c2[p].st = "free" <=> c[p].st = "free") /\ c2[p].tenant = c[p].tenant

-----------------------------------------------------------------------------
(* Lemmas about the pieces the actions are built from *)

LEMMA AlikePaired ==
    ASSUME NEW w, NEW c, NEW w2, NEW c2, WorkersOK(w), ProcsOK(c), Alike(w, c, w2, c2),
           Paired(w, c)
    PROVE  Paired(w2, c2)
BY DEF WorkersOK, ProcsOK, Alike, Paired, Info, Process

LEMMA AlikeDrained ==
    ASSUME NEW w, NEW c, NEW w2, NEW c2, NEW s, NEW d, Alike(w, c, w2, c2), Drained(s, w, d)
    PROVE  Drained(s, w2, d)
BY DEF Alike, Drained

\* Asking workers to stop changes neither who has a worker nor which process it is.
LEMMA AskToStopKeeps ==
    ASSUME NEW w, NEW c, WorkersOK(w), ProcsOK(c), NEW ts \in SUBSET Tenants,
           \A t \in ts : w[t] # NoWorker, AskToStop(ts, w, c)
    PROVE  WorkersOK(worker') /\ ProcsOK(proc') /\ Alike(w, c, worker', proc')
<1>1. \A t \in Tenants : w[t] # NoWorker =>
         /\ [w[t] EXCEPT !.st = "stopping"] \in Info
         /\ [w[t] EXCEPT !.st = "stopping"].proc = w[t].proc
  BY DEF WorkersOK, Info
<1>2. \A t \in Tenants : worker'[t] = IF t \in ts THEN [w[t] EXCEPT !.st = "stopping"] ELSE w[t]
  BY DEF AskToStop
<1>3. WorkersOK(worker')
  BY <1>1 DEF WorkersOK, AskToStop
<1>4. \A t \in Tenants : (worker'[t] = NoWorker <=> w[t] = NoWorker)
                         /\ (w[t] # NoWorker => worker'[t].proc = w[t].proc)
  BY <1>1, <1>2, WorkerAssumption
<1>5. \A p \in Procs : /\ [c[p] EXCEPT !.asked = TRUE] \in Process
                       /\ [c[p] EXCEPT !.asked = TRUE].st = c[p].st
                       /\ [c[p] EXCEPT !.asked = TRUE].tenant = c[p].tenant
                       /\ [c[p] EXCEPT !.asked = TRUE].ready = c[p].ready
  BY DEF ProcsOK, Process
<1>6. /\ proc' \in [Procs -> Process]
      /\ \A p \in Procs : /\ proc'[p].st = c[p].st /\ proc'[p].tenant = c[p].tenant
                          /\ proc'[p].ready = c[p].ready
  BY <1>5 DEF AskToStop, ProcsOK
<1>7. QED
  BY <1>3, <1>4, <1>6 DEF Alike, ProcsOK

\* And so does whatever the discovery runs do next.
LEMMA SecondLoopKeeps ==
    ASSUME NEW w, NEW c, WorkersOK(w), ProcsOK(c), poll \in [Polls -> Poll],
           NEW ks \in SUBSET Polls, NEW ids, \A k \in ks : ids[k] \in SUBSET Tenants,
           SecondLoop(ks, ids, w, c)
    PROVE  /\ WorkersOK(worker') /\ ProcsOK(proc') /\ Alike(w, c, worker', proc')
           /\ poll' \in [Polls -> Poll]
<1>1. PICK next \in [ks -> Tenants \cup {NoTenant}] :
        /\ \A k \in ks :
             LET gone == {t \in Tenants \ ids[k] : w[t] # NoWorker} IN
             next[k] \in (IF gone = {} THEN {NoTenant} ELSE gone)
        /\ poll' = [k \in Polls |->
                      IF k \notin ks THEN poll[k]
                      ELSE IF next[k] = NoTenant THEN IdlePoll
                      ELSE [pc |-> "stopping", ids |-> ids[k], wait |-> w[next[k]].proc]]
        /\ AskToStop({next[k] : k \in ks} \ {NoTenant}, w, c)
  BY DEF SecondLoop
<1>2. \A k \in ks : next[k] # NoTenant => next[k] \in Tenants /\ w[next[k]] # NoWorker
  BY <1>1
<1>3. WorkersOK(worker') /\ ProcsOK(proc') /\ Alike(w, c, worker', proc')
  BY <1>1, <1>2, AskToStopKeeps
<1>4. \A k \in ks : next[k] # NoTenant => w[next[k]].proc \in Procs
  BY <1>2 DEF WorkersOK, Info
<1>5. IdlePoll \in Poll
  BY DEF IdlePoll, Poll
<1>6. poll' \in [Polls -> Poll]
  BY <1>1, <1>4, <1>5 DEF Poll
<1>7. QED
  BY <1>3, <1>6

LEMMA FreeSlotType == FreeSlot \in Process /\ FreeSlot.st = "free" /\ ~FreeSlot.ready
BY DEF FreeSlot, Process

LEMMA NewInfoType ==
    ASSUME NEW p \in Procs
    PROVE  NewInfo(p) \in Info /\ NewInfo(p) # NoWorker /\ NewInfo(p).proc = p
<1>1. 0 \in 0 .. PongWindow + 1
  BY TimesAssumption
<1>2. NewInfo(p) \in Info
  BY <1>1 DEF NewInfo, Info
<1>3. QED
  BY <1>2, WorkerAssumption DEF NewInfo

\* Spawning pairs tenants without a worker with free slots.
LEMMA SpawnKeeps ==
    ASSUME WorkersOK(worker), ProcsOK(proc), NEW ts \in SUBSET Tenants,
           NEW slot \in Injection(Spawnable(ts), FreeSlots)
    PROVE  /\ WorkersOK(SpawnedWorkers(slot)) /\ ProcsOK(SpawnedProcs(slot))
           /\ Paired(worker, proc) => Paired(SpawnedWorkers(slot), SpawnedProcs(slot))
           /\ state # "running" => SpawnedWorkers(slot) = worker
           /\ \A p \in Procs : \/ SpawnedProcs(slot)[p] = proc[p]
                               \/ \E t \in Tenants : SpawnedProcs(slot)[p]
                                     = [FreeSlot EXCEPT !.st = "booting", !.tenant = t]
           /\ \A t \in Tenants :
                 \/ SpawnedWorkers(slot)[t] = worker[t]
                    /\ (worker[t] # NoWorker /\ Paired(worker, proc) =>
                          SpawnedProcs(slot)[worker[t].proc] = proc[worker[t].proc])
                 \/ \E p \in Procs : /\ SpawnedWorkers(slot)[t] = NewInfo(p)
                                     /\ SpawnedProcs(slot)[p]
                                         = [FreeSlot EXCEPT !.st = "booting", !.tenant = t]
<1> DEFINE D == Spawnable(ts)
           w == SpawnedWorkers(slot)
           c == SpawnedProcs(slot)
           Child(t) == [FreeSlot EXCEPT !.st = "booting", !.tenant = t]
<1>1. /\ slot \in [D -> FreeSlots] /\ DOMAIN slot = D
      /\ \A a, b \in D : slot[a] = slot[b] => a = b
  BY DEF Injection, IsInjective
<1>2. /\ D \subseteq Tenants /\ \A t \in D : worker[t] = NoWorker
      /\ state # "running" => D = {}
  BY DEF Spawnable, HasWorker
<1>3. \A t \in D : slot[t] \in Procs /\ proc[slot[t]].st = "free"
  BY <1>1 DEF FreeSlots
<1>4. \A t \in Tenants : w[t] = IF t \in D THEN NewInfo(slot[t]) ELSE worker[t]
  BY <1>1 DEF SpawnedWorkers
<1>5. WorkersOK(w)
  BY <1>1, <1>3, NewInfoType DEF WorkersOK, SpawnedWorkers
<1>6. \A p \in Procs, t \in D : slot[t] = p =>
         c[p] = Child(t)
  <2> SUFFICES ASSUME NEW p \in Procs, NEW t \in D, slot[t] = p
               PROVE  c[p] = Child(t)
    OBVIOUS
  <2>1. (CHOOSE u \in DOMAIN slot : slot[u] = p) = t
    BY <1>1
  <2>2. QED
    BY <1>1, <2>1 DEF SpawnedProcs
<1>7. \A p \in Procs : (\A t \in D : slot[t] # p) => c[p] = proc[p]
  BY <1>1 DEF SpawnedProcs
<1>8. \A t \in Tenants : /\ Child(t) \in Process /\ Child(t).st = "booting"
                          /\ Child(t).tenant = t /\ ~Child(t).ready
  BY DEF FreeSlot, Process
<1>11. c = [p \in Procs |-> c[p]]
  BY DEF SpawnedProcs
<1>12. (state # "running" => w = worker)
  BY <1>1, <1>2 DEF SpawnedWorkers, WorkersOK
<1> HIDE DEF D, w, c, Child
<1>9. ProcsOK(c)
  <2>1. \A p \in Procs : /\ c[p] \in Process
                         /\ c[p].st # "free" => c[p].tenant \in Tenants
                         /\ c[p].ready => c[p].st # "free"
    BY <1>2, <1>6, <1>7, <1>8 DEF ProcsOK
  <2>2. QED
    BY <1>11, <2>1 DEF ProcsOK
<1>10. ASSUME Paired(worker, proc)
       PROVE  Paired(w, c)
  <2>1. ASSUME NEW p \in Procs, c[p].st # "free"
        PROVE  w[c[p].tenant] # NoWorker /\ w[c[p].tenant].proc = p
    <3>1. CASE \E t \in D : slot[t] = p
      BY <1>2, <1>3, <1>4, <1>6, <1>8, <3>1, NewInfoType
    <3>2. CASE \A t \in D : slot[t] # p
      BY <1>2, <1>4, <1>7, <1>10, <2>1, <3>2 DEF Paired, ProcsOK
    <3>3. QED
      BY <3>1, <3>2
  <2>2. ASSUME NEW t \in Tenants, w[t] # NoWorker
        PROVE  c[w[t].proc].st # "free" /\ c[w[t].proc].tenant = t
    <3>1. CASE t \in D
      BY <1>3, <1>4, <1>6, <1>8, <3>1, NewInfoType
    <3>2. CASE t \notin D
      <4>1. w[t] = worker[t] /\ worker[t].proc \in Procs
        BY <1>4, <2>2, <3>2 DEF WorkersOK, Info
      <4>2. proc[worker[t].proc].st # "free" /\ proc[worker[t].proc].tenant = t
        BY <1>10, <2>2, <4>1 DEF Paired
      <4>3. c[worker[t].proc] = proc[worker[t].proc]
        BY <1>3, <1>7, <4>1, <4>2
      <4>4. QED
        BY <4>1, <4>2, <4>3
    <3>3. QED
      BY <3>1, <3>2
  <2>3. QED
    BY <2>1, <2>2 DEF Paired
<1>13. \A p \in Procs : c[p] = proc[p] \/ \E t \in Tenants : c[p] = Child(t)
  BY <1>2, <1>6, <1>7
<1>14. ASSUME NEW t \in Tenants
       PROVE  \/ w[t] = worker[t] /\ (worker[t] # NoWorker /\ Paired(worker, proc) =>
                                        c[worker[t].proc] = proc[worker[t].proc])
              \/ \E p \in Procs : w[t] = NewInfo(p) /\ c[p] = Child(t)
  <2>1. CASE t \in D
    BY <1>3, <1>4, <1>6, <2>1
  <2>2. CASE t \notin D
    BY <1>3, <1>4, <1>7, <2>2 DEF Paired, WorkersOK, Info
  <2>3. QED
    BY <2>1, <2>2
<1>15. QED
  BY <1>5, <1>9, <1>10, <1>12, <1>13, <1>14 DEF w, c, Child
-----------------------------------------------------------------------------
(* Each step keeps the invariant *)

\* A step that leaves processes and entries in pairs.
LEMMA AlikeStep ==
    ASSUME IInv, Alike(worker, proc, worker', proc'), UNCHANGED <<state, drain, timeouts>>
    PROVE  StrayInv'
<1>1. WorkersOK(worker) /\ ProcsOK(proc)
  BY DEF IInv, TInv, TypeOK, WorkersOK
<1>2. ASSUME timeouts = 0
      PROVE  Paired(worker', proc') /\ Drained(state, worker', drain)
  BY <1>1, <1>2, AlikePaired, AlikeDrained DEF IInv, StrayInv
<1>3. QED
  BY <1>2 DEF StrayInv, Paired, Drained

\* A step that changes one child and neither entries nor anything else the invariant is about.
LEMMA ChildStep ==
    ASSUME IInv, NEW p \in Procs, NEW f \in Process, proc[p].st # "free", f.st # "free",
           f.tenant = proc[p].tenant, proc' = [proc EXCEPT ![p] = f],
           WorkersOK(worker'), poll' \in [Polls -> Poll],
           \A t \in Tenants : (worker'[t] = NoWorker <=> worker[t] = NoWorker)
                              /\ (worker[t] # NoWorker => worker'[t].proc = worker[t].proc),
           UNCHANGED <<state, wanted, backoff, drain, sinceCheck, clocked, timeouts>>,
           crashes' \in Nat, hangs' \in Nat, toggles' \in Nat, stops' \in Nat, pollErrors' \in Nat
    PROVE  IInv'
<1>1. \A q \in Procs : proc'[q] = IF q = p THEN f ELSE proc[q]
  BY DEF IInv, TInv, TypeOK
<1>2. ProcsOK(proc')
  BY <1>1 DEF IInv, TInv, TypeOK, ProcsOK
<1>3. Alike(worker, proc, worker', proc')
  BY <1>1 DEF Alike
<1>4. TInv'
  BY <1>2 DEF IInv, TInv, TypeOK, ProcsOK, WorkersOK
<1>5. QED
  BY <1>3, <1>4, AlikeStep DEF IInv

LEMMA InitInv == Init => IInv
<1> SUFFICES ASSUME Init PROVE IInv
  OBVIOUS
<1>1. IdlePoll \in Poll /\ 0 \in 0 .. CheckEvery
  BY TimesAssumption DEF IdlePoll, Poll
<1>2. TypeOK
  BY <1>1, FreeSlotType, TimesAssumption DEF Init, TypeOK
<1>3. ProcsOK(proc)
  BY FreeSlotType DEF Init, ProcsOK
<1>4. Paired(worker, proc) /\ Drained(state, worker, drain)
  BY FreeSlotType DEF Init, Paired, Drained
<1>5. QED
  BY <1>2, <1>3, <1>4 DEF IInv, TInv, StrayInv

LEMMA LifeInv ==
    ASSUME IInv, Start \/ Stop \/ Stopped \/ \E t \in Tenants : ToggleTenant(t)
    PROVE  IInv'
<1> USE DEF IInv, TInv
<1>1. CASE Start
  <2>1. TypeOK' /\ ProcsOK(proc')
    BY <1>1, TimesAssumption DEF Start, TypeOK, ProcsOK, faultVars
  <2>2. StrayInv'
    BY <1>1 DEF Start, StrayInv, Paired, Drained, faultVars
  <2>3. QED
    BY <2>1, <2>2 DEF ProcsOK
<1>2. CASE Stop
  <2> DEFINE ts == {t \in Tenants : HasWorker(t)}
  <2>1. WorkersOK(worker) /\ ProcsOK(proc) /\ \A t \in ts : worker[t] # NoWorker
    BY DEF TypeOK, WorkersOK, HasWorker
  <2>2. AskToStop(ts, worker, proc) /\ drain' = {worker[t].proc : t \in ts}
    BY <1>2 DEF Stop
  <2>3. WorkersOK(worker') /\ ProcsOK(proc') /\ Alike(worker, proc, worker', proc')
    BY <2>1, <2>2, AskToStopKeeps
  <2>4. drain' \subseteq Procs
    BY <2>1, <2>2 DEF WorkersOK, Info
  <2>5. TypeOK' /\ ProcsOK(proc')
    BY <1>2, <2>3, <2>4 DEF Stop, TypeOK, WorkersOK, ProcsOK
  <2>6. Drained("shutting_down", worker', drain')
    BY <2>2, <2>3 DEF Drained, Alike, HasWorker
  <2>7. timeouts = 0 => Paired(worker', proc')
    BY <2>1, <2>3, AlikePaired DEF StrayInv
  <2>8. state' = "shutting_down" /\ UNCHANGED timeouts
    BY <1>2 DEF Stop
  <2>9. QED
    BY <2>5, <2>6, <2>7, <2>8 DEF StrayInv, Paired, Drained, ProcsOK
<1>3. CASE Stopped
  <2>1. TypeOK' /\ ProcsOK(proc')
    BY <1>3 DEF Stopped, TypeOK, ProcsOK, faultVars
  <2>2. StrayInv'
    BY <1>3 DEF Stopped, StrayInv, Paired, Drained, faultVars
  <2>3. QED
    BY <2>1, <2>2 DEF ProcsOK
<1>4. ASSUME NEW t \in Tenants, ToggleTenant(t)
      PROVE  IInv'
  <2>1. TypeOK' /\ ProcsOK(proc')
    BY <1>4 DEF ToggleTenant, TypeOK, ProcsOK
  <2>2. StrayInv'
    BY <1>4 DEF ToggleTenant, StrayInv, Paired, Drained
  <2>3. QED
    BY <2>1, <2>2 DEF ProcsOK
<1>5. QED
  BY <1>1, <1>2, <1>3, <1>4

LEMMA BackoffInv ==
    ASSUME IInv, NEW t \in Tenants, BackoffOver(t)
    PROVE  IInv'
<1>1. PICK slot \in Injection(Spawnable({t}), FreeSlots) :
         worker' = SpawnedWorkers(slot) /\ proc' = SpawnedProcs(slot)
  BY DEF BackoffOver
<1>2. WorkersOK(worker) /\ ProcsOK(proc)
  BY DEF IInv, TInv, TypeOK, WorkersOK
<1>3. /\ WorkersOK(worker') /\ ProcsOK(proc')
      /\ Paired(worker, proc) => Paired(worker', proc')
      /\ state # "running" => worker' = worker
  BY <1>1, <1>2, SpawnKeeps
<1>4. backoff' \in [Tenants -> Nat]
  BY DEF BackoffOver, IInv, TInv, TypeOK
<1>5. UNCHANGED <<state, wanted, poll, drain, sinceCheck, faultVars>>
  BY DEF BackoffOver
<1>6. TInv'
  BY <1>3, <1>4, <1>5 DEF IInv, TInv, TypeOK, WorkersOK, ProcsOK, faultVars
<1>7. StrayInv'
  BY <1>3, <1>5 DEF IInv, StrayInv, Paired, Drained, faultVars
<1>8. QED
  BY <1>6, <1>7 DEF IInv
\* The steps of a discovery, and the exit it may be waiting for.
LEMMA PollInv ==
    ASSUME IInv, NEW k \in Polls, PollStart(k) \/ PollRead(k) \/ PollFails(k)
    PROVE  IInv'
<1>1. WorkersOK(worker) /\ ProcsOK(proc)
  BY DEF IInv, TInv, TypeOK, WorkersOK
<1>2. CASE PollStart(k) \/ PollFails(k)
  <2>1. [poll[k] EXCEPT !.pc = "reading"] \in Poll /\ IdlePoll \in Poll
    BY DEF IInv, TInv, TypeOK, Poll, IdlePoll
  <2>2. poll' \in [Polls -> Poll]
    BY <1>2, <2>1 DEF PollStart, PollFails, IInv, TInv, TypeOK
  <2>3. TypeOK' /\ ProcsOK(proc')
    BY <1>2, <2>2 DEF PollStart, PollFails, IInv, TInv, TypeOK, ProcsOK, faultVars
  <2>4. StrayInv'
    BY <1>2 DEF PollStart, PollFails, IInv, StrayInv, Paired, Drained, faultVars
  <2>5. QED
    BY <2>3, <2>4 DEF IInv, TInv, ProcsOK
<1>3. CASE PollRead(k)
  <2>1. PICK slot \in Injection(Spawnable(wanted), FreeSlots) :
          SecondLoop({k}, [x \in {k} |-> wanted], SpawnedWorkers(slot), SpawnedProcs(slot))
    BY <1>3 DEF PollRead
  <2> DEFINE w == SpawnedWorkers(slot)
             c == SpawnedProcs(slot)
             ids == [x \in {k} |-> wanted]
  <2>2. wanted \in SUBSET Tenants /\ poll \in [Polls -> Poll] /\ {k} \in SUBSET Polls
    BY DEF IInv, TInv, TypeOK
  <2>3. /\ WorkersOK(w) /\ ProcsOK(c)
        /\ Paired(worker, proc) => Paired(w, c)
        /\ state # "running" => w = worker
    BY <1>1, <2>2, SpawnKeeps
  <2>4. SecondLoop({k}, ids, w, c) /\ \A x \in {k} : ids[x] \in SUBSET Tenants
    BY <2>1, <2>2
  <2> HIDE DEF w, c, ids
  <2>5. /\ WorkersOK(worker') /\ ProcsOK(proc') /\ Alike(w, c, worker', proc')
        /\ poll' \in [Polls -> Poll]
    BY <2>2, <2>3, <2>4, SecondLoopKeeps
  <2>6. UNCHANGED <<state, wanted, backoff, drain, sinceCheck, faultVars>>
    BY <1>3 DEF PollRead
  <2>7. TInv'
    BY <2>5, <2>6 DEF IInv, TInv, TypeOK, WorkersOK, ProcsOK, faultVars
  <2>8. ASSUME timeouts = 0
        PROVE  Paired(worker', proc') /\ Drained(state, worker', drain)
    <3>1. Paired(w, c) /\ Drained(state, w, drain)
      BY <2>3, <2>8 DEF IInv, StrayInv, Drained
    <3>2. QED
      BY <2>3, <2>5, <3>1, AlikePaired, AlikeDrained
  <2>9. QED
    BY <2>6, <2>7, <2>8 DEF IInv, StrayInv, Paired, Drained, faultVars
<1>4. QED
  BY <1>2, <1>3

\* An entry deleted, a process killed.
LEMMA WithoutType ==
    ASSUME TInv, NEW p \in Procs
    PROVE  WorkersOK(WorkersWithout(p)) /\ ProcsOK(ProcsKilled(p))
<1>1. WorkersOK(WorkersWithout(p))
  BY DEF WorkersWithout, TInv, TypeOK, WorkersOK
<1>2. ProcsOK(ProcsKilled(p))
  BY DEF ProcsKilled, Alive, Living, TInv, ProcsOK, Process
<1>3. QED
  BY <1>1, <1>2

LEMMA TimeoutInv ==
    ASSUME IInv, (\E k \in Polls : PollTimeout(k)) \/ (\E p \in Procs : StopTimeout(p))
    PROVE  IInv'
<1>1. ASSUME NEW k \in Polls, PollTimeout(k)
      PROVE  TInv' /\ timeouts' # 0
  <2> DEFINE p == poll[k].wait
  <2>1. p \in Procs /\ poll \in [Polls -> Poll] /\ {k} \in SUBSET Polls
    BY <1>1 DEF PollTimeout, IInv, TInv, TypeOK, Poll
  <2>2. WorkersOK(WorkersWithout(p)) /\ ProcsOK(ProcsKilled(p))
    BY <2>1, WithoutType DEF IInv
  <2>3. SecondLoop({k}, Ids, WorkersWithout(p), ProcsKilled(p))
        /\ \A x \in {k} : Ids[x] \in SUBSET Tenants
    BY <1>1, <2>1 DEF PollTimeout, Ids, Poll
  <2>4. WorkersOK(worker') /\ ProcsOK(proc') /\ poll' \in [Polls -> Poll]
    BY <2>1, <2>2, <2>3, SecondLoopKeeps
  <2>5. QED
    BY <1>1, <2>4 DEF PollTimeout, GiveUp, IInv, TInv, TypeOK, WorkersOK, ProcsOK
<1>2. ASSUME NEW p \in Procs, StopTimeout(p)
      PROVE  TInv' /\ timeouts' # 0
  <2>1. WorkersOK(worker') /\ ProcsOK(proc')
    BY <1>2, WithoutType DEF StopTimeout, IInv
  <2>2. QED
    BY <1>2, <2>1 DEF StopTimeout, GiveUp, IInv, TInv, TypeOK, WorkersOK, ProcsOK
<1>3. QED
  BY <1>1, <1>2 DEF IInv, StrayInv

LEMMA ChildInv ==
    ASSUME IInv, NEW p \in Procs,
           Boot(p) \/ CrashChild(p) \/ Hang(p) \/ ShutDown(p) \/ HandleReady(p) \/ HandlePong(p)
    PROVE  IInv'
<1> DEFINE t == proc[p].tenant
<1>1. /\ proc[p] \in Process /\ proc[p].st # "free" /\ t \in Tenants
      /\ WorkersOK(worker) /\ poll \in [Polls -> Poll]
      /\ crashes \in Nat /\ hangs \in Nat /\ timeouts \in Nat
      /\ toggles \in Nat /\ stops \in Nat /\ pollErrors \in Nat
  BY DEF IInv, TInv, TypeOK, ProcsOK, WorkersOK, Boot, CrashChild, Hang, ShutDown,
         HandleReady, HandlePong, Alive, Living
<1>2. CASE Boot(p) \/ CrashChild(p) \/ Hang(p) \/ ShutDown(p)
  <2>1. \E f \in Process : /\ f.st # "free" /\ f.tenant = t
                           /\ proc' = [proc EXCEPT ![p] = f]
    <3>1. CASE Boot(p)
      <4> DEFINE f == [proc[p] EXCEPT !.st = "up", !.ready = TRUE]
      <4>1. f \in Process /\ f.st # "free" /\ f.tenant = t
        BY <1>1 DEF Process
      <4>2. proc' = [proc EXCEPT ![p] = f]
        BY <3>1 DEF Boot
      <4>3. QED
        BY <4>1, <4>2
    <3>2. CASE CrashChild(p) \/ Hang(p) \/ ShutDown(p)
      <4>1. PICK to \in {"crashed", "hung", "left"} : proc' = [proc EXCEPT ![p].st = to]
        BY <3>2 DEF CrashChild, Hang, ShutDown
      <4> DEFINE f == [proc[p] EXCEPT !.st = to]
      <4>2. f \in Process /\ f.st # "free" /\ f.tenant = t
        BY <1>1 DEF Process
      <4>3. proc' = [proc EXCEPT ![p] = f]
        BY <4>1
      <4>4. QED
        BY <4>2, <4>3
    <3>3. QED
      BY <1>2, <3>1, <3>2
  <2>2. UNCHANGED <<state, wanted, worker, backoff, poll, drain, sinceCheck, clocked,
                    timeouts, toggles, stops, pollErrors>>
        /\ crashes' \in Nat /\ hangs' \in Nat
    BY <1>1, <1>2 DEF Boot, CrashChild, Hang, ShutDown, faultVars
  <2>3. QED
    BY <1>1, <2>1, <2>2, ChildStep DEF WorkersOK
<1>3. CASE HandleReady(p) \/ HandlePong(p)
  <2>1. \E f \in Process : /\ f.st # "free" /\ f.tenant = t
                           /\ proc' = [proc EXCEPT ![p] = f]
    <3>1. CASE HandleReady(p)
      <4> DEFINE f == [proc[p] EXCEPT !.ready = FALSE]
      <4>1. f \in Process /\ f.st # "free" /\ f.tenant = t
        BY <1>1 DEF Process
      <4>2. proc' = [proc EXCEPT ![p] = f]
        BY <3>1 DEF HandleReady
      <4>3. QED
        BY <4>1, <4>2
    <3>2. CASE HandlePong(p)
      <4> DEFINE f == [proc[p] EXCEPT !.ping = FALSE]
      <4>1. f \in Process /\ f.st # "free" /\ f.tenant = t
        BY <1>1 DEF Process
      <4>2. proc' = [proc EXCEPT ![p] = f]
        BY <3>2 DEF HandlePong
      <4>3. QED
        BY <4>1, <4>2
    <3>3. QED
      BY <1>3, <3>1, <3>2
  <2>2. worker' = worker
        \/ \E g \in Info : /\ worker[t] # NoWorker /\ g.proc = worker[t].proc
                           /\ worker' = [worker EXCEPT ![t] = g]
    <3>1. CASE ~HasWorker(t)
      BY <1>3, <3>1 DEF HandleReady, HandlePong
    <3>2. CASE HasWorker(t) /\ HandleReady(p)
      <4> DEFINE g == [worker[t] EXCEPT !.st = "running"]
      <4>1. g \in Info /\ g.proc = worker[t].proc
        BY <1>1, <3>2 DEF HasWorker, WorkersOK, Info
      <4>2. worker' = [worker EXCEPT ![t] = g]
        BY <3>2 DEF HandleReady
      <4>3. QED
        BY <3>2, <4>1, <4>2 DEF HasWorker
    <3>3. CASE HasWorker(t) /\ HandlePong(p)
      <4> DEFINE g == [worker[t] EXCEPT !.ponged = TRUE, !.age = 0]
      <4>1. 0 \in 0 .. PongWindow + 1
        BY TimesAssumption
      <4>2. g \in Info /\ g.proc = worker[t].proc
        BY <1>1, <3>3, <4>1 DEF HasWorker, WorkersOK, Info
      <4>3. worker' = [worker EXCEPT ![t] = g]
        BY <3>3 DEF HandlePong
      <4>4. QED
        BY <3>3, <4>2, <4>3 DEF HasWorker
    <3>4. QED
      BY <1>3, <3>1, <3>2, <3>3
  <2>3. /\ WorkersOK(worker')
        /\ \A u \in Tenants : (worker'[u] = NoWorker <=> worker[u] = NoWorker)
                              /\ (worker[u] # NoWorker => worker'[u].proc = worker[u].proc)
    BY <1>1, <2>2, WorkerAssumption DEF WorkersOK
  <2>4. UNCHANGED <<state, wanted, backoff, poll, drain, sinceCheck, faultVars>>
    BY <1>3 DEF HandleReady, HandlePong
  <2>5. QED
    BY <1>1, <2>1, <2>3, <2>4, ChildStep DEF faultVars
<1>4. QED
  BY <1>2, <1>3
LEMMA ExitInv ==
    ASSUME IInv, NEW p \in Procs, HandleChildExit(p)
    PROVE  IInv'
<1> DEFINE t == proc[p].tenant
           w == WorkersWithout(p)
           c == [proc EXCEPT ![p] = FreeSlot]
           ks == {k \in Polls : poll[k].wait = p}
<1>1. /\ proc \in [Procs -> Process] /\ proc[p].st # "free" /\ t \in Tenants
      /\ WorkersOK(worker) /\ ProcsOK(proc) /\ poll \in [Polls -> Poll]
  BY DEF HandleChildExit, IInv, TInv, TypeOK, ProcsOK, WorkersOK
<1>2. /\ SecondLoop(ks, Ids, w, c)
      /\ backoff' = backoff \/ backoff' = [backoff EXCEPT ![t] = @ + 1]
      /\ drain' = drain \ {p}
      /\ UNCHANGED <<state, wanted, sinceCheck, faultVars>>
  BY DEF HandleChildExit
<1>3. WorkersOK(w)
  BY WithoutType DEF IInv
<1>4. \A q \in Procs : c[q] = IF q = p THEN FreeSlot ELSE proc[q]
  BY <1>1
<1>5. ProcsOK(c)
  BY <1>1, FreeSlotType DEF ProcsOK
<1>6. \A u \in Tenants : w[u] = IF u = t THEN NoWorker ELSE worker[u]
  BY <1>1 DEF WorkersWithout, WorkersOK
<1>7. \A k \in ks : Ids[k] \in SUBSET Tenants
  BY <1>1 DEF Ids, Poll
<1>8. ASSUME timeouts = 0
      PROVE  Paired(w, c) /\ Drained(state, w, drain \ {p})
  <2>1. Paired(worker, proc) /\ Drained(state, worker, drain)
    BY <1>8 DEF IInv, StrayInv
  <2>2. worker[t] # NoWorker /\ worker[t].proc = p
    BY <1>1, <2>1 DEF Paired
  <2>3. ASSUME NEW q \in Procs, c[q].st # "free"
        PROVE  w[c[q].tenant] # NoWorker /\ w[c[q].tenant].proc = q
    <3>1. q # p /\ c[q] = proc[q]
      BY <1>4, <2>3, FreeSlotType
    <3>2. /\ proc[q].tenant \in Tenants /\ worker[proc[q].tenant] # NoWorker
          /\ worker[proc[q].tenant].proc = q
      BY <1>1, <2>1, <2>3, <3>1 DEF Paired, ProcsOK
    <3>3. proc[q].tenant # t
      BY <2>2, <3>1, <3>2
    <3>4. w[proc[q].tenant] = worker[proc[q].tenant]
      BY <1>6, <3>2, <3>3
    <3>5. QED
      BY <3>1, <3>2, <3>4
  <2>4. \A u \in Tenants : w[u] # NoWorker =>
            u # t /\ w[u] = worker[u] /\ worker[u].proc \in Procs /\ worker[u].proc # p
            /\ proc[worker[u].proc].st # "free" /\ proc[worker[u].proc].tenant = u
    BY <1>1, <1>6, <2>1 DEF Paired, WorkersOK, Info
  <2>5. Paired(w, c)
    BY <1>4, <2>3, <2>4 DEF Paired
  <2>6. Drained(state, w, drain \ {p})
    BY <2>1, <2>4 DEF Drained
  <2>7. QED
    BY <2>5, <2>6
<1> HIDE DEF w, c
<1>9. /\ WorkersOK(worker') /\ ProcsOK(proc') /\ Alike(w, c, worker', proc')
      /\ poll' \in [Polls -> Poll]
  BY <1>1, <1>2, <1>3, <1>5, <1>7, SecondLoopKeeps
<1>10. backoff' \in [Tenants -> Nat] /\ drain' \subseteq Procs
  BY <1>1, <1>2 DEF IInv, TInv, TypeOK
<1>11. TInv'
  BY <1>2, <1>9, <1>10 DEF IInv, TInv, TypeOK, WorkersOK, ProcsOK, faultVars
<1>12. ASSUME timeouts = 0
       PROVE  Paired(worker', proc') /\ Drained(state, worker', drain')
  BY <1>2, <1>3, <1>5, <1>8, <1>9, <1>12, AlikePaired, AlikeDrained
<1>13. QED
  BY <1>2, <1>11, <1>12 DEF IInv, StrayInv, Paired, Drained, faultVars

LEMMA HealthInv ==
    ASSUME IInv, RunHealthChecks \/ Tick
    PROVE  IInv'
<1>1. /\ WorkersOK(worker) /\ ProcsOK(proc) /\ 0 \in 0 .. CheckEvery
      /\ sinceCheck \in 0 .. CheckEvery
  BY TimesAssumption DEF IInv, TInv, TypeOK, WorkersOK
<1>2. CASE RunHealthChecks
  <2> DEFINE kill == {t \in Running : Unresponsive(t)}
             ping == Running \ kill
             procsOf(ts) == {worker[t].proc : t \in ts}
  <2>1. /\ proc' = [p \in Procs |->
                  IF ~Alive(p) THEN proc[p]
                  ELSE IF p \in procsOf(kill) THEN [proc[p] EXCEPT !.st = "crashed"]
                  ELSE IF p \in procsOf(ping) THEN [proc[p] EXCEPT !.ping = TRUE]
                  ELSE proc[p]]
        /\ worker' = [t \in Tenants |-> IF t \in ping THEN [worker[t] EXCEPT !.pinged = TRUE]
                                        ELSE worker[t]]
        /\ sinceCheck' = 0
        /\ UNCHANGED <<state, wanted, backoff, poll, drain, faultVars>>
    BY <1>2 DEF RunHealthChecks
  <2>2. \A t \in ping : t \in Tenants /\ worker[t] # NoWorker
    BY DEF Running, HasWorker
  <2> HIDE DEF kill, ping, procsOf
  <2>3. \A t \in Tenants : worker[t] # NoWorker =>
            /\ [worker[t] EXCEPT !.pinged = TRUE] \in Info
            /\ [worker[t] EXCEPT !.pinged = TRUE].proc = worker[t].proc
    BY <1>1 DEF WorkersOK, Info
  <2>4. WorkersOK(worker')
    BY <1>1, <2>1, <2>2, <2>3 DEF WorkersOK
  <2>5. \A t \in Tenants : (worker'[t] = NoWorker <=> worker[t] = NoWorker)
                           /\ (worker[t] # NoWorker => worker'[t].proc = worker[t].proc)
    BY <2>1, <2>2, <2>3, WorkerAssumption
  <2>6. \A p \in Procs :
            \/ proc'[p] = proc[p]
            \/ Alive(p) /\ proc'[p] = [proc[p] EXCEPT !.st = "crashed"]
            \/ Alive(p) /\ proc'[p] = [proc[p] EXCEPT !.ping = TRUE]
    BY <2>1
  <2>7. \A p \in Procs : /\ proc'[p] \in Process
                         /\ (proc'[p].st = "free" <=> proc[p].st = "free")
                         /\ proc'[p].tenant = proc[p].tenant /\ proc'[p].ready = proc[p].ready
    <3>1. TAKE p \in Procs
    <3>2. proc[p] \in Process /\ (Alive(p) => proc[p].st # "free")
      BY <1>1 DEF ProcsOK, Alive, Living
    <3>3. CASE proc'[p] = proc[p]
      BY <3>2, <3>3
    <3>4. CASE Alive(p) /\ proc'[p] = [proc[p] EXCEPT !.st = "crashed"]
      BY <3>2, <3>4 DEF Process
    <3>5. CASE Alive(p) /\ proc'[p] = [proc[p] EXCEPT !.ping = TRUE]
      BY <3>2, <3>5 DEF Process
    <3>6. QED
      BY <2>6, <3>3, <3>4, <3>5
  <2>8. ProcsOK(proc')
    BY <1>1, <2>1, <2>7 DEF ProcsOK
  <2>9. Alike(worker, proc, worker', proc')
    BY <2>5, <2>7 DEF Alike
  <2>10. TInv'
    BY <1>1, <2>1, <2>4, <2>8 DEF IInv, TInv, TypeOK, WorkersOK, ProcsOK, faultVars
  <2>11. QED
    BY <2>1, <2>9, <2>10, AlikeStep DEF IInv, faultVars
<1>3. CASE Tick
  <2>1. \A t \in Tenants : worker[t] # NoWorker /\ worker[t].age <= PongWindow =>
            /\ [worker[t] EXCEPT !.age = @ + 1] \in Info
            /\ [worker[t] EXCEPT !.age = @ + 1].proc = worker[t].proc
    BY <1>1, TimesAssumption DEF WorkersOK, Info
  <2>2. /\ worker' = [t \in Tenants |->
                        IF HasWorker(t) /\ worker[t].ponged /\ worker[t].age <= PongWindow
                        THEN [worker[t] EXCEPT !.age = @ + 1] ELSE worker[t]]
        /\ sinceCheck' = sinceCheck + 1 /\ sinceCheck < CheckEvery
        /\ UNCHANGED <<state, wanted, proc, backoff, poll, drain, faultVars>>
    BY <1>3 DEF Tick
  <2>3. WorkersOK(worker')
    BY <1>1, <2>1, <2>2 DEF WorkersOK, HasWorker
  <2>4. \A t \in Tenants : (worker'[t] = NoWorker <=> worker[t] = NoWorker)
                           /\ (worker[t] # NoWorker => worker'[t].proc = worker[t].proc)
    BY <2>1, <2>2, WorkerAssumption DEF HasWorker
  <2>5. Alike(worker, proc, worker', proc')
    BY <2>2, <2>4 DEF Alike
  <2>6. sinceCheck' \in 0 .. CheckEvery
    BY <1>1, <2>2, TimesAssumption
  <2>7. TInv'
    BY <2>2, <2>3, <2>6 DEF IInv, TInv, TypeOK, WorkersOK, ProcsOK, faultVars
  <2>8. QED
    BY <2>2, <2>5, <2>7, AlikeStep DEF IInv, faultVars
<1>4. QED
  BY <1>2, <1>3

LEMMA NextInv == IInv /\ [Next]_vars => IInv'
<1> SUFFICES ASSUME IInv, [Next]_vars PROVE IInv'
  OBVIOUS
<1>1. CASE UNCHANGED vars
  BY <1>1 DEF vars, faultVars, IInv, TInv, StrayInv, TypeOK, ProcsOK, Paired, Drained
<1>2. CASE Next
  BY <1>2, LifeInv, BackoffInv, PollInv, TimeoutInv, ChildInv, ExitInv, HealthInv DEF Next
<1>3. QED
  BY <1>1, <1>2

LEMMA StrayFromInv == IInv => NoStrayProcess
<1> SUFFICES ASSUME IInv, timeouts = 0, NEW p \in Procs, Alive(p)
             PROVE  HasWorker(proc[p].tenant) /\ worker[proc[p].tenant].proc = p
                    /\ state # "stopped"
  BY DEF NoStrayProcess
<1>1. proc[p].st # "free" /\ proc[p].tenant \in Tenants
  BY DEF Alive, Living, IInv, TInv, ProcsOK
<1>2. Paired(worker, proc) /\ Drained(state, worker, drain)
  BY DEF IInv, StrayInv
<1>3. QED
  BY <1>1, <1>2 DEF Paired, Drained, HasWorker

-----------------------------------------------------------------------------

\* The orchestrator's entries, processes and discoveries keep their types, whatever
\* messages and exits come late.
THEOREM OrchestratorTypeOK == Spec => []TypeOK
<1>1. IInv => TypeOK
  BY DEF IInv, TInv
<1>2. QED
  BY <1>1, InitInv, NextInv, PTL DEF Spec

\* As long as no graceful stop was given up, a living process is the one its tenant's
\* entry names - so no tenant has two - and none lives once stop() is done.
THEOREM NoTenantHasTwo == Spec => []NoStrayProcess
BY StrayFromInv, InitInv, NextInv, PTL DEF Spec
-----------------------------------------------------------------------------
(* Who answers is killed by the window alone *)

\* The health check has a child that answered in its entry's books: entry i, process
\* f, n ticks after the last check.  Only a worker that is up is "running", has
\* answered or is pinged; its last answer came after the last check, or the ping of
\* that check is under way.
Healthy(i, f, n) ==
    /\ i.st = "running" \/ i.ponged \/ f.ping => f.st # "booting" /\ ~f.ready
    /\ i.st = "running" /\ i.ponged /\ f.st = "up" =>
          IF f.ping THEN n = 0 /\ i.age <= CheckEvery ELSE i.age <= n

HealthOK(w, c, n) ==
    /\ \A p \in Procs : c[p].ready => c[p].st # "booting"
    /\ \A t \in Tenants : w[t] # NoWorker => Healthy(w[t], c[w[t].proc], n)

PongInv == timeouts = 0 /\ HealthOK(worker, proc, sinceCheck)

\* No living child that is not hung was killed by this step.
Spares == \A p \in Procs : proc[p].st \in {"booting", "up"} => proc'[p].st # "crashed"

\* ... or only such as were up and had answered each ping, since the window is shorter
\* than the checks are apart.
WindowKills ==
    \A p \in Procs : proc[p].st \in {"booting", "up"} /\ proc'[p].st = "crashed" =>
        proc[p].st = "up" /\ ~proc[p].ping /\ PongWindow < CheckEvery

LEMMA PongFacts ==
    ASSUME IInv, PongInv
    PROVE  /\ WorkersOK(worker) /\ ProcsOK(proc) /\ Paired(worker, proc)
           /\ Drained(state, worker, drain) /\ poll \in [Polls -> Poll]
           /\ HealthOK(worker, proc, sinceCheck) /\ sinceCheck \in 0..CheckEvery
           /\ CheckEvery \in Nat /\ CheckEvery > 0 /\ PongWindow \in Nat
BY TimesAssumption DEF PongInv, IInv, TInv, StrayInv, TypeOK, WorkersOK

LEMMA AskHealth ==
    ASSUME NEW w, NEW c, NEW n, WorkersOK(w), ProcsOK(c), NEW ts \in SUBSET Tenants,
           \A t \in ts : w[t] # NoWorker, AskToStop(ts, w, c), HealthOK(w, c, n)
    PROVE  HealthOK(worker', proc', n) /\ \A p \in Procs : proc'[p].st = c[p].st
<1>1. ASSUME NEW p \in Procs
      PROVE  /\ proc'[p].st = c[p].st /\ proc'[p].ready = c[p].ready
             /\ proc'[p].ping = c[p].ping
  <2>1. c[p] \in Process /\ (proc'[p] = c[p] \/ proc'[p] = [c[p] EXCEPT !.asked = TRUE])
    BY DEF AskToStop, ProcsOK
  <2>2. QED
    BY <2>1 DEF Process
<1>2. ASSUME NEW t \in Tenants, worker'[t] # NoWorker
      PROVE  /\ w[t] # NoWorker /\ w[t].proc \in Procs /\ worker'[t].proc = w[t].proc
             /\ worker'[t].ponged = w[t].ponged /\ worker'[t].age = w[t].age
             /\ worker'[t].st = "running" => w[t].st = "running"
  <2>1. worker'[t] = w[t] \/ (w[t] # NoWorker /\ worker'[t] = [w[t] EXCEPT !.st = "stopping"])
    BY DEF AskToStop
  <2>2. w[t] # NoWorker /\ w[t] \in Info
    BY <1>2, <2>1 DEF WorkersOK
  <2>3. QED
    BY <2>1, <2>2 DEF Info
<1>3. ASSUME NEW t \in Tenants, worker'[t] # NoWorker
      PROVE  Healthy(worker'[t], proc'[worker'[t].proc], n)
  <2>1. Healthy(w[t], c[w[t].proc], n)
    BY <1>2, <1>3 DEF HealthOK
  <2>2. QED
    BY <1>1, <1>2, <1>3, <2>1 DEF Healthy
<1>4. QED
  BY <1>1, <1>3 DEF HealthOK

LEMMA LoopHealth ==
    ASSUME NEW w, NEW c, NEW n, WorkersOK(w), ProcsOK(c), HealthOK(w, c, n),
           NEW ks \in SUBSET Polls, NEW ids, SecondLoop(ks, ids, w, c)
    PROVE  HealthOK(worker', proc', n) /\ \A p \in Procs : proc'[p].st = c[p].st
<1>1. PICK next \in [ks -> Tenants \cup {NoTenant}] :
        /\ \A k \in ks :
             LET gone == {t \in Tenants \ ids[k] : w[t] # NoWorker} IN
             next[k] \in (IF gone = {} THEN {NoTenant} ELSE gone)
        /\ AskToStop({next[k] : k \in ks} \ {NoTenant}, w, c)
  BY DEF SecondLoop
<1>2. \A k \in ks : next[k] # NoTenant => next[k] \in Tenants /\ w[next[k]] # NoWorker
  BY <1>1
<1>3. QED
  BY <1>1, <1>2, AskHealth

\* A child that is spawned is not pinged and has not answered.
LEMMA SpawnHealth ==
    ASSUME WorkersOK(worker), ProcsOK(proc), Paired(worker, proc), NEW n,
           HealthOK(worker, proc, n), NEW ts \in SUBSET Tenants,
           NEW slot \in Injection(Spawnable(ts), FreeSlots)
    PROVE  /\ HealthOK(SpawnedWorkers(slot), SpawnedProcs(slot), n)
           /\ \A p \in Procs : \/ SpawnedProcs(slot)[p].st = proc[p].st
                               \/ SpawnedProcs(slot)[p].st = "booting"
<1>1. PICK w : w = SpawnedWorkers(slot)
  OBVIOUS
<1>2. PICK c : c = SpawnedProcs(slot)
  OBVIOUS
<1> DEFINE Child(t) == [FreeSlot EXCEPT !.st = "booting", !.tenant = t]
<1>3. \A t : Child(t).st = "booting" /\ ~Child(t).ready /\ ~Child(t).ping
  BY DEF FreeSlot
<1>4. /\ \A p \in Procs : c[p] = proc[p] \/ \E t \in Tenants : c[p] = Child(t)
      /\ \A t \in Tenants :
            \/ w[t] = worker[t] /\ (worker[t] # NoWorker => c[worker[t].proc] = proc[worker[t].proc])
            \/ \E p \in Procs : w[t] = NewInfo(p) /\ c[p] = Child(t)
  <2>1. /\ \A p \in Procs : \/ SpawnedProcs(slot)[p] = proc[p]
                              \/ \E t \in Tenants : SpawnedProcs(slot)[p] = Child(t)
        /\ \A t \in Tenants :
              \/ SpawnedWorkers(slot)[t] = worker[t]
                 /\ (worker[t] # NoWorker /\ Paired(worker, proc) =>
                       SpawnedProcs(slot)[worker[t].proc] = proc[worker[t].proc])
              \/ \E p \in Procs : /\ SpawnedWorkers(slot)[t] = NewInfo(p)
                                  /\ SpawnedProcs(slot)[p] = Child(t)
    BY SpawnKeeps
  <2> HIDE DEF Child
  <2>2. QED
    BY <1>1, <1>2, <2>1
<1> HIDE DEF Child
<1>5. \A p \in Procs : NewInfo(p).st = "spawning" /\ ~NewInfo(p).ponged /\ NewInfo(p).proc = p
  BY DEF NewInfo
<1>6. ASSUME NEW t \in Tenants, w[t] # NoWorker PROVE Healthy(w[t], c[w[t].proc], n)
  <2>1. CASE w[t] = worker[t] /\ (worker[t] # NoWorker => c[worker[t].proc] = proc[worker[t].proc])
    BY <1>6, <2>1 DEF HealthOK
  <2>2. ASSUME NEW p \in Procs, w[t] = NewInfo(p), c[p] = Child(t)
        PROVE  Healthy(w[t], c[w[t].proc], n)
    BY <1>3, <1>5, <2>2 DEF Healthy
  <2>3. QED
    BY <1>4, <2>1, <2>2
<1>7. \A p \in Procs : c[p].ready => c[p].st # "booting"
  BY <1>3, <1>4 DEF HealthOK
<1>8. \A p \in Procs : c[p].st = proc[p].st \/ c[p].st = "booting"
  BY <1>3, <1>4
<1>9. QED
  BY <1>1, <1>2, <1>6, <1>7, <1>8 DEF HealthOK

LEMMA LifeHealth ==
    ASSUME IInv, PongInv, Start \/ Stop \/ Stopped \/ \E t \in Tenants : ToggleTenant(t)
    PROVE  PongInv' /\ Spares
<1>1. CASE Start
  <2>1. \A t \in Tenants : worker[t] = NoWorker
    BY <1>1, PongFacts DEF Start, Drained
  <2>2. QED
    BY <1>1, <2>1 DEF Start, PongInv, HealthOK, Spares, faultVars
<1>2. CASE Stop
  <2>1. PICK ts : ts = {t \in Tenants : HasWorker(t)}
    OBVIOUS
  <2>2. /\ AskToStop(ts, worker, proc) /\ UNCHANGED <<sinceCheck, timeouts>>
        /\ ts \in SUBSET Tenants /\ \A t \in ts : worker[t] # NoWorker
    BY <1>2, <2>1 DEF Stop, HasWorker
  <2>3. HealthOK(worker', proc', sinceCheck) /\ \A p \in Procs : proc'[p].st = proc[p].st
    BY <2>2, PongFacts, AskHealth
  <2>4. QED
    BY <2>2, <2>3 DEF PongInv, HealthOK, Healthy, Spares
<1>3. CASE Stopped \/ \E t \in Tenants : ToggleTenant(t)
  BY <1>3 DEF Stopped, ToggleTenant, PongInv, HealthOK, Healthy, Spares, faultVars
<1>4. QED
  BY <1>1, <1>2, <1>3

LEMMA BackoffHealth ==
    ASSUME IInv, PongInv, NEW t \in Tenants, BackoffOver(t)
    PROVE  PongInv' /\ Spares
<1>1. PICK slot \in Injection(Spawnable({t}), FreeSlots) :
         worker' = SpawnedWorkers(slot) /\ proc' = SpawnedProcs(slot)
  BY DEF BackoffOver
<1>2. /\ HealthOK(worker', proc', sinceCheck)
      /\ \A p \in Procs : proc'[p].st = proc[p].st \/ proc'[p].st = "booting"
  BY <1>1, PongFacts, SpawnHealth
<1>3. UNCHANGED <<sinceCheck, timeouts>>
  BY DEF BackoffOver, faultVars
<1>4. QED
  BY <1>2, <1>3 DEF PongInv, HealthOK, Healthy, Spares

LEMMA PollHealth ==
    ASSUME IInv, PongInv, NEW k \in Polls, PollStart(k) \/ PollRead(k) \/ PollFails(k)
    PROVE  PongInv' /\ Spares
<1>1. CASE PollStart(k) \/ PollFails(k)
  BY <1>1 DEF PollStart, PollFails, PongInv, HealthOK, Healthy, Spares, faultVars
<1>2. CASE PollRead(k)
  <2>1. PICK slot \in Injection(Spawnable(wanted), FreeSlots) :
          SecondLoop({k}, [x \in {k} |-> wanted], SpawnedWorkers(slot), SpawnedProcs(slot))
    BY <1>2 DEF PollRead
  <2>2. wanted \in SUBSET Tenants /\ {k} \in SUBSET Polls
    BY DEF IInv, TInv, TypeOK
  <2>3. PICK w, c, ids : /\ w = SpawnedWorkers(slot) /\ c = SpawnedProcs(slot)
                         /\ ids = [x \in {k} |-> wanted]
    OBVIOUS
  <2>4. WorkersOK(w) /\ ProcsOK(c)
    BY <2>2, <2>3, PongFacts, SpawnKeeps
  <2>5. HealthOK(w, c, sinceCheck) /\ \A p \in Procs : c[p].st = proc[p].st \/ c[p].st = "booting"
    BY <2>2, <2>3, PongFacts, SpawnHealth
  <2>6. SecondLoop({k}, ids, w, c)
    BY <2>1, <2>3
  <2>7. HealthOK(worker', proc', sinceCheck) /\ \A p \in Procs : proc'[p].st = c[p].st
    BY <2>2, <2>4, <2>5, <2>6, LoopHealth
  <2>8. UNCHANGED <<sinceCheck, timeouts>>
    BY <1>2 DEF PollRead, faultVars
  <2>9. QED
    BY <2>5, <2>7, <2>8 DEF PongInv, HealthOK, Healthy, Spares
<1>3. QED
  BY <1>1, <1>2

\* What happens to a child and its entry happens to no other.
LEMMA OneHealth ==
    ASSUME IInv, PongInv, NEW p \in Procs, proc[p].st # "free",
           \A q \in Procs : q # p => proc'[q] = proc[q],
           \A u \in Tenants : u # proc[p].tenant => worker'[u] = worker[u],
           worker'[proc[p].tenant].proc = p, proc'[p].ready => proc'[p].st # "booting",
           Healthy(worker[proc[p].tenant], proc[p], sinceCheck) =>
              Healthy(worker'[proc[p].tenant], proc'[p], sinceCheck),
           UNCHANGED <<sinceCheck, timeouts>>
    PROVE  PongInv'
<1>1. PICK t : t = proc[p].tenant
  OBVIOUS
<1>2. t \in Tenants /\ worker[t] # NoWorker /\ worker[t].proc = p
  BY <1>1, PongFacts DEF Paired, ProcsOK
<1>3. ASSUME NEW u \in Tenants, worker'[u] # NoWorker
      PROVE  Healthy(worker'[u], proc'[worker'[u].proc], sinceCheck)
  <2>1. CASE u = t
    BY <1>1, <1>2, <2>1 DEF PongInv, HealthOK
  <2>2. CASE u # t
    <3>1. worker'[u] = worker[u] /\ worker[u].proc # p /\ worker[u].proc \in Procs
      BY <1>1, <1>2, <1>3, <2>2, PongFacts DEF Paired, WorkersOK, Info
    <3>2. QED
      BY <1>3, <3>1 DEF PongInv, HealthOK
  <2>3. QED
    BY <2>1, <2>2
<1>4. \A q \in Procs : proc'[q].ready => proc'[q].st # "booting"
  BY DEF PongInv, HealthOK
<1>5. QED
  BY <1>3, <1>4 DEF PongInv, HealthOK, Healthy

LEMMA ChildHealth ==
    ASSUME IInv, PongInv, NEW p \in Procs,
           Boot(p) \/ CrashChild(p) \/ Hang(p) \/ ShutDown(p) \/ HandleReady(p) \/ HandlePong(p)
    PROVE  PongInv' /\ (Spares \/ crashes' # crashes)
<1>1. PICK t : t = proc[p].tenant
  OBVIOUS
<1>2. /\ proc \in [Procs -> Process] /\ proc[p] \in Process /\ proc[p].st # "free"
      /\ WorkersOK(worker) /\ UNCHANGED <<sinceCheck, timeouts>>
  BY PongFacts DEF ProcsOK, Boot, CrashChild, Hang, ShutDown, HandleReady, HandlePong,
     Alive, Living, faultVars
<1>3. t \in Tenants /\ worker[t] # NoWorker /\ worker[t].proc = p /\ worker[t] \in Info
  BY <1>1, <1>2, PongFacts DEF Paired, ProcsOK, WorkersOK
<1>4. (proc[p].ready => proc[p].st # "booting") /\ crashes \in Nat /\ sinceCheck \in Nat
  BY DEF PongInv, HealthOK, IInv, TInv, TypeOK
<1>5. CASE Boot(p)
  <2>1. worker' = worker /\ proc' = [proc EXCEPT ![p].st = "up", ![p].ready = TRUE]
        /\ proc[p].st = "booting"
    BY <1>5 DEF Boot
  <2>2. /\ proc'[p].st = "up" /\ proc'[p].ping = proc[p].ping
        /\ \A q \in Procs : q # p => proc'[q] = proc[q]
    BY <1>2, <2>1 DEF Process
  <2>3. Healthy(worker[t], proc[p], sinceCheck) => Healthy(worker'[t], proc'[p], sinceCheck)
    BY <2>1, <2>2 DEF Healthy
  <2>4. PongInv'
    BY <1>1, <1>2, <1>3, <2>1, <2>2, <2>3, OneHealth
  <2>5. QED
    BY <2>2, <2>4 DEF Spares
<1>6. CASE CrashChild(p) \/ Hang(p) \/ ShutDown(p)
  <2>1. PICK to \in {"crashed", "hung", "left"} :
          /\ proc' = [proc EXCEPT ![p].st = to] /\ worker' = worker
          /\ to = "crashed" => crashes' = crashes + 1
    BY <1>6 DEF CrashChild, Hang, ShutDown
  <2>2. /\ proc'[p].st = to /\ proc'[p].ping = proc[p].ping /\ proc'[p].ready = proc[p].ready
        /\ \A q \in Procs : q # p => proc'[q] = proc[q]
    BY <1>2, <2>1 DEF Process
  <2>3. Healthy(worker[t], proc[p], sinceCheck) => Healthy(worker'[t], proc'[p], sinceCheck)
    BY <2>1, <2>2 DEF Healthy
  <2>4. PongInv'
    BY <1>1, <1>2, <1>3, <2>1, <2>2, <2>3, OneHealth
  <2>5. QED
    BY <1>4, <2>1, <2>2, <2>4 DEF Spares
<1>7. CASE HandleReady(p)
  <2>1. /\ worker' = [worker EXCEPT ![t].st = "running"] /\ proc[p].ready
        /\ proc' = [proc EXCEPT ![p].ready = FALSE]
    BY <1>1, <1>3, <1>7 DEF HandleReady, HasWorker
  <2>2. /\ proc'[p].st = proc[p].st /\ proc'[p].ping = proc[p].ping /\ ~proc'[p].ready
        /\ \A q \in Procs : q # p => proc'[q] = proc[q]
    BY <1>2, <2>1 DEF Process
  <2>3. /\ worker'[t].proc = p /\ worker'[t].ponged = worker[t].ponged
        /\ \A u \in Tenants : u # t => worker'[u] = worker[u]
    BY <1>2, <1>3, <2>1 DEF WorkersOK, Info
  <2>4. Healthy(worker[t], proc[p], sinceCheck) => Healthy(worker'[t], proc'[p], sinceCheck)
    BY <1>4, <2>1, <2>2, <2>3 DEF Healthy
  <2>5. PongInv'
    BY <1>1, <1>2, <2>2, <2>3, <2>4, OneHealth
  <2>6. QED
    BY <2>2, <2>5 DEF Spares
<1>8. CASE HandlePong(p)
  <2>1. /\ worker' = [worker EXCEPT ![t].ponged = TRUE, ![t].age = 0]
        /\ proc[p].ping /\ proc[p].st = "up" /\ proc' = [proc EXCEPT ![p].ping = FALSE]
    BY <1>1, <1>3, <1>8 DEF HandlePong, HasWorker
  <2>2. /\ proc'[p].st = "up" /\ ~proc'[p].ping /\ proc'[p].ready = proc[p].ready
        /\ \A q \in Procs : q # p => proc'[q] = proc[q]
    BY <1>2, <2>1 DEF Process
  <2>3. /\ worker'[t].proc = p /\ worker'[t].age = 0
        /\ \A u \in Tenants : u # t => worker'[u] = worker[u]
    BY <1>2, <1>3, <2>1 DEF WorkersOK, Info
  <2>4. Healthy(worker[t], proc[p], sinceCheck) => Healthy(worker'[t], proc'[p], sinceCheck)
    BY <1>4, <2>1, <2>2, <2>3 DEF Healthy
  <2>5. PongInv'
    BY <1>1, <1>2, <2>2, <2>3, <2>4, OneHealth
  <2>6. QED
    BY <2>2, <2>5 DEF Spares
<1>9. QED
  BY <1>5, <1>6, <1>7, <1>8

LEMMA ExitHealth ==
    ASSUME IInv, PongInv, NEW p \in Procs, HandleChildExit(p)
    PROVE  PongInv' /\ Spares
<1>1. PICK w, c, ks :
         /\ w = WorkersWithout(p) /\ c = [proc EXCEPT ![p] = FreeSlot]
         /\ ks = {k \in Polls : poll[k].wait = p}
  OBVIOUS
<1>2. SecondLoop(ks, Ids, w, c) /\ UNCHANGED <<sinceCheck, timeouts>>
  BY <1>1 DEF HandleChildExit, faultVars
<1>3. /\ proc \in [Procs -> Process] /\ WorkersOK(worker) /\ ProcsOK(proc)
      /\ proc[p].st # "free" /\ proc[p].tenant \in Tenants
  BY PongFacts DEF HandleChildExit, ProcsOK
<1>4. \A q \in Procs : c[q] = IF q = p THEN FreeSlot ELSE proc[q]
  BY <1>1, <1>3
<1>5. WorkersOK(w)
  BY <1>1, WithoutType DEF IInv
<1>6. ProcsOK(c)
  BY <1>1, <1>3, <1>4, FreeSlotType DEF ProcsOK
<1>7. \A u \in Tenants : w[u] = IF u = proc[p].tenant THEN NoWorker ELSE worker[u]
  BY <1>1, <1>3 DEF WorkersWithout, WorkersOK
<1>8. ASSUME NEW u \in Tenants, w[u] # NoWorker PROVE Healthy(w[u], c[w[u].proc], sinceCheck)
  <2>1. w[u] = worker[u] /\ worker[u].proc \in Procs /\ worker[u].proc # p
    BY <1>3, <1>7, <1>8, PongFacts DEF Paired, WorkersOK, Info
  <2>2. QED
    BY <1>4, <1>8, <2>1 DEF PongInv, HealthOK
<1>9. HealthOK(w, c, sinceCheck)
  BY <1>4, <1>8, FreeSlotType DEF PongInv, HealthOK
<1>10. HealthOK(worker', proc', sinceCheck) /\ \A q \in Procs : proc'[q].st = c[q].st
  <2>1. ks \in SUBSET Polls
    BY <1>1
  <2>2. QED
    BY <1>2, <1>5, <1>6, <1>9, <2>1, LoopHealth
<1>11. Spares
  BY <1>4, <1>10, FreeSlotType DEF Spares
<1>12. QED
  BY <1>2, <1>10, <1>11 DEF PongInv, HealthOK, Healthy

LEMMA TickHealth == ASSUME IInv, PongInv, Tick PROVE PongInv' /\ Spares
<1>1. /\ UNCHANGED <<proc, timeouts>> /\ sinceCheck' = sinceCheck + 1 /\ sinceCheck \in Nat
      /\ \A p \in Procs : ~(proc[p].ping /\ proc[p].st = "up")
  BY PongFacts DEF Tick, faultVars
<1>2. ASSUME NEW t \in Tenants, worker'[t] # NoWorker
      PROVE  Healthy(worker'[t], proc'[worker'[t].proc], sinceCheck')
  <2>1. worker'[t] = worker[t] \/ (HasWorker(t) /\ worker'[t] = [worker[t] EXCEPT !.age = @ + 1])
    BY DEF Tick
  <2>2. worker[t] # NoWorker /\ worker[t] \in Info
    BY <1>2, <2>1, PongFacts DEF HasWorker, WorkersOK
  <2>3. /\ worker'[t].proc = worker[t].proc /\ worker'[t].st = worker[t].st
        /\ worker'[t].ponged = worker[t].ponged
        /\ worker'[t].age = worker[t].age \/ worker'[t].age = worker[t].age + 1
        /\ worker[t].age \in Nat /\ worker[t].proc \in Procs
    BY <2>1, <2>2 DEF Info
  <2>4. Healthy(worker[t], proc[worker[t].proc], sinceCheck)
    BY <2>2 DEF PongInv, HealthOK
  <2>5. QED
    BY <1>1, <2>3, <2>4 DEF Healthy
<1>3. QED
  BY <1>1, <1>2 DEF PongInv, HealthOK, Spares

\* A child that is up answered after the last check, which is not too long ago.
LEMMA CheckHealth ==
    ASSUME IInv, PongInv, RunHealthChecks
    PROVE  PongInv' /\ WindowKills
<1>1. PICK kill : kill = {t \in Running : Unresponsive(t)}
  OBVIOUS
<1>2. PICK ping : ping = Running \ kill
  OBVIOUS
<1>3. /\ sinceCheck = CheckEvery /\ sinceCheck' = 0 /\ UNCHANGED timeouts
      /\ \A p \in Procs :
            proc'[p] = IF ~Alive(p) THEN proc[p]
                       ELSE IF p \in {worker[t].proc : t \in kill}
                            THEN [proc[p] EXCEPT !.st = "crashed"]
                       ELSE IF p \in {worker[t].proc : t \in ping}
                            THEN [proc[p] EXCEPT !.ping = TRUE]
                       ELSE proc[p]
      /\ \A t \in Tenants : worker'[t] = IF t \in ping THEN [worker[t] EXCEPT !.pinged = TRUE]
                                         ELSE worker[t]
  BY <1>1, <1>2 DEF RunHealthChecks, faultVars
<1>4. /\ WorkersOK(worker) /\ ProcsOK(proc) /\ CheckEvery \in Nat /\ CheckEvery > 0
      /\ PongWindow \in Nat
      /\ \A t, u \in Tenants : worker[t] # NoWorker /\ worker[u] # NoWorker
                               /\ worker[t].proc = worker[u].proc => t = u
  BY PongFacts DEF Paired
<1>5. ASSUME NEW t \in Tenants, worker[t] # NoWorker
      PROVE  /\ worker[t] \in Info /\ proc[worker[t].proc] \in Process
             /\ Healthy(worker[t], proc[worker[t].proc], CheckEvery)
  BY <1>3, <1>4, <1>5 DEF WorkersOK, ProcsOK, Info, PongInv, HealthOK
\* Who is killed is not up, or answered and the window was too short.
<1>6. ASSUME NEW t \in kill, proc[worker[t].proc].st \in {"booting", "up"}
      PROVE  /\ proc[worker[t].proc].st = "up" /\ ~proc[worker[t].proc].ping
             /\ PongWindow < CheckEvery
  <2>1. /\ t \in Tenants /\ worker[t] # NoWorker /\ worker[t].st = "running"
        /\ worker[t].ponged /\ worker[t].age > PongWindow
    BY <1>1 DEF Running, HasWorker, Unresponsive
  <2>2. worker[t].age \in Nat
    BY <1>5, <2>1, TimesAssumption DEF Info
  <2>3. QED
    BY <1>4, <1>5, <1>6, <2>1, <2>2 DEF Healthy
<1>7. WindowKills
  <2> SUFFICES ASSUME NEW p \in Procs, proc[p].st \in {"booting", "up"},
                      proc'[p].st = "crashed"
               PROVE  proc[p].st = "up" /\ ~proc[p].ping /\ PongWindow < CheckEvery
    BY DEF WindowKills
  <2>1. p \in {worker[t].proc : t \in kill}
    <3>1. SUFFICES ASSUME p \notin {worker[t].proc : t \in kill} PROVE FALSE
      OBVIOUS
    <3>2. /\ proc[p] \in Process
          /\ proc'[p] = proc[p] \/ proc'[p] = [proc[p] EXCEPT !.ping = TRUE]
      BY <1>3, <1>4, <3>1 DEF ProcsOK
    <3>3. QED
      BY <3>2 DEF Process
  <2>2. QED
    BY <1>6, <2>1
<1>8. ASSUME NEW t \in Tenants, worker'[t] # NoWorker
      PROVE  Healthy(worker'[t], proc'[worker'[t].proc], 0)
  <2>1. worker[t] # NoWorker
    BY <1>2, <1>3, <1>8 DEF Running, HasWorker
  <2>2. PICK i, f : i = worker[t] /\ f = proc[worker[t].proc]
    OBVIOUS
  <2>3. i \in Info /\ f \in Process /\ Healthy(i, f, CheckEvery) /\ i.proc \in Procs
    BY <1>5, <2>1, <2>2 DEF Info
  <2>4. /\ worker'[t].proc = i.proc /\ worker'[t].st = i.st /\ worker'[t].ponged = i.ponged
        /\ worker'[t].age = i.age
    BY <1>3, <2>2, <2>3 DEF Info
  <2>5. CASE proc'[i.proc] = f /\ (Alive(i.proc) => t \notin Running)
    <3>1. Healthy(i, f, 0)
      BY <2>1, <2>2, <2>3, <2>5 DEF Healthy, Alive, Living, Running, HasWorker
    <3>2. QED
      BY <2>4, <2>5, <3>1 DEF Healthy
  <2>6. CASE proc'[i.proc] = [f EXCEPT !.st = "crashed"]
    <3>1. /\ proc'[i.proc].st = "crashed" /\ proc'[i.proc].ping = f.ping
          /\ proc'[i.proc].ready = f.ready
      BY <2>3, <2>6 DEF Process
    <3>2. QED
      BY <2>3, <2>4, <3>1 DEF Healthy
  <2>7. CASE t \in Running /\ proc'[i.proc] = [f EXCEPT !.ping = TRUE]
    <3>1. /\ proc'[i.proc].st = f.st /\ proc'[i.proc].ping = TRUE
          /\ proc'[i.proc].ready = f.ready
      BY <2>3, <2>7 DEF Process
    <3>2. i.st = "running" /\ i.age \in Nat
      BY <2>2, <2>3, <2>7, TimesAssumption DEF Running, Info
    <3>3. QED
      BY <1>4, <2>3, <2>4, <3>1, <3>2 DEF Healthy
  <2>8. \/ proc'[i.proc] = f /\ (Alive(i.proc) => t \notin Running)
        \/ proc'[i.proc] = [f EXCEPT !.st = "crashed"]
        \/ t \in Running /\ proc'[i.proc] = [f EXCEPT !.ping = TRUE]
    <3>1. t \in Running => t \in kill \/ t \in ping
      BY <1>2
    <3>2. \A u \in ping : worker[u].proc = i.proc => u = t
      BY <1>2, <1>4, <2>1, <2>2 DEF Running, HasWorker
    <3>3. \A u \in ping : u \in Running
      BY <1>2
    <3>4. QED
      BY <1>3, <2>2, <2>3, <3>1, <3>2, <3>3
  <2>9. QED
    BY <2>4, <2>5, <2>6, <2>7, <2>8
<1>9. \A p \in Procs : proc'[p].ready => proc'[p].st # "booting"
  <2>1. \A p \in Procs : /\ proc[p] \in Process /\ (proc[p].ready => proc[p].st # "booting")
                         /\ \/ proc'[p] = proc[p]
                            \/ proc'[p] = [proc[p] EXCEPT !.st = "crashed"]
                            \/ proc'[p] = [proc[p] EXCEPT !.ping = TRUE]
    BY <1>3, <1>4 DEF ProcsOK, PongInv, HealthOK
  <2>2. QED
    BY <2>1 DEF Process
<1>10. QED
  BY <1>3, <1>7, <1>8, <1>9 DEF PongInv, HealthOK

\* No action takes a given-up stop back.
LEMMA TimeoutsGrow ==
    ASSUME timeouts \in Nat, [Next]_vars, timeouts' = 0 PROVE timeouts = 0
<1>1. timeouts' = timeouts \/ timeouts' = timeouts + 1
  BY DEF Next, vars, faultVars, Start, Stop, Stopped, RunHealthChecks, Tick, BackoffOver,
     ToggleTenant, PollStart, PollRead, PollFails, PollTimeout, Boot, CrashChild, Hang,
     ShutDown, HandleReady, HandlePong, HandleChildExit, StopTimeout, GiveUp
<1>2. QED
  BY <1>1

LEMMA NextHealth ==
    ASSUME IInv, PongInv, [Next]_vars, timeouts' = 0
    PROVE  PongInv' /\ (Spares \/ WindowKills \/ crashes' # crashes)
<1>1. ASSUME UNCHANGED vars PROVE PongInv' /\ Spares
  BY <1>1 DEF vars, faultVars, PongInv, HealthOK, Healthy, Spares
<1>2. /\ \A k \in Polls : ~PollTimeout(k)
      /\ \A p \in Procs : ~StopTimeout(p)
  BY DEF PongInv, PollTimeout, StopTimeout, GiveUp
<1>3. ASSUME Start \/ Stop \/ Stopped \/ RunHealthChecks \/ Tick
      PROVE  PongInv' /\ (Spares \/ WindowKills)
  BY <1>3, LifeHealth, TickHealth, CheckHealth
<1>4. ASSUME NEW t \in Tenants, BackoffOver(t) \/ ToggleTenant(t) PROVE PongInv' /\ Spares
  BY <1>4, LifeHealth, BackoffHealth
<1>5. ASSUME NEW k \in Polls, PollStart(k) \/ PollRead(k) \/ PollFails(k) \/ PollTimeout(k)
      PROVE  PongInv' /\ Spares
  <2>1. PollStart(k) \/ PollRead(k) \/ PollFails(k)
    BY <1>2, <1>5
  <2>2. QED
    BY <2>1, PollHealth
<1>6. ASSUME NEW p \in Procs,
             \/ Boot(p) \/ CrashChild(p) \/ Hang(p) \/ ShutDown(p)
             \/ HandleReady(p) \/ HandlePong(p) \/ HandleChildExit(p) \/ StopTimeout(p)
      PROVE  PongInv' /\ (Spares \/ crashes' # crashes)
  <2>1. CASE \/ Boot(p) \/ CrashChild(p) \/ Hang(p)
             \/ ShutDown(p) \/ HandleReady(p) \/ HandlePong(p)
    BY <2>1, ChildHealth
  <2>2. CASE HandleChildExit(p)
    BY <2>2, ExitHealth
  <2>3. CASE StopTimeout(p)
    BY <1>2, <2>3
  <2>4. QED
    BY <1>6, <2>1, <2>2, <2>3
<1>7. QED
  BY <1>1, <1>3, <1>4, <1>5, <1>6 DEF Next

\* The health check ends a child that is not hung (a step in which no child crashes,
\* and no graceful stop was given up so far) only if that child is up and answered
\* every ping it was sent, and only where the window for a pong is shorter than the
\* checks are apart: no interleaving of restarts, late messages and stops makes it
\* kill another's worker or one it did not ask (runHealthChecks, handleChildMessage).
\* With the code's 30 s and 20 s the last condition is met: see ResponsiveNotKilled.
THEOREM OnlyTheWindowKills ==
    Spec => [][timeouts' = 0 /\ crashes' = crashes => WindowKills]_vars
<1> DEFINE JInv == IInv /\ (timeouts = 0 => PongInv)
<1>1. Init => JInv
  <2>1. Init => PongInv
    BY FreeSlotType DEF Init, PongInv, HealthOK, FreeSlot
  <2>2. QED
    BY <2>1, InitInv
<1>2. JInv /\ [Next]_vars => JInv' /\ [timeouts' = 0 /\ crashes' = crashes => WindowKills]_vars
  <2> SUFFICES ASSUME JInv, [Next]_vars
               PROVE  JInv' /\ (timeouts' = 0 /\ crashes' = crashes => WindowKills)
    OBVIOUS
  <2>1. IInv' /\ timeouts \in Nat
    BY NextInv DEF IInv, TInv, TypeOK
  <2>2. ASSUME timeouts' = 0
        PROVE  PongInv' /\ (crashes' = crashes => WindowKills)
    <3>1. PongInv
      BY <2>1, <2>2, TimeoutsGrow
    <3>2. PongInv' /\ (Spares \/ WindowKills \/ crashes' # crashes)
      BY <2>2, <3>1, NextHealth
    <3>3. QED
      BY <3>2 DEF Spares, WindowKills
  <2>3. QED
    BY <2>1, <2>2
<1> HIDE DEF JInv
<1>3. QED
  BY <1>1, <1>2, PTL DEF Spec
=============================================================================
