-------------------------- MODULE BackendSyncProofs --------------------------
(***************************************************************************)
(* Proofs about BackendSync: its type invariant, and that no stock change  *)
(* a report has written is forgotten, for any number of workers, jobs,     *)
(* attempts and failures.                                                  *)
(***************************************************************************)
EXTENDS BackendSync, FiniteSetTheorems, TLAPS

-----------------------------------------------------------------------------
(* Lemmas about the operators the model is built from *)

\* What a channel should show is a level, and not below zero online.
LEMMA ExpectedType ==
    ASSUME NEW p \in Products, NEW c \in Channels, NEW q \in Levels
    PROVE  /\ Expected(p, c, q) \in Levels
           /\ IsOnlineChannel(ChannelType[c]) => Expected(p, c, q) >= 0
<1>1. Buffer[p] \in Nat /\ MaxStock \in Nat
  BY BackendProducts
<1>2. QED
  BY <1>1 DEF Expected, ExpectedStock, CalculateOnlineStock, Levels

\* Every payload is a sequence of changes, and not an empty one.
LEMMA PayloadType ==
    ASSUME NEW y \in Payload
    PROVE  y \in Seq(Change) /\ Len(y) >= 1 /\ 1 \in DOMAIN y
<1>1. CASE \E e \in Change : y = <<e>>
  BY <1>1
<1>2. CASE \E o \in Orders : y = Items(o)
  <2>1. PICK o \in Orders : y = Items(o)
    BY <1>2
  <2>2. o \in Seq(Products) /\ o # <<>>
    BY BackendOrders
  <2>3. Len(o) \in Nat /\ Len(o) >= 1 /\ DOMAIN o = 1..Len(o)
    BY <2>2
  <2>4. -1 \in Levels
    BY BackendProducts DEF Levels
  <2>5. \A k \in 1..Len(o) : [prod |-> o[k], qty |-> -1] \in Change
    BY <2>2, <2>4 DEF Change
  <2>6. y = [k \in 1..Len(o) |-> [prod |-> o[k], qty |-> -1]]
    BY <2>1, <2>3 DEF Items
  <2>7. y \in Seq(Change) /\ Len(y) = Len(o)
    BY <2>3, <2>5, <2>6
  <2>8. QED
    BY <2>3, <2>7
<1>3. QED
  BY <1>1, <1>2 DEF Payload

\* A job in a slot: its fields, and the change at an index of it.
LEMMA ReportJobType ==
    ASSUME NEW j \in ReportJob
    PROVE  /\ j.src \in Channels /\ j.tries \in 0..(ReportAttempts - 1)
           /\ j.changes \in Seq(Change) /\ 1 \in DOMAIN j.changes
           /\ Len(j.changes) \in Nat /\ DOMAIN j.changes = 1..Len(j.changes)
           /\ \A k \in DOMAIN j.changes :
                 /\ j.changes[k] \in Change
                 /\ j.changes[k].prod \in Products /\ j.changes[k].qty \in Levels
<1>1. j.src \in Channels /\ j.tries \in 0..(ReportAttempts - 1) /\ j.changes \in Payload
  BY DEF ReportJob
<1>2. j.changes \in Seq(Change) /\ 1 \in DOMAIN j.changes
  BY <1>1, PayloadType
<1>3. Len(j.changes) \in Nat /\ DOMAIN j.changes = 1..Len(j.changes)
  BY <1>2
<1>4. \A k \in DOMAIN j.changes : j.changes[k] \in Change
  BY <1>2
<1>5. QED
  BY <1>1, <1>2, <1>3, <1>4 DEF Change

LEMMA FreshType ==
    ASSUME NEW c \in Channels, NEW p \in Products
    PROVE  Fresh(c, p) \in PushJob
BY BackendBounds DEF Fresh, PushJob

LEMMA RetriedReport ==
    ASSUME NEW j \in ReportJob, j.tries + 1 < ReportAttempts
    PROVE  /\ [j EXCEPT !.tries = @ + 1] \in ReportJob
           /\ [j EXCEPT !.tries = @ + 1].src = j.src
           /\ [j EXCEPT !.tries = @ + 1].changes = j.changes
<1>1. j.tries + 1 \in 0..(ReportAttempts - 1)
  BY ReportJobType, BackendBounds
<1>2. QED
  BY <1>1 DEF ReportJob

LEMMA RetriedPush ==
    ASSUME NEW j \in PushJob, j.tries + 1 < PushAttempts
    PROVE  /\ [j EXCEPT !.tries = @ + 1] \in PushJob
           /\ [j EXCEPT !.tries = @ + 1].src = j.src
           /\ [j EXCEPT !.tries = @ + 1].prod = j.prod
<1>1. j.tries + 1 \in 0..(PushAttempts - 1)
  BY BackendBounds DEF PushJob
<1>2. QED
  BY <1>1 DEF PushJob

-----------------------------------------------------------------------------
(* The type invariant, a part at a time *)

\* A channel that is given a level it may show.
LEMMA ShowStock ==
    ASSUME StockOK, NEW p \in Products, NEW c \in Channels, NEW q \in Levels,
           IsOnlineChannel(ChannelType[c]) => q >= 0,
           shown' = [shown EXCEPT ![p][c] = q], db' = db
    PROVE  StockOK'
<1>1. shown' \in [Products -> [Channels -> Levels]]
  BY DEF StockOK
<1>2. \A x \in Products, y \in Channels : IsOnlineChannel(ChannelType[y]) => shown'[x][y] >= 0
  BY DEF StockOK
<1>3. QED
  BY <1>1, <1>2 DEF StockOK

LEMMA ShowPushed ==
    ASSUME StockOK, NEW p \in Products, NEW c \in Channels, NEW q \in Levels,
           shown' = [shown EXCEPT ![p][c] = Pushed(p, c, q)], db' = db
    PROVE  StockOK'
<1>1. Pushed(p, c, q) \in Levels /\ (IsOnlineChannel(ChannelType[c]) => Pushed(p, c, q) >= 0)
  BY ExpectedType DEF Pushed, StockOK
<1>2. QED
  BY <1>1, ShowStock

LEMMA StoreOK ==
    ASSUME StockOK, NEW j \in ReportJob, NEW i \in DOMAIN j.changes,
           unread \subseteq {x \in Places : x[2] \in Mapping[x[1]]},
           StoreStock(j, i), shown' = shown
    PROVE  StockOK' /\ unread' \subseteq {x \in Places : x[2] \in Mapping[x[1]]}
<1>1. j.changes[i].prod \in Products /\ j.changes[i].qty \in Levels
  BY ReportJobType
<1>2. db' \in [Products -> Levels]
  BY <1>1 DEF StoreStock, StockOK
<1>3. unread' \subseteq {x \in Places : x[2] \in Mapping[x[1]]}
  BY <1>1, BackendProducts DEF StoreStock, Places
<1>4. QED
  BY <1>2, <1>3 DEF StockOK

\* The part of the type invariant a step leaves alone.
LEMMA SameStock == ASSUME StockOK, UNCHANGED stockVars PROVE StockOK'
BY DEF StockOK, stockVars
LEMMA SameReports == ASSUME ReportsOK, UNCHANGED <<reports, h>> PROVE ReportsOK'
BY DEF ReportsOK
LEMMA SamePushes == ASSUME PushesOK, UNCHANGED <<pushes, w>> PROVE PushesOK'
BY DEF PushesOK
LEMMA SameRuns == ASSUME RunsOK, UNCHANGED g PROVE RunsOK'
BY DEF RunsOK

LEMMA EventType ==
    ASSUME events \in 0..MaxEvents, Event
    PROVE  events' \in 0..MaxEvents
BY BackendBounds DEF Event

\* One more report, one more push.
LEMMA MoreReports ==
    ASSUME ReportsOK, NEW j \in ReportJob,
           reports' = [reports EXCEPT ![j] = @ + 1], h' = h
    PROVE  ReportsOK'
<1>1. reports' \in [ReportJob -> Nat]
  BY DEF ReportsOK
<1>2. QED
  BY <1>1 DEF ReportsOK

LEMMA MorePushes ==
    ASSUME PushesOK, NEW j \in PushJob,
           pushes' = [pushes EXCEPT ![j] = @ + 1], w' = w
    PROVE  PushesOK'
<1>1. pushes' \in [PushJob -> Nat]
  BY DEF PushesOK
<1>2. QED
  BY <1>1 DEF PushesOK

LEMMA QueueReportOK ==
    ASSUME ReportsOK, NEW c \in Channels, NEW y \in Payload, QueueReport(c, y), h' = h,
           events \in 0..MaxEvents
    PROVE  ReportsOK' /\ events' \in 0..MaxEvents
<1>1. [src |-> c, changes |-> y, tries |-> 0] \in ReportJob
  BY BackendBounds DEF ReportJob
<1>2. QED
  BY <1>1, MoreReports, EventType DEF QueueReport

\* A slot that is given a record, jobs being as they were put.
LEMMA PutReport ==
    ASSUME ReportsOK, reports' \in [ReportJob -> Nat], NEW s \in ReportSlots,
           NEW j \in ReportJob, NEW i \in DOMAIN j.changes, NEW pc \in {"write", "enqueue"},
           h' = [h EXCEPT ![s] = [pc |-> pc, job |-> {j}, i |-> i]]
    PROVE  ReportsOK'
<1>1. i \in Nat
  BY ReportJobType
<1>2. [pc |-> pc, job |-> {j}, i |-> i]
        \in [pc: {"idle", "write", "enqueue"}, job: SUBSET ReportJob, i: Nat]
  BY <1>1
<1>3. h' \in [ReportSlots -> [pc: {"idle", "write", "enqueue"}, job: SUBSET ReportJob, i: Nat]]
  BY <1>2 DEF ReportsOK
<1>4. h'[s].pc # "idle" /\ h'[s].job = {j} /\ h'[s].i = i
  BY DEF ReportsOK
<1>5. \A x \in ReportSlots \ {s} : h'[x] = h[x]
  BY DEF ReportsOK
<1>6. ASSUME NEW x \in ReportSlots
      PROVE  IF h'[x].pc = "idle" THEN h'[x].job = {}
             ELSE \E k \in ReportJob : h'[x].job = {k} /\ h'[x].i \in DOMAIN k.changes
  <2>1. CASE x = s
    BY <1>4, <2>1
  <2>2. CASE x # s
    BY <1>5, <2>2 DEF ReportsOK
  <2>3. QED
    BY <2>1, <2>2
<1>7. QED
  BY <1>3, <1>6 DEF ReportsOK

LEMMA FreeReport ==
    ASSUME ReportsOK, reports' \in [ReportJob -> Nat], NEW s \in ReportSlots,
           h' = [h EXCEPT ![s] = IdleReport]
    PROVE  ReportsOK'
<1>1. h' \in [ReportSlots -> [pc: {"idle", "write", "enqueue"}, job: SUBSET ReportJob, i: Nat]]
  BY DEF ReportsOK, IdleReport
<1>2. h'[s].pc = "idle" /\ h'[s].job = {} /\ \A x \in ReportSlots \ {s} : h'[x] = h[x]
  BY DEF ReportsOK, IdleReport
<1>3. ASSUME NEW x \in ReportSlots
      PROVE  IF h'[x].pc = "idle" THEN h'[x].job = {}
             ELSE \E k \in ReportJob : h'[x].job = {k} /\ h'[x].i \in DOMAIN k.changes
  BY <1>2 DEF ReportsOK
<1>4. QED
  BY <1>1, <1>3 DEF ReportsOK

\* The same for the slots of pushes, whose record keeps its job to the end.
LEMMA PutPush ==
    ASSUME PushesOK, pushes' \in [PushJob -> Nat], NEW s \in PushSlots,
           NEW r \in [pc: {"read", "push"}, job: SUBSET PushJob, stock: Levels,
                      todo: SUBSET Channels],
           NEW j \in PushJob, r.job = {j}, w' = [w EXCEPT ![s] = r]
    PROVE  PushesOK'
<1>1. w' \in [PushSlots -> [pc: {"idle", "read", "push"}, job: SUBSET PushJob,
                            stock: Levels, todo: SUBSET Channels]]
  BY DEF PushesOK
<1>2. w'[s] = r /\ \A x \in PushSlots \ {s} : w'[x] = w[x]
  BY DEF PushesOK
<1>3. r.pc # "idle"
  OBVIOUS
<1>4. ASSUME NEW x \in PushSlots
      PROVE  IF w'[x].pc = "idle" THEN w'[x].job = {} ELSE \E k \in PushJob : w'[x].job = {k}
  <2>1. CASE x = s
    BY <1>2, <1>3, <2>1
  <2>2. CASE x # s
    BY <1>2, <2>2 DEF PushesOK
  <2>3. QED
    BY <2>1, <2>2
<1>5. QED
  BY <1>1, <1>4 DEF PushesOK

LEMMA FreePush ==
    ASSUME PushesOK, pushes' \in [PushJob -> Nat], NEW s \in PushSlots,
           w' = [w EXCEPT ![s] = IdlePush]
    PROVE  PushesOK'
<1>1. IdlePush \in [pc: {"idle", "read", "push"}, job: SUBSET PushJob, stock: Levels,
                    todo: SUBSET Channels]
  BY BackendProducts DEF IdlePush, Levels
<1>2. w' \in [PushSlots -> [pc: {"idle", "read", "push"}, job: SUBSET PushJob,
                            stock: Levels, todo: SUBSET Channels]]
  BY <1>1 DEF PushesOK
<1>3. w'[s].pc = "idle" /\ w'[s].job = {} /\ \A x \in PushSlots \ {s} : w'[x] = w[x]
  BY DEF PushesOK, IdlePush
<1>4. ASSUME NEW x \in PushSlots
      PROVE  IF w'[x].pc = "idle" THEN w'[x].job = {} ELSE \E k \in PushJob : w'[x].job = {k}
  BY <1>3 DEF PushesOK
<1>5. QED
  BY <1>2, <1>4 DEF PushesOK

-----------------------------------------------------------------------------
(* Each action keeps the type invariant *)

LEMMA TypeInit == Init => TypeOK
<1> SUFFICES ASSUME Init PROVE TypeOK
  OBVIOUS
<1>1. StockOK
  <2>1. InitStock \in Levels
    BY BackendProducts DEF Levels
  <2>2. QED
    BY <2>1, ExpectedType DEF Init, StockOK
<1>2. ReportsOK
  BY DEF Init, ReportsOK, IdleReport
<1>3. PushesOK
  BY BackendProducts DEF Init, PushesOK, IdlePush, Levels
<1>4. RunsOK
  BY BackendProducts DEF Init, RunsOK, IdleRun, Levels
<1>5. events \in 0..MaxEvents
  BY BackendBounds DEF Init
<1>6. failed = {} /\ unread = {} /\ crashed \in BOOLEAN
  BY Zenon DEF Init
<1>7. QED
  BY <1>1, <1>2, <1>3, <1>4, <1>5, <1>6 DEF TypeOK

LEMMA OrderOK ==
    ASSUME TypeOK, NEW c \in Channels, NEW o \in Orders, Order(c, o)
    PROVE  TypeOK'
<1>1. o \in Seq(Products) /\ Len(o) \in Nat /\ DOMAIN o = 1..Len(o)
  BY BackendOrders
<1>2. \A p \in Products : Sold(o, p) \in Nat
  <2>1. IsFiniteSet(1..Len(o))
    BY <1>1, FS_Interval
  <2>2. \A p \in Products : IsFiniteSet({k \in DOMAIN o : o[k] = p})
    BY <1>1, <2>1, FS_Subset
  <2>3. QED
    BY <2>2, FS_CardinalityType DEF Sold
<1>3. StockOK'
  <2>1. ASSUME NEW p \in Products, \E k \in DOMAIN o : o[k] = p
        PROVE  /\ shown'[p] = [shown[p] EXCEPT ![c] = @ - Sold(o, p)]
               /\ shown[p][c] - Sold(o, p) \in Levels /\ shown[p][c] - Sold(o, p) >= 0
    <3>1. shown[p][c] >= Sold(o, p) /\ shown[p][c] \in Levels
      BY <2>1 DEF Order, TypeOK, StockOK
    <3>2. QED
      BY <1>2, <2>1, <3>1, BackendProducts DEF Order, Levels
  <2>2. ASSUME NEW p \in Products, ~\E k \in DOMAIN o : o[k] = p
        PROVE  shown'[p] = shown[p]
    BY <2>2 DEF Order
  <2>3. ASSUME NEW p \in Products
        PROVE  /\ shown'[p] \in [Channels -> Levels]
               /\ \A x \in Channels : IsOnlineChannel(ChannelType[x]) => shown'[p][x] >= 0
    <3>0. /\ shown[p] \in [Channels -> Levels]
          /\ \A x \in Channels : IsOnlineChannel(ChannelType[x]) => shown[p][x] >= 0
      BY DEF TypeOK, StockOK
    <3>1. CASE \E k \in DOMAIN o : o[k] = p
      <4>1. /\ shown'[p] = [shown[p] EXCEPT ![c] = shown[p][c] - Sold(o, p)]
            /\ shown[p][c] - Sold(o, p) \in Levels /\ shown[p][c] - Sold(o, p) >= 0
        BY <2>1, <3>1
      <4>2. QED
        BY <3>0, <4>1
    <3>2. CASE ~\E k \in DOMAIN o : o[k] = p
      BY <2>2, <3>2 DEF TypeOK, StockOK
    <3>3. QED
      BY <3>1, <3>2
  <2>4. shown' \in [Products -> [Channels -> Levels]]
    <3>1. shown' = [p \in Products |-> shown'[p]]
      BY DEF Order
    <3>2. QED
      BY <2>3, <3>1
  <2>5. db' = db
    BY DEF Order
  <2>6. QED
    BY <2>3, <2>4, <2>5 DEF TypeOK, StockOK
<1>4. Items(o) \in Payload
  BY DEF Payload
<1>5. ReportsOK' /\ events' \in 0..MaxEvents
  BY <1>4, QueueReportOK DEF Order, TypeOK, slotVars
<1>6. PushesOK' /\ RunsOK'
  BY SamePushes, SameRuns DEF Order, TypeOK, slotVars
<1>7. QED
  BY <1>3, <1>5, <1>6 DEF Order, TypeOK

LEMMA LevelEventOK ==
    ASSUME TypeOK, NEW p \in Products, NEW c \in Channels, NEW qty, LevelEvent(c, p, qty)
    PROVE  TypeOK'
<1>1. shown[p][c] \in Levels
  BY DEF TypeOK, StockOK
<1>2. qty \in Levels /\ qty >= 0
  BY <1>1, BackendProducts DEF LevelEvent, Levels
<1>3. StockOK'
  BY <1>2, ShowStock DEF LevelEvent, TypeOK
<1>4. <<[prod |-> p, qty |-> qty]>> \in Payload
  BY <1>2 DEF Payload, Change
<1>5. ReportsOK' /\ events' \in 0..MaxEvents
  BY <1>4, QueueReportOK DEF LevelEvent, TypeOK, slotVars
<1>6. PushesOK' /\ RunsOK'
  BY SamePushes, SameRuns DEF LevelEvent, TypeOK, slotVars
<1>7. QED
  BY <1>3, <1>5, <1>6 DEF LevelEvent, TypeOK

LEMMA LostSaleOK ==
    ASSUME TypeOK, NEW p \in Products, NEW c \in Channels, LostSale(c, p)
    PROVE  TypeOK'
<1>1. shown[p][c] \in Levels /\ shown[p][c] > 0
  BY DEF LostSale, TypeOK, StockOK
<1>2. shown[p][c] - 1 \in Levels /\ shown[p][c] - 1 >= 0
  BY <1>1, BackendProducts DEF Levels
<1>3. shown' = [shown EXCEPT ![p][c] = shown[p][c] - 1]
  BY DEF LostSale
<1>4. StockOK'
  BY <1>2, <1>3, ShowStock DEF LostSale, TypeOK
<1>5. ReportsOK' /\ PushesOK' /\ RunsOK'
  BY SameReports, SamePushes, SameRuns DEF LostSale, TypeOK, slotVars, queueVars
<1>6. QED
  BY <1>4, <1>5, EventType DEF LostSale, TypeOK, queueVars

LEMMA SetStockOK ==
    ASSUME TypeOK, NEW p \in Products, NEW qty \in 0..MaxStock, SetStock(p, qty)
    PROVE  TypeOK'
<1>1. StockOK'
  BY BackendProducts DEF SetStock, TypeOK, StockOK, Levels
<1>2. ReportsOK' /\ PushesOK' /\ RunsOK'
  BY SameReports, SamePushes, SameRuns DEF SetStock, TypeOK, slotVars, queueVars
<1>3. QED
  BY <1>1, <1>2, EventType DEF SetStock, TypeOK, queueVars

LEMMA SyncProductOK ==
    ASSUME TypeOK, NEW p \in Products, NEW cs, SyncProduct(p, cs)
    PROVE  TypeOK'
<1>1. pushes' \in [PushJob -> Nat] /\ w' = w
  BY DEF SyncProduct, TypeOK, PushesOK, slotVars
<1>2. PushesOK'
  BY <1>1 DEF TypeOK, PushesOK
<1>3. StockOK' /\ ReportsOK' /\ RunsOK'
  BY SameStock, SameReports, SameRuns DEF SyncProduct, TypeOK, slotVars
<1>4. QED
  BY <1>2, <1>3, EventType DEF SyncProduct, TypeOK

LEMMA TakeReportOK ==
    ASSUME TypeOK, NEW s \in ReportSlots, NEW j \in ReportJob, TakeReport(s, j)
    PROVE  TypeOK'
<1>1. reports' \in [ReportJob -> Nat]
  BY DEF TakeReport, TypeOK, ReportsOK
<1>2. 1 \in DOMAIN j.changes
  BY ReportJobType
<1>3. h' = [h EXCEPT ![s] = [pc |-> "write", job |-> {j}, i |-> 1]]
  BY DEF TakeReport
<1>4. ReportsOK'
  BY <1>1, <1>2, <1>3, PutReport DEF TypeOK
<1>5. StockOK' /\ PushesOK' /\ RunsOK'
  BY SameStock, SamePushes, SameRuns DEF TakeReport, TypeOK
<1>6. QED
  BY <1>4, <1>5 DEF TakeReport, TypeOK, bounds

\* The job of a busy slot, and where it is.
LEMMA BusyReport ==
    ASSUME ReportsOK, NEW s \in ReportSlots, h[s].pc # "idle"
    PROVE  \E j \in ReportJob :
              /\ h[s].job = {j} /\ h[s].i \in DOMAIN j.changes
              /\ h[s] = [pc |-> h[s].pc, job |-> {j}, i |-> h[s].i]
<1>1. PICK j \in ReportJob : h[s].job = {j} /\ h[s].i \in DOMAIN j.changes
  BY DEF ReportsOK
<1>2. h[s] = [pc |-> h[s].pc, job |-> h[s].job, i |-> h[s].i]
  BY DEF ReportsOK
<1>3. QED
  BY <1>1, <1>2

LEMMA WriteStockOK ==
    ASSUME TypeOK, NEW s \in ReportSlots, WriteStock(s)
    PROVE  TypeOK'
<1>1. PICK j \in ReportJob : /\ h[s].job = {j} /\ h[s].i \in DOMAIN j.changes
                             /\ h[s] = [pc |-> h[s].pc, job |-> {j}, i |-> h[s].i]
  BY BusyReport DEF WriteStock, TypeOK
<1>2. StoreStock(j, h[s].i) /\ shown' = shown
  BY <1>1 DEF WriteStock
<1>3. StockOK' /\ unread' \subseteq {x \in Places : x[2] \in Mapping[x[1]]}
  BY <1>1, <1>2, StoreOK DEF TypeOK
<1>4. h' = [h EXCEPT ![s] = [pc |-> "enqueue", job |-> {j}, i |-> h[s].i]]
  <2>1. h' = [h EXCEPT ![s] = [h[s] EXCEPT !.pc = "enqueue"]]
    BY DEF WriteStock
  <2>2. [h[s] EXCEPT !.pc = "enqueue"] = [pc |-> "enqueue", job |-> {j}, i |-> h[s].i]
    BY <1>1
  <2>3. QED
    BY <2>1, <2>2
<1>5. reports' \in [ReportJob -> Nat]
  BY DEF WriteStock, TypeOK, ReportsOK, queueVars
<1>6. ReportsOK'
  BY <1>1, <1>4, <1>5, PutReport DEF TypeOK
<1>7. PushesOK' /\ RunsOK'
  BY SamePushes, SameRuns DEF WriteStock, TypeOK, queueVars
<1>8. QED
  BY <1>3, <1>6, <1>7 DEF WriteStock, TypeOK, queueVars, bounds

LEMMA EnqueuePushOK ==
    ASSUME TypeOK, NEW s \in ReportSlots, EnqueuePush(s)
    PROVE  TypeOK'
<1>1. PICK j \in ReportJob : /\ h[s].job = {j} /\ h[s].i \in DOMAIN j.changes
                             /\ h[s] = [pc |-> h[s].pc, job |-> {j}, i |-> h[s].i]
  BY BusyReport DEF EnqueuePush, TypeOK
<1>2. /\ QueuePush(j, h[s].i)
      /\ h' = [h EXCEPT ![s] = IF h[s].i < Len(j.changes)
                               THEN [pc |-> "write", job |-> {j}, i |-> h[s].i + 1]
                               ELSE IdleReport]
  BY <1>1 DEF EnqueuePush
<1>3. PushesOK'
  <2>1. Fresh(j.src, j.changes[h[s].i].prod) \in PushJob
    BY <1>1, ReportJobType, FreshType
  <2>2. w' = w
    BY DEF EnqueuePush
  <2>3. QED
    BY <1>2, <2>1, <2>2, MorePushes DEF QueuePush, TypeOK
<1>4. reports' \in [ReportJob -> Nat]
  BY DEF EnqueuePush, TypeOK, ReportsOK
<1>5. ReportsOK'
  <2>1. CASE h[s].i < Len(j.changes)
    <3>1. h[s].i + 1 \in DOMAIN j.changes
      BY <1>1, <2>1, ReportJobType
    <3>2. h' = [h EXCEPT ![s] = [pc |-> "write", job |-> {j}, i |-> h[s].i + 1]]
      BY <1>2, <2>1
    <3>3. QED
      BY <1>4, <3>1, <3>2, PutReport DEF TypeOK
  <2>2. CASE ~(h[s].i < Len(j.changes))
    BY <1>2, <1>4, <2>2, FreeReport DEF TypeOK
  <2>3. QED
    BY <2>1, <2>2
<1>6. StockOK' /\ RunsOK'
  BY SameStock, SameRuns DEF EnqueuePush, TypeOK
<1>7. QED
  BY <1>3, <1>5, <1>6 DEF EnqueuePush, TypeOK, bounds

LEMMA ReportFailsOK ==
    ASSUME TypeOK, NEW s \in ReportSlots, ReportFails(s)
    PROVE  TypeOK'
<1>1. PICK j \in ReportJob : h[s].job = {j} /\ h[s].i \in DOMAIN j.changes
  BY BusyReport DEF ReportFails, TypeOK
<1>2. Rethrow(j)
  BY <1>1 DEF ReportFails
<1>3. reports' \in [ReportJob -> Nat] /\ failed' \subseteq Channels \X Products
  <2>1. CASE j.tries + 1 < ReportAttempts
    <3>1. reports' = [reports EXCEPT ![[j EXCEPT !.tries = @ + 1]] = @ + 1] /\ failed' = failed
      BY <1>2, <2>1 DEF Rethrow
    <3>2. [j EXCEPT !.tries = @ + 1] \in ReportJob
      BY <2>1, RetriedReport
    <3>3. QED
      BY <3>1, <3>2 DEF TypeOK, ReportsOK
  <2>2. CASE ~(j.tries + 1 < ReportAttempts)
    <3>1. /\ reports' = reports
          /\ failed' = failed \cup {<<j.src, j.changes[k].prod>> : k \in DOMAIN j.changes}
      BY <1>2, <2>2 DEF Rethrow
    <3>2. QED
      BY <3>1, ReportJobType DEF TypeOK, ReportsOK
  <2>3. QED
    BY <2>1, <2>2
<1>4. ReportsOK'
  BY <1>3, FreeReport DEF ReportFails, TypeOK
<1>5. /\ StockOK' /\ unread' \subseteq {x \in Places : x[2] \in Mapping[x[1]]}
      /\ PushesOK'
  <2>1. CASE UNCHANGED <<db, unread, pushes>>
    BY <2>1, SameStock, SamePushes DEF ReportFails, TypeOK, stockVars
  <2>2. CASE StoreStock(j, h[s].i) /\ UNCHANGED pushes
    <3>1. StockOK' /\ unread' \subseteq {x \in Places : x[2] \in Mapping[x[1]]}
      BY <1>1, <2>2, StoreOK DEF ReportFails, TypeOK
    <3>2. PushesOK'
      BY <2>2, SamePushes DEF ReportFails, TypeOK
    <3>3. QED
      BY <3>1, <3>2
  <2>3. CASE QueuePush(j, h[s].i) /\ UNCHANGED <<db, unread>>
    <3>1. Fresh(j.src, j.changes[h[s].i].prod) \in PushJob
      BY <1>1, ReportJobType, FreshType
    <3>2. PushesOK'
      BY <2>3, <3>1, MorePushes DEF QueuePush, ReportFails, TypeOK
    <3>3. StockOK'
      BY <2>3, SameStock DEF ReportFails, TypeOK, stockVars
    <3>4. QED
      BY <2>3, <3>2, <3>3 DEF TypeOK
  <2>4. QED
    BY <1>1, <2>1, <2>2, <2>3 DEF ReportFails
<1>6. RunsOK'
  BY SameRuns DEF ReportFails, TypeOK
<1>7. QED
  BY <1>3, <1>4, <1>5, <1>6, EventType DEF ReportFails, TypeOK

LEMMA BusyPush ==
    ASSUME PushesOK, NEW s \in PushSlots, w[s].pc # "idle"
    PROVE  /\ \E j \in PushJob : w[s].job = {j}
           /\ w[s] \in [pc: {"idle", "read", "push"}, job: SUBSET PushJob, stock: Levels,
                        todo: SUBSET Channels]
           /\ w[s].stock \in Levels /\ w[s].todo \in SUBSET Channels
BY DEF PushesOK

LEMMA PushJobType ==
    ASSUME NEW j \in PushJob
    PROVE  /\ j.src \in Channels /\ j.prod \in Products
           /\ Mapping[j.prod] \ {j.src} \in SUBSET Channels
BY BackendProducts DEF PushJob

LEMMA TakePushOK ==
    ASSUME TypeOK, NEW s \in PushSlots, NEW j \in PushJob, TakePush(s, j)
    PROVE  TypeOK'
<1> DEFINE r == [pc |-> "read", job |-> {j}, stock |-> 0, todo |-> {}]
<1>1. pushes' \in [PushJob -> Nat]
  BY DEF TakePush, TypeOK, PushesOK
<1>2. r \in [pc: {"read", "push"}, job: SUBSET PushJob, stock: Levels, todo: SUBSET Channels]
      /\ r.job = {j}
  BY BackendProducts DEF Levels
<1>3. w' = [w EXCEPT ![s] = r]
  BY DEF TakePush
<1> HIDE DEF r
<1>4. PushesOK'
  BY <1>1, <1>2, <1>3, PutPush DEF TypeOK
<1>5. StockOK' /\ ReportsOK' /\ RunsOK'
  BY SameStock, SameReports, SameRuns DEF TakePush, TypeOK
<1>6. QED
  BY <1>4, <1>5 DEF TakePush, TypeOK, bounds

LEMMA ReadProductOK ==
    ASSUME TypeOK, NEW s \in PushSlots, ReadProduct(s)
    PROVE  TypeOK'
<1>1. PICK j \in PushJob : w[s].job = {j}
  BY BusyPush DEF ReadProduct, TypeOK
<1> DEFINE targets == Mapping[j.prod] \ {j.src}
           r == [w[s] EXCEPT !.pc = "push", !.stock = db[j.prod], !.todo = targets]
<1>2. w' = [w EXCEPT ![s] = r] /\ unread' = unread \ ({j.prod} \X targets)
  BY <1>1 DEF ReadProduct
<1>3. db[j.prod] \in Levels /\ targets \in SUBSET Channels
  BY PushJobType DEF TypeOK, StockOK
<1>4. w[s] \in [pc: {"idle", "read", "push"}, job: SUBSET PushJob, stock: Levels,
                todo: SUBSET Channels]
  BY BusyPush DEF ReadProduct, TypeOK
<1> HIDE DEF targets
<1>5. r \in [pc: {"read", "push"}, job: SUBSET PushJob, stock: Levels, todo: SUBSET Channels]
      /\ r.job = {j}
  BY <1>1, <1>3, <1>4
<1>6. pushes' \in [PushJob -> Nat]
  BY DEF ReadProduct, TypeOK, PushesOK, queueVars
<1> HIDE DEF r
<1>7. PushesOK'
  BY <1>2, <1>5, <1>6, PutPush DEF TypeOK
<1>8. StockOK' /\ ReportsOK' /\ RunsOK'
  BY SameStock, SameReports, SameRuns DEF ReadProduct, TypeOK, queueVars
<1>9. QED
  BY <1>2, <1>7, <1>8 DEF ReadProduct, TypeOK, queueVars, bounds

\* A push goes on with the channels it has left.
LEMMA FewerTodo ==
    ASSUME PushesOK, NEW s \in PushSlots, w[s].pc = "push", NEW c,
           w' = [w EXCEPT ![s].todo = @ \ {c}], pushes' = pushes
    PROVE  PushesOK'
<1>1. PICK j \in PushJob : w[s].job = {j}
  BY BusyPush
<1> DEFINE r == [w[s] EXCEPT !.todo = w[s].todo \ {c}]
<1>2. w[s] \in [pc: {"idle", "read", "push"}, job: SUBSET PushJob, stock: Levels,
                todo: SUBSET Channels]
  BY BusyPush
<1>3. r \in [pc: {"read", "push"}, job: SUBSET PushJob, stock: Levels, todo: SUBSET Channels]
      /\ r.job = {j}
  BY <1>1, <1>2
<1>4. w' = [w EXCEPT ![s] = r]
  OBVIOUS
<1>5. pushes' \in [PushJob -> Nat]
  BY DEF PushesOK
<1> HIDE DEF r
<1>6. QED
  BY <1>3, <1>4, <1>5, PutPush

LEMMA PushChannelOK ==
    ASSUME TypeOK, NEW s \in PushSlots, NEW c \in Channels, PushChannel(s, c)
    PROVE  TypeOK'
<1>1. PICK j \in PushJob : w[s].job = {j}
  BY BusyPush DEF PushChannel, TypeOK
<1>2. j.prod \in Products /\ w[s].stock \in Levels
  BY PushJobType, BusyPush DEF PushChannel, TypeOK
<1>3. shown' = [shown EXCEPT ![j.prod][c] = Pushed(j.prod, c, w[s].stock)] /\ db' = db
  BY <1>1 DEF PushChannel
<1>4. StockOK'
  BY <1>2, <1>3, ShowPushed DEF TypeOK
<1>5. PushesOK'
  BY FewerTodo DEF PushChannel, TypeOK, queueVars
<1>6. ReportsOK' /\ RunsOK'
  BY SameReports, SameRuns DEF PushChannel, TypeOK, queueVars
<1>7. QED
  BY <1>4, <1>5, <1>6 DEF PushChannel, TypeOK, queueVars, bounds

LEMMA PushChannelFailsOK ==
    ASSUME TypeOK, NEW s \in PushSlots, NEW c \in Channels, PushChannelFails(s, c)
    PROVE  TypeOK'
<1>1. PICK j \in PushJob : w[s].job = {j}
  BY BusyPush DEF PushChannelFails, TypeOK
<1>2. j.prod \in Products /\ w[s].stock \in Levels
  BY PushJobType, BusyPush DEF PushChannelFails, TypeOK
<1>3. db' = db /\ \/ shown' = shown
                  \/ shown' = [shown EXCEPT ![j.prod][c] = Pushed(j.prod, c, w[s].stock)]
  BY <1>1 DEF PushChannelFails
<1>4. StockOK'
  BY <1>2, <1>3, ShowPushed, SameStock DEF TypeOK, stockVars
<1>5. PushesOK'
  BY FewerTodo DEF PushChannelFails, TypeOK, queueVars
<1>6. ReportsOK' /\ RunsOK'
  BY SameReports, SameRuns DEF PushChannelFails, TypeOK, queueVars
<1>7. QED
  BY <1>4, <1>5, <1>6, EventType DEF PushChannelFails, TypeOK, queueVars

LEMMA EndPushOK ==
    ASSUME TypeOK, NEW s \in PushSlots, EndPush(s)
    PROVE  TypeOK'
<1>1. pushes' \in [PushJob -> Nat]
  BY DEF EndPush, TypeOK, PushesOK, queueVars
<1>2. PushesOK'
  BY <1>1, FreePush DEF EndPush, TypeOK
<1>3. StockOK' /\ ReportsOK' /\ RunsOK'
  BY SameStock, SameReports, SameRuns DEF EndPush, TypeOK, queueVars
<1>4. QED
  BY <1>2, <1>3 DEF EndPush, TypeOK, queueVars, bounds

LEMMA PushFailsOK ==
    ASSUME TypeOK, NEW s \in PushSlots, PushFails(s)
    PROVE  TypeOK'
<1>1. PICK j \in PushJob : w[s].job = {j}
  BY BusyPush DEF PushFails, TypeOK
<1>2. pushes' \in [PushJob -> Nat] /\ failed' \subseteq Channels \X Products
  <2>1. CASE j.tries + 1 < PushAttempts
    <3>1. pushes' = [pushes EXCEPT ![[j EXCEPT !.tries = @ + 1]] = @ + 1] /\ failed' = failed
      BY <1>1, <2>1 DEF PushFails
    <3>2. [j EXCEPT !.tries = @ + 1] \in PushJob
      BY <2>1, RetriedPush
    <3>3. QED
      BY <3>1, <3>2 DEF TypeOK, PushesOK
  <2>2. CASE ~(j.tries + 1 < PushAttempts)
    <3>1. pushes' = pushes /\ failed' = failed \cup {<<j.src, j.prod>>}
      BY <1>1, <2>2 DEF PushFails
    <3>2. QED
      BY <3>1, PushJobType DEF TypeOK, PushesOK
  <2>3. QED
    BY <2>1, <2>2
<1>3. PushesOK'
  BY <1>2, FreePush DEF PushFails, TypeOK
<1>4. StockOK' /\ ReportsOK' /\ RunsOK'
  BY SameStock, SameReports, SameRuns DEF PushFails, TypeOK
<1>5. QED
  BY <1>2, <1>3, <1>4, EventType DEF PushFails, TypeOK

\* The steps of a reconciliation write its record and at most one channel.
LEMMA RunParts ==
    ASSUME TypeOK, StockOK', RunsOK', UNCHANGED <<queueVars, h, w, unread>>,
           events' \in 0..MaxEvents, crashed' \in BOOLEAN
    PROVE  TypeOK'
<1>1. ReportsOK' /\ PushesOK'
  BY SameReports, SamePushes DEF TypeOK, queueVars
<1>2. QED
  BY <1>1 DEF TypeOK, queueVars

LEMMA StartRunOK ==
    ASSUME TypeOK, NEW r \in Runs, StartRun(r)
    PROVE  TypeOK'
<1>1. RunsOK'
  BY DEF StartRun, TypeOK, RunsOK, StockOK
<1>2. StockOK'
  BY SameStock DEF StartRun, TypeOK
<1>3. QED
  BY <1>1, <1>2, RunParts DEF StartRun, TypeOK, bounds

LEMMA VerdictType ==
    ASSUME StockOK, NEW p \in Products, NEW c \in Channels, NEW q \in Levels
    PROVE  {Verdict(0), Verdict(DriftFrom(q, p, c))} \subseteq {"idle", "look", "repair", "alert"}
<1>1. shown[p][c] \in Int /\ Expected(p, c, q) \in Int
  BY ExpectedType, BackendProducts DEF StockOK, Levels
<1>2. DriftFrom(q, p, c) \in Nat
  BY <1>1 DEF DriftFrom, Distance
<1>3. QED
  BY <1>2, BackendProducts DEF Verdict

LEMMA LookOK ==
    ASSUME TypeOK, NEW r \in Runs, NEW p \in Products, NEW c \in Channels, Look(r, p, c)
    PROVE  TypeOK'
<1> DEFINE drift == IF c \in Sealed THEN 0 ELSE DriftFrom(g[r].snap[p], p, c)
<1>1. g[r].snap[p] \in Levels /\ <<p, c>> \in Places
  BY DEF TypeOK, RunsOK, Places
<1>2. Verdict(drift) \in {"idle", "look", "repair", "alert"}
  BY <1>1, VerdictType DEF TypeOK
<1>3. (IF drift = 0 THEN {} ELSE {<<p, c>>}) \in SUBSET Places
  BY <1>1
<1>4. g' = [g EXCEPT ![r].todo = @ \ {<<p, c>>},
                    ![r].at = IF drift = 0 THEN {} ELSE {<<p, c>>},
                    ![r].pc = Verdict(drift)]
  BY DEF Look
<1> HIDE DEF drift
<1>5. RunsOK'
  <2> DEFINE at == IF drift = 0 THEN {} ELSE {<<p, c>>}
             x == [g[r] EXCEPT !.todo = g[r].todo \ {<<p, c>>}, !.at = at, !.pc = Verdict(drift)]
  <2>1. g' = [g EXCEPT ![r] = x]
    BY <1>4
  <2>2. at \in SUBSET Places
    BY <1>3
  <2>3. g[r] \in [pc: {"idle", "look", "repair", "alert"}, snap: [Products -> Levels],
                  todo: SUBSET Places, at: SUBSET Places]
    BY DEF TypeOK, RunsOK
  <2> HIDE DEF at
  <2>4. x \in [pc: {"idle", "look", "repair", "alert"}, snap: [Products -> Levels],
               todo: SUBSET Places, at: SUBSET Places]
    BY <1>2, <2>2, <2>3
  <2> HIDE DEF x
  <2>5. QED
    BY <2>1, <2>4 DEF TypeOK, RunsOK
<1>6. StockOK'
  BY SameStock DEF Look, TypeOK
<1>7. QED
  BY <1>5, <1>6, RunParts DEF Look, TypeOK, bounds

LEMMA LookFailsOK ==
    ASSUME TypeOK, NEW r \in Runs, NEW p \in Products, NEW c \in Channels, LookFails(r, p, c)
    PROVE  TypeOK'
<1>1. RunsOK'
  BY DEF LookFails, TypeOK, RunsOK
<1>2. StockOK'
  BY SameStock DEF LookFails, TypeOK
<1>3. QED
  BY <1>1, <1>2, RunParts, EventType DEF LookFails, TypeOK

LEMMA WriteExpectedOK ==
    ASSUME TypeOK, NEW r \in Runs, WriteExpected(r), db' = db
    PROVE  StockOK'
<1>1. PICK x \in g[r].at :
         shown' = [shown EXCEPT ![x[1]][x[2]] = Pushed(x[1], x[2], g[r].snap[x[1]])]
  BY DEF WriteExpected
<1>2. x[1] \in Products /\ x[2] \in Channels /\ g[r].snap \in [Products -> Levels]
  BY DEF TypeOK, RunsOK, Places
<1>3. g[r].snap[x[1]] \in Levels
  BY <1>2
<1>4. QED
  BY <1>1, <1>2, <1>3, ShowPushed DEF TypeOK

\* A reconciliation that goes on with the next mapping.
LEMMA LookAgain ==
    ASSUME RunsOK, NEW r \in Runs, g' = [g EXCEPT ![r].pc = "look", ![r].at = {}]
    PROVE  RunsOK'
<1> DEFINE x == [g[r] EXCEPT !.pc = "look", !.at = {}]
<1>1. g[r] \in [pc: {"idle", "look", "repair", "alert"}, snap: [Products -> Levels],
                todo: SUBSET Places, at: SUBSET Places]
  BY DEF RunsOK
<1>2. x \in [pc: {"idle", "look", "repair", "alert"}, snap: [Products -> Levels],
             todo: SUBSET Places, at: SUBSET Places]
  BY <1>1
<1>3. g' = [g EXCEPT ![r] = x]
  OBVIOUS
<1> HIDE DEF x
<1>4. QED
  BY <1>2, <1>3 DEF RunsOK

LEMMA RepairOK ==
    ASSUME TypeOK, NEW r \in Runs, Repair(r)
    PROVE  TypeOK'
<1>1. RunsOK'
  BY LookAgain DEF Repair, TypeOK
<1>2. StockOK'
  BY WriteExpectedOK DEF Repair
<1>3. QED
  BY <1>1, <1>2, RunParts DEF Repair, TypeOK, bounds

LEMMA RaiseAlertOK ==
    ASSUME TypeOK, NEW r \in Runs, RaiseAlert(r)
    PROVE  TypeOK'
<1>1. RunsOK'
  BY LookAgain DEF RaiseAlert, TypeOK
<1>2. StockOK'
  BY SameStock DEF RaiseAlert, TypeOK
<1>3. QED
  BY <1>1, <1>2, RunParts DEF RaiseAlert, TypeOK, bounds

\* A reconciliation that ends leaves its slot idle.
LEMMA FreeRun ==
    ASSUME RunsOK, NEW r \in Runs, g' = [g EXCEPT ![r] = IdleRun]
    PROVE  RunsOK'
<1>1. 0 \in Levels
  BY BackendProducts DEF Levels
<1>2. QED
  BY <1>1 DEF RunsOK, IdleRun

LEMMA EndRunOK ==
    ASSUME TypeOK, NEW r \in Runs, EndRun(r)
    PROVE  TypeOK'
<1>1. RunsOK'
  BY FreeRun DEF EndRun, TypeOK
<1>2. StockOK'
  BY SameStock DEF EndRun, TypeOK
<1>3. QED
  BY <1>1, <1>2, RunParts DEF EndRun, TypeOK, bounds

LEMMA RunFailsOK ==
    ASSUME TypeOK, NEW r \in Runs, RunFails(r)
    PROVE  TypeOK'
<1>1. RunsOK'
  BY FreeRun DEF RunFails, TypeOK
<1>2. StockOK'
  BY WriteExpectedOK, SameStock DEF RunFails, TypeOK, stockVars
<1>3. QED
  BY <1>1, <1>2, RunParts, EventType DEF RunFails, TypeOK

\* The slots that held a job are counted; there are finitely many.
LEMMA Holders ==
    /\ \A j \in ReportJob : Cardinality(ReportHolders(j)) \in Nat
    /\ \A j \in PushJob : Cardinality(PushHolders(j)) \in Nat
    /\ \A s \in ReportSlots, j \in ReportJob : h[s].job = {j} =>
          Cardinality(ReportHolders(j)) > 0
    /\ \A s \in PushSlots, j \in PushJob : w[s].job = {j} =>
          Cardinality(PushHolders(j)) > 0
<1>1. /\ \A j \in ReportJob : IsFiniteSet(ReportHolders(j))
      /\ \A j \in PushJob : IsFiniteSet(PushHolders(j))
  BY BackendSlots, FS_Subset DEF ReportHolders, PushHolders
<1>2. ASSUME NEW S, IsFiniteSet(S)
      PROVE  Cardinality(S) \in Nat /\ (S # {} => Cardinality(S) > 0)
  BY <1>2, FS_CardinalityType, FS_EmptySet
<1>3. /\ \A s \in ReportSlots, j \in ReportJob : h[s].job = {j} => ReportHolders(j) # {}
      /\ \A s \in PushSlots, j \in PushJob : w[s].job = {j} => PushHolders(j) # {}
  BY DEF ReportHolders, PushHolders
<1>4. QED
  BY <1>1, <1>2, <1>3

LEMMA CrashOK ==
    ASSUME TypeOK, Crash
    PROVE  TypeOK'
<1>1. reports' \in [ReportJob -> Nat] /\ pushes' \in [PushJob -> Nat]
  <2>1. \A j \in ReportJob :
           reports[j] + Cardinality(ReportHolders(j)) \in Nat
    BY Holders DEF TypeOK, ReportsOK
  <2>2. \A j \in PushJob :
           pushes[j] + Cardinality(PushHolders(j)) \in Nat
    BY Holders DEF TypeOK, PushesOK
  <2>3. QED
    BY <2>1, <2>2, Zenon DEF Crash
<1>2. ReportsOK'
  BY <1>1 DEF Crash, ReportsOK, IdleReport
<1>3. 0 \in Levels
  BY BackendProducts DEF Levels
<1>4. PushesOK'
  BY <1>1, <1>3 DEF Crash, PushesOK, IdlePush
<1>5. RunsOK'
  BY <1>3 DEF Crash, RunsOK, IdleRun
<1>6. StockOK'
  BY SameStock DEF Crash, TypeOK
<1>7. crashed' \in BOOLEAN
  BY Zenon DEF Crash
<1>8. QED
  BY <1>2, <1>4, <1>5, <1>6, <1>7, EventType DEF Crash, TypeOK

LEMMA TypeNext == TypeOK /\ [Next]_vars => TypeOK'
<1> SUFFICES ASSUME TypeOK, [Next]_vars PROVE TypeOK'
  OBVIOUS
<1>1. CASE World
  <2>1. CASE \E c \in Channels, o \in Orders : Order(c, o)
    BY <2>1, OrderOK
  <2>2. CASE \E p \in Products : \E c \in Mapping[p] :
               LostSale(c, p) \/ \E qty \in 0..MaxStock : LevelEvent(c, p, qty)
    <3>0. PICK p \in Products : \E c \in Mapping[p] :
             LostSale(c, p) \/ \E qty \in 0..MaxStock : LevelEvent(c, p, qty)
      BY <2>2
    <3>1. PICK c \in Mapping[p] :
             LostSale(c, p) \/ \E qty \in 0..MaxStock : LevelEvent(c, p, qty)
      BY <3>0
    <3>2. c \in Channels
      BY BackendProducts
    <3>3. QED
      BY <3>1, <3>2, LostSaleOK, LevelEventOK
  <2>3. CASE \E p \in Products, qty \in 0..MaxStock : SetStock(p, qty)
    BY <2>3, SetStockOK
  <2>4. CASE \E p \in Products : \E cs \in SUBSET Mapping[p] \ {{}} : SyncProduct(p, cs)
    BY <2>4, SyncProductOK
  <2>5. QED
    BY <1>1, <2>1, <2>2, <2>3, <2>4 DEF World
<1>2. CASE Failure
  BY <1>2, ReportFailsOK, PushFailsOK, PushChannelFailsOK, RunFailsOK, LookFailsOK, CrashOK
     DEF Failure
<1>3. CASE \E s \in ReportSlots : ReportStep(s)
  BY <1>3, TakeReportOK, WriteStockOK, EnqueuePushOK DEF ReportStep
<1>4. CASE \E s \in PushSlots : PushStep(s)
  BY <1>4, TakePushOK, ReadProductOK, EndPushOK, PushChannelOK DEF PushStep
<1>5. CASE \E r \in Runs : RunStep(r)
  BY <1>5, StartRunOK, RepairOK, RaiseAlertOK, EndRunOK, LookOK DEF RunStep
<1>6. CASE UNCHANGED vars
  <2>1. StockOK' /\ ReportsOK' /\ PushesOK' /\ RunsOK'
    BY <1>6, SameStock, SameReports, SamePushes, SameRuns
       DEF vars, TypeOK, queueVars, slotVars
  <2>2. QED
    BY <1>6, <2>1 DEF vars, TypeOK, queueVars, bounds
<1>7. QED
  BY <1>1, <1>2, <1>3, <1>4, <1>5, <1>6 DEF Next

\* Every state is well typed, and no online shop is ever given a negative stock:
\* whatever level or quantity a report carried into the database.
THEOREM TypeCorrect == Spec => []TypeOK
<1>1. Init => TypeOK
  BY TypeInit
<1>2. TypeOK /\ [Next]_vars => TypeOK'
  BY TypeNext
<1>3. QED
  BY <1>1, <1>2, PTL DEF Spec

-----------------------------------------------------------------------------
(* Each action keeps the news under way *)

\* Whatever a report brings from some change on, it brings when it starts over.
LEMMA BringsAnew ==
    ASSUME NEW j \in ReportJob, NEW i \in DOMAIN j.changes, NEW p, NEW c, Brings(j, i, p, c)
    PROVE  Brings(j, 1, p, c)
<1>1. i \in Nat /\ i >= 1 /\ Len(j.changes) \in Nat
  BY ReportJobType
<1>2. QED
  BY <1>1 DEF Brings

LEMMA SameReportNews ==
    ASSUME NEW p, NEW c, UNCHANGED <<reports, h>>
    PROVE  (ReportWaits(p, c) => ReportWaits(p, c)') /\ (ReportActive(p, c) => ReportActive(p, c)')
BY DEF ReportWaits, ReportActive
LEMMA SamePushNews ==
    ASSUME NEW p, NEW c, UNCHANGED <<pushes, w>>
    PROVE  (PushWaits(p, c) => PushWaits(p, c)') /\ (PushReads(p, c) => PushReads(p, c)')
BY DEF PushWaits, PushReads
LEMMA SameGivenUp ==
    ASSUME NEW p, NEW c, failed \subseteq failed', GivenUp(p, c)
    PROVE  GivenUp(p, c)'
BY DEF GivenUp

LEMMA SameNews ==
    ASSUME NEW p, NEW c, UNCHANGED <<queueVars, h, w>>, NewsUnderWay(p, c)
    PROVE  NewsUnderWay(p, c)'
BY SameReportNews, SamePushNews, SameGivenUp DEF NewsUnderWay, queueVars

\* A report is added to the queue.
LEMMA QueuedNews ==
    ASSUME TypeOK, NEW c0 \in Channels, NEW y \in Payload, QueueReport(c0, y),
           UNCHANGED <<h, pushes, w, failed>>, NEW p, NEW c, NewsUnderWay(p, c)
    PROVE  NewsUnderWay(p, c)'
<1>1. [src |-> c0, changes |-> y, tries |-> 0] \in ReportJob
  BY BackendBounds DEF ReportJob
<1>2. \A j \in ReportJob : reports[j] > 0 => reports'[j] > 0
  BY <1>1 DEF QueueReport, TypeOK, ReportsOK
<1>3. ReportWaits(p, c) => ReportWaits(p, c)'
  BY <1>2 DEF ReportWaits
<1>4. ReportActive(p, c) => ReportActive(p, c)'
  BY DEF ReportActive
<1>5. QED
  BY <1>3, <1>4, SamePushNews, SameGivenUp DEF NewsUnderWay

\* A push is added to the queue: nothing that waited is lost.
LEMMA QueuedPush ==
    ASSUME PushesOK, NEW f \in PushJob, pushes' = [pushes EXCEPT ![f] = @ + 1]
    PROVE  pushes'[f] > 0 /\ \A j \in PushJob : pushes[j] > 0 => pushes'[j] > 0
BY DEF PushesOK

LEMMA SyncProductNews ==
    ASSUME TypeOK, NEW p0 \in Products, NEW cs, SyncProduct(p0, cs),
           NEW p, NEW c, NewsUnderWay(p, c)
    PROVE  NewsUnderWay(p, c)'
<1>1. \A j \in PushJob : pushes[j] > 0 => pushes'[j] > 0
  BY DEF SyncProduct, TypeOK, PushesOK
<1>2. PushWaits(p, c) => PushWaits(p, c)'
  BY <1>1 DEF PushWaits
<1>3. PushReads(p, c) => PushReads(p, c)'
  BY DEF PushReads, SyncProduct, slotVars
<1>4. QED
  BY <1>2, <1>3, SameReportNews, SameGivenUp DEF NewsUnderWay, SyncProduct, slotVars

\* A report that is taken moves its news into the slot.
LEMMA TakeReportNews ==
    ASSUME TypeOK, NEW s \in ReportSlots, NEW j \in ReportJob, TakeReport(s, j),
           NEW p, NEW c, NewsUnderWay(p, c)
    PROVE  NewsUnderWay(p, c)'
<1>1. /\ h'[s].job = {j} /\ h'[s].i = 1
      /\ \A x \in ReportSlots \ {s} : h'[x] = h[x]
      /\ \A k \in ReportJob \ {j} : reports'[k] = reports[k]
      /\ h[s].job = {}
  BY DEF TakeReport, TypeOK, ReportsOK
<1>2. ReportWaits(p, c) => ReportWaits(p, c)' \/ ReportActive(p, c)'
  BY <1>1 DEF ReportWaits, ReportActive
<1>3. ReportActive(p, c) => ReportActive(p, c)'
  BY <1>1 DEF ReportActive
<1>4. QED
  BY <1>2, <1>3, SamePushNews, SameGivenUp DEF NewsUnderWay, TakeReport

\* What a report has just written it has still to push: to every channel but
\* the one it came from.
LEMMA StoredNews ==
    ASSUME NEW j \in ReportJob, NEW i \in DOMAIN j.changes, StoreStock(j, i),
           NEW p, NEW c, <<p, c>> \in unread', <<p, c>> \notin unread
    PROVE  Brings(j, i, p, c)
<1>1. p = j.changes[i].prod /\ c # j.src
  BY DEF StoreStock
<1>2. i \in i..Len(j.changes)
  BY ReportJobType
<1>3. QED
  BY <1>1, <1>2 DEF Brings

LEMMA WriteStockNews ==
    ASSUME TypeOK, NEW s \in ReportSlots, WriteStock(s), NEW p, NEW c,
           <<p, c>> \in unread', <<p, c>> \in unread => NewsUnderWay(p, c)
    PROVE  NewsUnderWay(p, c)'
<1>1. PICK j \in ReportJob : h[s].job = {j} /\ h[s].i \in DOMAIN j.changes
  BY BusyReport DEF WriteStock, TypeOK
<1>2. \A x \in ReportSlots : h'[x].job = h[x].job /\ h'[x].i = h[x].i
  BY DEF WriteStock, TypeOK, ReportsOK
<1>3. ReportActive(p, c) => ReportActive(p, c)'
  BY <1>2 DEF ReportActive
<1>4. ReportWaits(p, c) => ReportWaits(p, c)'
  BY DEF ReportWaits, WriteStock, queueVars
<1>5. CASE <<p, c>> \in unread
  BY <1>3, <1>4, <1>5, SamePushNews, SameGivenUp DEF NewsUnderWay, WriteStock, queueVars
<1>6. CASE <<p, c>> \notin unread
  <2>1. StoreStock(j, h[s].i)
    BY <1>1 DEF WriteStock
  <2>2. Brings(j, h[s].i, p, c)
    BY <1>1, <1>6, <2>1, StoredNews
  <2>3. ReportActive(p, c)'
    BY <1>1, <1>2, <2>2 DEF ReportActive
  <2>4. QED
    BY <2>3 DEF NewsUnderWay
<1>7. QED
  BY <1>5, <1>6

\* The news of the change that is pushed goes to the queue of pushes; that of the
\* changes after it stays in the slot.
LEMMA EnqueuePushNews ==
    ASSUME TypeOK, NEW s \in ReportSlots, EnqueuePush(s), NEW p, NEW c, NewsUnderWay(p, c)
    PROVE  NewsUnderWay(p, c)'
<1>1. PICK j \in ReportJob : h[s].job = {j} /\ h[s].i \in DOMAIN j.changes
  BY BusyReport DEF EnqueuePush, TypeOK
<1> DEFINE f == Fresh(j.src, j.changes[h[s].i].prod)
<1>2. /\ pushes' = [pushes EXCEPT ![f] = @ + 1]
      /\ h' = [h EXCEPT ![s] = IF h[s].i < Len(j.changes)
                               THEN [pc |-> "write", job |-> {j}, i |-> h[s].i + 1]
                               ELSE IdleReport]
  BY <1>1 DEF EnqueuePush, QueuePush
<1>3. f \in PushJob /\ f.src = j.src /\ f.prod = j.changes[h[s].i].prod
  BY <1>1, ReportJobType, FreshType DEF Fresh
<1> HIDE DEF f
<1>4. pushes'[f] > 0 /\ \A k \in PushJob : pushes[k] > 0 => pushes'[k] > 0
  BY <1>2, <1>3, QueuedPush DEF TypeOK
<1>5. PushWaits(p, c) => PushWaits(p, c)'
  BY <1>4 DEF PushWaits
<1>6. PushReads(p, c) => PushReads(p, c)'
  BY DEF PushReads, EnqueuePush
<1>7. ReportWaits(p, c) => ReportWaits(p, c)'
  BY DEF ReportWaits, EnqueuePush
<1>8. ReportActive(p, c) => ReportActive(p, c)' \/ PushWaits(p, c)'
  <2>1. SUFFICES ASSUME NEW x \in ReportSlots, NEW k \in h[x].job, Brings(k, h[x].i, p, c)
                 PROVE  ReportActive(p, c)' \/ PushWaits(p, c)'
    BY DEF ReportActive
  <2>2. CASE x # s
    <3>1. h'[x] = h[x]
      BY <1>2, <2>2 DEF TypeOK, ReportsOK
    <3>2. QED
      BY <2>1, <3>1 DEF ReportActive
  <2>3. CASE x = s
    <3>1. k = j
      BY <1>1, <2>3
    <3>2. PICK n \in h[s].i..Len(j.changes) : j.changes[n].prod = p
      BY <2>1, <2>3, <3>1 DEF Brings
    <3>3. j.src # c
      BY <2>1, <3>1 DEF Brings
    <3>4. CASE n = h[s].i
      BY <1>3, <1>4, <3>2, <3>3, <3>4 DEF PushWaits
    <3>5. CASE n # h[s].i
      <4>1. h[s].i \in Nat /\ Len(j.changes) \in Nat
        BY <1>1, ReportJobType
      <4>2. h[s].i < Len(j.changes) /\ n \in (h[s].i + 1)..Len(j.changes)
        BY <3>2, <3>5, <4>1
      <4>3. h'[s].job = {j} /\ h'[s].i = h[s].i + 1
        BY <1>2, <4>2 DEF TypeOK, ReportsOK
      <4>4. Brings(j, h'[s].i, p, c)
        BY <3>2, <3>3, <4>2, <4>3 DEF Brings
      <4>5. QED
        BY <4>3, <4>4 DEF ReportActive
    <3>6. QED
      BY <3>4, <3>5
  <2>4. QED
    BY <2>2, <2>3
<1>9. QED
  BY <1>5, <1>6, <1>7, <1>8, SameGivenUp DEF NewsUnderWay, EnqueuePush

\* A report that fails waits again with all its changes, or is given up with all
\* of them; what it wrote before it failed is among them.
LEMMA ReportFailsNews ==
    ASSUME TypeOK, NEW s \in ReportSlots, ReportFails(s), NEW p, NEW c,
           <<p, c>> \in unread', <<p, c>> \in unread => NewsUnderWay(p, c)
    PROVE  NewsUnderWay(p, c)'
<1>1. PICK j \in ReportJob : h[s].job = {j} /\ h[s].i \in DOMAIN j.changes
  BY BusyReport DEF ReportFails, TypeOK
<1>2. Rethrow(j) /\ h' = [h EXCEPT ![s] = IdleReport] /\ w' = w
  BY <1>1 DEF ReportFails
<1>3. \A k \in ReportJob : reports[k] > 0 => reports'[k] > 0
  <2>1. CASE j.tries + 1 < ReportAttempts
    <3>1. reports' = [reports EXCEPT ![[j EXCEPT !.tries = @ + 1]] = @ + 1]
      BY <1>2, <2>1 DEF Rethrow
    <3>2. [j EXCEPT !.tries = @ + 1] \in ReportJob
      BY <2>1, RetriedReport
    <3>3. QED
      BY <3>1, <3>2 DEF TypeOK, ReportsOK
  <2>2. CASE ~(j.tries + 1 < ReportAttempts)
    BY <1>2, <2>2 DEF Rethrow
  <2>3. QED
    BY <2>1, <2>2
<1>4. ASSUME Brings(j, 1, p, c)
      PROVE  ReportWaits(p, c)' \/ GivenUp(p, c)'
  <2>1. j.src # c /\ \E k \in 1..Len(j.changes) : j.changes[k].prod = p
    BY <1>4 DEF Brings
  <2>2. CASE j.tries + 1 < ReportAttempts
    <3> DEFINE f == [j EXCEPT !.tries = @ + 1]
    <3>1. f \in ReportJob /\ f.src = j.src /\ f.changes = j.changes
      BY <2>2, RetriedReport
    <3>2. reports' = [reports EXCEPT ![f] = @ + 1]
      BY <1>2, <2>2 DEF Rethrow
    <3> HIDE DEF f
    <3>3. reports'[f] > 0
      BY <3>1, <3>2 DEF TypeOK, ReportsOK
    <3>4. Brings(f, 1, p, c)
      BY <2>1, <3>1 DEF Brings
    <3>5. QED
      BY <3>1, <3>3, <3>4 DEF ReportWaits
  <2>3. CASE ~(j.tries + 1 < ReportAttempts)
    <3>1. failed' = failed \cup {<<j.src, j.changes[k].prod>> : k \in DOMAIN j.changes}
      BY <1>2, <2>3 DEF Rethrow
    <3>2. PICK k \in DOMAIN j.changes : j.changes[k].prod = p
      BY <2>1, ReportJobType
    <3>3. <<j.src, p>> \in failed'
      BY <3>1, <3>2
    <3>4. QED
      BY <2>1, <3>3 DEF GivenUp
  <2>4. QED
    BY <2>2, <2>3
<1>5. CASE <<p, c>> \in unread
  <2>1. ReportWaits(p, c) => ReportWaits(p, c)'
    BY <1>3 DEF ReportWaits
  <2>2. ReportActive(p, c) => NewsUnderWay(p, c)'
    <3>1. SUFFICES ASSUME NEW x \in ReportSlots, NEW k \in h[x].job, Brings(k, h[x].i, p, c)
                   PROVE  NewsUnderWay(p, c)'
      BY DEF ReportActive
    <3>2. CASE x # s
      <4>1. h'[x] = h[x]
        BY <1>2, <3>2 DEF TypeOK, ReportsOK
      <4>2. ReportActive(p, c)'
        BY <3>1, <4>1 DEF ReportActive
      <4>3. QED
        BY <4>2 DEF NewsUnderWay
    <3>3. CASE x = s
      <4>1. k = j
        BY <1>1, <3>3
      <4>2. Brings(j, 1, p, c)
        BY <1>1, <3>1, <3>3, <4>1, BringsAnew
      <4>3. QED
        BY <1>4, <4>2 DEF NewsUnderWay
    <3>4. QED
      BY <3>2, <3>3
  <2>3. PushWaits(p, c) => PushWaits(p, c)'
    <3>1. CASE UNCHANGED pushes
      BY <3>1 DEF PushWaits
    <3>2. CASE QueuePush(j, h[s].i)
      <4>1. Fresh(j.src, j.changes[h[s].i].prod) \in PushJob
        BY <1>1, ReportJobType, FreshType
      <4>2. \A k \in PushJob : pushes[k] > 0 => pushes'[k] > 0
        BY <3>2, <4>1, QueuedPush DEF QueuePush, TypeOK
      <4>3. QED
        BY <4>2 DEF PushWaits
    <3>3. QED
      BY <1>1, <3>1, <3>2 DEF ReportFails
  <2>4. PushReads(p, c) => PushReads(p, c)'
    BY <1>2 DEF PushReads
  <2>5. GivenUp(p, c) => GivenUp(p, c)'
    <3>1. failed \subseteq failed'
      BY <1>2 DEF Rethrow
    <3>2. QED
      BY <3>1, SameGivenUp
  <2>6. NewsUnderWay(p, c)
    BY <1>5
  <2>7. QED
    BY <2>1, <2>2, <2>3, <2>4, <2>5, <2>6 DEF NewsUnderWay
<1>6. CASE <<p, c>> \notin unread
  <2>1. StoreStock(j, h[s].i)
    BY <1>1, <1>6 DEF ReportFails
  <2>2. Brings(j, h[s].i, p, c)
    BY <1>1, <1>6, <2>1, StoredNews
  <2>3. Brings(j, 1, p, c)
    BY <1>1, <2>2, BringsAnew
  <2>4. QED
    BY <1>4, <2>3 DEF NewsUnderWay
<1>7. QED
  BY <1>5, <1>6

LEMMA TakePushNews ==
    ASSUME TypeOK, NEW s \in PushSlots, NEW j \in PushJob, TakePush(s, j),
           NEW p, NEW c, NewsUnderWay(p, c)
    PROVE  NewsUnderWay(p, c)'
<1>1. /\ w'[s].pc = "read" /\ w'[s].job = {j}
      /\ \A x \in PushSlots \ {s} : w'[x] = w[x]
      /\ \A k \in PushJob \ {j} : pushes'[k] = pushes[k]
      /\ w[s].pc = "idle"
  BY DEF TakePush, TypeOK, PushesOK
<1>2. PushWaits(p, c) => PushWaits(p, c)' \/ PushReads(p, c)'
  BY <1>1 DEF PushWaits, PushReads
<1>3. PushReads(p, c) => PushReads(p, c)'
  BY <1>1 DEF PushReads
<1>4. QED
  BY <1>2, <1>3, SameReportNews, SameGivenUp DEF NewsUnderWay, TakePush

\* A push that reads takes the news of exactly the channels it will serve.
LEMMA ReadProductNews ==
    ASSUME TypeOK, NEW s \in PushSlots, ReadProduct(s), NEW p, NEW c,
           <<p, c>> \in unread', NewsUnderWay(p, c)
    PROVE  NewsUnderWay(p, c)'
<1>1. PICK j \in PushJob : w[s].job = {j}
  BY BusyPush DEF ReadProduct, TypeOK
<1>2. unread' = unread \ ({j.prod} \X (Mapping[j.prod] \ {j.src}))
  BY <1>1 DEF ReadProduct
<1>3. c \in Mapping[p]
  BY <1>2 DEF TypeOK
<1>4. ~(j.prod = p /\ j.src # c)
  BY <1>2, <1>3
<1>5. \A x \in PushSlots \ {s} : w'[x] = w[x]
  BY DEF ReadProduct, TypeOK, PushesOK
<1>6. PushReads(p, c) => PushReads(p, c)'
  BY <1>1, <1>4, <1>5 DEF PushReads
<1>7. PushWaits(p, c) => PushWaits(p, c)'
  BY DEF PushWaits, ReadProduct, queueVars
<1>8. QED
  BY <1>6, <1>7, SameReportNews, SameGivenUp DEF NewsUnderWay, ReadProduct, queueVars

\* A push that has read has no news left to lose.
LEMMA PushedNews ==
    ASSUME NEW s \in PushSlots, w[s].pc = "push", \A x \in PushSlots \ {s} : w'[x] = w[x],
           UNCHANGED <<queueVars, h>>, NEW p, NEW c, NewsUnderWay(p, c)
    PROVE  NewsUnderWay(p, c)'
<1>1. PushReads(p, c) => PushReads(p, c)'
  BY DEF PushReads
<1>2. PushWaits(p, c) => PushWaits(p, c)'
  BY DEF PushWaits, queueVars
<1>3. QED
  BY <1>1, <1>2, SameReportNews, SameGivenUp DEF NewsUnderWay, queueVars

LEMMA PushFailsNews ==
    ASSUME TypeOK, NEW s \in PushSlots, PushFails(s), NEW p, NEW c, NewsUnderWay(p, c)
    PROVE  NewsUnderWay(p, c)'
<1>1. PICK j \in PushJob : w[s].job = {j}
  BY BusyPush DEF PushFails, TypeOK
<1>2. \A x \in PushSlots \ {s} : w'[x] = w[x]
  BY DEF PushFails, TypeOK, PushesOK
<1>3. CASE j.tries + 1 < PushAttempts
  <2> DEFINE f == [j EXCEPT !.tries = @ + 1]
  <2>1. f \in PushJob /\ f.src = j.src /\ f.prod = j.prod
    BY <1>3, RetriedPush
  <2>2. pushes' = [pushes EXCEPT ![f] = @ + 1] /\ failed' = failed
    BY <1>1, <1>3 DEF PushFails
  <2> HIDE DEF f
  <2>3. pushes'[f] > 0 /\ \A k \in PushJob : pushes[k] > 0 => pushes'[k] > 0
    BY <2>1, <2>2, QueuedPush DEF TypeOK
  <2>4. PushWaits(p, c) => PushWaits(p, c)'
    BY <2>3 DEF PushWaits
  <2>5. PushReads(p, c) => PushReads(p, c)' \/ PushWaits(p, c)'
    BY <1>1, <1>2, <2>1, <2>3 DEF PushReads, PushWaits
  <2>6. QED
    BY <2>2, <2>4, <2>5, SameReportNews, SameGivenUp DEF NewsUnderWay, PushFails
<1>4. CASE ~(j.tries + 1 < PushAttempts)
  <2>1. pushes' = pushes /\ failed' = failed \cup {<<j.src, j.prod>>}
    BY <1>1, <1>4 DEF PushFails
  <2>2. PushWaits(p, c) => PushWaits(p, c)'
    BY <2>1 DEF PushWaits
  <2>3. PushReads(p, c) => PushReads(p, c)' \/ GivenUp(p, c)'
    <3>1. SUFFICES ASSUME NEW x \in PushSlots, w[x].pc = "read",
                          \E k \in w[x].job : k.prod = p /\ k.src # c
                   PROVE  PushReads(p, c)' \/ GivenUp(p, c)'
      BY DEF PushReads
    <3>2. CASE x = s
      <4>1. j.prod = p /\ j.src # c /\ <<j.src, p>> \in failed'
        BY <1>1, <2>1, <3>1, <3>2
      <4>2. QED
        BY <4>1 DEF GivenUp
    <3>3. CASE x # s
      BY <1>2, <3>1, <3>3 DEF PushReads
    <3>4. QED
      BY <3>2, <3>3
  <2>4. GivenUp(p, c) => GivenUp(p, c)'
    BY <2>1 DEF GivenUp
  <2>5. QED
    BY <2>2, <2>3, <2>4, SameReportNews DEF NewsUnderWay, PushFails
<1>5. QED
  BY <1>3, <1>4

\* A crash puts the jobs of all slots back, from their first change on.
LEMMA CrashNews ==
    ASSUME TypeOK, Crash, NEW p, NEW c, NewsUnderWay(p, c)
    PROVE  NewsUnderWay(p, c)'
<1>1. ASSUME NEW j \in ReportJob
      PROVE  /\ reports'[j] = reports[j] + Cardinality(ReportHolders(j))
             /\ reports[j] \in Nat /\ Cardinality(ReportHolders(j)) \in Nat
  BY Holders DEF Crash, TypeOK, ReportsOK
<1>2. ASSUME NEW j \in PushJob
      PROVE  /\ pushes'[j] = pushes[j] + Cardinality(PushHolders(j))
             /\ pushes[j] \in Nat /\ Cardinality(PushHolders(j)) \in Nat
  BY Holders DEF Crash, TypeOK, PushesOK
<1>3. CASE ReportWaits(p, c)
  <2>1. PICK j \in ReportJob : reports[j] > 0 /\ Brings(j, 1, p, c)
    BY <1>3 DEF ReportWaits
  <2>2. reports'[j] > 0
    BY <1>1, <2>1
  <2>3. QED
    BY <2>1, <2>2 DEF ReportWaits, NewsUnderWay
<1>4. CASE ReportActive(p, c)
  <2>1. PICK s \in ReportSlots : \E k \in h[s].job : Brings(k, h[s].i, p, c)
    BY <1>4 DEF ReportActive
  <2>2. PICK k \in h[s].job : Brings(k, h[s].i, p, c)
    BY <2>1
  <2>3. h[s].pc # "idle"
    BY <2>2 DEF TypeOK, ReportsOK
  <2>4. PICK j \in ReportJob : h[s].job = {j} /\ h[s].i \in DOMAIN j.changes
    BY <2>3, BusyReport DEF TypeOK
  <2>5. Brings(j, 1, p, c)
    BY <2>2, <2>4, BringsAnew
  <2>6. Cardinality(ReportHolders(j)) > 0
    BY <2>4, Holders
  <2>7. reports'[j] > 0
    BY <1>1, <2>6
  <2>8. QED
    BY <2>5, <2>7 DEF ReportWaits, NewsUnderWay
<1>5. CASE PushWaits(p, c)
  <2>1. PICK j \in PushJob : pushes[j] > 0 /\ j.prod = p /\ j.src # c
    BY <1>5 DEF PushWaits
  <2>2. pushes'[j] > 0
    BY <1>2, <2>1
  <2>3. QED
    BY <2>1, <2>2 DEF PushWaits, NewsUnderWay
<1>6. CASE PushReads(p, c)
  <2>1. PICK s \in PushSlots : w[s].pc = "read" /\ \E j \in w[s].job : j.prod = p /\ j.src # c
    BY <1>6 DEF PushReads
  <2>2. PICK j \in PushJob : w[s].job = {j} /\ j.prod = p /\ j.src # c
    BY <2>1, BusyPush DEF TypeOK
  <2>3. Cardinality(PushHolders(j)) > 0
    BY <2>2, Holders
  <2>4. pushes'[j] > 0
    BY <1>2, <2>3
  <2>5. QED
    BY <2>2, <2>4 DEF PushWaits, NewsUnderWay
<1>7. CASE GivenUp(p, c)
  BY <1>7, SameGivenUp DEF Crash, NewsUnderWay
<1>8. QED
  BY <1>3, <1>4, <1>5, <1>6, <1>7 DEF NewsUnderWay

-----------------------------------------------------------------------------
(* No silent change *)

LEMMA NewsNext == TypeOK /\ NoSilentChange /\ [Next]_vars => NoSilentChange'
<1> SUFFICES ASSUME TypeOK, NoSilentChange, [Next]_vars, NEW x \in unread'
             PROVE  NewsUnderWay(x[1], x[2])'
  BY DEF NoSilentChange
<1> DEFINE p == x[1]
           c == x[2]
<1>1. x = <<p, c>>
  BY TypeNext DEF TypeOK, Places
<1>2. x \in unread => NewsUnderWay(p, c)
  BY DEF NoSilentChange
<1> HIDE DEF p, c
<1>3. <<p, c>> \in unread' /\ (<<p, c>> \in unread => NewsUnderWay(p, c))
  BY <1>1, <1>2
<1>4. SUFFICES NewsUnderWay(p, c)'
  BY DEF p, c
<1>5. CASE World
  <2>1. CASE \E c0 \in Channels, o \in Orders : Order(c0, o)
    <3>1. PICK c0 \in Channels, o \in Orders : Order(c0, o)
      BY <2>1
    <3>2. Items(o) \in Payload
      BY DEF Payload
    <3>3. UNCHANGED <<h, pushes, w, failed, unread>> /\ QueueReport(c0, Items(o))
      BY <3>1 DEF Order, slotVars
    <3>4. QED
      BY <1>3, <3>2, <3>3, QueuedNews
  <2>2. CASE \E p0 \in Products : \E c0 \in Mapping[p0] :
               LostSale(c0, p0) \/ \E qty \in 0..MaxStock : LevelEvent(c0, p0, qty)
    <3>1. PICK p0 \in Products : \E c0 \in Mapping[p0] :
                 LostSale(c0, p0) \/ \E qty \in 0..MaxStock : LevelEvent(c0, p0, qty)
      BY <2>2
    <3>2. PICK c0 \in Mapping[p0] :
                 LostSale(c0, p0) \/ \E qty \in 0..MaxStock : LevelEvent(c0, p0, qty)
      BY <3>1
    <3>3. c0 \in Channels
      BY BackendProducts
    <3>4. CASE LostSale(c0, p0)
      BY <1>3, <3>4, SameNews DEF LostSale, slotVars
    <3>5. CASE \E qty \in 0..MaxStock : LevelEvent(c0, p0, qty)
      <4>1. PICK qty \in 0..MaxStock : LevelEvent(c0, p0, qty)
        BY <3>5
      <4>2. <<[prod |-> p0, qty |-> qty]>> \in Payload
        <5>1. qty \in Levels
          BY BackendProducts DEF Levels
        <5>2. [prod |-> p0, qty |-> qty] \in Change
          BY <5>1 DEF Change
        <5>3. QED
          BY <5>2 DEF Payload
      <4>3. UNCHANGED <<h, pushes, w, failed, unread>>
            /\ QueueReport(c0, <<[prod |-> p0, qty |-> qty]>>)
        BY <4>1 DEF LevelEvent, slotVars
      <4>4. QED
        BY <1>3, <3>3, <4>2, <4>3, QueuedNews
    <3>6. QED
      BY <3>2, <3>4, <3>5
  <2>3. CASE \E p0 \in Products, qty \in 0..MaxStock : SetStock(p0, qty)
    BY <1>3, <2>3, SameNews DEF SetStock, slotVars
  <2>4. CASE \E p0 \in Products : \E cs \in SUBSET Mapping[p0] \ {{}} : SyncProduct(p0, cs)
    <3>1. PICK p0 \in Products, cs \in SUBSET Channels : SyncProduct(p0, cs)
      BY <2>4, BackendProducts
    <3>2. unread' = unread
      BY <3>1 DEF SyncProduct
    <3>3. QED
      BY <1>3, <3>1, <3>2, SyncProductNews
  <2>5. QED
    BY <1>5, <2>1, <2>2, <2>3, <2>4 DEF World
<1>6. CASE Failure
  <2>1. ASSUME NEW s \in ReportSlots, ReportFails(s) PROVE NewsUnderWay(p, c)'
    BY <1>3, <2>1, ReportFailsNews
  <2>2. ASSUME NEW s \in PushSlots, PushFails(s) PROVE NewsUnderWay(p, c)'
    BY <1>3, <2>2, PushFailsNews DEF PushFails
  <2>3. ASSUME NEW s \in PushSlots, NEW c0 \in Channels, PushChannelFails(s, c0)
        PROVE  NewsUnderWay(p, c)'
    <3>1. w[s].pc = "push" /\ \A y \in PushSlots \ {s} : w'[y] = w[y]
      BY <2>3 DEF PushChannelFails, TypeOK, PushesOK
    <3>2. QED
      BY <1>3, <2>3, <3>1, PushedNews DEF PushChannelFails
  <2>4. ASSUME NEW r \in Runs, RunFails(r) PROVE NewsUnderWay(p, c)'
    BY <1>3, <2>4, SameNews DEF RunFails
  <2>5. ASSUME NEW r \in Runs, NEW p0 \in Products, NEW c0 \in Channels, LookFails(r, p0, c0)
        PROVE  NewsUnderWay(p, c)'
    BY <1>3, <2>5, SameNews DEF LookFails
  <2>6. CASE Crash
    BY <1>3, <2>6, CrashNews DEF Crash
  <2>7. QED
    BY <1>6, <2>1, <2>2, <2>3, <2>4, <2>5, <2>6 DEF Failure
<1>7. CASE \E s \in ReportSlots : ReportStep(s)
  <2>1. ASSUME NEW s \in ReportSlots, NEW j \in ReportJob, TakeReport(s, j)
        PROVE  NewsUnderWay(p, c)'
    BY <1>3, <2>1, TakeReportNews DEF TakeReport
  <2>2. ASSUME NEW s \in ReportSlots, WriteStock(s) PROVE NewsUnderWay(p, c)'
    BY <1>3, <2>2, WriteStockNews
  <2>3. ASSUME NEW s \in ReportSlots, EnqueuePush(s) PROVE NewsUnderWay(p, c)'
    BY <1>3, <2>3, EnqueuePushNews DEF EnqueuePush
  <2>4. QED
    BY <1>7, <2>1, <2>2, <2>3 DEF ReportStep
<1>8. CASE \E s \in PushSlots : PushStep(s)
  <2>1. ASSUME NEW s \in PushSlots, NEW j \in PushJob, TakePush(s, j)
        PROVE  NewsUnderWay(p, c)'
    BY <1>3, <2>1, TakePushNews DEF TakePush
  <2>2. ASSUME NEW s \in PushSlots, ReadProduct(s) PROVE NewsUnderWay(p, c)'
    <3>1. unread' \subseteq unread
      BY <2>2 DEF ReadProduct
    <3>2. QED
      BY <1>3, <2>2, <3>1, ReadProductNews
  <2>3. ASSUME NEW s \in PushSlots, NEW c0 \in Channels, PushChannel(s, c0)
        PROVE  NewsUnderWay(p, c)'
    <3>1. w[s].pc = "push" /\ \A y \in PushSlots \ {s} : w'[y] = w[y]
      BY <2>3 DEF PushChannel, TypeOK, PushesOK
    <3>2. QED
      BY <1>3, <2>3, <3>1, PushedNews DEF PushChannel
  <2>4. ASSUME NEW s \in PushSlots, EndPush(s) PROVE NewsUnderWay(p, c)'
    <3>1. w[s].pc = "push" /\ \A y \in PushSlots \ {s} : w'[y] = w[y]
      BY <2>4 DEF EndPush, TypeOK, PushesOK
    <3>2. QED
      BY <1>3, <2>4, <3>1, PushedNews DEF EndPush
  <2>5. QED
    BY <1>8, <2>1, <2>2, <2>3, <2>4 DEF PushStep
<1>9. CASE \E r \in Runs : RunStep(r)
  <2>1. PICK r \in Runs : RunStep(r)
    BY <1>9
  <2>2. UNCHANGED <<queueVars, h, w, unread>>
    BY <2>1 DEF RunStep, StartRun, Repair, RaiseAlert, EndRun, Look
  <2>3. QED
    BY <1>3, <2>2, SameNews
<1>10. CASE UNCHANGED vars
  <2>1. UNCHANGED <<queueVars, h, w, unread>>
    BY <1>10 DEF vars, slotVars
  <2>2. QED
    BY <1>3, <2>1, SameNews
<1>11. QED
  BY <1>5, <1>6, <1>7, <1>8, <1>9, <1>10 DEF Next

\* A stock that a report has written is never forgotten half way: whatever fails,
\* is retried or crashes, for any number of attempts, workers and changes in a
\* report, some job will push it to each other channel, or was given up and kept.
THEOREM NothingForgotten == Spec => []NoSilentChange
<1>1. Init => NoSilentChange
  BY DEF Init, NoSilentChange
<1>2. TypeOK /\ NoSilentChange /\ [Next]_vars => NoSilentChange'
  BY NewsNext
<1>3. QED
  BY <1>1, <1>2, TypeCorrect, PTL DEF Spec
=============================================================================
