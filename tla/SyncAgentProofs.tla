--------------------------- MODULE SyncAgentProofs ---------------------------
(***************************************************************************)
(* Proofs about SyncAgent: its type invariant, that one failing statement  *)
(* never orphans an audit row, and that for every product no two jobs are  *)
(* at together the audit trail tells the stock and the errors of the jobs  *)
(* account for the channels left behind.                                   *)
(*                                                                         *)
(* TypeOK is not inductive alone.  The step that reads a job's data needs  *)
(* to know that the job was accepted and that the slot is in a branch its  *)
(* operation takes; the step that settles a row needs to know that the     *)
(* slot holds one.  QueueOK and RunsOK say so.  The last theorems rest on  *)
(* two more invariants: BookInv, which says whose the jobs and rows are    *)
(* and holds for any number of slots, and ProductInv(p), which relates the *)
(* rows, the stock and the channels of one product.                        *)
(***************************************************************************)
EXTENDS SyncAgent, SequenceTheorems, TLAPS

-----------------------------------------------------------------------------
(* Lemmas about the operators the model is built from *)

\* The buffer rule keeps stock in range: it never shows more than there is.
LEMMA ExpectedStockBound ==
    ASSUME NEW t, NEW q \in Nat, NEW b \in Nat
    PROVE  ExpectedStock(t, q, b) \in 0..q
BY DEF ExpectedStock, CalculateOnlineStock

\* What a channel is told to show is a stock level.
LEMMA ExpectedInStock ==
    ASSUME NEW p \in Products, NEW c, NEW q \in Stock
    PROVE  Expected(p, c, q) \in Stock
BY ExpectedStockBound, StockAssumption DEF Expected, Stock

\* Taking an element out of a sequence leaves a sequence over the same set.
LEMMA RemoveAtType ==
    ASSUME NEW S, NEW s \in Seq(S), NEW i \in 1..Len(s)
    PROVE  RemoveAt(s, i) \in Seq(S)
<1>1. Len(s) \in Nat /\ \A k \in 1..Len(s) : s[k] \in S
  BY ElementOfSeq, LenProperties
<1>2. SubSeq(s, 1, i - 1) \in Seq(S)
  BY <1>1, SubSeqProperties, \A k \in 1..(i - 1) : s[k] \in S
<1>3. SubSeq(s, i + 1, Len(s)) \in Seq(S)
  BY <1>1, SubSeqProperties, \A k \in (i + 1)..Len(s) : s[k] \in S
<1> QED
  BY <1>2, <1>3, ConcatProperties DEF RemoveAt

-----------------------------------------------------------------------------
(* The inductive invariant *)

\* Only accepted jobs are in BullMQ.
QueueOK ==
    /\ waiting \in Seq(1..Len(jobData))
    /\ \A j \in Jobs : jobState[j] # "none" => j \in 1..Len(jobData)

Pulls == {"channel_sync", "full_sync"}

\* The slot has created the row of the product at hand and not settled it yet.
HoldsRow(w) ==
    \/ run[w].pc \in {"pull", "unavailable", "write", "abort"}
    \/ run[w].pc \in {"mappings", "push"} /\ JobOf(w).op # "product_sync"

\* A busy slot works on an accepted job, in a branch of that job's operation.
RunOK(w) ==
    /\ run[w].pc # "idle" => run[w].job \in 1..Len(jobData)
    /\ run[w].pc = "lookup" => JobOf(w).op \in {"stock_change", "product_sync"}
    /\ run[w].pc = "mappings" => JobOf(w).op \in {"stock_change", "product_sync"}
    /\ run[w].pc \in {"source", "products", "next", "pull", "unavailable"}
           => JobOf(w).op \in Pulls
    /\ run[w].pc \in {"record", "write", "abort"} => JobOf(w).op # "product_sync"
    /\ run[w].pc \in {"record", "pull", "unavailable", "write", "mappings", "push", "abort"}
           => run[w].cur \in Products
    /\ run[w].pc \notin {"idle", "source", "done", "throw"} /\ JobOf(w).op # "product_sync"
           => run[w].src \in Channels
    /\ run[w].pc = "source" /\ JobOf(w).op = "channel_sync" => run[w].src \in Channels
    /\ IF run[w].pc # "idle" /\ HoldsRow(w)
       THEN run[w].row \in 1..Len(audit) ELSE run[w].row = 0

RunsOK == \A w \in Workers : RunOK(w)

Inv == TypeOK /\ QueueOK /\ RunsOK

-----------------------------------------------------------------------------

LEMMA InitInv == Init => Inv
<1> SUFFICES ASSUME Init PROVE Inv
  OBVIOUS
<1> USE ProductsAssumption, ChannelsAssumption, StockAssumption, BoundsAssumption
<1>1. IdleRun \in Run
  BY DEF IdleRun, Run, PC, NoSnap, Stock
<1>2. chanStock \in [Products -> [Channels -> Stock]]
  BY ExpectedInStock DEF Init
<1>3. /\ jobData \in Seq(JobData) /\ Len(jobData) <= MaxJobs
      /\ waiting \in Seq(Jobs) /\ audit \in Seq(AuditRow)
      /\ waiting \in Seq(1..Len(jobData))
  BY EmptySeq DEF Init
<1>4. TypeOK
  BY <1>1, <1>2, <1>3 DEF Init, TypeOK, JobState, SyncError
<1>5. QueueOK
  BY <1>3 DEF Init, QueueOK
<1>6. RunsOK
  BY DEF Init, RunsOK, RunOK, HoldsRow, IdleRun
<1> QED
  BY <1>4, <1>5, <1>6 DEF Inv

-----------------------------------------------------------------------------
(* Lemmas about steps *)

\* A step of one slot that keeps the accepted jobs and the rows leaves the
\* other slots as they are.
LEMMA OtherRuns ==
    ASSUME Inv, NEW w \in Workers,
           \A u \in Workers \ {w} : run'[u] = run[u],
           jobData' = jobData, audit' \in Seq(AuditRow), Len(audit') >= Len(audit),
           RunOK(w)'
    PROVE  RunsOK'
<1> SUFFICES ASSUME NEW u \in Workers \ {w} PROVE RunOK(u)'
  BY DEF RunsOK
<1>1. run'[u] = run[u] /\ JobOf(u)' = JobOf(u) /\ HoldsRow(u)' = HoldsRow(u)
  BY DEF JobOf, HoldsRow
<1>2. Len(audit) \in Nat /\ Len(audit') \in Nat
  BY LenProperties DEF Inv, TypeOK
<1>3. RunOK(u)
  BY DEF Inv, RunsOK
<1> QED
  BY <1>1, <1>2, <1>3 DEF RunOK

\* What is known of the data of the job a busy slot works on.
LEMMA JobTypes ==
    ASSUME Inv, NEW w \in Workers, run[w].pc # "idle"
    PROVE  /\ JobOf(w) \in JobData
           /\ run[w].job \in Jobs
           /\ JobOf(w).op \in Operations
           /\ JobOf(w).qty \in Stock \cup {NoStock}
           /\ JobOf(w).op = "stock_change" =>
                JobOf(w).prod \in Products /\ JobOf(w).src \in Channels /\ JobOf(w).qty \in Stock
           /\ JobOf(w).op = "product_sync" => JobOf(w).prod \in Products
           /\ JobOf(w).op = "channel_sync" => JobOf(w).src \in Channels
<1>1. run[w].job \in 1..Len(jobData)
  BY DEF Inv, RunsOK, RunOK
<1>2. JobOf(w) \in JobData /\ Len(jobData) \in Nat
  BY <1>1, ElementOfSeq, LenProperties DEF Inv, TypeOK, JobOf
<1>3. run[w].job \in Jobs
  BY <1>1, <1>2, BoundsAssumption DEF Inv, TypeOK, Jobs
<1> QED
  BY <1>2, <1>3 DEF JobData, Operations

\* A step that only moves one slot preserves the invariant when the slot's new
\* record is well-formed.
LEMMA OnlyRunInv ==
    ASSUME Inv, NEW w \in Workers, NEW r \in Run, OnlyRun,
           run' = [run EXCEPT ![w] = r], RunOK(w)'
    PROVE  Inv'
<1> USE DEF OnlyRun, queueVars, dataVars, faultVars
<1>1. TypeOK'
  BY DEF Inv, TypeOK
<1>2. QueueOK'
  BY DEF Inv, QueueOK
<1>3. Len(audit) \in Nat
  BY LenProperties DEF Inv, TypeOK
<1>4. RunsOK'
  BY <1>1, <1>3, OtherRuns DEF Inv, TypeOK
<1> QED
  BY <1>1, <1>2, <1>4 DEF Inv

LEMMA LookupProductInv ==
    ASSUME Inv, NEW w \in Workers, LookupProduct(w) PROVE Inv'
<1> DEFINE data == JobOf(w)
<1> USE DEF LookupProduct
<1>1. run[w] \in Run /\ run \in [Workers -> Run] /\ RunOK(w)
  BY DEF Inv, TypeOK, RunsOK
<1>3. CASE Found(data)
  <2> DEFINE r == [run[w] EXCEPT !.cur = data.prod,
                    !.qty = IF data.op = "stock_change" THEN data.qty ELSE dbStock[data.prod],
                    !.pc = IF data.op = "stock_change" THEN "record" ELSE "mappings"]
  <2>1. r \in Run
    <3>1. data.prod \in Products /\ (data.op = "stock_change" => data.qty \in Stock)
      BY <1>1, JobTypes DEF RunOK
    <3>2. (IF data.op = "stock_change" THEN data.qty ELSE dbStock[data.prod]) \in Stock
      BY <3>1 DEF Inv, TypeOK
    <3>3. (IF data.op = "stock_change" THEN "record" ELSE "mappings") \in PC
      BY DEF PC
    <3> QED
      BY <1>1, <3>1, <3>2, <3>3 DEF Run
  <2>2. run' = [run EXCEPT ![w] = r]
    BY <1>1, <1>3
  <2>3. /\ run'[w].pc \in {"record", "mappings"} /\ (run'[w].pc = "record" <=> data.op = "stock_change")
        /\ run'[w].cur \in Products /\ run'[w].job = run[w].job
        /\ run'[w].src = run[w].src /\ run'[w].row = run[w].row
        /\ JobOf(w)' = data
    <3>1. run'[w] = r
      BY <1>1, <2>1, <2>2
    <3>2. /\ r.pc = IF data.op = "stock_change" THEN "record" ELSE "mappings"
          /\ r.cur = data.prod /\ r.job = run[w].job
          /\ r.src = run[w].src /\ r.row = run[w].row
      BY <1>1 DEF Run
    <3>3. run[w].pc = "lookup" /\ data.prod \in Products
      BY <1>1, JobTypes DEF RunOK
    <3>4. JobOf(w)' = data
      BY <3>1, <3>2 DEF JobOf, OnlyRun, queueVars
    <3> HIDE DEF r
    <3> QED
      BY <3>1, <3>2, <3>3, <3>4
  <2>4. RunOK(w)'
    BY <1>1, <2>3, JobTypes DEF RunOK, HoldsRow, OnlyRun, queueVars, dataVars, Pulls
  <2> HIDE DEF r
  <2> QED
    BY <2>1, <2>2, <2>4, OnlyRunInv
<1>4. CASE ~Found(data)
  <2> DEFINE r == [run[w] EXCEPT
                    !.errors = IF data.op = "product_sync" THEN {<<data.prod, NoChannel>>} ELSE {},
                    !.pc = "done"]
  <2>1. r \in Run
    BY <1>1, JobTypes DEF Run, PC, SyncError
  <2>2. run' = [run EXCEPT ![w] = r]
    BY <1>1, <1>4
  <2>3. /\ run'[w].pc = "done" /\ run'[w].job = run[w].job /\ run'[w].row = run[w].row
        /\ jobData' = jobData /\ audit' = audit
    BY <1>1, <2>2 DEF OnlyRun, queueVars, dataVars, Run
  <2>4. RunOK(w)'
    BY <1>1, <2>3 DEF RunOK, HoldsRow, JobOf
  <2> HIDE DEF r
  <2> QED
    BY <2>1, <2>2, <2>4, OnlyRunInv
<1> QED
  BY <1>3, <1>4

LEMMA CheckChannelInv ==
    ASSUME Inv, NEW w \in Workers, CheckChannel(w) PROVE Inv'
<1> DEFINE c == JobOf(w).src
<1>1. run[w] \in Run /\ run \in [Workers -> Run] /\ RunOK(w)
  BY DEF Inv, TypeOK, RunsOK
<1>2. run[w].pc = "source" /\ JobOf(w).op = "channel_sync" /\ c \in Channels /\ OnlyRun
  BY JobTypes DEF CheckChannel
<1>3. \/ run' = [run EXCEPT ![w].pc = "products"]
      \/ run' = [run EXCEPT ![w].pc = "done", ![w].errors = {<<NoProduct, c>>}]
  BY Zenon DEF CheckChannel
<1>4. CASE run' = [run EXCEPT ![w].pc = "products"]
  <2> DEFINE r == [run[w] EXCEPT !.pc = "products"]
  <2>1. r \in Run
    BY <1>1 DEF Run, PC
  <2>2. run' = [run EXCEPT ![w] = r]
    BY <1>1, <1>4
  <2>3. RunOK(w)'
    BY <1>1, <1>2, <2>1, <2>2 DEF RunOK, HoldsRow, JobOf, OnlyRun, queueVars, dataVars, Pulls, Run
  <2> HIDE DEF r
  <2> QED
    BY <1>2, <2>1, <2>2, <2>3, OnlyRunInv
<1>5. CASE run' = [run EXCEPT ![w].pc = "done", ![w].errors = {<<NoProduct, c>>}]
  <2> DEFINE r == [run[w] EXCEPT !.pc = "done", !.errors = {<<NoProduct, c>>}]
  <2>1. {<<NoProduct, c>>} \subseteq SyncError
    BY <1>2 DEF SyncError
  <2>2. r \in Run
    BY <1>1, <2>1 DEF Run, PC
  <2>3. run' = [run EXCEPT ![w] = r]
    BY <1>1, <1>5
  <2>4. RunOK(w)'
    BY <1>1, <1>2, <2>2, <2>3 DEF RunOK, HoldsRow, JobOf, OnlyRun, queueVars, dataVars, Pulls, Run
  <2> HIDE DEF r
  <2> QED
    BY <1>2, <2>2, <2>3, <2>4, OnlyRunInv
<1> QED
  BY <1>3, <1>4, <1>5

LEMMA ChooseSourceOfTruthInv ==
    ASSUME Inv, NEW w \in Workers, ChooseSourceOfTruth(w) PROVE Inv'
<1> USE DEF ChooseSourceOfTruth
<1>1. run[w] \in Run /\ run \in [Workers -> Run] /\ RunOK(w)
  BY DEF Inv, TypeOK, RunsOK
<1>2. CASE Goto(w, "done")
  <2> DEFINE r == [run[w] EXCEPT !.pc = "done"]
  <2>1. r \in Run
    BY <1>1, JobTypes DEF Run, PC
  <2>2. run' = [run EXCEPT ![w] = r]
    BY <1>1, <1>2 DEF Goto
  <2>3. RunOK(w)'
    BY <1>1, <1>2, <2>1, <2>2, JobTypes DEF RunOK, HoldsRow, JobOf, OnlyRun, queueVars,
       dataVars, Pulls, Run
  <2> HIDE DEF r
  <2> QED
    BY <2>1, <2>2, <2>3, OnlyRunInv
<1>3. ASSUME NEW c \in SourceOfTruth(ActiveChannels),
             run' = [run EXCEPT ![w].src = c, ![w].pc = "products"]
      PROVE  Inv'
  <2> DEFINE r == [run[w] EXCEPT !.src = c, !.pc = "products"]
  <2>1. c \in Channels
    BY DEF SourceOfTruth, ActiveChannels
  <2>2. r \in Run
    BY <1>1, <2>1 DEF Run, PC
  <2>3. run' = [run EXCEPT ![w] = r]
    BY <1>1, <1>3
  <2>4. RunOK(w)'
    BY <1>1, <2>1, <2>2, <2>3, JobTypes DEF RunOK, HoldsRow, JobOf, OnlyRun, queueVars,
       dataVars, Pulls, Run
  <2> HIDE DEF r
  <2> QED
    BY <2>2, <2>3, <2>4, OnlyRunInv
<1> QED
  BY <1>2, <1>3

LEMMA LoadProductsInv ==
    ASSUME Inv, NEW w \in Workers, LoadProducts(w) PROVE Inv'
<1> USE DEF LoadProducts
<1>1. run[w] \in Run /\ run \in [Workers -> Run] /\ RunOK(w)
  BY DEF Inv, TypeOK, RunsOK
<1> DEFINE r == [run[w] EXCEPT !.snap = dbStock, !.pending = Known, !.pc = "next"]
<1>2. r \in Run
  BY <1>1, ProductsAssumption, JobTypes DEF Run, PC, Inv, TypeOK
<1>3. run' = [run EXCEPT ![w] = r]
  BY <1>1 DEF Goto
<1>4. RunOK(w)'
  BY <1>1, <1>2, <1>3, JobTypes DEF RunOK, HoldsRow, JobOf, OnlyRun, queueVars,
     dataVars, Pulls, Run
<1> HIDE DEF r
<1> QED
  BY <1>2, <1>3, <1>4, OnlyRunInv

LEMMA NextProductInv ==
    ASSUME Inv, NEW w \in Workers, NextProduct(w) PROVE Inv'
<1> USE DEF NextProduct
<1>1. run[w] \in Run /\ run \in [Workers -> Run] /\ RunOK(w)
  BY DEF Inv, TypeOK, RunsOK
<1>2. CASE Goto(w, "done")
  <2> DEFINE r == [run[w] EXCEPT !.pc = "done"]
  <2>1. r \in Run
    BY <1>1, JobTypes DEF Run, PC
  <2>2. run' = [run EXCEPT ![w] = r]
    BY <1>1, <1>2 DEF Goto
  <2>3. RunOK(w)'
    BY <1>1, <1>2, <2>1, <2>2, JobTypes DEF RunOK, HoldsRow, JobOf, OnlyRun, queueVars,
       dataVars, Pulls, Run
  <2> HIDE DEF r
  <2> QED
    BY <2>1, <2>2, <2>3, OnlyRunInv
<1>3. ASSUME NEW p \in run[w].pending,
             run' = [run EXCEPT ![w].pending = @ \ {p}, ![w].cur = p,
                       ![w].todo = Targets(p, run[w].src), ![w].pc = "record"]
      PROVE  Inv'
  <2> DEFINE r == [run[w] EXCEPT !.pending = @ \ {p}, !.cur = p,
                    !.todo = Targets(p, run[w].src), !.pc = "record"]
  <2>1. p \in Products /\ Targets(p, run[w].src) \subseteq Channels
    BY <1>1, ProductsAssumption DEF Run, Targets
  <2>2. r \in Run
    BY <1>1, <2>1 DEF Run, PC
  <2>3. run' = [run EXCEPT ![w] = r]
    BY <1>1, <1>3
  <2>4. RunOK(w)'
    BY <1>1, <2>1, <2>2, <2>3, JobTypes DEF RunOK, HoldsRow, JobOf, OnlyRun, queueVars,
       dataVars, Pulls, Run
  <2> HIDE DEF r
  <2> QED
    BY <2>2, <2>3, <2>4, OnlyRunInv
<1>4. ASSUME NEW p \in run[w].pending, run' = [run EXCEPT ![w].pending = @ \ {p}]
      PROVE  Inv'
  <2> DEFINE r == [run[w] EXCEPT !.pending = @ \ {p}]
  <2>1. r \in Run
    BY <1>1 DEF Run
  <2>2. run' = [run EXCEPT ![w] = r]
    BY <1>1, <1>4
  <2>3. RunOK(w)'
    BY <1>1, <2>1, <2>2, JobTypes DEF RunOK, HoldsRow, JobOf, OnlyRun, queueVars,
       dataVars, Pulls, Run
  <2> HIDE DEF r
  <2> QED
    BY <2>1, <2>2, <2>3, OnlyRunInv
<1> QED
  BY <1>2, <1>3, <1>4

LEMMA PullStockInv ==
    ASSUME Inv, NEW w \in Workers, PullStock(w) PROVE Inv'
<1> DEFINE v == chanStock[run[w].cur][run[w].src]
<1>1. run[w] \in Run /\ run \in [Workers -> Run] /\ RunOK(w)
  BY DEF Inv, TypeOK, RunsOK
<1>2. run[w].pc = "pull" /\ OnlyRun
  BY DEF PullStock
<1>3. JobOf(w).op \in Pulls /\ run[w].cur \in Products /\ run[w].src \in Channels
  BY <1>1, <1>2 DEF RunOK, Pulls
<1>4. v \in Stock
  BY <1>3 DEF Inv, TypeOK
<1>5. \/ run' = [run EXCEPT ![w].todo = {}, ![w].pc = "push"]
      \/ run' = [run EXCEPT ![w].qty = v, ![w].pc = "write"]
  BY Zenon DEF PullStock
<1>6. CASE run' = [run EXCEPT ![w].todo = {}, ![w].pc = "push"]
  <2> DEFINE r == [run[w] EXCEPT !.todo = {}, !.pc = "push"]
  <2>1. r \in Run
    BY <1>1 DEF Run, PC
  <2>2. run' = [run EXCEPT ![w] = r]
    BY <1>1, <1>6
  <2>3. RunOK(w)'
    BY <1>1, <1>2, <1>3, <2>1, <2>2
    DEF RunOK, HoldsRow, JobOf, OnlyRun, queueVars, dataVars, Pulls, Run
  <2> HIDE DEF r
  <2> QED
    BY <1>2, <2>1, <2>2, <2>3, OnlyRunInv
<1>7. CASE run' = [run EXCEPT ![w].qty = v, ![w].pc = "write"]
  <2> HIDE DEF v
  <2> DEFINE r == [run[w] EXCEPT !.qty = v, !.pc = "write"]
  <2>1. r \in Run
    BY <1>1, <1>4 DEF Run, PC
  <2>2. run' = [run EXCEPT ![w] = r]
    BY <1>1, <1>7
  <2>3. RunOK(w)'
    BY <1>1, <1>2, <1>3, <2>1, <2>2
    DEF RunOK, HoldsRow, JobOf, OnlyRun, queueVars, dataVars, Pulls, Run
  <2> HIDE DEF r
  <2> QED
    BY <1>2, <2>1, <2>2, <2>3, OnlyRunInv
<1> QED
  BY <1>5, <1>6, <1>7

LEMMA LoadMappingsInv ==
    ASSUME Inv, NEW w \in Workers, LoadMappings(w) PROVE Inv'
<1> USE DEF LoadMappings
<1>1. run[w] \in Run /\ run \in [Workers -> Run] /\ RunOK(w)
  BY DEF Inv, TypeOK, RunsOK
<1> DEFINE r == [run[w] EXCEPT !.todo = Targets(run[w].cur, run[w].src), !.pc = "push"]
<1>2. r \in Run
  BY <1>1, ProductsAssumption, JobTypes DEF Run, PC, Targets, RunOK
<1>3. run' = [run EXCEPT ![w] = r]
  BY <1>1 DEF Goto
<1>4. /\ run'[w].pc = "push" /\ run'[w].job = run[w].job /\ run'[w].row = run[w].row
      /\ run'[w].cur = run[w].cur /\ run'[w].src = run[w].src
      /\ jobData' = jobData /\ audit' = audit
  BY <1>1, <1>3 DEF OnlyRun, queueVars, dataVars, Run
<1>5. RunOK(w)'
  BY <1>1, <1>4 DEF RunOK, HoldsRow, JobOf
<1> HIDE DEF r
<1> QED
  BY <1>2, <1>3, <1>5, OnlyRunInv

LEMMA EndProductSyncInv ==
    ASSUME Inv, NEW w \in Workers, EndProductSync(w) PROVE Inv'
<1> USE DEF EndProductSync, Goto
<1>1. run[w] \in Run /\ run \in [Workers -> Run] /\ RunOK(w)
  BY DEF Inv, TypeOK, RunsOK
<1> DEFINE r == [run[w] EXCEPT !.pc = "done"]
<1>2. r \in Run
  BY <1>1, JobTypes DEF Run, PC
<1>3. run' = [run EXCEPT ![w] = r]
  BY <1>1 DEF Goto
<1>4. RunOK(w)'
  BY <1>1, <1>2, <1>3, JobTypes DEF RunOK, HoldsRow, JobOf, OnlyRun, queueVars,
     dataVars, Pulls, Run
<1> HIDE DEF r
<1> QED
  BY <1>2, <1>3, <1>4, OnlyRunInv

-----------------------------------------------------------------------------
(* Steps that write the queue, the stock or the rows *)

LEMMA RequestsInv == ASSUME Inv, Requests PROVE Inv'
<1>1. PICK data \in JobData :
        /\ AddSyncJob(data)
        /\ dbStock' = dbStock /\ audit' = audit
        /\ \/ chanStock' = chanStock
           \/ \E p \in Products, c \in Channels, q \in Stock :
                 chanStock' = [chanStock EXCEPT ![p][c] = q]
  <2>1. ASSUME NEW p \in Products, NEW c \in Channels, NEW q \in Stock,
               HandleStockChange(p, c, q)
        PROVE  [op |-> "stock_change", prod |-> p, src |-> c, qty |-> q, force |-> FALSE] \in JobData
    BY DEF JobData
  <2>2. ASSUME NEW p \in Products
        PROVE  [op |-> "product_sync", prod |-> p, src |-> NoChannel, qty |-> NoStock,
                force |-> FALSE] \in JobData
    BY DEF JobData
  <2>3. ASSUME NEW c \in Channels
        PROVE  [op |-> "channel_sync", prod |-> NoProduct, src |-> c, qty |-> NoStock,
                force |-> FALSE] \in JobData
    BY DEF JobData
  <2>4. ASSUME NEW force \in BOOLEAN
        PROVE  [op |-> "full_sync", prod |-> NoProduct, src |-> NoChannel, qty |-> NoStock,
                force |-> force] \in JobData
    BY DEF JobData
  <2> QED
    BY <2>1, <2>2, <2>3, <2>4 DEF Requests, HandleStockChange, TriggerProductSync,
       TriggerChannelSync, TriggerFullSync, dataVars
<1> DEFINE j == Len(jobData) + 1
<1>2. /\ Len(jobData) \in Nat /\ Len(jobData) < MaxJobs /\ j \in Jobs
      /\ jobData' = Append(jobData, data)
      /\ jobState' = [jobState EXCEPT ![j] = "waiting"]
      /\ waiting' = Append(waiting, j)
      /\ UNCHANGED <<agentState, attempts, stalls, result, run, active, faultVars>>
  <2>1. Len(jobData) \in Nat
    BY LenProperties DEF Inv, TypeOK
  <2>2. Len(jobData) < MaxJobs
    BY <1>1 DEF AddSyncJob
  <2>3. j \in Jobs
    BY <2>1, <2>2, BoundsAssumption DEF Jobs
  <2> QED
    BY <1>1, <2>1, <2>2, <2>3 DEF AddSyncJob
<1>3. /\ jobData' \in Seq(JobData) /\ Len(jobData') = j
      /\ \A k \in 1..Len(jobData) : jobData'[k] = jobData[k]
  BY <1>2, AppendProperties DEF Inv, TypeOK
<1>4. waiting' \in Seq(Jobs)
  BY <1>2, AppendProperties DEF Inv, TypeOK
<1>5. chanStock' \in [Products -> [Channels -> Stock]]
  <2>1. chanStock \in [Products -> [Channels -> Stock]]
    BY DEF Inv, TypeOK
  <2>2. ASSUME NEW p \in Products, NEW c \in Channels, NEW q \in Stock
        PROVE  [chanStock EXCEPT ![p][c] = q] \in [Products -> [Channels -> Stock]]
    BY <2>1
  <2> QED
    BY <1>1, <2>1, <2>2
<1>6. TypeOK'
  <2>1. jobState' \in [Jobs -> JobState]
    BY <1>2 DEF Inv, TypeOK, JobState
  <2>2. Len(jobData') <= MaxJobs
    BY <1>2, <1>3, BoundsAssumption
  <2> QED
    BY <1>1, <1>2, <1>3, <1>4, <1>5, <2>1, <2>2 DEF Inv, TypeOK, faultVars
<1>7. QueueOK'
  <2>1. waiting \in Seq(1..j)
    BY <1>2, SeqMonotonic, 1..Len(jobData) \subseteq 1..j DEF Inv, QueueOK
  <2>2. waiting' \in Seq(1..Len(jobData'))
    BY <1>2, <1>3, <2>1, AppendProperties
  <2>3. \A k \in Jobs : jobState'[k] # "none" => k \in 1..Len(jobData')
    BY <1>2, <1>3 DEF Inv, QueueOK, TypeOK
  <2> QED
    BY <2>2, <2>3 DEF QueueOK
<1>8. RunsOK'
  <2> SUFFICES ASSUME NEW w \in Workers PROVE RunOK(w)'
    BY DEF RunsOK
  <2>1. run' = run /\ audit' = audit
    BY <1>1, <1>2
  <2>2. RunOK(w) /\ (run[w].pc # "idle" => JobOf(w)' = JobOf(w))
    BY <1>3, <2>1 DEF Inv, RunsOK, RunOK, JobOf
  <2>3. CASE run[w].pc = "idle"
    BY <2>1, <2>2, <2>3 DEF RunOK
  <2>4. CASE run[w].pc # "idle"
    BY <1>2, <1>3, <2>1, <2>2, <2>4 DEF RunOK, HoldsRow
  <2> QED
    BY <2>3, <2>4
<1> QED
  BY <1>6, <1>7, <1>8 DEF Inv

\* A step that frees or fills one slot and only updates the queue's records.
LEMMA QueueStepInv ==
    ASSUME Inv, NEW w \in Workers, NEW r \in Run,
           UNCHANGED <<jobData, dataVars, active, faultVars>>,
           agentState' \in {"stopped", "running", "stopping"},
           waiting' \in Seq(1..Len(jobData)),
           jobState' \in [Jobs -> JobState],
           \A k \in Jobs : jobState'[k] # "none" => k \in 1..Len(jobData),
           attempts' \in [Jobs -> Nat], stalls' \in [Jobs -> Nat],
           result' \in [Jobs -> SUBSET SyncError],
           run' = [run EXCEPT ![w] = r], RunOK(w)'
    PROVE  Inv'
<1>1. Len(jobData) \in Nat /\ Len(audit) \in Nat /\ 1..Len(jobData) \subseteq Jobs
  BY LenProperties, BoundsAssumption DEF Inv, TypeOK, Jobs
<1>2. waiting' \in Seq(Jobs)
  BY <1>1, SeqMonotonic
<1>3. TypeOK'
  BY <1>2 DEF Inv, TypeOK, dataVars, faultVars
<1>4. QueueOK'
  BY DEF QueueOK
<1>5. RunsOK'
  BY <1>1, OtherRuns DEF Inv, TypeOK, dataVars
<1> QED
  BY <1>3, <1>4, <1>5 DEF Inv

LEMMA TakeJobInv ==
    ASSUME Inv, NEW w \in Workers, TakeJob(w) PROVE Inv'
<1>1. PICK i \in 1..Len(waiting) : TakeJob(w)!3!(i)
  BY DEF TakeJob
<1> DEFINE j == waiting[i]
           r == [IdleRun EXCEPT !.job = j, !.src = jobData[j].src,
                   !.pc = IF jobData[j].op \in {"stock_change", "product_sync"}
                          THEN "lookup" ELSE "source"]
<1>2. waiting \in Seq(1..Len(jobData)) /\ j \in 1..Len(jobData) /\ Len(jobData) \in Nat
  BY ElementOfSeq, LenProperties DEF Inv, QueueOK, TypeOK
<1>3. j \in Jobs /\ jobData[j] \in JobData
  BY <1>2, ElementOfSeq, BoundsAssumption DEF Inv, TypeOK, Jobs
<1>4. waiting' \in Seq(1..Len(jobData))
  BY <1>1, <1>2, RemoveAtType
<1>5. /\ jobState' \in [Jobs -> JobState]
      /\ \A k \in Jobs : jobState'[k] # "none" => k \in 1..Len(jobData)
  BY <1>1, <1>2, <1>3 DEF Inv, TypeOK, QueueOK, JobState
<1>6. jobData[j].src \in Channels \cup {NoChannel}
  BY <1>3 DEF JobData
<1>7. r \in Run
  <2>1. IdleRun \in Run
    BY StockAssumption DEF Run, PC, IdleRun, NoSnap, Stock
  <2>2. r.pc \in PC /\ r = [IdleRun EXCEPT !.job = j, !.src = jobData[j].src, !.pc = r.pc]
    BY DEF PC, IdleRun
  <2> HIDE DEF r
  <2> QED
    BY <1>3, <1>6, <2>1, <2>2 DEF Run
<1>8. run' = [run EXCEPT ![w] = r] /\ jobData' = jobData
  BY <1>1 DEF TakeJob
<1>9. /\ run'[w].job = j /\ run'[w].src = jobData[j].src /\ run'[w].row = 0
      /\ run'[w].pc = IF jobData[j].op \in {"stock_change", "product_sync"}
                      THEN "lookup" ELSE "source"
      /\ JobOf(w)' = jobData[j]
  BY <1>7, <1>8 DEF Inv, TypeOK, IdleRun, JobOf
<1>10. jobData[j].op \in Operations
       /\ (jobData[j].op = "channel_sync" => jobData[j].src \in Channels)
       /\ (jobData[j].op = "stock_change" => jobData[j].src \in Channels)
  BY <1>3 DEF JobData, Operations
<1>11. RunOK(w)'
  <2> HIDE DEF r, j
  <2> QED
    BY <1>2, <1>8, <1>9, <1>10 DEF RunOK, HoldsRow, Operations, Pulls
<1> HIDE DEF r, j
<1> QED
  BY <1>4, <1>5, <1>7, <1>8, <1>11, QueueStepInv DEF TakeJob, Inv, TypeOK

LEMMA IdleRunOK == IdleRun \in Run
BY StockAssumption DEF Run, PC, IdleRun, NoSnap, Stock

LEMMA FinishJobInv ==
    ASSUME Inv, NEW w \in Workers, FinishJob(w) PROVE Inv'
<1>1. run \in [Workers -> Run] /\ RunOK(w) /\ run[w].pc = "done"
  BY DEF Inv, TypeOK, RunsOK, FinishJob
<1>2. run[w].job \in 1..Len(jobData)
  BY <1>1 DEF RunOK
<1>3. /\ jobState' \in [Jobs -> JobState]
      /\ \A k \in Jobs : jobState'[k] # "none" => k \in 1..Len(jobData)
  BY <1>2 DEF FinishJob, Inv, TypeOK, QueueOK, JobState
<1>4. result' \in [Jobs -> SUBSET SyncError]
  BY <1>1 DEF FinishJob, Inv, TypeOK, Run
<1>5. RunOK(w)'
  BY <1>1 DEF FinishJob, RunOK, HoldsRow, IdleRun
<1>6. waiting' \in Seq(1..Len(jobData))
  BY DEF FinishJob, Inv, QueueOK
<1>7. /\ attempts' \in [Jobs -> Nat] /\ stalls' \in [Jobs -> Nat]
      /\ agentState' \in {"stopped", "running", "stopping"}
  BY DEF FinishJob, Inv, TypeOK
<1>8. /\ run' = [run EXCEPT ![w] = IdleRun]
      /\ UNCHANGED <<jobData, dataVars, active, faultVars>>
  BY DEF FinishJob
<1> QED
  BY <1>3, <1>4, <1>5, <1>6, <1>7, <1>8, IdleRunOK, QueueStepInv

LEMMA FailJobInv ==
    ASSUME Inv, NEW w \in Workers, FailJob(w) PROVE Inv'
<1>1. run \in [Workers -> Run] /\ RunOK(w) /\ run[w].pc = "throw"
  BY DEF Inv, TypeOK, RunsOK, FailJob
<1>2. run[w].job \in 1..Len(jobData)
  BY <1>1 DEF RunOK
<1>3. /\ jobState' \in [Jobs -> JobState]
      /\ \A k \in Jobs : jobState'[k] # "none" => k \in 1..Len(jobData)
  <2>1. PICK s \in {"delayed", "failed"} : jobState' = [jobState EXCEPT ![run[w].job] = s]
    BY DEF FailJob
  <2>2. jobState \in [Jobs -> JobState] /\ s \in JobState
    BY <2>1 DEF Inv, TypeOK, JobState
  <2>3. \A k \in Jobs : jobState[k] # "none" => k \in 1..Len(jobData)
    BY DEF Inv, QueueOK
  <2>4. jobState' \in [Jobs -> JobState]
    BY <2>1, <2>2
  <2>5. ASSUME NEW k \in Jobs, jobState'[k] # "none" PROVE k \in 1..Len(jobData)
    <3>1. CASE k = run[w].job
      BY <1>2, <3>1
    <3>2. CASE k # run[w].job
      BY <2>1, <2>2, <2>3, <2>5, <3>2
    <3> QED
      BY <3>1, <3>2
  <2> QED
    BY <2>4, <2>5
<1>4. attempts' \in [Jobs -> Nat]
  <2>1. run[w].job \in Jobs /\ attempts \in [Jobs -> Nat]
    BY <1>1, JobTypes DEF Inv, TypeOK
  <2>2. attempts' = [attempts EXCEPT ![run[w].job] = attempts[run[w].job] + 1]
    BY DEF FailJob
  <2> QED
    BY <2>1, <2>2
<1>5. RunOK(w)'
  BY <1>1 DEF FailJob, RunOK, HoldsRow, IdleRun
<1>6. waiting' \in Seq(1..Len(jobData))
  BY DEF FailJob, Inv, QueueOK
<1>7. /\ result' \in [Jobs -> SUBSET SyncError] /\ stalls' \in [Jobs -> Nat]
      /\ agentState' \in {"stopped", "running", "stopping"}
  BY DEF FailJob, Inv, TypeOK
<1>8. /\ run' = [run EXCEPT ![w] = IdleRun]
      /\ UNCHANGED <<jobData, dataVars, active, faultVars>>
  BY DEF FailJob
<1> QED
  BY <1>3, <1>4, <1>5, <1>6, <1>7, <1>8, IdleRunOK, QueueStepInv

\* BullMQ moves a job that no slot holds.
LEMMA RequeueInv ==
    ASSUME Inv, NEW j \in Jobs, NEW s \in JobState, jobState[j] # "none",
           jobState' = [jobState EXCEPT ![j] = s],
           waiting' \in {waiting, Append(waiting, j)},
           stalls' \in [Jobs -> Nat],
           UNCHANGED <<agentState, jobData, attempts, result, run, dataVars, active, faultVars>>
    PROVE  Inv'
<1>1. j \in 1..Len(jobData) /\ waiting \in Seq(1..Len(jobData))
  BY DEF Inv, QueueOK
<1>2. waiting' \in Seq(1..Len(jobData)) /\ waiting' \in Seq(Jobs)
  <2>1. waiting \in Seq(Jobs)
    BY DEF Inv, TypeOK
  <2>2. Append(waiting, j) \in Seq(Jobs) /\ Append(waiting, j) \in Seq(1..Len(jobData))
    BY <1>1, <2>1, AppendProperties
  <2> QED
    BY <1>1, <2>1, <2>2
<1>3. TypeOK'
  BY <1>2 DEF Inv, TypeOK, dataVars, faultVars
<1>4. QueueOK'
  BY <1>1, <1>2 DEF Inv, QueueOK, TypeOK
<1>5. RunsOK'
  BY DEF Inv, RunsOK, RunOK, HoldsRow, JobOf, dataVars
<1> QED
  BY <1>3, <1>4, <1>5 DEF Inv

LEMMA PromoteDelayedInv ==
    ASSUME Inv, NEW j \in Jobs, PromoteDelayed(j) PROVE Inv'
BY RequeueInv DEF PromoteDelayed, Inv, TypeOK, JobState

LEMMA RecoverStalledInv ==
    ASSUME Inv, NEW j \in Jobs, RecoverStalled(j) PROVE Inv'
<1>1. stalls \in [Jobs -> Nat]
  BY DEF Inv, TypeOK
<1>2. jobState[j] # "none" /\ {"waiting", "failed"} \subseteq JobState
  BY DEF RecoverStalled, JobState
<1>3. UNCHANGED <<agentState, jobData, attempts, result, run, dataVars, active, faultVars>>
  BY DEF RecoverStalled
<1>4. CASE stalls[j] < MaxStalls
  <2>1. /\ jobState' = [jobState EXCEPT ![j] = "waiting"] /\ waiting' = Append(waiting, j)
        /\ stalls' \in [Jobs -> Nat]
    BY <1>1, <1>4 DEF RecoverStalled
  <2> QED
    BY <1>2, <1>3, <2>1, RequeueInv
<1>5. CASE ~(stalls[j] < MaxStalls)
  <2>1. jobState' = [jobState EXCEPT ![j] = "failed"] /\ waiting' = waiting /\ stalls' = stalls
    BY <1>5 DEF RecoverStalled
  <2> QED
    BY <1>1, <1>2, <1>3, <2>1, RequeueInv
<1> QED
  BY <1>4, <1>5

\* A step of a slot that writes the stock, the rows or a fault counter.
LEMMA SlotStepInv ==
    ASSUME Inv, NEW w \in Workers, NEW r \in Run,
           UNCHANGED <<agentState, queueVars, active>>,
           dbStock' \in [Products -> Stock],
           chanStock' \in [Products -> [Channels -> Stock]],
           audit' \in Seq(AuditRow), Len(audit') >= Len(audit),
           dbErrors' \in Nat, lostReplies' \in Nat, channelFaults' \in Nat,
           UNCHANGED <<crashes, stops, toggles, switched>>,
           run' = [run EXCEPT ![w] = r], RunOK(w)'
    PROVE  Inv'
<1>1. TypeOK'
  BY DEF Inv, TypeOK, queueVars
<1>2. QueueOK'
  BY DEF Inv, QueueOK, queueVars
<1>3. RunsOK'
  BY OtherRuns DEF queueVars
<1> QED
  BY <1>1, <1>2, <1>3 DEF Inv

LEMMA NewRowTyped ==
    ASSUME Inv, NEW w \in Workers, run[w].pc # "idle",
           run[w].cur \in Products, run[w].src \in Channels
    PROVE  NewRow(w) \in AuditRow
<1>1. run[w].job \in Jobs /\ JobOf(w).qty \in Stock \cup {NoStock}
  BY JobTypes
<1>2. Try(run[w].job) \in Nat
  BY <1>1 DEF Try, Inv, TypeOK
<1> QED
  BY <1>1, <1>2 DEF NewRow, AuditRow

LEMMA CreateSyncEventInv ==
    ASSUME Inv, NEW w \in Workers, CreateSyncEvent(w) PROVE Inv'
<1> DEFINE l == IF JobOf(w).op = "stock_change" THEN "write" ELSE "pull"
           r == [run[w] EXCEPT !.row = Len(audit) + 1, !.pc = l]
<1>1. run[w] \in Run /\ run \in [Workers -> Run] /\ RunOK(w) /\ run[w].pc = "record"
  BY DEF Inv, TypeOK, RunsOK, CreateSyncEvent
<1>2. /\ JobOf(w).op \in {"stock_change", "channel_sync", "full_sync"}
      /\ run[w].cur \in Products /\ run[w].src \in Channels
  BY <1>1, JobTypes DEF RunOK, Operations
<1>3. NewRow(w) \in AuditRow
  BY <1>1, <1>2, NewRowTyped
<1>4. audit' \in Seq(AuditRow) /\ Len(audit') = Len(audit) + 1 /\ Len(audit) \in Nat
  <2>1. audit \in Seq(AuditRow) /\ audit' = Append(audit, NewRow(w))
    BY DEF CreateSyncEvent, Inv, TypeOK
  <2>2. Len(audit) \in Nat
    BY <2>1, LenProperties
  <2> QED
    BY <1>3, <2>1, <2>2, AppendProperties
<1>5. r \in Run
  <2>1. l \in PC
    BY DEF PC
  <2>2. Len(audit) + 1 \in Nat
    BY <1>4
  <2> DEFINE n == Len(audit) + 1
  <2> HIDE DEF l, n
  <2> QED
    BY <1>1, <2>1, <2>2 DEF Run, n
<1>6. run' = [run EXCEPT ![w] = r]
  <2>1. run' = [run EXCEPT ![w].row = Len(audit) + 1, ![w].pc = l]
    BY DEF CreateSyncEvent
  <2> HIDE DEF l
  <2> QED
    BY <1>1, <2>1
<1>7. /\ run'[w].pc = l /\ run'[w].row = Len(audit) + 1 /\ run'[w].job = run[w].job
      /\ run'[w].src = run[w].src /\ run'[w].cur = run[w].cur
  BY <1>1, <1>5, <1>6 DEF Run
<1>8. JobOf(w)' = JobOf(w) /\ jobData' = jobData
  BY <1>7 DEF CreateSyncEvent, queueVars, JobOf
<1> HIDE DEF r
<1>9. RunOK(w)'
  BY <1>1, <1>2, <1>4, <1>7, <1>8 DEF RunOK, HoldsRow, Pulls
<1>10. /\ dbStock' \in [Products -> Stock] /\ chanStock' \in [Products -> [Channels -> Stock]]
       /\ Len(audit') >= Len(audit)
  BY <1>4 DEF CreateSyncEvent, Inv, TypeOK
<1>11. /\ UNCHANGED <<agentState, queueVars, active>> /\ UNCHANGED <<crashes, stops, toggles, switched>>
       /\ dbErrors' \in Nat /\ lostReplies' \in Nat /\ channelFaults' \in Nat
  BY DEF CreateSyncEvent, Inv, TypeOK, faultVars
<1> QED
  BY <1>4, <1>5, <1>6, <1>9, <1>10, <1>11, SlotStepInv

\* A step that keeps the slot's job, source and row, and moves it to the push
\* loop or within it.
LEMMA UpdateProductStockInv ==
    ASSUME Inv, NEW w \in Workers, UpdateProductStock(w) PROVE Inv'
<1> DEFINE l == IF JobOf(w).op = "stock_change" THEN "mappings" ELSE "push"
           r == [run[w] EXCEPT !.pc = l]
<1>1. run[w] \in Run /\ run \in [Workers -> Run] /\ RunOK(w) /\ run[w].pc = "write"
  BY DEF Inv, TypeOK, RunsOK, UpdateProductStock
<1>2. dbStock' \in [Products -> Stock]
  BY <1>1 DEF UpdateProductStock, Inv, TypeOK, Run
<1>3. r \in Run
  BY <1>1 DEF Run, PC
<1>4. run' = [run EXCEPT ![w] = r]
  BY <1>1 DEF UpdateProductStock, Goto
<1>5. /\ run'[w].pc = l /\ run'[w].row = run[w].row /\ run'[w].job = run[w].job
      /\ run'[w].src = run[w].src /\ run'[w].cur = run[w].cur
  BY <1>1, <1>3, <1>4 DEF Run
<1>6. JobOf(w)' = JobOf(w) /\ jobData' = jobData /\ audit' = audit
  BY <1>5 DEF UpdateProductStock, queueVars, JobOf
<1> HIDE DEF r
<1>7. RunOK(w)'
  BY <1>1, <1>5, <1>6, JobTypes DEF RunOK, HoldsRow, Pulls
<1>8. Len(audit') >= Len(audit)
  BY <1>6, LenProperties DEF Inv, TypeOK
<1>9. audit' \in Seq(AuditRow) /\ chanStock' \in [Products -> [Channels -> Stock]]
  BY DEF UpdateProductStock, Inv, TypeOK
<1>10. /\ UNCHANGED <<agentState, queueVars, active>> /\ UNCHANGED <<crashes, stops, toggles, switched>>
       /\ dbErrors' \in Nat /\ lostReplies' \in Nat /\ channelFaults' \in Nat
  BY DEF UpdateProductStock, Inv, TypeOK, faultVars
<1> QED
  BY <1>2, <1>3, <1>4, <1>6, <1>7, <1>8, <1>9, <1>10, SlotStepInv

\* One turn of the push loop, whatever became of the channel's call.
LEMMA PushStepInv ==
    ASSUME Inv, NEW w \in Workers, NEW c \in Channels, NEW e \in SUBSET SyncError,
           run[w].pc = "push",
           run' = [run EXCEPT ![w].todo = @ \ {c}, ![w].errors = @ \cup e],
           WriteChannel(w, c) \/ UNCHANGED chanStock,
           channelFaults' \in Nat,
           UNCHANGED <<agentState, queueVars, dbStock, audit, active, dbErrors, lostReplies,
                       crashes, stops, toggles, switched>>
    PROVE  Inv'
<1> DEFINE r == [run[w] EXCEPT !.todo = @ \ {c}, !.errors = @ \cup e]
<1>1. run[w] \in Run /\ run \in [Workers -> Run] /\ RunOK(w)
  BY DEF Inv, TypeOK, RunsOK
<1>2. run[w].cur \in Products /\ run[w].qty \in Stock
  BY <1>1 DEF RunOK, Run
<1>3. chanStock' \in [Products -> [Channels -> Stock]]
  <2>1. Expected(run[w].cur, c, run[w].qty) \in Stock
    BY <1>2, ExpectedInStock
  <2>2. chanStock \in [Products -> [Channels -> Stock]]
    BY DEF Inv, TypeOK
  <2> DEFINE q == Expected(run[w].cur, c, run[w].qty)
  <2> HIDE DEF q
  <2>3. [chanStock EXCEPT ![run[w].cur][c] = q] \in [Products -> [Channels -> Stock]]
    BY <1>2, <2>1, <2>2 DEF q
  <2>4. CASE chanStock' = [chanStock EXCEPT ![run[w].cur][c] = q]
    BY <2>3, <2>4
  <2>5. CASE chanStock' = chanStock
    BY <2>2, <2>5
  <2> QED
    BY <2>4, <2>5 DEF WriteChannel, q
<1>4. r \in Run
  BY <1>1 DEF Run
<1>5. run' = [run EXCEPT ![w] = r]
  BY <1>1
<1>6. /\ run'[w].pc = run[w].pc /\ run'[w].row = run[w].row /\ run'[w].job = run[w].job
      /\ run'[w].src = run[w].src /\ run'[w].cur = run[w].cur
  BY <1>1, <1>4, <1>5 DEF Run
<1>7. JobOf(w)' = JobOf(w) /\ jobData' = jobData /\ audit' = audit
  BY <1>6 DEF queueVars, JobOf
<1> HIDE DEF r
<1>8. RunOK(w)'
  BY <1>1, <1>6, <1>7 DEF RunOK, HoldsRow
<1>9. Len(audit') >= Len(audit)
  BY <1>7, LenProperties DEF Inv, TypeOK
<1>10. /\ audit' \in Seq(AuditRow) /\ dbStock' \in [Products -> Stock]
       /\ dbErrors' \in Nat /\ lostReplies' \in Nat
  BY DEF Inv, TypeOK
<1> QED
  BY <1>3, <1>4, <1>5, <1>7, <1>8, <1>9, <1>10, SlotStepInv

LEMMA PushChannelInv ==
    ASSUME Inv, NEW w \in Workers, NEW c \in Channels, PushChannel(w, c) PROVE Inv'
<1>1. run' = [run EXCEPT ![w].todo = @ \ {c}, ![w].errors = @ \cup {}]
  <2>1. run \in [Workers -> Run] /\ run[w] \in Run
    BY DEF Inv, TypeOK
  <2>2. run' = [run EXCEPT ![w].todo = @ \ {c}]
    BY DEF PushChannel
  <2>3. [run[w] EXCEPT !.todo = @ \ {c}] = [run[w] EXCEPT !.todo = @ \ {c}, !.errors = @ \cup {}]
    BY <2>1 DEF Run
  <2> QED
    BY <2>1, <2>2, <2>3
<1>2. channelFaults' \in Nat
  BY DEF PushChannel, Inv, TypeOK, faultVars
<1>3. /\ run[w].pc = "push" /\ WriteChannel(w, c)
      /\ UNCHANGED <<agentState, queueVars, dbStock, audit, active, dbErrors, lostReplies,
                     crashes, stops, toggles, switched>>
  BY DEF PushChannel, faultVars
<1> QED
  BY <1>1, <1>2, <1>3, PushStepInv, {} \in SUBSET SyncError

LEMMA PushFailsInv ==
    ASSUME Inv, NEW w \in Workers, NEW c \in Channels, NEW applied \in BOOLEAN,
           PushFails(w, c, applied)
    PROVE  Inv'
<1>1. run[w].cur \in Products
  BY DEF PushFails, Inv, RunsOK, RunOK
<1>2. {<<run[w].cur, c>>} \in SUBSET SyncError
  BY <1>1 DEF SyncError
<1>3. channelFaults' \in Nat
  BY DEF PushFails, Inv, TypeOK
<1>4. WriteChannel(w, c) \/ UNCHANGED chanStock
  BY DEF PushFails
<1> QED
  BY <1>2, <1>3, <1>4, PushStepInv DEF PushFails

\* The slot's row is settled.
LEMMA SettleRowInv ==
    ASSUME Inv, NEW w \in Workers, run[w].pc # "idle", HoldsRow(w),
           JobOf(w).op # "product_sync",
           NEW s \in {"completed", "failed"}, NEW e \in SUBSET SyncError,
           NEW end \in {"done", "throw", "next"},
           end = "next" => JobOf(w).op # "stock_change",
           SetStatus(w, s), LeaveRow(w, e, end),
           UNCHANGED <<agentState, queueVars, dbStock, chanStock, active, faultVars>>
    PROVE  Inv'
<1> DEFINE l == IF JobOf(w).op = "stock_change" THEN end ELSE "next"
           r == [run[w] EXCEPT !.row = 0, !.cur = NoProduct, !.qty = 0, !.todo = {},
                   !.errors = @ \cup e, !.pc = l]
<1>1. run[w] \in Run /\ run \in [Workers -> Run] /\ RunOK(w) /\ audit \in Seq(AuditRow)
  BY DEF Inv, TypeOK, RunsOK
<1>2. run[w].row \in 1..Len(audit) /\ run[w].job \in 1..Len(jobData) /\ Len(audit) \in Nat
  BY <1>1, LenProperties DEF RunOK
<1>3. audit' \in Seq(AuditRow) /\ Len(audit') = Len(audit)
  <2>1. audit[run[w].row] \in AuditRow
    BY <1>1, <1>2, ElementOfSeq
  <2>2. [audit[run[w].row] EXCEPT !.status = s] \in AuditRow
    BY <2>1 DEF AuditRow
  <2>3. audit' = [audit EXCEPT ![run[w].row] = [audit[run[w].row] EXCEPT !.status = s]]
    BY <1>1, <1>2 DEF SetStatus
  <2> QED
    BY <1>1, <1>2, <2>2, <2>3, ExceptSeq
<1>4. l \in PC
  BY DEF PC
<1>5. r \in Run
  <2>1. 0 \in Stock /\ 0 \in Nat /\ run[w].errors \cup e \in SUBSET SyncError
    BY <1>1, StockAssumption DEF Stock, Run
  <2> HIDE DEF l
  <2> QED
    BY <1>1, <1>4, <2>1 DEF Run
<1>6. run' = [run EXCEPT ![w] = r]
  <2>1. run' = [run EXCEPT ![w].row = 0, ![w].cur = NoProduct, ![w].qty = 0, ![w].todo = {},
                  ![w].errors = @ \cup e, ![w].pc = l]
    BY DEF LeaveRow
  <2> HIDE DEF l
  <2> QED
    BY <1>1, <2>1
<1>7. /\ run'[w].pc = l /\ run'[w].row = 0 /\ run'[w].job = run[w].job
      /\ run'[w].src = run[w].src
  <2> HIDE DEF l
  <2> QED
    BY <1>1, <1>5, <1>6 DEF Run
<1>8. JobOf(w)' = JobOf(w) /\ jobData' = jobData
  BY <1>7 DEF queueVars, JobOf
<1>9. JobOf(w).op \in {"stock_change", "channel_sync", "full_sync"} /\ run[w].src \in Channels
  BY <1>1, JobTypes DEF RunOK, HoldsRow, Operations
<1> HIDE DEF r
<1>10. RunOK(w)'
  <2>1. CASE JobOf(w).op = "stock_change"
    BY <1>2, <1>7, <1>8, <2>1 DEF RunOK, HoldsRow, Pulls
  <2>2. CASE JobOf(w).op # "stock_change"
    BY <1>2, <1>7, <1>8, <1>9, <2>2 DEF RunOK, HoldsRow, Pulls
  <2> QED
    BY <2>1, <2>2
<1>11. /\ dbStock' \in [Products -> Stock] /\ chanStock' \in [Products -> [Channels -> Stock]]
       /\ dbErrors' \in Nat /\ lostReplies' \in Nat /\ channelFaults' \in Nat
       /\ UNCHANGED <<agentState, queueVars, active>> /\ UNCHANGED <<crashes, stops, toggles, switched>>
       /\ Len(audit') >= Len(audit)
  BY <1>2, <1>3 DEF Inv, TypeOK, faultVars
<1> QED
  BY <1>3, <1>5, <1>6, <1>10, <1>11, SlotStepInv

LEMMA CompleteSyncEventInv ==
    ASSUME Inv, NEW w \in Workers, CompleteSyncEvent(w) PROVE Inv'
<1>1. HoldsRow(w) /\ run[w].pc # "idle" /\ JobOf(w).op # "product_sync"
  BY DEF CompleteSyncEvent, HoldsRow
<1> QED
  BY <1>1, SettleRowInv, {} \in SUBSET SyncError DEF CompleteSyncEvent

\* The error a loop collects about the product at hand and its source.
LEMMA SourceError ==
    ASSUME Inv, NEW w \in Workers, run[w].pc \in {"unavailable", "abort"}
    PROVE  {<<run[w].cur, run[w].src>>} \in SUBSET SyncError
<1>1. run[w].cur \in Products /\ run[w].src \in Channels \cup {NoChannel}
  BY DEF Inv, TypeOK, Run, RunsOK, RunOK
<1> QED
  BY <1>1 DEF SyncError

LEMMA RejectSyncEventInv ==
    ASSUME Inv, NEW w \in Workers, RejectSyncEvent(w) PROVE Inv'
<1>1. run[w].pc = "unavailable"
  BY DEF RejectSyncEvent
<1>2. HoldsRow(w) /\ JobOf(w).op \in Pulls
  BY <1>1 DEF HoldsRow, Inv, RunsOK, RunOK
<1>3. JobOf(w).op # "product_sync" /\ JobOf(w).op # "stock_change"
  BY <1>2 DEF Pulls
<1> QED
  BY <1>1, <1>2, <1>3, SourceError, SettleRowInv DEF RejectSyncEvent

LEMMA FailSyncEventInv ==
    ASSUME Inv, NEW w \in Workers, FailSyncEvent(w) PROVE Inv'
<1>1. run[w].pc = "abort"
  BY DEF FailSyncEvent
<1>2. HoldsRow(w) /\ JobOf(w).op # "product_sync"
  BY <1>1 DEF HoldsRow, Inv, RunsOK, RunOK
<1> DEFINE e == IF JobOf(w).op = "stock_change" THEN {} ELSE {<<run[w].cur, run[w].src>>}
<1>3. e \in SUBSET SyncError
  BY <1>1, SourceError
<1>4. /\ SetStatus(w, "failed") /\ LeaveRow(w, e, "throw")
      /\ UNCHANGED <<agentState, queueVars, dbStock, chanStock, active, faultVars>>
  BY DEF FailSyncEvent
<1> HIDE DEF e
<1> QED
  BY <1>1, <1>2, <1>3, <1>4, SettleRowInv

LEMMA PullUnavailableInv ==
    ASSUME Inv, NEW w \in Workers, PullUnavailable(w) PROVE Inv'
<1> DEFINE r == [run[w] EXCEPT !.pc = "unavailable"]
<1>1. run[w] \in Run /\ run \in [Workers -> Run] /\ RunOK(w) /\ run[w].pc = "pull"
  BY DEF Inv, TypeOK, RunsOK, PullUnavailable
<1>2. r \in Run
  BY <1>1 DEF Run, PC
<1>3. run' = [run EXCEPT ![w] = r]
  BY <1>1 DEF PullUnavailable, Goto
<1>4. /\ run'[w].pc = "unavailable" /\ run'[w].row = run[w].row /\ run'[w].job = run[w].job
      /\ run'[w].src = run[w].src /\ run'[w].cur = run[w].cur
  BY <1>1, <1>2, <1>3 DEF Run
<1>5. /\ JobOf(w)' = JobOf(w) /\ jobData' = jobData /\ audit' = audit
  BY <1>4 DEF PullUnavailable, queueVars, dataVars, JobOf
<1> HIDE DEF r
<1>6. RunOK(w)'
  BY <1>1, <1>4, <1>5 DEF RunOK, HoldsRow, Pulls
<1>7. /\ dbStock' \in [Products -> Stock] /\ chanStock' \in [Products -> [Channels -> Stock]]
      /\ dbErrors' \in Nat /\ lostReplies' \in Nat /\ channelFaults' \in Nat
      /\ UNCHANGED <<agentState, queueVars, active>> /\ UNCHANGED <<crashes, stops, toggles, switched>>
      /\ audit' \in Seq(AuditRow)
  BY DEF PullUnavailable, dataVars, Inv, TypeOK
<1>8. Len(audit') >= Len(audit)
  BY <1>5, LenProperties DEF Inv, TypeOK
<1> QED
  BY <1>2, <1>3, <1>6, <1>7, <1>8, SlotStepInv

\* A failing call sends its slot to the catch block or out of the job.
LEMMA RaiseInv ==
    ASSUME Inv, NEW w \in Workers, Raise(w),
           UNCHANGED <<agentState, queueVars, active>>,
           dbStock' \in [Products -> Stock],
           chanStock' \in [Products -> [Channels -> Stock]],
           audit' \in Seq(AuditRow), Len(audit') >= Len(audit),
           dbErrors' \in Nat, lostReplies' \in Nat, channelFaults' \in Nat,
           UNCHANGED <<crashes, stops, toggles, switched>>
    PROVE  Inv'
<1>1. run[w] \in Run /\ run \in [Workers -> Run] /\ RunOK(w)
  BY DEF Inv, TypeOK, RunsOK
<1>2. Len(audit) \in Nat /\ Len(audit') \in Nat
  BY LenProperties DEF Inv, TypeOK
<1>3. CASE InTry(w) /\ run' = [run EXCEPT ![w].pc = "abort", ![w].todo = {}]
  <2> DEFINE r == [run[w] EXCEPT !.pc = "abort", !.todo = {}]
  <2>1. r \in Run
    BY <1>1 DEF Run, PC
  <2>2. run' = [run EXCEPT ![w] = r]
    BY <1>1, <1>3
  <2>3. /\ run'[w].pc = "abort" /\ run'[w].row = run[w].row /\ run'[w].job = run[w].job
        /\ run'[w].src = run[w].src /\ run'[w].cur = run[w].cur
    BY <1>1, <2>1, <2>2 DEF Run
  <2>4. JobOf(w)' = JobOf(w) /\ jobData' = jobData
    BY <2>3 DEF queueVars, JobOf
  <2>5. /\ HoldsRow(w) /\ JobOf(w).op # "product_sync"
        /\ run[w].pc \in {"pull", "write", "unavailable", "mappings", "push"}
    BY <1>1, <1>3 DEF InTry, HoldsRow, RunOK, Pulls
  <2>6. run[w].row \in 1..Len(audit')
    BY <1>1, <1>2, <2>5 DEF RunOK
  <2> HIDE DEF r
  <2>7. RunOK(w)'
    BY <1>1, <2>3, <2>4, <2>5, <2>6 DEF RunOK, HoldsRow
  <2> QED
    BY <2>1, <2>2, <2>7, SlotStepInv
<1>4. CASE OutsideTry(w) /\ run' = [run EXCEPT ![w].pc = "throw", ![w].row = 0, ![w].todo = {}]
  <2> DEFINE r == [run[w] EXCEPT !.pc = "throw", !.row = 0, !.todo = {}]
  <2>1. r \in Run
    BY <1>1 DEF Run, PC
  <2>2. run' = [run EXCEPT ![w] = r]
    BY <1>1, <1>4
  <2>3. run'[w].pc = "throw" /\ run'[w].row = 0 /\ run'[w].job = run[w].job
    BY <1>1, <2>1, <2>2 DEF Run
  <2>4. run[w].job \in 1..Len(jobData') /\ jobData' = jobData
    BY <1>1, <1>4 DEF OutsideTry, RunOK, queueVars
  <2> HIDE DEF r
  <2>5. RunOK(w)'
    BY <2>3, <2>4 DEF RunOK, HoldsRow
  <2> QED
    BY <2>1, <2>2, <2>5, SlotStepInv
<1> QED
  BY <1>3, <1>4 DEF Raise

LEMMA DbErrorInv ==
    ASSUME Inv, NEW w \in Workers, DbError(w) PROVE Inv'
<1>1. /\ dbStock' \in [Products -> Stock] /\ chanStock' \in [Products -> [Channels -> Stock]]
      /\ dbErrors' \in Nat /\ lostReplies' \in Nat /\ channelFaults' \in Nat
      /\ UNCHANGED <<agentState, queueVars, active>> /\ UNCHANGED <<crashes, stops, toggles, switched>>
      /\ audit' \in Seq(AuditRow) /\ audit' = audit
  BY DEF DbError, dataVars, Inv, TypeOK
<1>2. Len(audit') >= Len(audit)
  BY <1>1, LenProperties DEF Inv, TypeOK
<1> QED
  BY <1>1, <1>2, RaiseInv DEF DbError

\* Both effects a statement on the rows can have keep them well-typed.
LEMMA RowEffect ==
    ASSUME Inv, NEW w \in Workers,
           \/ audit' = audit
           \/ run[w].pc = "record" /\ audit' = Append(audit, NewRow(w))
           \/ /\ run[w].pc # "idle" /\ HoldsRow(w)
              /\ \E s \in {"completed", "failed"} : SetStatus(w, s)
    PROVE  audit' \in Seq(AuditRow) /\ Len(audit') >= Len(audit)
<1>1. audit \in Seq(AuditRow) /\ Len(audit) \in Nat /\ run[w] \in Run
  BY LenProperties DEF Inv, TypeOK
<1>2. CASE audit' = audit
  BY <1>1, <1>2
<1>3. CASE run[w].pc = "record" /\ audit' = Append(audit, NewRow(w))
  <2>1. run[w].cur \in Products /\ run[w].src \in Channels
    BY <1>3, JobTypes DEF Inv, RunsOK, RunOK
  <2>2. NewRow(w) \in AuditRow
    BY <1>3, <2>1, NewRowTyped
  <2> QED
    BY <1>1, <1>3, <2>2, AppendProperties
<1>4. ASSUME run[w].pc # "idle", HoldsRow(w), NEW s \in {"completed", "failed"}, SetStatus(w, s)
      PROVE  audit' \in Seq(AuditRow) /\ Len(audit') >= Len(audit)
  <2>1. run[w].row \in 1..Len(audit)
    BY <1>4 DEF Inv, RunsOK, RunOK
  <2>2. audit[run[w].row] \in AuditRow
    BY <1>1, <2>1, ElementOfSeq
  <2>3. [audit[run[w].row] EXCEPT !.status = s] \in AuditRow
    BY <2>2 DEF AuditRow
  <2>4. audit' = [audit EXCEPT ![run[w].row] = [audit[run[w].row] EXCEPT !.status = s]]
    BY <1>1, <1>4, <2>1 DEF SetStatus
  <2> QED
    BY <1>1, <2>1, <2>3, <2>4, ExceptSeq
<1> QED
  BY <1>2, <1>3, <1>4

LEMMA LostReplyInv ==
    ASSUME Inv, NEW w \in Workers, LostReply(w) PROVE Inv'
<1>1. run[w] \in Run /\ dbStock \in [Products -> Stock]
  BY DEF Inv, TypeOK
<1>2. dbStock' \in [Products -> Stock]
  BY <1>1 DEF LostReply, Run
<1>3. \/ audit' = audit
      \/ run[w].pc = "record" /\ audit' = Append(audit, NewRow(w))
      \/ /\ run[w].pc # "idle" /\ HoldsRow(w)
         /\ \E s \in {"completed", "failed"} : SetStatus(w, s)
  <2>1. Raise(w) => InTry(w) \/ OutsideTry(w)
    BY DEF Raise
  <2> QED
    BY <2>1 DEF LostReply, HoldsRow, InTry, OutsideTry
<1>4. audit' \in Seq(AuditRow) /\ Len(audit') >= Len(audit)
  BY <1>3, RowEffect
<1>5. /\ chanStock' \in [Products -> [Channels -> Stock]]
      /\ dbErrors' \in Nat /\ lostReplies' \in Nat /\ channelFaults' \in Nat
      /\ UNCHANGED <<agentState, queueVars, active>> /\ UNCHANGED <<crashes, stops, toggles, switched>>
  BY DEF LostReply, Inv, TypeOK
<1> QED
  BY <1>2, <1>4, <1>5, RaiseInv DEF LostReply

\* The agent and its environment: no slot moves, or all are emptied.
LEMMA EnvironmentInv ==
    ASSUME Inv, Start \/ Stop \/ Stopped \/ Crash \/ \E c \in Channels : ToggleChannel(c)
    PROVE  Inv'
<1>1. UNCHANGED queueVars /\ UNCHANGED dataVars
  BY DEF Start, Stop, Stopped, Crash, ToggleChannel
<1>2. run' = run \/ run' = [w \in Workers |-> IdleRun]
  BY DEF Start, Stop, Stopped, Crash, ToggleChannel
<1>3. run' \in [Workers -> Run]
  BY <1>2, IdleRunOK DEF Inv, TypeOK
<1>4. /\ agentState' \in {"stopped", "running", "stopping"}
      /\ active' \in [Channels -> BOOLEAN]
      /\ dbErrors' \in Nat /\ lostReplies' \in Nat /\ channelFaults' \in Nat
      /\ crashes' \in Nat /\ stops' \in Nat /\ toggles' \in Nat
      /\ switched' \subseteq Channels
  <2>1. \/ active' = active
        \/ \E c \in Channels : active' = [active EXCEPT ![c] = ~active[c]]
    BY DEF Start, Stop, Stopped, Crash, ToggleChannel
  <2>2. active' \in [Channels -> BOOLEAN]
    <3>1. active \in [Channels -> BOOLEAN]
      BY DEF Inv, TypeOK
    <3>2. ASSUME NEW c \in Channels
          PROVE  [active EXCEPT ![c] = ~active[c]] \in [Channels -> BOOLEAN]
      BY <3>1
    <3> QED
      BY <2>1, <3>1, <3>2
  <2>3. /\ agentState' \in {"stopped", "running", "stopping"}
        /\ crashes' \in Nat /\ stops' \in Nat /\ toggles' \in Nat
    <3>1. agentState' \in {agentState, "stopped", "running", "stopping"}
      BY DEF Start, Stop, Stopped, Crash, ToggleChannel
    <3>2. /\ crashes' = crashes \/ crashes' = crashes + 1
          /\ stops' = stops \/ stops' = stops + 1
          /\ toggles' = toggles \/ toggles' = toggles + 1
      BY DEF Start, Stop, Stopped, Crash, ToggleChannel, faultVars
    <3> QED
      BY <3>1, <3>2 DEF Inv, TypeOK
  <2>4. dbErrors' \in Nat /\ lostReplies' \in Nat /\ channelFaults' \in Nat
    BY DEF Start, Stop, Stopped, Crash, ToggleChannel, Inv, TypeOK, faultVars
  <2>5. switched' \subseteq Channels
    BY DEF Start, Stop, Stopped, Crash, ToggleChannel, Inv, TypeOK, faultVars
  <2> QED
    BY <2>2, <2>3, <2>4, <2>5
<1>5. TypeOK'
  BY <1>1, <1>3, <1>4 DEF Inv, TypeOK, queueVars, dataVars
<1>6. QueueOK'
  BY <1>1 DEF Inv, QueueOK, queueVars
<1>7. RunsOK'
  <2> SUFFICES ASSUME NEW w \in Workers PROVE RunOK(w)'
    BY DEF RunsOK
  <2>1. CASE run' = run
    BY <1>1, <2>1 DEF Inv, RunsOK, RunOK, HoldsRow, JobOf, queueVars, dataVars
  <2>2. CASE run' = [u \in Workers |-> IdleRun]
    BY <2>2 DEF RunOK, HoldsRow, IdleRun
  <2> QED
    BY <1>2, <2>1, <2>2
<1> QED
  BY <1>5, <1>6, <1>7 DEF Inv

LEMMA StutterInv == ASSUME Inv, UNCHANGED vars PROVE Inv'
BY DEF vars, queueVars, dataVars, faultVars, Inv, TypeOK, QueueOK, RunsOK, RunOK, HoldsRow, JobOf

LEMMA NextInv == ASSUME Inv, [Next]_vars PROVE Inv'
<1>1. ASSUME NEW w \in Workers, JobStep(w) PROVE Inv'
  BY <1>1, FinishJobInv, FailJobInv, LookupProductInv, CheckChannelInv,
     ChooseSourceOfTruthInv, LoadProductsInv, NextProductInv, CreateSyncEventInv,
     PullStockInv, UpdateProductStockInv, LoadMappingsInv, PushChannelInv,
     EndProductSyncInv, CompleteSyncEventInv, RejectSyncEventInv, FailSyncEventInv
  DEF JobStep
<1>2. ASSUME NEW w \in Workers, Faults(w) PROVE Inv'
  BY <1>2, PullUnavailableInv, DbErrorInv, LostReplyInv, PushFailsInv DEF Faults
<1> QED
  BY <1>1, <1>2, RequestsInv, TakeJobInv, PromoteDelayedInv, RecoverStalledInv,
     EnvironmentInv, StutterInv DEF Next

\* Every reachable state is well-typed, and a busy slot works on an accepted
\* job in a branch of that job's operation, holding a row exactly while one is
\* open (processSyncJob and the four operations it dispatches to).
THEOREM TypeCorrect == Spec => [](TypeOK /\ QueueOK /\ RunsOK)
<1>1. Init => Inv
  BY InitInv
<1>2. Inv /\ [Next]_vars => Inv'
  BY NextInv
<1> QED
  BY <1>1, <1>2, PTL DEF Spec, Inv

-----------------------------------------------------------------------------
(* No row is orphaned by one failing statement *)

\* NoOrphanRows needs two companions: a slot in a catch block has seen a fault
\* (an unavailable source alone does not lead there), and the accounting holds
\* for every number of faults, not just for the first.
OrphanInv ==
    /\ \A i \in DOMAIN audit : i \in OrphanRows => crashes > 0 \/ lostReplies > 0 \/ dbErrors > 1
    /\ \A w \in Workers : run[w].pc = "abort" => lostReplies > 0 \/ dbErrors > 0

\* A row a step leaves in "processing" without an owner was in that state
\* before, or belonged to the slot that moved.
LEMMA OrphanStep ==
    ASSUME Inv, OrphanInv, NEW w \in Workers,
           \A u \in Workers \ {w} : run'[u] = run[u],
           crashes' >= crashes, lostReplies' >= lostReplies, dbErrors' >= dbErrors,
           crashes' \in Nat, lostReplies' \in Nat, dbErrors' \in Nat,
           run'[w].pc = "abort" => lostReplies' > 0 \/ dbErrors' > 0,
           \A i \in DOMAIN audit' : audit'[i].status = "processing" /\ run'[w].row # i
               => \/ /\ i \in DOMAIN audit /\ audit[i].status = "processing"
                     /\ run[w].row # i
                  \/ crashes' > 0 \/ lostReplies' > 0 \/ dbErrors' > 1
    PROVE  OrphanInv'
<1>1. crashes \in Nat /\ lostReplies \in Nat /\ dbErrors \in Nat
  BY DEF Inv, TypeOK
<1>2. ASSUME NEW i \in DOMAIN audit', i \in OrphanRows'
      PROVE  crashes' > 0 \/ lostReplies' > 0 \/ dbErrors' > 1
  <2>1. audit'[i].status = "processing" /\ \A u \in Workers : run'[u].row # i
    BY <1>2 DEF OrphanRows
  <2>2. CASE i \in DOMAIN audit /\ audit[i].status = "processing" /\ run[w].row # i
    <3>1. i \in OrphanRows
      BY <2>1, <2>2 DEF OrphanRows
    <3> QED
      BY <1>1, <2>2, <3>1 DEF OrphanInv
  <2> QED
    BY <2>1, <2>2
<1>3. ASSUME NEW u \in Workers, run'[u].pc = "abort" PROVE lostReplies' > 0 \/ dbErrors' > 0
  <2>1. CASE u = w
    BY <1>3, <2>1
  <2>2. CASE u # w
    BY <1>1, <1>3, <2>2 DEF OrphanInv
  <2> QED
    BY <2>1, <2>2
<1> QED
  BY <1>2, <1>3 DEF OrphanInv

\* A step of one slot that creates and settles no row and stays out of the
\* catch block.
KeepsRow(w) ==
    /\ \A u \in Workers \ {w} : run'[u] = run[u]
    /\ run'[w].row = run[w].row /\ run'[w].pc # "abort"
    /\ UNCHANGED <<audit, crashes, lostReplies, dbErrors>>

LEMMA KeepsRowOrphan ==
    ASSUME Inv, OrphanInv, NEW w \in Workers, KeepsRow(w) PROVE OrphanInv'
<1>1. crashes \in Nat /\ lostReplies \in Nat /\ dbErrors \in Nat
  BY DEF Inv, TypeOK
<1> QED
  BY <1>1, OrphanStep DEF KeepsRow

LEMMA KeepsRowSteps ==
    ASSUME Inv, NEW w \in Workers,
           \/ TakeJob(w) \/ FinishJob(w) \/ FailJob(w) \/ LookupProduct(w) \/ CheckChannel(w)
           \/ ChooseSourceOfTruth(w) \/ LoadProducts(w) \/ NextProduct(w) \/ PullStock(w)
           \/ UpdateProductStock(w) \/ LoadMappings(w) \/ EndProductSync(w)
           \/ PullUnavailable(w)
           \/ (\E c \in Channels : PushChannel(w, c))
           \/ (\E c \in Channels, applied \in BOOLEAN : PushFails(w, c, applied))
    PROVE  KeepsRow(w)
<1> USE DEF KeepsRow, faultVars, dataVars, OnlyRun, Goto
<1>1. run \in [Workers -> Run] /\ run[w] \in Run /\ RunOK(w)
  BY DEF Inv, TypeOK, RunsOK
<1>2. ASSUME TakeJob(w) PROVE KeepsRow(w)
  <2>1. run[w].row = 0
    BY <1>1, <1>2 DEF TakeJob, RunOK
  <2>2. PICK i \in 1..Len(waiting) : TakeJob(w)!3!(i)
    BY <1>2 DEF TakeJob
  <2>3. run'[w].row = 0 /\ run'[w].pc \in {"lookup", "source"}
    BY <1>1, <2>2 DEF IdleRun
  <2>4. \A u \in Workers \ {w} : run'[u] = run[u]
    BY <1>1, <2>2
  <2> QED
    BY <1>2, <2>1, <2>3, <2>4 DEF TakeJob
<1>3. ASSUME FinishJob(w) \/ FailJob(w) PROVE KeepsRow(w)
  <2>1. run[w].pc \in {"done", "throw"} /\ run' = [run EXCEPT ![w] = IdleRun]
    BY <1>3 DEF FinishJob, FailJob
  <2>2. UNCHANGED <<audit, crashes, lostReplies, dbErrors>>
    BY <1>3 DEF FinishJob, FailJob
  <2>3. run[w].row = 0
    BY <1>1, <2>1 DEF RunOK, HoldsRow
  <2>4. run'[w].row = 0 /\ run'[w].pc = "idle" /\ \A u \in Workers \ {w} : run'[u] = run[u]
    BY <1>1, <2>1 DEF IdleRun
  <2> QED
    BY <2>2, <2>3, <2>4
<1>4. ASSUME LookupProduct(w) PROVE KeepsRow(w)
  BY <1>1, <1>4 DEF LookupProduct, Run
<1>5. ASSUME CheckChannel(w) PROVE KeepsRow(w)
  <2>1. \/ run' = [run EXCEPT ![w].pc = "products"]
        \/ run' = [run EXCEPT ![w].pc = "done", ![w].errors = {<<NoProduct, JobOf(w).src>>}]
    BY <1>5, Zenon DEF CheckChannel
  <2>2. UNCHANGED <<audit, crashes, lostReplies, dbErrors>>
    BY <1>5 DEF CheckChannel
  <2> QED
    BY <1>1, <2>1, <2>2 DEF Run
<1>6. ASSUME ChooseSourceOfTruth(w) PROVE KeepsRow(w)
  <2>1. \/ run' = [run EXCEPT ![w].pc = "done"]
        \/ \E c \in SourceOfTruth(ActiveChannels) :
              run' = [run EXCEPT ![w].src = c, ![w].pc = "products"]
    BY <1>6 DEF ChooseSourceOfTruth
  <2>2. UNCHANGED <<audit, crashes, lostReplies, dbErrors>>
    BY <1>6 DEF ChooseSourceOfTruth
  <2>3. CASE run' = [run EXCEPT ![w].pc = "done"]
    BY <1>1, <2>2, <2>3 DEF Run
  <2>4. ASSUME NEW c \in SourceOfTruth(ActiveChannels),
               run' = [run EXCEPT ![w].src = c, ![w].pc = "products"]
        PROVE  KeepsRow(w)
    BY <1>1, <2>2, <2>4 DEF Run
  <2> QED
    BY <2>1, <2>3, <2>4
<1>7. ASSUME LoadProducts(w) PROVE KeepsRow(w)
  BY <1>1, <1>7 DEF LoadProducts, Run
<1>8. ASSUME NextProduct(w) PROVE KeepsRow(w)
  <2>1. UNCHANGED <<audit, crashes, lostReplies, dbErrors>>
    BY <1>8 DEF NextProduct
  <2>2. CASE run' = [run EXCEPT ![w].pc = "done"]
    BY <1>1, <2>1, <2>2 DEF Run
  <2>3. ASSUME NEW p \in run[w].pending,
               run' = [run EXCEPT ![w].pending = @ \ {p}, ![w].cur = p,
                         ![w].todo = Targets(p, run[w].src), ![w].pc = "record"]
        PROVE  KeepsRow(w)
    <3> DEFINE T == Targets(p, run[w].src)
    <3> HIDE DEF T
    <3>1. run' = [run EXCEPT ![w].pending = @ \ {p}, ![w].cur = p, ![w].todo = T,
                    ![w].pc = "record"]
      BY <2>3 DEF T
    <3> QED
      BY <1>1, <2>1, <3>1 DEF Run
  <2>4. ASSUME NEW p \in run[w].pending, run' = [run EXCEPT ![w].pending = @ \ {p}]
        PROVE  KeepsRow(w)
    <3>1. run'[w].pc = "next"
      BY <1>1, <1>8, <2>4 DEF NextProduct, Run
    <3> QED
      BY <1>1, <2>1, <2>4, <3>1 DEF Run
  <2> QED
    BY <1>8, <2>2, <2>3, <2>4 DEF NextProduct
<1>9. ASSUME PullStock(w) PROVE KeepsRow(w)
  <2>1. \/ run' = [run EXCEPT ![w].todo = {}, ![w].pc = "push"]
        \/ run' = [run EXCEPT ![w].qty = chanStock[run[w].cur][run[w].src], ![w].pc = "write"]
    BY <1>9, Zenon DEF PullStock
  <2>2. UNCHANGED <<audit, crashes, lostReplies, dbErrors>>
    BY <1>9 DEF PullStock
  <2> QED
    BY <1>1, <2>1, <2>2 DEF Run
<1>10. ASSUME UpdateProductStock(w) PROVE KeepsRow(w)
  BY <1>1, <1>10 DEF UpdateProductStock, Run
<1>11. ASSUME LoadMappings(w) PROVE KeepsRow(w)
  BY <1>1, <1>11 DEF LoadMappings, Run
<1>12. ASSUME EndProductSync(w) PROVE KeepsRow(w)
  BY <1>1, <1>12 DEF EndProductSync, Run
<1>13. ASSUME PullUnavailable(w) PROVE KeepsRow(w)
  BY <1>1, <1>13 DEF PullUnavailable, Run
<1>14. ASSUME NEW c \in Channels, PushChannel(w, c) PROVE KeepsRow(w)
  BY <1>1, <1>14 DEF PushChannel, Run
<1>15. ASSUME NEW c \in Channels, NEW applied \in BOOLEAN, PushFails(w, c, applied)
       PROVE  KeepsRow(w)
  BY <1>1, <1>15 DEF PushFails, Run
<1> QED
  BY <1>2, <1>3, <1>4, <1>5, <1>6, <1>7, <1>8, <1>9, <1>10, <1>11, <1>12, <1>13, <1>14, <1>15

LEMMA CreateSyncEventOrphan ==
    ASSUME Inv, OrphanInv, NEW w \in Workers, CreateSyncEvent(w) PROVE OrphanInv'
<1>1. /\ run \in [Workers -> Run] /\ run[w] \in Run /\ audit \in Seq(AuditRow) /\ RunOK(w)
      /\ Len(audit) \in Nat /\ crashes \in Nat /\ lostReplies \in Nat /\ dbErrors \in Nat
  BY LenProperties DEF Inv, TypeOK, RunsOK
<1>2. run[w].row = 0
  BY <1>1 DEF CreateSyncEvent, RunOK, HoldsRow
<1>3. /\ run'[w].row = Len(audit) + 1 /\ run'[w].pc # "abort"
      /\ \A u \in Workers \ {w} : run'[u] = run[u]
      /\ UNCHANGED <<crashes, lostReplies, dbErrors>>
  BY <1>1 DEF CreateSyncEvent, Run, faultVars
<1>4. \A i \in DOMAIN audit' : i # Len(audit) + 1 =>
          i \in DOMAIN audit /\ audit'[i] = audit[i]
  BY <1>1 DEF CreateSyncEvent
<1>5. \A i \in DOMAIN audit : run[w].row # i
  BY <1>1, <1>2
<1> QED
  BY <1>1, <1>3, <1>4, <1>5, OrphanStep

\* Settling a row orphans none: the row that loses its owner is not in
\* "processing" any more.
LEMMA SettleRowOrphan ==
    ASSUME Inv, OrphanInv, NEW w \in Workers,
           CompleteSyncEvent(w) \/ RejectSyncEvent(w) \/ FailSyncEvent(w)
    PROVE  OrphanInv'
<1>1. /\ run \in [Workers -> Run] /\ run[w] \in Run /\ audit \in Seq(AuditRow)
      /\ crashes \in Nat /\ lostReplies \in Nat /\ dbErrors \in Nat
  BY DEF Inv, TypeOK
<1>2. PICK s \in {"completed", "failed"} : SetStatus(w, s)
  BY DEF CompleteSyncEvent, RejectSyncEvent, FailSyncEvent
<1>3. \E e, end : end \in {"done", "throw", "next"} /\ LeaveRow(w, e, end)
  <2>1. CASE CompleteSyncEvent(w)
    BY <2>1 DEF CompleteSyncEvent
  <2>2. CASE RejectSyncEvent(w)
    BY <2>2 DEF RejectSyncEvent
  <2>3. CASE FailSyncEvent(w)
    BY <2>3 DEF FailSyncEvent
  <2> QED
    BY <2>1, <2>2, <2>3
<1>4. UNCHANGED <<crashes, lostReplies, dbErrors>>
  BY DEF CompleteSyncEvent, RejectSyncEvent, FailSyncEvent, faultVars
<1>5. run'[w].row = 0 /\ run'[w].pc # "abort" /\ \A u \in Workers \ {w} : run'[u] = run[u]
  <2>1. PICK e, end : end \in {"done", "throw", "next"} /\ LeaveRow(w, e, end)
    BY <1>3
  <2> DEFINE l == IF JobOf(w).op = "stock_change" THEN end ELSE "next"
  <2>2. l # "abort"
    BY <2>1
  <2>3. run' = [run EXCEPT ![w].row = 0, ![w].cur = NoProduct, ![w].qty = 0, ![w].todo = {},
                  ![w].errors = @ \cup e, ![w].pc = l]
    BY <2>1 DEF LeaveRow
  <2> HIDE DEF l
  <2> QED
    BY <1>1, <2>2, <2>3 DEF Run
<1>6. \A i \in DOMAIN audit' : audit'[i].status = "processing"
          => i \in DOMAIN audit /\ audit[i].status = "processing" /\ run[w].row # i
  <2> SUFFICES ASSUME NEW i \in DOMAIN audit', audit'[i].status = "processing"
               PROVE  i \in DOMAIN audit /\ audit[i].status = "processing" /\ run[w].row # i
    OBVIOUS
  <2>1. i \in DOMAIN audit /\ audit[i] \in AuditRow
    BY <1>1, <1>2, ElementOfSeq, LenProperties DEF SetStatus
  <2>2. CASE run[w].row = i
    BY <1>1, <1>2, <2>1, <2>2 DEF SetStatus, AuditRow
  <2>3. CASE run[w].row # i
    BY <1>1, <1>2, <2>1, <2>3 DEF SetStatus
  <2> QED
    BY <2>2, <2>3
<1> QED
  BY <1>1, <1>4, <1>5, <1>6, OrphanStep

LEMMA RaiseRuns ==
    ASSUME Inv, NEW w \in Workers, Raise(w)
    PROVE  /\ \A u \in Workers \ {w} : run'[u] = run[u]
           /\ \/ run'[w].row = run[w].row
              \/ run[w].row = 0
              \/ run[w].pc = "abort" /\ run'[w].row = 0
<1>1. run \in [Workers -> Run] /\ run[w] \in Run /\ RunOK(w)
  BY DEF Inv, TypeOK, RunsOK
<1>2. CASE run' = [run EXCEPT ![w].pc = "abort", ![w].todo = {}]
  <2>1. \A u \in Workers \ {w} : run'[u] = run[u]
    BY <1>1, <1>2
  <2>2. run'[w] = [run[w] EXCEPT !.pc = "abort", !.todo = {}]
    BY <1>1, <1>2
  <2>3. run'[w].row = run[w].row
    BY <1>1, <2>2 DEF Run
  <2> QED
    BY <2>1, <2>3
<1>3. CASE OutsideTry(w) /\ run' = [run EXCEPT ![w].pc = "throw", ![w].row = 0, ![w].todo = {}]
  <2>1. run[w].pc = "abort" \/ run[w].row = 0
    BY <1>1, <1>3 DEF OutsideTry, RunOK, HoldsRow
  <2>2. \A u \in Workers \ {w} : run'[u] = run[u]
    BY <1>1, <1>3
  <2>3. run'[w] = [run[w] EXCEPT !.pc = "throw", !.row = 0, !.todo = {}]
    BY <1>1, <1>3
  <2>4. run'[w].row = 0
    BY <1>1, <2>3 DEF Run
  <2> QED
    BY <2>1, <2>2, <2>4
<1> QED
  BY <1>2, <1>3 DEF Raise

\* The second failing statement is the one that may orphan a row.
LEMMA DbErrorOrphan ==
    ASSUME Inv, OrphanInv, NEW w \in Workers, DbError(w) PROVE OrphanInv'
<1>1. crashes \in Nat /\ lostReplies \in Nat /\ dbErrors \in Nat
  BY DEF Inv, TypeOK
<1>2. dbErrors' = dbErrors + 1 /\ UNCHANGED <<audit, crashes, lostReplies>> /\ Raise(w)
  BY DEF DbError, dataVars
<1>3. CASE run[w].pc = "abort"
  <2>1. lostReplies > 0 \/ dbErrors > 0
    BY <1>3 DEF OrphanInv
  <2> QED
    BY <1>1, <1>2, <2>1, RaiseRuns, OrphanStep
<1>4. CASE run[w].pc # "abort"
  <2>1. audit \in Seq(AuditRow) /\ \A i \in DOMAIN audit : run[w].row = 0 => run[w].row # i
    BY DEF Inv, TypeOK
  <2> QED
    BY <1>1, <1>2, <1>4, <2>1, RaiseRuns, OrphanStep
<1> QED
  BY <1>3, <1>4

LEMMA LostReplyOrphan ==
    ASSUME Inv, OrphanInv, NEW w \in Workers, LostReply(w) PROVE OrphanInv'
<1>1. crashes \in Nat /\ lostReplies \in Nat /\ dbErrors \in Nat
  BY DEF Inv, TypeOK
<1>2. lostReplies' = lostReplies + 1 /\ UNCHANGED <<crashes, dbErrors>> /\ Raise(w)
  BY DEF LostReply
<1> QED
  BY <1>1, <1>2, RaiseRuns, OrphanStep

\* Every other step keeps the rows and their owners.
LEMMA OtherOrphan ==
    ASSUME Inv, OrphanInv, UNCHANGED <<run, audit, crashes, lostReplies, dbErrors>>
    PROVE  OrphanInv'
BY DEF OrphanInv, OrphanRows

LEMMA CrashOrphan == ASSUME Inv, OrphanInv, Crash PROVE OrphanInv'
<1>1. crashes' > 0 /\ \A w \in Workers : run'[w].pc = "idle"
  BY DEF Crash, Inv, TypeOK, IdleRun
<1> QED
  BY <1>1 DEF OrphanInv

LEMMA NextOrphan == ASSUME Inv, OrphanInv, [Next]_vars PROVE OrphanInv'
<1>1. ASSUME NEW w \in Workers, TakeJob(w) \/ JobStep(w) \/ Faults(w) PROVE OrphanInv'
  BY <1>1, KeepsRowSteps, KeepsRowOrphan, CreateSyncEventOrphan, SettleRowOrphan,
     DbErrorOrphan, LostReplyOrphan DEF JobStep, Faults
<1>2. ASSUME Requests PROVE UNCHANGED <<run, audit, crashes, lostReplies, dbErrors>>
  BY <1>2 DEF Requests, HandleStockChange, TriggerProductSync, TriggerChannelSync,
     TriggerFullSync, AddSyncJob, dataVars, faultVars
<1>3. ASSUME NEW j \in Jobs, PromoteDelayed(j) \/ RecoverStalled(j)
      PROVE  UNCHANGED <<run, audit, crashes, lostReplies, dbErrors>>
  BY <1>3 DEF PromoteDelayed, RecoverStalled, dataVars, faultVars
<1>4. ASSUME Start \/ Stop \/ Stopped \/ (\E c \in Channels : ToggleChannel(c)) \/ UNCHANGED vars
      PROVE  UNCHANGED <<run, audit, crashes, lostReplies, dbErrors>>
  BY <1>4 DEF Start, Stop, Stopped, ToggleChannel, vars, dataVars, faultVars
<1> QED
  BY <1>1, <1>2, <1>3, <1>4, CrashOrphan, OtherOrphan DEF Next

\* One failing database statement never leaves a sync_events row "processing":
\* whatever the jobs, channels and slots, the catch blocks settle it.
THEOREM NoRowIsOrphaned == Spec => []NoOrphanRows
<1>1. Init => Inv /\ OrphanInv
  <2>1. Init => OrphanInv
    BY DEF Init, OrphanInv, IdleRun
  <2> QED
    BY <2>1, InitInv
<1>2. Inv /\ OrphanInv /\ [Next]_vars => (Inv /\ OrphanInv)'
  BY NextInv, NextOrphan
<1>3. Inv /\ OrphanInv => NoOrphanRows
  <2> SUFFICES ASSUME Inv, OrphanInv, crashes = 0, lostReplies = 0, dbErrors < 2,
                      NEW i \in OrphanRows
               PROVE  FALSE
    BY DEF NoOrphanRows
  <2> QED
    BY DEF OrphanRows, OrphanInv, Inv, TypeOK
<1> QED
  BY <1>1, <1>2, <1>3, PTL DEF Spec

-----------------------------------------------------------------------------
(* Whose the jobs and the rows are, for any number of slots *)

\* A job is on one list at a time, and in one slot.
QueueSound ==
    /\ \A k \in 1..Len(waiting) : jobState[waiting[k]] = "waiting"
    /\ \A k, l \in 1..Len(waiting) : waiting[k] = waiting[l] => k = l
    /\ \A w \in Workers : run[w].job # 0 => jobState[run[w].job] = "active"
    /\ \A v, w \in Workers : run[v].job = run[w].job /\ run[w].job # 0 => v = w

\* No attempt of job j is under way, or it has not come to anything yet.
Unbegun(j) ==
    \/ jobState[j] \in {"none", "waiting", "delayed"}
    \/ \E w \in Workers : run[w].job = j /\ run[w].pc \in {"lookup", "source"}

\* Rows are about known products and made by attempts that began.
RowSound(i) ==
    LET j == audit[i].job IN
    /\ j \in 1..Len(jobData) /\ audit[i].prod \in Known
    /\ audit[i].try <= Try(j)
    /\ Unbegun(j) => audit[i].try < Try(j)

RowsSound == \A i \in DOMAIN audit : RowSound(i)

\* The product at hand is known, and the row of a slot is its own.
Placed(w) ==
    /\ run[w].pending \subseteq Known
    /\ run[w].pc \in {"record", "pull", "unavailable", "write", "mappings", "push", "abort"}
          => run[w].cur \in Known
    /\ run[w].pc # "idle" /\ JobOf(w).op = "stock_change" => run[w].src = JobOf(w).src
    /\ run[w].pc \in {"record", "write", "mappings", "push", "abort"}
          /\ JobOf(w).op = "stock_change" => run[w].cur = JobOf(w).prod
    /\ run[w].pc \in {"record", "write", "mappings", "push"} /\ JobOf(w).op = "stock_change"
          => run[w].qty = JobOf(w).qty
    /\ run[w].row # 0 =>
          /\ audit[run[w].row].prod = run[w].cur
          /\ audit[run[w].row].src = run[w].src
          /\ audit[run[w].row].new = JobOf(w).qty
          /\ audit[run[w].row].job = run[w].job
          /\ audit[run[w].row].try = Try(run[w].job)
          /\ run[w].pc # "abort" => audit[run[w].row].status = "processing"

\* A channel that was never switched is on.
Unswitched == \A c \in Channels \ switched : active[c]

BookInv == Unswitched /\ QueueSound /\ RowsSound /\ \A w \in Workers : Placed(w)

\* What remains of a sequence when an element is taken out.
LEMMA RemoveAtElements ==
    ASSUME NEW S, NEW s \in Seq(S), NEW i \in 1..Len(s)
    PROVE  /\ Len(RemoveAt(s, i)) = Len(s) - 1
           /\ \A k \in 1..(Len(s) - 1) : RemoveAt(s, i)[k] = s[IF k < i THEN k ELSE k + 1]
<1> DEFINE a == SubSeq(s, 1, i - 1)
           b == SubSeq(s, i + 1, Len(s))
<1>1. Len(s) \in Nat /\ \A k \in 1..Len(s) : s[k] \in S
  BY ElementOfSeq, LenProperties
<1>2. a \in Seq(S) /\ Len(a) = i - 1 /\ \A k \in 1..(i - 1) : a[k] = s[k]
  BY <1>1, SubSeqProperties, \A k \in 1..(i - 1) : s[k] \in S
<1>3. b \in Seq(S) /\ Len(b) = Len(s) - i /\ \A k \in 1..(Len(s) - i) : b[k] = s[i + k]
  BY <1>1, SubSeqProperties, \A k \in (i + 1)..Len(s) : s[k] \in S
<1> HIDE DEF a, b
<1>4. /\ Len(a \o b) = Len(a) + Len(b)
      /\ \A k \in 1..(Len(a) + Len(b)) :
            (a \o b)[k] = IF k <= Len(a) THEN a[k] ELSE b[k - Len(a)]
  BY <1>2, <1>3, ConcatProperties
<1>5. RemoveAt(s, i) = a \o b
  BY DEF RemoveAt, a, b
<1>6. ASSUME NEW k \in 1..(Len(s) - 1)
      PROVE  RemoveAt(s, i)[k] = s[IF k < i THEN k ELSE k + 1]
  <2>1. CASE k < i
    BY <1>1, <1>2, <1>3, <1>4, <1>5, <2>1
  <2>2. CASE k >= i
    <3>1. k - Len(a) \in 1..(Len(s) - i) /\ i + (k - Len(a)) = k + 1
      BY <1>1, <1>2, <2>2
    <3>2. b[k - Len(a)] = s[k + 1]
      BY <1>3, <3>1
    <3> QED
      BY <1>1, <1>2, <1>3, <1>4, <1>5, <2>2, <3>2
  <2> QED
    BY <1>1, <2>1, <2>2
<1>7. Len(RemoveAt(s, i)) = Len(s) - 1
  BY <1>1, <1>2, <1>3, <1>4, <1>5
<1> QED
  BY <1>6, <1>7

LEMMA AcceptedJobs == ASSUME Inv PROVE 1..Len(jobData) \subseteq Jobs
<1>1. Len(jobData) \in Nat /\ Len(jobData) <= MaxJobs
  BY LenProperties DEF Inv, TypeOK
<1> QED
  BY <1>1, BoundsAssumption DEF Jobs

LEMMA SlotFacts ==
    ASSUME Inv, BookInv, NEW w \in Workers
    PROVE  /\ run \in [Workers -> Run] /\ run[w] \in Run /\ RunOK(w) /\ Placed(w)
           /\ audit \in Seq(AuditRow) /\ Len(audit) \in Nat /\ DOMAIN audit = 1..Len(audit)
           /\ dbStock \in [Products -> Stock] /\ chanStock \in [Products -> [Channels -> Stock]]
BY LenProperties DEF Inv, TypeOK, RunsOK, BookInv

LEMMA RowFacts ==
    ASSUME Inv, BookInv, NEW i \in DOMAIN audit
    PROVE  RowSound(i) /\ audit[i] \in AuditRow /\ audit[i].job \in Jobs
<1>1. audit[i] \in AuditRow
  BY ElementOfSeq, LenProperties DEF Inv, TypeOK
<1> QED
  BY <1>1 DEF BookInv, RowsSound, AuditRow

\* The job of a busy slot is accepted, active and in no other slot.
LEMMA JobFacts ==
    ASSUME Inv, BookInv, NEW w \in Workers, run[w].pc # "idle"
    PROVE  /\ run[w].job \in Jobs /\ run[w].job \in 1..Len(jobData) /\ run[w].job # 0
           /\ jobState[run[w].job] = "active"
           /\ \A v \in Workers : run[v].job = run[w].job => v = w
<1>1. run[w].job \in Jobs /\ run[w].job \in 1..Len(jobData)
  BY JobTypes, SlotFacts DEF RunOK
<1>2. run[w].job # 0
  BY <1>1 DEF Jobs
<1> QED
  BY <1>1, <1>2 DEF BookInv, QueueSound

\* Two slots hold two rows.
LEMMA RowsApart ==
    ASSUME Inv, BookInv, NEW v \in Workers, NEW w \in Workers, v # w, run[w].row # 0
    PROVE  run[v].row # run[w].row
<1> SUFFICES ASSUME run[v].row = run[w].row PROVE FALSE
  OBVIOUS
<1>1. run[v].job = run[w].job
  BY SlotFacts DEF Placed
<1>2. run[w].pc # "idle"
  BY SlotFacts DEF RunOK
<1> QED
  BY <1>1, <1>2, JobFacts

\* A step of a busy slot keeps the books when it keeps what rows are about, may add
\* one of its own, and leaves its slot in order.
LEMMA BookStep ==
    ASSUME Inv, BookInv, NEW w \in Workers,
           \A u \in Workers \ {w} : run'[u] = run[u],
           UNCHANGED <<queueVars, active, switched>>,
           run[w].pc # "idle", run'[w].job = run[w].job, run'[w].pc \notin {"lookup", "source"},
           \A i \in DOMAIN audit :
               /\ i \in DOMAIN audit'
               /\ audit'[i].prod = audit[i].prod /\ audit'[i].src = audit[i].src
               /\ audit'[i].new = audit[i].new /\ audit'[i].job = audit[i].job
               /\ audit'[i].try = audit[i].try
               /\ i # run[w].row => audit'[i].status = audit[i].status,
           \A i \in DOMAIN audit' \ DOMAIN audit : run[w].pc = "record" /\ audit'[i] = NewRow(w),
           Placed(w)'
    PROVE  BookInv'
<1>0. UNCHANGED <<jobData, jobState, waiting, attempts, stalls, active, switched>>
  BY DEF queueVars
<1>1. \A u \in Workers : run'[u].job = run[u].job
  OBVIOUS
<1>2. QueueSound'
  BY <1>0, <1>1 DEF BookInv, QueueSound
<1>3. \A j : Try(j)' = Try(j)
  BY <1>0 DEF Try
<1>4. ASSUME NEW j, Unbegun(j)' PROVE Unbegun(j)
  BY <1>0, <1>4 DEF Unbegun
<1>5. ASSUME NEW i \in DOMAIN audit' PROVE RowSound(i)'
  <2>1. CASE i \in DOMAIN audit
    <3>1. RowSound(i) /\ audit'[i].job = audit[i].job /\ audit'[i].try = audit[i].try
          /\ audit'[i].prod = audit[i].prod
      BY <2>1 DEF BookInv, RowsSound
    <3> QED
      BY <1>0, <1>3, <1>4, <3>1 DEF RowSound
  <2>2. CASE i \notin DOMAIN audit
    <3>1. run[w].pc = "record" /\ audit'[i] = NewRow(w)
      BY <2>2
    <3>2. /\ audit'[i].prod = run[w].cur /\ audit'[i].job = run[w].job
          /\ audit'[i].try = Try(run[w].job)
      BY <3>1 DEF NewRow
    <3>3. run[w].cur \in Known
      BY <3>1, SlotFacts DEF Placed
    <3>4. ~Unbegun(run[w].job)
      BY <3>1, JobFacts DEF Unbegun
    <3>5. Try(run[w].job) \in Nat
      BY <3>1, JobFacts DEF Try, Inv, TypeOK
    <3> QED
      BY <1>0, <1>3, <1>4, <3>2, <3>3, <3>4, <3>5, JobFacts DEF RowSound
  <2> QED
    BY <2>1, <2>2
<1>6. ASSUME NEW u \in Workers \ {w} PROVE Placed(u)'
  <2>1. run'[u] = run[u] /\ JobOf(u)' = JobOf(u) /\ Placed(u) /\ RunOK(u)
    BY <1>0, SlotFacts DEF JobOf
  <2>2. CASE run[u].row = 0
    BY <2>1, <2>2 DEF Placed
  <2>3. CASE run[u].row # 0
    <3>1. run[u].row # run[w].row
      BY <2>3, RowsApart
    <3>2. run[u].row \in DOMAIN audit
      BY <2>1, <2>3, SlotFacts DEF RunOK
    <3>3. /\ audit'[run[u].row].prod = audit[run[u].row].prod
          /\ audit'[run[u].row].src = audit[run[u].row].src
          /\ audit'[run[u].row].new = audit[run[u].row].new
          /\ audit'[run[u].row].job = audit[run[u].row].job
          /\ audit'[run[u].row].try = audit[run[u].row].try
          /\ audit'[run[u].row].status = audit[run[u].row].status
      BY <3>1, <3>2
    <3> QED
      BY <1>3, <2>1, <2>3, <3>3 DEF Placed
  <2> QED
    BY <2>2, <2>3
<1>7. Unswitched'
  BY <1>0 DEF BookInv, Unswitched
<1> QED
  BY <1>2, <1>5, <1>6, <1>7 DEF BookInv, RowsSound

-----------------------------------------------------------------------------
(* What the steps of a slot do to its local variables *)

LEMMA LookupMoves ==
    ASSUME Inv, BookInv, NEW w \in Workers, LookupProduct(w)
    PROVE  /\ run[w].pc = "lookup" /\ run[w].row = 0
           /\ UNCHANGED <<queueVars, dataVars, active, switched>>
           /\ JobOf(w).op \in {"stock_change", "product_sync"}
           /\ run'[w].job = run[w].job /\ run'[w].row = 0 /\ run'[w].src = run[w].src
           /\ run'[w].pending = run[w].pending
           /\ IF Found(JobOf(w))
              THEN /\ run'[w].cur = JobOf(w).prod
                   /\ run'[w].qty = IF JobOf(w).op = "stock_change"
                                    THEN JobOf(w).qty ELSE dbStock[JobOf(w).prod]
                   /\ run'[w].pc = IF JobOf(w).op = "stock_change" THEN "record" ELSE "mappings"
              ELSE run'[w].cur = run[w].cur /\ run'[w].pc = "done"
<1>1. /\ run \in [Workers -> Run] /\ run[w] \in Run /\ RunOK(w)
      /\ run[w].pc = "lookup" /\ UNCHANGED <<queueVars, dataVars, active, switched>>
  BY SlotFacts DEF LookupProduct, OnlyRun, faultVars
<1>2. run[w].row = 0 /\ JobOf(w).op \in {"stock_change", "product_sync"}
  BY <1>1 DEF RunOK, HoldsRow
<1>3. CASE Found(JobOf(w))
  BY <1>1, <1>2, <1>3 DEF LookupProduct, Run
<1>4. CASE ~Found(JobOf(w))
  BY <1>1, <1>2, <1>4 DEF LookupProduct, Run
<1> QED
  BY <1>1, <1>2, <1>3, <1>4

LEMMA SourceMoves ==
    ASSUME Inv, BookInv, NEW w \in Workers,
           CheckChannel(w) \/ ChooseSourceOfTruth(w) \/ LoadProducts(w)
    PROVE  /\ run[w].pc \in {"source", "products"} /\ run[w].row = 0
           /\ UNCHANGED <<queueVars, dataVars, active, switched>>
           /\ JobOf(w).op # "stock_change"
           /\ run'[w].job = run[w].job /\ run'[w].row = 0 /\ run'[w].cur = run[w].cur
           /\ run'[w].pc \in {"done", "products", "next"} /\ run'[w].pending \subseteq Known
           /\ run[w].pc = "source" \/ run'[w].errors = run[w].errors
<1>1. /\ run \in [Workers -> Run] /\ run[w] \in Run /\ RunOK(w) /\ Placed(w)
      /\ run[w].pc \in {"source", "products"}
      /\ UNCHANGED <<queueVars, dataVars, active, switched>>
  BY SlotFacts DEF CheckChannel, ChooseSourceOfTruth, LoadProducts, OnlyRun, faultVars
<1>2. run[w].row = 0 /\ JobOf(w).op # "stock_change" /\ run[w].pending \subseteq Known
  BY <1>1 DEF RunOK, HoldsRow, Pulls, Placed
<1>3. CASE CheckChannel(w)
  BY <1>1, <1>2, <1>3 DEF CheckChannel, Run
<1>4. CASE ChooseSourceOfTruth(w)
  <2>1. run[w].pc = "source"
    BY <1>4 DEF ChooseSourceOfTruth
  <2>2. CASE run' = [run EXCEPT ![w].pc = "done"]
    BY <1>1, <1>2, <2>1, <2>2 DEF Run
  <2>3. ASSUME NEW c, run' = [run EXCEPT ![w].src = c, ![w].pc = "products"]
        PROVE  /\ run'[w].job = run[w].job /\ run'[w].row = 0 /\ run'[w].cur = run[w].cur
               /\ run'[w].pc = "products" /\ run'[w].pending \subseteq Known
    BY <1>1, <1>2, <2>1, <2>3 DEF Run
  <2> QED
    BY <1>1, <1>2, <1>4, <2>1, <2>2, <2>3 DEF ChooseSourceOfTruth, Goto
<1>5. CASE LoadProducts(w)
  BY <1>1, <1>2, <1>5 DEF LoadProducts, Run
<1> QED
  BY <1>1, <1>2, <1>3, <1>4, <1>5

LEMMA NextMoves ==
    ASSUME Inv, BookInv, NEW w \in Workers, NextProduct(w)
    PROVE  /\ run[w].pc = "next" /\ run[w].row = 0
           /\ UNCHANGED <<queueVars, dataVars, active, switched>>
           /\ JobOf(w).op # "stock_change" /\ run[w].pending \subseteq Known
           /\ run'[w].job = run[w].job /\ run'[w].row = 0
           /\ run'[w].pending \subseteq run[w].pending /\ run'[w].errors = run[w].errors
           /\ \/ /\ run'[w].pc \in {"done", "next"} /\ run'[w].cur = run[w].cur
              \/ \E p \in run[w].pending :
                    /\ run'[w].pc = "record" /\ run'[w].cur = p /\ run'[w].src = run[w].src
                    /\ run'[w].todo = Targets(p, run[w].src)
<1>1. /\ run \in [Workers -> Run] /\ run[w] \in Run /\ RunOK(w) /\ Placed(w)
      /\ run[w].pc = "next" /\ UNCHANGED <<queueVars, dataVars, active, switched>>
  BY SlotFacts DEF NextProduct, OnlyRun, faultVars
<1>2. run[w].row = 0 /\ JobOf(w).op # "stock_change" /\ run[w].pending \subseteq Known
  BY <1>1 DEF RunOK, HoldsRow, Pulls, Placed
<1>3. CASE run' = [run EXCEPT ![w].pc = "done"]
  BY <1>1, <1>2, <1>3 DEF Run
<1>4. ASSUME NEW p \in run[w].pending,
             run' = [run EXCEPT ![w].pending = @ \ {p}, ![w].cur = p,
                            ![w].todo = Targets(p, run[w].src), ![w].pc = "record"]
      PROVE  /\ run'[w].job = run[w].job /\ run'[w].row = 0 /\ run'[w].pc = "record"
             /\ run'[w].pending \subseteq run[w].pending /\ run'[w].errors = run[w].errors
             /\ run'[w].cur = p /\ run'[w].src = run[w].src
             /\ run'[w].todo = Targets(p, run[w].src)
  BY <1>1, <1>2, <1>4 DEF Run
<1>5. ASSUME NEW p \in run[w].pending, run' = [run EXCEPT ![w].pending = @ \ {p}]
      PROVE  /\ run'[w].job = run[w].job /\ run'[w].row = 0 /\ run'[w].pc = "next"
             /\ run'[w].pending \subseteq run[w].pending /\ run'[w].errors = run[w].errors
             /\ run'[w].cur = run[w].cur
  BY <1>1, <1>2, <1>5 DEF Run
<1>6. \/ run' = [run EXCEPT ![w].pc = "done"]
      \/ \E p \in run[w].pending :
            \/ run' = [run EXCEPT ![w].pending = @ \ {p}, ![w].cur = p,
                            ![w].todo = Targets(p, run[w].src), ![w].pc = "record"]
            \/ run' = [run EXCEPT ![w].pending = @ \ {p}]
  BY DEF NextProduct, Goto
<1>7. \/ /\ run'[w].job = run[w].job /\ run'[w].row = 0 /\ run'[w].pc \in {"done", "next"}
         /\ run'[w].pending \subseteq run[w].pending /\ run'[w].errors = run[w].errors
         /\ run'[w].cur = run[w].cur
      \/ \E p \in run[w].pending :
            /\ run'[w].job = run[w].job /\ run'[w].row = 0 /\ run'[w].pc = "record"
            /\ run'[w].pending \subseteq run[w].pending /\ run'[w].errors = run[w].errors
            /\ run'[w].cur = p /\ run'[w].src = run[w].src
            /\ run'[w].todo = Targets(p, run[w].src)
  <2>1. CASE run' = [run EXCEPT ![w].pc = "done"]
    BY <1>1, <1>2, <2>1 DEF Run
  <2>2. CASE \E p \in run[w].pending : run' = [run EXCEPT ![w].pending = @ \ {p}]
    BY <1>5, <2>2
  <2>3. CASE \E p \in run[w].pending :
               run' = [run EXCEPT ![w].pending = @ \ {p}, ![w].cur = p,
                            ![w].todo = Targets(p, run[w].src), ![w].pc = "record"]
    BY <1>4, <2>3
  <2> QED
    BY <1>6, <2>1, <2>2, <2>3
<1> QED
  BY <1>1, <1>2, <1>7

LEMMA PullMoves ==
    ASSUME Inv, BookInv, NEW w \in Workers, PullStock(w) \/ PullUnavailable(w)
    PROVE  /\ run[w].pc = "pull" /\ JobOf(w).op \in Pulls /\ JobOf(w).op # "stock_change"
           /\ UNCHANGED <<queueVars, dataVars, active, switched>>
           /\ run'[w].job = run[w].job /\ run'[w].row = run[w].row /\ run'[w].src = run[w].src
           /\ run'[w].pending = run[w].pending /\ run'[w].errors = run[w].errors
           /\ run'[w].cur = run[w].cur
           /\ \/ run'[w].pc = "push" /\ JobOf(w).op = "full_sync" /\ ~JobOf(w).force
              \/ run'[w].pc \in {"write", "unavailable"} /\ run'[w].todo = run[w].todo
<1>1. /\ run \in [Workers -> Run] /\ run[w] \in Run /\ RunOK(w)
      /\ run[w].pc = "pull" /\ UNCHANGED <<queueVars, dataVars, active, switched>>
  BY SlotFacts DEF PullStock, PullUnavailable, OnlyRun, faultVars
<1>2. JobOf(w).op \in Pulls /\ JobOf(w).op # "stock_change"
  BY <1>1 DEF RunOK, Pulls
<1>3. CASE PullStock(w)
  BY <1>1, <1>2, <1>3 DEF PullStock, Run
<1>4. CASE PullUnavailable(w)
  BY <1>1, <1>2, <1>4 DEF PullUnavailable, Goto, Run
<1> QED
  BY <1>3, <1>4

LEMMA MappingsMoves ==
    ASSUME Inv, BookInv, NEW w \in Workers, LoadMappings(w) \/ EndProductSync(w)
    PROVE  /\ run[w].pc \in {"mappings", "push"}
           /\ UNCHANGED <<queueVars, dataVars, active, switched>>
           /\ run'[w].job = run[w].job /\ run'[w].row = run[w].row /\ run'[w].src = run[w].src
           /\ run'[w].pending = run[w].pending /\ run'[w].errors = run[w].errors
           /\ run'[w].cur = run[w].cur /\ run'[w].qty = run[w].qty
           /\ \/ /\ run[w].pc = "mappings" /\ run'[w].pc = "push"
                 /\ run'[w].todo = Targets(run[w].cur, run[w].src)
              \/ run[w].pc = "push" /\ run'[w].pc = "done" /\ JobOf(w).op = "product_sync"
<1>1. /\ run \in [Workers -> Run] /\ run[w] \in Run
      /\ run[w].pc \in {"mappings", "push"} /\ UNCHANGED <<queueVars, dataVars, active, switched>>
  BY SlotFacts DEF LoadMappings, EndProductSync, OnlyRun, faultVars
<1>2. CASE LoadMappings(w)
  BY <1>1, <1>2 DEF LoadMappings, Run
<1>3. CASE EndProductSync(w)
  BY <1>1, <1>3 DEF EndProductSync, Goto, Run
<1> QED
  BY <1>2, <1>3

LEMMA CreateMoves ==
    ASSUME Inv, BookInv, NEW w \in Workers, CreateSyncEvent(w)
    PROVE  /\ run[w].pc = "record" /\ run[w].row = 0 /\ audit' = Append(audit, NewRow(w))
           /\ UNCHANGED <<queueVars, dbStock, chanStock, active, switched>>
           /\ \A u \in Workers \ {w} : run'[u] = run[u]
           /\ run'[w].job = run[w].job /\ run'[w].row = Len(audit) + 1
           /\ run'[w].src = run[w].src /\ run'[w].qty = run[w].qty
           /\ run'[w].pending = run[w].pending /\ run'[w].errors = run[w].errors
           /\ run'[w].cur = run[w].cur /\ run'[w].todo = run[w].todo
           /\ run'[w].pc = IF JobOf(w).op = "stock_change" THEN "write" ELSE "pull"
<1>1. /\ run \in [Workers -> Run] /\ run[w] \in Run /\ RunOK(w)
      /\ run[w].pc = "record" /\ audit' = Append(audit, NewRow(w))
      /\ UNCHANGED <<queueVars, dbStock, chanStock, active, switched>>
  BY SlotFacts DEF CreateSyncEvent, faultVars
<1> QED
  BY <1>1 DEF CreateSyncEvent, Run, RunOK, HoldsRow

LEMMA UpdateMoves ==
    ASSUME Inv, BookInv, NEW w \in Workers, UpdateProductStock(w)
    PROVE  /\ run[w].pc = "write" /\ dbStock' = [dbStock EXCEPT ![run[w].cur] = run[w].qty]
           /\ UNCHANGED <<queueVars, audit, chanStock, active, switched>>
           /\ run'[w].job = run[w].job /\ run'[w].row = run[w].row /\ run'[w].src = run[w].src
           /\ run'[w].pending = run[w].pending /\ run'[w].errors = run[w].errors
           /\ run'[w].cur = run[w].cur /\ run'[w].todo = run[w].todo /\ run'[w].qty = run[w].qty
           /\ run'[w].pc = IF JobOf(w).op = "stock_change" THEN "mappings" ELSE "push"
<1>1. /\ run \in [Workers -> Run] /\ run[w] \in Run /\ run[w].pc = "write"
      /\ dbStock' = [dbStock EXCEPT ![run[w].cur] = run[w].qty]
      /\ UNCHANGED <<queueVars, audit, chanStock, active, switched>>
  BY SlotFacts DEF UpdateProductStock, faultVars
<1> QED
  BY <1>1 DEF UpdateProductStock, Goto, Run

LEMMA PushMoves ==
    ASSUME Inv, BookInv, NEW w \in Workers, NEW c \in Channels,
           PushChannel(w, c) \/ \E applied \in BOOLEAN : PushFails(w, c, applied)
    PROVE  /\ run[w].pc = "push" /\ c \in run[w].todo
           /\ UNCHANGED <<queueVars, dbStock, audit, active, switched>>
           /\ run'[w].job = run[w].job /\ run'[w].row = run[w].row /\ run'[w].src = run[w].src
           /\ run'[w].pending = run[w].pending /\ run'[w].cur = run[w].cur
           /\ run'[w].qty = run[w].qty /\ run'[w].pc = "push"
           /\ run'[w].todo = run[w].todo \ {c} /\ run[w].errors \subseteq run'[w].errors
           /\ \/ WriteChannel(w, c)
              \/ chanStock' = chanStock /\ <<run[w].cur, c>> \in run'[w].errors
<1>1. /\ run \in [Workers -> Run] /\ run[w] \in Run
      /\ run[w].pc = "push" /\ c \in run[w].todo
      /\ UNCHANGED <<queueVars, dbStock, audit, active, switched>>
  BY SlotFacts DEF PushChannel, PushFails, faultVars
<1>2. CASE PushChannel(w, c)
  BY <1>1, <1>2 DEF PushChannel, Run
<1>3. ASSUME NEW applied \in BOOLEAN, PushFails(w, c, applied)
      PROVE  /\ run' = [run EXCEPT ![w].todo = @ \ {c},
                                   ![w].errors = @ \cup {<<run[w].cur, c>>}]
             /\ WriteChannel(w, c) \/ chanStock' = chanStock
  BY <1>3 DEF PushFails
<1>4. CASE \E applied \in BOOLEAN : PushFails(w, c, applied)
  BY <1>1, <1>3, <1>4 DEF Run
<1> QED
  BY <1>1, <1>2, <1>4

\* The slot settles the row it holds and leaves it.
LEMMA EndRowMoves ==
    ASSUME Inv, BookInv, NEW w \in Workers,
           CompleteSyncEvent(w) \/ RejectSyncEvent(w) \/ FailSyncEvent(w)
    PROVE  /\ run[w].pc \in {"push", "unavailable", "abort"} /\ HoldsRow(w) /\ run[w].row # 0
           /\ UNCHANGED <<queueVars, dbStock, chanStock, active, switched>>
           /\ run'[w].job = run[w].job /\ run'[w].row = 0 /\ run'[w].src = run[w].src
           /\ run'[w].pending = run[w].pending /\ run[w].errors \subseteq run'[w].errors
           /\ run'[w].cur = NoProduct
           /\ \E s \in {"completed", "failed"} :
                 /\ SetStatus(w, s)
                 /\ s = "completed" => run[w].pc = "push" /\ run[w].todo = {}
                 /\ run'[w].pc = IF JobOf(w).op # "stock_change" THEN "next"
                                 ELSE IF s = "completed" THEN "done"
                                 ELSE IF run[w].pc = "unavailable" THEN "next" ELSE "throw"
<1>1. /\ run \in [Workers -> Run] /\ run[w] \in Run /\ RunOK(w)
      /\ run[w].pc \in {"push", "unavailable", "abort"}
      /\ UNCHANGED <<queueVars, dbStock, chanStock, active, switched>>
  BY SlotFacts DEF CompleteSyncEvent, RejectSyncEvent, FailSyncEvent, faultVars
<1>2. HoldsRow(w) /\ run[w].row # 0
  BY <1>1 DEF CompleteSyncEvent, RejectSyncEvent, FailSyncEvent, HoldsRow, RunOK
<1>3. PICK s, errs, end :
         /\ s \in {"completed", "failed"} /\ SetStatus(w, s) /\ LeaveRow(w, errs, end)
         /\ s = "completed" => run[w].pc = "push" /\ run[w].todo = {}
         /\ end = IF s = "completed" THEN "done"
                  ELSE IF run[w].pc = "unavailable" THEN "next" ELSE "throw"
  <2>1. CASE CompleteSyncEvent(w)
    BY <2>1 DEF CompleteSyncEvent
  <2>2. CASE RejectSyncEvent(w)
    BY <2>2 DEF RejectSyncEvent
  <2>3. CASE FailSyncEvent(w)
    BY <2>3 DEF FailSyncEvent
  <2> QED
    BY <2>1, <2>2, <2>3
<1>4. PICK l : l = IF JobOf(w).op = "stock_change" THEN end ELSE "next"
  OBVIOUS
<1>5. run' = [run EXCEPT ![w].row = 0, ![w].cur = NoProduct, ![w].qty = 0, ![w].todo = {},
                ![w].errors = @ \cup errs, ![w].pc = l]
  BY <1>3, <1>4 DEF LeaveRow
<1>6. /\ run'[w].job = run[w].job /\ run'[w].row = 0 /\ run'[w].src = run[w].src
      /\ run'[w].pending = run[w].pending /\ run[w].errors \subseteq run'[w].errors
      /\ run'[w].cur = NoProduct /\ run'[w].pc = l
  BY <1>1, <1>5 DEF Run
<1> QED
  BY <1>1, <1>2, <1>3, <1>4, <1>6

\* A failing statement leaves the job, or its row and its errors to the catch block.
LEMMA RaiseMoves ==
    ASSUME Inv, BookInv, NEW w \in Workers, Raise(w)
    PROVE  /\ run[w].pc \notin {"idle", "done", "throw"}
           /\ \A u \in Workers \ {w} : run'[u] = run[u]
           /\ run'[w].job = run[w].job /\ run'[w].src = run[w].src
           /\ run'[w].errors = run[w].errors
           /\ run'[w].pending = run[w].pending /\ run'[w].cur = run[w].cur
           /\ \/ run'[w].pc = "abort" /\ InTry(w) /\ run'[w].row = run[w].row
              \/ run'[w].pc = "throw" /\ run'[w].row = 0
<1>1. /\ run \in [Workers -> Run] /\ run[w] \in Run
  BY SlotFacts
<1>2. run[w].pc \notin {"idle", "done", "throw"}
  BY DEF Raise, InTry, OutsideTry
<1> QED
  BY <1>1, <1>2 DEF Raise, Run

-----------------------------------------------------------------------------
(* Every step keeps the books *)

\* A step that keeps the rows has its slot to look after only.
LEMMA SameRows ==
    ASSUME Inv, BookInv, NEW w \in Workers, KeepsRow(w),
           UNCHANGED <<queueVars, active, switched>>,
           run[w].pc # "idle", run'[w].job = run[w].job, run'[w].pc \notin {"lookup", "source"},
           Placed(w)'
    PROVE  BookInv'
<1>1. audit' = audit /\ \A u \in Workers \ {w} : run'[u] = run[u]
  BY DEF KeepsRow
<1> QED
  BY <1>1, BookStep

LEMMA LookupBook == ASSUME Inv, BookInv, NEW w \in Workers, LookupProduct(w) PROVE BookInv'
<1>1. KeepsRow(w)
  BY KeepsRowSteps
<1>2. JobOf(w)' = JobOf(w) /\ UNCHANGED <<queueVars, active, switched>>
  BY LookupMoves DEF JobOf, queueVars
<1>3. Placed(w)'
  <2>1. CASE Found(JobOf(w))
    BY <1>2, <2>1, LookupMoves, SlotFacts DEF Placed, Found
  <2>2. CASE ~Found(JobOf(w))
    BY <1>2, <2>2, LookupMoves, SlotFacts DEF Placed
  <2> QED
    BY <2>1, <2>2
<1>4. run[w].pc # "idle" /\ run'[w].job = run[w].job /\ run'[w].pc \notin {"lookup", "source"}
  BY LookupMoves
<1> QED
  BY <1>1, <1>2, <1>3, <1>4, SameRows

LEMMA SourceBook ==
    ASSUME Inv, BookInv, NEW w \in Workers,
           CheckChannel(w) \/ ChooseSourceOfTruth(w) \/ LoadProducts(w)
    PROVE  BookInv'
<1>1. KeepsRow(w)
  BY KeepsRowSteps
<1>2. JobOf(w)' = JobOf(w) /\ UNCHANGED <<queueVars, active, switched>>
  BY SourceMoves DEF JobOf, queueVars
<1>3. Placed(w)'
  BY <1>2, SourceMoves DEF Placed
<1>4. run[w].pc # "idle" /\ run'[w].job = run[w].job /\ run'[w].pc \notin {"lookup", "source"}
  BY SourceMoves
<1> QED
  BY <1>1, <1>2, <1>3, <1>4, SameRows

LEMMA NextProductBook == ASSUME Inv, BookInv, NEW w \in Workers, NextProduct(w) PROVE BookInv'
<1>1. KeepsRow(w)
  BY KeepsRowSteps
<1>2. JobOf(w)' = JobOf(w) /\ UNCHANGED <<queueVars, active, switched>>
  BY NextMoves DEF JobOf, queueVars
<1>3. Placed(w)'
  BY <1>2, NextMoves DEF Placed
<1>4. run[w].pc # "idle" /\ run'[w].job = run[w].job /\ run'[w].pc \notin {"lookup", "source"}
  BY NextMoves
<1> QED
  BY <1>1, <1>2, <1>3, <1>4, SameRows

LEMMA PullBook ==
    ASSUME Inv, BookInv, NEW w \in Workers, PullStock(w) \/ PullUnavailable(w) PROVE BookInv'
<1>1. KeepsRow(w) /\ audit' = audit
  BY KeepsRowSteps DEF KeepsRow
<1>2. /\ JobOf(w)' = JobOf(w) /\ Try(run[w].job)' = Try(run[w].job)
      /\ UNCHANGED <<queueVars, active, switched>>
  BY PullMoves DEF JobOf, queueVars, Try
<1>3. Placed(w)'
  BY <1>1, <1>2, PullMoves, SlotFacts DEF Placed
<1>4. run[w].pc # "idle" /\ run'[w].job = run[w].job /\ run'[w].pc \notin {"lookup", "source"}
  BY PullMoves
<1> QED
  BY <1>1, <1>2, <1>3, <1>4, SameRows

LEMMA MappingsBook ==
    ASSUME Inv, BookInv, NEW w \in Workers, LoadMappings(w) \/ EndProductSync(w) PROVE BookInv'
<1>1. KeepsRow(w) /\ audit' = audit
  BY KeepsRowSteps DEF KeepsRow
<1>2. /\ JobOf(w)' = JobOf(w) /\ Try(run[w].job)' = Try(run[w].job)
      /\ UNCHANGED <<queueVars, active, switched>>
  BY MappingsMoves DEF JobOf, queueVars, Try
<1>3. Placed(w)'
  BY <1>1, <1>2, MappingsMoves, SlotFacts DEF Placed
<1>4. run[w].pc # "idle" /\ run'[w].job = run[w].job /\ run'[w].pc \notin {"lookup", "source"}
  BY MappingsMoves
<1> QED
  BY <1>1, <1>2, <1>3, <1>4, SameRows

LEMMA UpdateBook == ASSUME Inv, BookInv, NEW w \in Workers, UpdateProductStock(w) PROVE BookInv'
<1>1. KeepsRow(w) /\ audit' = audit
  BY KeepsRowSteps DEF KeepsRow
<1>2. /\ JobOf(w)' = JobOf(w) /\ Try(run[w].job)' = Try(run[w].job)
      /\ UNCHANGED <<queueVars, active, switched>>
  BY UpdateMoves DEF JobOf, queueVars, Try
<1>3. Placed(w)'
  BY <1>1, <1>2, UpdateMoves, SlotFacts DEF Placed
<1>4. run[w].pc # "idle" /\ run'[w].job = run[w].job /\ run'[w].pc \notin {"lookup", "source"}
  BY UpdateMoves
<1> QED
  BY <1>1, <1>2, <1>3, <1>4, SameRows

LEMMA PushBook ==
    ASSUME Inv, BookInv, NEW w \in Workers, NEW c \in Channels,
           PushChannel(w, c) \/ \E applied \in BOOLEAN : PushFails(w, c, applied)
    PROVE  BookInv'
<1>1. KeepsRow(w) /\ audit' = audit
  BY KeepsRowSteps DEF KeepsRow
<1>2. /\ JobOf(w)' = JobOf(w) /\ Try(run[w].job)' = Try(run[w].job)
      /\ UNCHANGED <<queueVars, active, switched>>
  BY PushMoves DEF JobOf, queueVars, Try
<1>4. /\ run[w].pc = "push" /\ run'[w].pc = "push" /\ run'[w].job = run[w].job
      /\ run'[w].row = run[w].row /\ run'[w].src = run[w].src /\ run'[w].qty = run[w].qty
      /\ run'[w].pending = run[w].pending /\ run'[w].cur = run[w].cur
  BY PushMoves
<1>3. Placed(w)'
  BY <1>1, <1>2, <1>4, SlotFacts DEF Placed
<1> QED
  BY <1>1, <1>2, <1>3, <1>4, SameRows

\* A row that is added leaves the rows there are.
LEMMA AppendRows ==
    ASSUME Inv, BookInv, NEW w \in Workers, audit' = Append(audit, NewRow(w))
    PROVE  /\ Len(audit') = Len(audit) + 1 /\ DOMAIN audit' = 1..(Len(audit) + 1)
           /\ audit'[Len(audit) + 1] = NewRow(w) /\ \A i \in DOMAIN audit : audit'[i] = audit[i]
           /\ \A i \in DOMAIN audit : i \in DOMAIN audit'
           /\ \A i \in DOMAIN audit' \ DOMAIN audit : i = Len(audit) + 1
<1>1. audit \in Seq(AuditRow) /\ Len(audit) \in Nat /\ DOMAIN audit = 1..Len(audit)
  BY SlotFacts
<1> QED
  BY <1>1

\* A row that is settled stays about what it is about.
LEMMA SettleRows ==
    ASSUME Inv, BookInv, NEW w \in Workers, run[w].row # 0, NEW s, SetStatus(w, s)
    PROVE  /\ run[w].row \in DOMAIN audit /\ audit[run[w].row] \in AuditRow
           /\ DOMAIN audit' = DOMAIN audit /\ Len(audit') = Len(audit)
           /\ \A i \in DOMAIN audit : i # run[w].row => audit'[i] = audit[i]
           /\ \A i \in DOMAIN audit :
                 /\ audit'[i].prod = audit[i].prod /\ audit'[i].src = audit[i].src
                 /\ audit'[i].new = audit[i].new /\ audit'[i].job = audit[i].job
                 /\ audit'[i].try = audit[i].try
           /\ audit'[run[w].row].status = s
<1>1. PICK row : row = run[w].row
  OBVIOUS
<1>2. audit \in Seq(AuditRow) /\ DOMAIN audit = 1..Len(audit) /\ row \in DOMAIN audit
  BY <1>1, SlotFacts DEF RunOK
<1>3. audit[row] \in AuditRow
  BY <1>2, RowFacts
<1>4. /\ DOMAIN audit' = DOMAIN audit /\ Len(audit') = Len(audit)
      /\ \A i \in DOMAIN audit : i # row => audit'[i] = audit[i]
      /\ audit'[row] = [audit[row] EXCEPT !.status = s]
  BY <1>1, <1>2 DEF SetStatus
<1>5. /\ audit'[row].prod = audit[row].prod /\ audit'[row].src = audit[row].src
      /\ audit'[row].new = audit[row].new /\ audit'[row].job = audit[row].job
      /\ audit'[row].try = audit[row].try /\ audit'[row].status = s
  BY <1>3, <1>4 DEF AuditRow
<1> QED
  BY <1>1, <1>2, <1>3, <1>4, <1>5

LEMMA CreateBook == ASSUME Inv, BookInv, NEW w \in Workers, CreateSyncEvent(w) PROVE BookInv'
<1>1. /\ JobOf(w)' = JobOf(w) /\ Try(run[w].job)' = Try(run[w].job)
      /\ UNCHANGED <<queueVars, active, switched>>
  BY CreateMoves DEF JobOf, queueVars, Try
<1>2. /\ run[w].pc = "record" /\ run'[w].job = run[w].job
      /\ run'[w].pc \notin {"lookup", "source"}
      /\ \A u \in Workers \ {w} : run'[u] = run[u]
      /\ audit' = Append(audit, NewRow(w))
  BY CreateMoves
<1>3. Placed(w)'
  <2>1. audit'[run'[w].row] = NewRow(w)
    BY <1>2, CreateMoves, AppendRows
  <2> QED
    BY <1>1, <2>1, CreateMoves, SlotFacts DEF Placed, NewRow
<1>4. /\ \A i \in DOMAIN audit : i \in DOMAIN audit' /\ audit'[i] = audit[i]
      /\ \A i \in DOMAIN audit' \ DOMAIN audit : audit'[i] = NewRow(w)
  BY <1>2, AppendRows
<1> QED
  BY <1>1, <1>2, <1>3, <1>4, BookStep

LEMMA EndRowBook ==
    ASSUME Inv, BookInv, NEW w \in Workers,
           CompleteSyncEvent(w) \/ RejectSyncEvent(w) \/ FailSyncEvent(w)
    PROVE  BookInv'
<1>1. JobOf(w)' = JobOf(w) /\ UNCHANGED <<queueVars, active, switched>>
  BY EndRowMoves DEF JobOf, queueVars
<1>2. /\ run[w].row # 0 /\ run[w].pc # "idle" /\ run'[w].job = run[w].job
      /\ run'[w].pc \in {"next", "done", "throw"} /\ \E s : SetStatus(w, s)
  BY EndRowMoves
<1>3. Placed(w)'
  BY <1>1, <1>2, EndRowMoves, SlotFacts DEF Placed
<1>4. \A u \in Workers \ {w} : run'[u] = run[u]
  <2>1. \E errs, end : LeaveRow(w, errs, end)
    BY DEF CompleteSyncEvent, RejectSyncEvent, FailSyncEvent
  <2> QED
    BY <2>1, SlotFacts DEF LeaveRow
<1>5. DOMAIN audit' = DOMAIN audit
  BY <1>2, SettleRows
<1> QED
  BY <1>1, <1>2, <1>3, <1>4, <1>5, SettleRows, BookStep

\* The slot of a failing statement stays in order if its row is still its own.
LEMMA RaisePlaced ==
    ASSUME Inv, BookInv, NEW w \in Workers, Raise(w), UNCHANGED queueVars,
           run[w].row # 0 =>
              /\ audit'[run[w].row].prod = audit[run[w].row].prod
              /\ audit'[run[w].row].src = audit[run[w].row].src
              /\ audit'[run[w].row].new = audit[run[w].row].new
              /\ audit'[run[w].row].job = audit[run[w].row].job
              /\ audit'[run[w].row].try = audit[run[w].row].try
    PROVE  Placed(w)'
<1>1. JobOf(w)' = JobOf(w) /\ Try(run[w].job)' = Try(run[w].job)
  BY RaiseMoves DEF JobOf, Try, queueVars
<1>2. Placed(w) /\ (run[w].pc \in {"pull", "unavailable"} => JobOf(w).op # "stock_change")
  BY SlotFacts DEF RunOK, Pulls
<1> QED
  BY <1>1, <1>2, RaiseMoves DEF Placed, InTry

LEMMA DbErrorBook == ASSUME Inv, BookInv, NEW w \in Workers, DbError(w) PROVE BookInv'
<1>1. Raise(w) /\ UNCHANGED <<queueVars, active, switched>> /\ audit' = audit
  BY DEF DbError, dataVars
<1>2. Placed(w)'
  BY <1>1, RaisePlaced
<1>3. /\ run[w].pc # "idle" /\ run'[w].job = run[w].job /\ run'[w].pc \notin {"lookup", "source"}
      /\ \A u \in Workers \ {w} : run'[u] = run[u]
  BY <1>1, RaiseMoves
<1> QED
  BY <1>1, <1>2, <1>3, BookStep

\* The effects of a statement whose reply is lost.
LEMMA LostEffects ==
    ASSUME Inv, BookInv, NEW w \in Workers, LostReply(w)
    PROVE  /\ Raise(w) /\ UNCHANGED <<queueVars, chanStock, active, switched>>
           /\ \/ /\ run[w].pc = "record" /\ run[w].row = 0
                 /\ audit' = Append(audit, NewRow(w)) /\ UNCHANGED dbStock
              \/ /\ run[w].pc = "write"
                 /\ dbStock' = [dbStock EXCEPT ![run[w].cur] = run[w].qty] /\ UNCHANGED audit
              \/ /\ run[w].row # 0 /\ UNCHANGED dbStock
                 /\ \E s \in {"completed", "failed"} :
                       /\ SetStatus(w, s)
                       /\ s = "completed" => run[w].pc = "push" /\ run[w].todo = {}
<1>1. Raise(w) /\ UNCHANGED <<queueVars, chanStock, active, switched>> /\ RunOK(w)
  BY SlotFacts DEF LostReply
<1>2. run[w].pc = "record" => run[w].row = 0
  BY <1>1 DEF RunOK, HoldsRow
<1>3. /\ run[w].pc = "push" => run[w].todo = {} /\ run[w].row # 0
      /\ run[w].pc \in {"unavailable", "abort"} => run[w].row # 0
  BY <1>1 DEF Raise, InTry, OutsideTry, RunOK, HoldsRow
<1> QED
  BY <1>1, <1>2, <1>3 DEF LostReply

LEMMA LostReplyBook == ASSUME Inv, BookInv, NEW w \in Workers, LostReply(w) PROVE BookInv'
<1>1. Raise(w) /\ UNCHANGED <<queueVars, active, switched>>
  BY LostEffects
<1>2. /\ run[w].pc # "idle" /\ run'[w].job = run[w].job /\ run'[w].pc \notin {"lookup", "source"}
      /\ \A u \in Workers \ {w} : run'[u] = run[u]
  BY <1>1, RaiseMoves
<1>3. CASE run[w].pc = "record" /\ run[w].row = 0 /\ audit' = Append(audit, NewRow(w))
  <2>1. Placed(w)'
    BY <1>1, <1>3, RaisePlaced
  <2>2. /\ \A i \in DOMAIN audit : i \in DOMAIN audit' /\ audit'[i] = audit[i]
        /\ \A i \in DOMAIN audit' \ DOMAIN audit : audit'[i] = NewRow(w)
    BY <1>3, AppendRows
  <2> QED
    BY <1>1, <1>2, <1>3, <2>1, <2>2, BookStep
<1>4. CASE UNCHANGED audit
  <2>1. Placed(w)'
    BY <1>1, <1>4, RaisePlaced
  <2> QED
    BY <1>1, <1>2, <1>4, <2>1, BookStep
<1>5. ASSUME NEW s, run[w].row # 0, SetStatus(w, s) PROVE BookInv'
  <2>1. Placed(w)'
    BY <1>1, <1>5, SettleRows, RaisePlaced
  <2>2. DOMAIN audit' = DOMAIN audit
    BY <1>5, SettleRows
  <2> QED
    BY <1>1, <1>2, <1>5, <2>1, <2>2, SettleRows, BookStep
<1> QED
  BY <1>3, <1>4, <1>5, LostEffects

\* A job that is on no list and in no slot may be put on the wait list.
LEMMA AppendKeepsQueue ==
    ASSUME QueueSound, waiting \in Seq(Jobs), jobState \in [Jobs -> JobState],
           NEW j \in Jobs, jobState[j] # "waiting", \A w \in Workers : run[w].job # j,
           jobState' = [jobState EXCEPT ![j] = "waiting"], waiting' = Append(waiting, j),
           run' = run
    PROVE  QueueSound'
<1>1. /\ Len(waiting) \in Nat /\ Len(waiting') = Len(waiting) + 1
      /\ waiting'[Len(waiting) + 1] = j
      /\ \A k \in 1..Len(waiting) : waiting'[k] = waiting[k] /\ waiting[k] # j
  BY LenProperties, AppendProperties DEF QueueSound
<1>2. jobState'[j] = "waiting" /\ \A k : k # j => jobState'[k] = jobState[k]
  OBVIOUS
<1>3. \A k \in 1..Len(waiting') : k \in 1..Len(waiting) \/ k = Len(waiting) + 1
  BY <1>1
<1>4. \A k \in 1..Len(waiting') : jobState'[waiting'[k]] = "waiting"
  BY <1>1, <1>2, <1>3 DEF QueueSound
<1>5. \A k, l \in 1..Len(waiting') : waiting'[k] = waiting'[l] => k = l
  BY <1>1, <1>3 DEF QueueSound
<1>6. \A w \in Workers : run'[w].job # 0 => jobState'[run'[w].job] = "active"
  BY <1>2 DEF QueueSound
<1> QED
  BY <1>4, <1>5, <1>6 DEF QueueSound

\* A slot that stays where it is keeps its place, as its row and its job do.
LEMMA PlacedStays ==
    ASSUME Inv, BookInv, NEW w \in Workers, run'[w] = run[w], audit' = audit,
           \A j \in 1..Len(jobData) : jobData'[j] = jobData[j],
           run[w].job # 0 => Try(run[w].job)' = Try(run[w].job)
    PROVE  Placed(w)'
<1>1. CASE run[w].pc = "idle"
  <2>1. run[w].row = 0
    BY <1>1, SlotFacts DEF RunOK
  <2> QED
    BY <1>1, <2>1, SlotFacts DEF Placed
<1>2. CASE run[w].pc # "idle"
  <2>1. JobOf(w)' = JobOf(w) /\ Try(run[w].job)' = Try(run[w].job)
    BY <1>2, JobFacts DEF JobOf
  <2> QED
    BY <2>1, SlotFacts DEF Placed
<1> QED
  BY <1>1, <1>2

\* A row stays sound when its job does not go back to its beginning.
LEMMA RowSoundStays ==
    ASSUME Inv, BookInv, NEW i \in DOMAIN audit, audit' = audit, Len(jobData') >= Len(jobData),
           Len(jobData') \in Nat,
           Try(audit[i].job)' = Try(audit[i].job),
           Unbegun(audit[i].job)' => Unbegun(audit[i].job)
    PROVE  RowSound(i)'
<1>1. RowSound(i) /\ Len(jobData) \in Nat
  BY RowFacts, LenProperties DEF Inv, TypeOK
<1> QED
  BY <1>1 DEF RowSound

\* A row of an attempt that failed or stalled is not of the job's last attempt.
LEMMA OverSound ==
    ASSUME Inv, BookInv, NEW j \in 1..Len(jobData),
           Try(j)' \in Nat, Try(j)' > Try(j),
           UNCHANGED <<jobData, audit>>, NEW i \in DOMAIN audit, audit[i].job = j
    PROVE  RowSound(i)' /\ ~Pushed(i)'
<1>1. RowSound(i) /\ audit[i] \in AuditRow
  BY RowFacts
<1>2. audit[i].try \in Nat /\ audit[i].try <= Try(j) /\ Try(j) \in Nat
  <2>1. j \in Jobs
    BY AcceptedJobs
  <2> QED
    BY <1>1, <2>1 DEF AuditRow, RowSound, Try, Inv, TypeOK
<1>3. audit[i].try < Try(j)' /\ audit[i].try <= Try(j)' /\ audit[i].try # Try(j)'
  BY <1>2
<1> QED
  BY <1>1, <1>2, <1>3 DEF RowSound, Pushed

\* What taking a job does.
LEMMA TakeMoves ==
    ASSUME Inv, BookInv, NEW w \in Workers, TakeJob(w)
    PROVE  \E i \in 1..Len(waiting) :
              /\ waiting[i] \in Jobs /\ waiting[i] \in 1..Len(jobData) /\ waiting[i] # 0
              /\ jobState[waiting[i]] = "waiting" /\ waiting' = RemoveAt(waiting, i)
              /\ jobState'[waiting[i]] = "active"
              /\ \A k : k # waiting[i] => jobState'[k] = jobState[k]
              /\ run[w].pc = "idle" /\ \A u \in Workers \ {w} : run'[u] = run[u]
              /\ run'[w].job = waiting[i] /\ run'[w].pc \in {"lookup", "source"}
              /\ run'[w].pending = {} /\ run'[w].row = 0 /\ run'[w].cur = NoProduct
              /\ run'[w].src = jobData[waiting[i]].src
              /\ UNCHANGED <<jobData, attempts, stalls, result, dbStock, chanStock, audit,
                             active, switched>>
<1>1. PICK i \in 1..Len(waiting) : TakeJob(w)!3!(i)
  BY DEF TakeJob
<1>2. PICK j : j = waiting[i]
  OBVIOUS
<1>3. j \in Jobs /\ j \in 1..Len(jobData) /\ j # 0
  <2>1. waiting \in Seq(Jobs) /\ waiting \in Seq(1..Len(jobData))
    BY DEF Inv, TypeOK, QueueOK
  <2>2. Len(waiting) \in Nat /\ j \in Jobs /\ j \in 1..Len(jobData)
    BY <1>2, <2>1, ElementOfSeq, LenProperties
  <2> QED
    BY <2>2 DEF Jobs
<1>4. jobState[j] = "waiting" /\ jobState \in [Jobs -> JobState]
  BY <1>2 DEF BookInv, QueueSound, Inv, TypeOK
<1>5. /\ run[w].pc = "idle" /\ waiting' = RemoveAt(waiting, i)
      /\ jobState' = [jobState EXCEPT ![j] = "active"]
      /\ UNCHANGED <<jobData, attempts, stalls, result, dbStock, chanStock, audit, active, switched>>
  BY <1>1, <1>2 DEF TakeJob, dataVars, faultVars
<1>6. /\ run'[w].job = j /\ run'[w].pc \in {"lookup", "source"} /\ run'[w].pending = {}
      /\ run'[w].row = 0 /\ run'[w].cur = NoProduct /\ run'[w].src = jobData[j].src
      /\ \A u \in Workers \ {w} : run'[u] = run[u]
  BY <1>1, <1>2, SlotFacts DEF IdleRun
<1>7. jobState'[j] = "active" /\ \A k : k # j => jobState'[k] = jobState[k]
  BY <1>3, <1>4, <1>5
<1> QED
  BY <1>2, <1>3, <1>4, <1>5, <1>6, <1>7

LEMMA TakeJobBook == ASSUME Inv, BookInv, NEW w \in Workers, TakeJob(w) PROVE BookInv'
<1>1. PICK i \in 1..Len(waiting) :
              /\ waiting[i] \in Jobs /\ waiting[i] \in 1..Len(jobData) /\ waiting[i] # 0
              /\ jobState[waiting[i]] = "waiting" /\ waiting' = RemoveAt(waiting, i)
              /\ jobState'[waiting[i]] = "active"
              /\ \A k : k # waiting[i] => jobState'[k] = jobState[k]
              /\ run[w].pc = "idle" /\ \A u \in Workers \ {w} : run'[u] = run[u]
              /\ run'[w].job = waiting[i] /\ run'[w].pc \in {"lookup", "source"}
              /\ run'[w].pending = {} /\ run'[w].row = 0 /\ run'[w].cur = NoProduct
              /\ run'[w].src = jobData[waiting[i]].src
              /\ UNCHANGED <<jobData, attempts, stalls, result, dbStock, chanStock, audit,
                             active, switched>>
  BY TakeMoves
<1>2. PICK j : j = waiting[i]
  OBVIOUS
<1>3. QueueSound'
  <2>1. /\ waiting \in Seq(Jobs) /\ Len(waiting) \in Nat /\ waiting' = RemoveAt(waiting, i)
        /\ \A k : k # j => jobState'[k] = jobState[k]
    BY <1>1, <1>2, LenProperties DEF Inv, TypeOK
  <2>2. /\ Len(waiting') = Len(waiting) - 1
        /\ \A k \in 1..(Len(waiting) - 1) : waiting'[k] = waiting[IF k < i THEN k ELSE k + 1]
    BY <2>1, RemoveAtElements
  <2> DEFINE at(k) == IF k < i THEN k ELSE k + 1
  <2>10. PICK n \in Nat : n = Len(waiting)
    BY <2>1
  <2>3. \A k \in 1..Len(waiting') :
            at(k) \in 1..Len(waiting) /\ at(k) # i /\ waiting'[k] = waiting[at(k)]
    <3>1. \A k \in 1..(n - 1) : at(k) \in 1..n /\ at(k) # i
      BY <2>10
    <3> QED
      BY <2>2, <2>10, <3>1
  <2>4. \A k, l \in 1..Len(waiting') : at(k) = at(l) => k = l
    <3>1. \A k, l \in 1..(n - 1) : at(k) = at(l) => k = l
      BY <2>10
    <3> QED
      BY <2>2, <2>10, <3>1
  <2> HIDE DEF at
  <2>5. \A k \in 1..Len(waiting') : waiting'[k] # j
    BY <1>2, <2>3 DEF BookInv, QueueSound
  <2>6. \A k \in 1..Len(waiting') : jobState'[waiting'[k]] = "waiting"
    BY <2>1, <2>3, <2>5 DEF BookInv, QueueSound
  <2>7. ASSUME NEW k \in 1..Len(waiting'), NEW l \in 1..Len(waiting'), waiting'[k] = waiting'[l]
        PROVE  k = l
    <3>1. waiting[at(k)] = waiting[at(l)] /\ at(k) \in 1..Len(waiting) /\ at(l) \in 1..Len(waiting)
      BY <2>3, <2>7
    <3>2. at(k) = at(l)
      BY <3>1 DEF BookInv, QueueSound
    <3> QED
      BY <2>4, <3>2
  <2>8. \A u \in Workers : run[u].job # j
    BY <1>1, <1>2 DEF BookInv, QueueSound
  <2>9. /\ \A u \in Workers : run'[u].job # 0 => jobState'[run'[u].job] = "active"
        /\ \A u, v \in Workers : run'[u].job = run'[v].job /\ run'[v].job # 0 => u = v
    BY <1>1, <1>2, <2>8 DEF BookInv, QueueSound
  <2> QED
    BY <2>6, <2>7, <2>9 DEF QueueSound
<1>4. ASSUME NEW r \in DOMAIN audit PROVE RowSound(r)'
  <2>1. Unbegun(audit[r].job)' => Unbegun(audit[r].job)
    BY <1>1 DEF Unbegun
  <2>2. Try(audit[r].job)' = Try(audit[r].job) /\ Len(jobData) \in Nat
    BY <1>1, LenProperties DEF Try, Inv, TypeOK
  <2> QED
    BY <1>1, <2>1, <2>2, RowSoundStays
<1>5. ASSUME NEW u \in Workers PROVE Placed(u)'
  <2>1. CASE u = w
    <3>1. JobOf(w)' = jobData[j]
      BY <1>1, <1>2 DEF JobOf
    <3> QED
      BY <1>1, <1>2, <2>1, <3>1 DEF Placed
  <2>2. CASE u # w
    <3>1. Try(run[u].job)' = Try(run[u].job)
      BY <1>1, <2>2 DEF Try
    <3> QED
      BY <1>1, <2>2, <3>1, PlacedStays
  <2> QED
    BY <2>1, <2>2
<1> QED
  BY <1>1, <1>3, <1>4, <1>5 DEF BookInv, RowsSound, Unswitched

\* A slot that ends its job leaves the job to BullMQ and is idle.
LEMMA EndJobBook ==
    ASSUME Inv, BookInv, NEW w \in Workers, run[w].pc # "idle",
           run' = [run EXCEPT ![w] = IdleRun],
           jobState'[run[w].job] \in {"completed", "delayed", "failed"},
           \A k \in Jobs : k # run[w].job => jobState'[k] = jobState[k],
           UNCHANGED <<jobData, waiting, audit, active, switched>>
    PROVE  /\ Unswitched' /\ QueueSound'
           /\ \A i \in DOMAIN audit : audit[i].job # run[w].job =>
                 (Unbegun(audit[i].job)' => Unbegun(audit[i].job))
           /\ Placed(w)' /\ run'[w] = IdleRun
           /\ \A u \in Workers \ {w} : run'[u] = run[u] /\ run[u].job # run[w].job
           /\ IdleRun.job = 0 /\ IdleRun.pc = "idle" /\ IdleRun.cur = NoProduct
<1>1. /\ run'[w] = IdleRun /\ IdleRun.job = 0 /\ IdleRun.pc = "idle" /\ IdleRun.pending = {}
      /\ IdleRun.row = 0 /\ IdleRun.cur = NoProduct
      /\ \A u \in Workers \ {w} : run'[u] = run[u] /\ run[u].job # run[w].job
  BY SlotFacts, JobFacts DEF IdleRun
<1>2. waiting \in Seq(Jobs) /\ \A k \in 1..Len(waiting) : waiting[k] \in Jobs
  BY ElementOfSeq DEF Inv, TypeOK
<1>3. QueueSound'
  <2>1. \A k \in 1..Len(waiting) : waiting[k] # run[w].job
    BY JobFacts DEF BookInv, QueueSound
  <2>2. \A k \in 1..Len(waiting') : jobState'[waiting'[k]] = "waiting"
    BY <1>2, <2>1 DEF BookInv, QueueSound
  <2>3. \A u \in Workers : run[u].job # 0 => run[u].job \in Jobs
    BY SlotFacts DEF Run
  <2>4. \A u \in Workers : run'[u].job # 0 => jobState'[run'[u].job] = "active"
    BY <1>1, <2>3 DEF BookInv, QueueSound
  <2>5. \A u, v \in Workers : run'[u].job = run'[v].job /\ run'[v].job # 0 => u = v
    BY <1>1 DEF BookInv, QueueSound
  <2> QED
    BY <2>2, <2>4, <2>5 DEF BookInv, QueueSound
<1>4. ASSUME NEW i \in DOMAIN audit, audit[i].job # run[w].job, Unbegun(audit[i].job)'
      PROVE  Unbegun(audit[i].job)
  <2>1. audit[i].job \in Jobs
    BY RowFacts
  <2> QED
    BY <1>1, <1>4, <2>1 DEF Unbegun
<1>5. Placed(w)'
  BY <1>1 DEF Placed
<1> QED
  BY <1>1, <1>3, <1>4, <1>5 DEF BookInv, Unswitched

LEMMA FinishJobBook == ASSUME Inv, BookInv, NEW w \in Workers, FinishJob(w) PROVE BookInv'
<1>1. /\ run[w].pc = "done" /\ jobState' = [jobState EXCEPT ![run[w].job] = "completed"]
      /\ run' = [run EXCEPT ![w] = IdleRun]
      /\ UNCHANGED <<jobData, waiting, attempts, stalls, audit, active, switched>>
  BY DEF FinishJob, dataVars, faultVars
<1>2. /\ jobState'[run[w].job] = "completed"
      /\ \A k : k # run[w].job => jobState'[k] = jobState[k]
  BY <1>1, JobFacts DEF Inv, TypeOK
<1>3. \A j : Try(j)' = Try(j)
  BY <1>1 DEF Try
<1>4. /\ Unswitched' /\ QueueSound' /\ Placed(w)'
      /\ \A u \in Workers \ {w} : run'[u] = run[u]
      /\ run'[w].job = 0 /\ run'[w].pc = "idle"
  BY <1>1, <1>2, EndJobBook
<1>5. ASSUME NEW i \in DOMAIN audit PROVE RowSound(i)'
  <2>1. Unbegun(audit[i].job)' => Unbegun(audit[i].job)
    <3>1. audit[i].job # 0
      BY RowFacts DEF Jobs
    <3> QED
      BY <1>1, <1>2, <1>4, <3>1 DEF Unbegun
  <2>2. Len(jobData) \in Nat
    BY LenProperties DEF Inv, TypeOK
  <2> QED
    BY <1>1, <1>3, <2>1, <2>2, RowSoundStays
<1>6. \A u \in Workers \ {w} : Placed(u)'
  BY <1>1, <1>3, <1>4, PlacedStays
<1> QED
  BY <1>1, <1>4, <1>5, <1>6 DEF BookInv, RowsSound

\* A failed attempt is one more try of its job, and of no other.
LEMMA FailMoves ==
    ASSUME Inv, BookInv, NEW w \in Workers, FailJob(w)
    PROVE  /\ run[w].pc = "throw" /\ run' = [run EXCEPT ![w] = IdleRun]
           /\ jobState'[run[w].job] \in {"delayed", "failed"}
           /\ \A k \in Jobs : k # run[w].job => jobState'[k] = jobState[k] /\ Try(k)' = Try(k)
           /\ \A j \in Jobs : j = run[w].job => Try(j)' \in Nat /\ Try(j)' > Try(j)
           /\ UNCHANGED <<jobData, waiting, stalls, result, dbStock, chanStock, audit,
                          active, switched>>
<1>10. PICK j : j = run[w].job
  OBVIOUS
<1>1. /\ run[w].pc = "throw" /\ attempts' = [attempts EXCEPT ![j] = @ + 1]
      /\ jobState' = [jobState EXCEPT ![j] =
                        IF attempts[j] + 1 < MaxAttempts THEN "delayed" ELSE "failed"]
      /\ run' = [run EXCEPT ![w] = IdleRun]
      /\ UNCHANGED <<jobData, waiting, stalls, result, dbStock, chanStock, audit, active, switched>>
  BY <1>10 DEF FailJob, dataVars, faultVars
<1>2. j \in Jobs
  BY <1>1, <1>10, JobFacts
<1>3. /\ jobState'[j] \in {"delayed", "failed"} /\ attempts'[j] = attempts[j] + 1
      /\ attempts[j] \in Nat /\ stalls[j] \in Nat
      /\ \A k \in Jobs : k # j => jobState'[k] = jobState[k] /\ attempts'[k] = attempts[k]
  BY <1>1, <1>2 DEF Inv, TypeOK
<1>4. \A k : stalls'[k] = stalls[k]
  BY <1>1
<1>5. \A k \in Jobs : k # j => Try(k)' = Try(k)
  BY <1>3, <1>4 DEF Try
<1>6. Try(j)' = (attempts[j] + 1) + stalls[j] /\ Try(j) = attempts[j] + stalls[j]
  BY <1>3, <1>4 DEF Try
<1>7. Try(j)' \in Nat /\ Try(j)' > Try(j)
  BY <1>3, <1>6
<1> QED
  BY <1>1, <1>3, <1>5, <1>7, <1>10

LEMMA FailJobBook == ASSUME Inv, BookInv, NEW w \in Workers, FailJob(w) PROVE BookInv'
<1>1. /\ run[w].pc = "throw" /\ run' = [run EXCEPT ![w] = IdleRun]
      /\ jobState'[run[w].job] \in {"delayed", "failed"}
      /\ \A k \in Jobs : k # run[w].job => jobState'[k] = jobState[k] /\ Try(k)' = Try(k)
      /\ UNCHANGED <<jobData, waiting, audit, active, switched>>
  BY FailMoves
<1>2. PICK j \in 1..Len(jobData) : j = run[w].job
  BY <1>1, JobFacts
<1>3. Try(j)' \in Nat /\ Try(j)' > Try(j)
  BY <1>1, <1>2, FailMoves, JobFacts
<1>4. /\ Unswitched' /\ QueueSound' /\ Placed(w)'
      /\ \A i \in DOMAIN audit : audit[i].job # run[w].job =>
                 (Unbegun(audit[i].job)' => Unbegun(audit[i].job))
      /\ \A u \in Workers \ {w} : run'[u] = run[u] /\ run[u].job # run[w].job
  BY <1>1, EndJobBook
<1>5. ASSUME NEW i \in DOMAIN audit PROVE RowSound(i)'
  <2>1. audit[i].job \in Jobs /\ Len(jobData) \in Nat
    BY RowFacts, LenProperties DEF Inv, TypeOK
  <2>2. CASE audit[i].job = j
    BY <1>1, <1>3, <2>2, OverSound
  <2>3. CASE audit[i].job # run[w].job
    BY <1>1, <1>4, <2>1, <2>3, RowSoundStays
  <2> QED
    BY <1>2, <2>2, <2>3
<1>6. ASSUME NEW u \in Workers \ {w} PROVE Placed(u)'
  <2>1. run[u].job # 0 => Try(run[u].job)' = Try(run[u].job)
    BY <1>1, <1>4, SlotFacts DEF Run
  <2> QED
    BY <1>1, <1>4, <2>1, PlacedStays
<1> QED
  BY <1>1, <1>4, <1>5, <1>6 DEF BookInv, RowsSound

\* What BullMQ does with a job that is in no slot.
LEMMA RequeueMoves ==
    ASSUME Inv, BookInv, NEW j \in Jobs, PromoteDelayed(j) \/ RecoverStalled(j)
    PROVE  /\ UNCHANGED <<jobData, attempts, result, run, dbStock, chanStock, audit, active, switched>>
           /\ jobState[j] \in {"delayed", "active"} /\ jobState'[j] \in {"waiting", "failed"}
           /\ \A k \in Jobs : k # j => jobState'[k] = jobState[k] /\ Try(k)' = Try(k)
           /\ Try(j)' = Try(j) \/ (Try(j)' \in Nat /\ Try(j)' > Try(j))
           /\ Try(j)' = Try(j) /\ Unbegun(j)' => Unbegun(j)
           /\ j \in 1..Len(jobData) /\ \A w \in Workers : run[w].job # j
           /\ QueueSound'
<1>1. /\ UNCHANGED <<jobData, attempts, result, run, dbStock, chanStock, audit, active, switched>>
      /\ jobState[j] \in {"delayed", "active"}
      /\ \A w \in Workers : run[w].job # j
  <2>1. \A w \in Workers : run[w].job = j => jobState[j] = "active"
    BY DEF BookInv, QueueSound, Jobs
  <2> QED
    BY <2>1 DEF PromoteDelayed, RecoverStalled, dataVars, faultVars
<1>2. \/ /\ jobState' = [jobState EXCEPT ![j] = "waiting"] /\ waiting' = Append(waiting, j)
         /\ \/ jobState[j] = "delayed" /\ stalls' = stalls
            \/ stalls' = [stalls EXCEPT ![j] = @ + 1]
      \/ /\ jobState' = [jobState EXCEPT ![j] = "failed"] /\ UNCHANGED <<waiting, stalls>>
  BY DEF PromoteDelayed, RecoverStalled
<1>3. /\ jobState'[j] \in {"waiting", "failed"} /\ jobState \in [Jobs -> JobState]
      /\ \A k \in Jobs : k # j => jobState'[k] = jobState[k]
      /\ stalls \in [Jobs -> Nat] /\ attempts \in [Jobs -> Nat] /\ waiting \in Seq(Jobs)
  <2>1. jobState \in [Jobs -> JobState] /\ stalls \in [Jobs -> Nat]
        /\ attempts \in [Jobs -> Nat] /\ waiting \in Seq(Jobs)
    BY DEF Inv, TypeOK
  <2>2. \E s \in {"waiting", "failed"} : jobState' = [jobState EXCEPT ![j] = s]
    BY <1>2
  <2> QED
    BY <2>1, <2>2
<1>4. QueueSound'
  <2>1. CASE jobState' = [jobState EXCEPT ![j] = "waiting"] /\ waiting' = Append(waiting, j)
    BY <1>1, <1>3, <2>1, AppendKeepsQueue DEF BookInv
  <2>2. CASE jobState' = [jobState EXCEPT ![j] = "failed"] /\ waiting' = waiting
    <3>1. \A k \in 1..Len(waiting) : waiting[k] \in Jobs
      BY <1>3, ElementOfSeq
    <3>2. \A w \in Workers : run[w].job # 0 => run[w].job \in Jobs
      BY SlotFacts DEF Run
    <3> QED
      BY <1>1, <1>3, <2>2, <3>1, <3>2 DEF BookInv, QueueSound
  <2> QED
    BY <1>2, <2>1, <2>2
<1>5. \A k \in Jobs : k # j => Try(k)' = Try(k)
  <2>1. \A k \in Jobs : k # j => stalls'[k] = stalls[k]
    BY <1>2, <1>3
  <2> QED
    BY <1>1, <2>1 DEF Try
<1>6. j \in 1..Len(jobData)
  BY <1>1 DEF Inv, QueueOK
<1>7. Try(j)' = Try(j) \/ (Try(j)' \in Nat /\ Try(j)' > Try(j))
  <2>1. stalls'[j] = stalls[j] \/ stalls'[j] = stalls[j] + 1
    BY <1>2, <1>3
  <2>2. attempts'[j] = attempts[j] /\ attempts[j] \in Nat /\ stalls[j] \in Nat
    BY <1>1, <1>3
  <2>3. Try(j) = attempts[j] + stalls[j] /\ Try(j)' = attempts[j] + stalls'[j]
    BY <2>2 DEF Try
  <2>4. CASE stalls'[j] = stalls[j]
    BY <2>3, <2>4
  <2>5. CASE stalls'[j] = stalls[j] + 1
    <3>1. Try(j)' = (attempts[j] + stalls[j]) + 1
      BY <2>2, <2>3, <2>5
    <3> QED
      BY <2>2, <2>3, <3>1
  <2> QED
    BY <2>1, <2>4, <2>5
<1>8. Try(j)' = Try(j) /\ Unbegun(j)' => Unbegun(j)
  <2>1. CASE jobState[j] = "delayed"
    BY <2>1 DEF Unbegun
  <2>2. CASE stalls' = [stalls EXCEPT ![j] = @ + 1]
    BY <1>1, <1>3, <2>2 DEF Try
  <2>3. CASE jobState' = [jobState EXCEPT ![j] = "failed"]
    BY <1>1, <1>3, <2>3 DEF Unbegun
  <2> QED
    BY <1>2, <2>1, <2>2, <2>3
<1> QED
  BY <1>1, <1>3, <1>4, <1>5, <1>6, <1>7, <1>8

LEMMA RequeueBook ==
    ASSUME Inv, BookInv, NEW j \in Jobs, PromoteDelayed(j) \/ RecoverStalled(j) PROVE BookInv'
<1>1. /\ UNCHANGED <<jobData, run, audit, active, switched>>
      /\ \A k \in Jobs : k # j => jobState'[k] = jobState[k] /\ Try(k)' = Try(k)
      /\ Try(j)' = Try(j) \/ (Try(j)' \in Nat /\ Try(j)' > Try(j))
      /\ Try(j)' = Try(j) /\ Unbegun(j)' => Unbegun(j)
      /\ j \in 1..Len(jobData) /\ \A w \in Workers : run[w].job # j /\ QueueSound'
  BY RequeueMoves
<1>2. ASSUME NEW i \in DOMAIN audit PROVE RowSound(i)'
  <2>1. audit[i].job \in Jobs /\ Len(jobData) \in Nat
    BY RowFacts, LenProperties DEF Inv, TypeOK
  <2>2. CASE audit[i].job = j /\ Try(j)' # Try(j)
    BY <1>1, <2>2, OverSound
  <2>3. CASE audit[i].job # j
    <3>1. Unbegun(audit[i].job)' => Unbegun(audit[i].job)
      BY <1>1, <2>1, <2>3 DEF Unbegun
    <3> QED
      BY <1>1, <2>1, <2>3, <3>1, RowSoundStays
  <2>4. CASE audit[i].job = j /\ Try(j)' = Try(j)
    BY <1>1, <2>1, <2>4, RowSoundStays
  <2> QED
    BY <2>2, <2>3, <2>4
<1>3. ASSUME NEW w \in Workers PROVE Placed(w)'
  <2>1. run[w].job # 0 => Try(run[w].job)' = Try(run[w].job)
    BY <1>1, SlotFacts DEF Run
  <2> QED
    BY <1>1, <2>1, PlacedStays
<1>4. QueueSound'
  BY RequeueMoves
<1> QED
  BY <1>1, <1>2, <1>3, <1>4 DEF BookInv, RowsSound, Unswitched

\* A new job is the last one and waits.
LEMMA RequestMoves ==
    ASSUME Inv, BookInv, Requests
    PROVE  /\ UNCHANGED <<attempts, stalls, result, run, dbStock, audit, active, switched>>
           /\ Len(jobData') = Len(jobData) + 1 /\ Len(jobData) \in Nat
           /\ \A j \in 1..Len(jobData) : /\ j \in 1..Len(jobData') /\ jobData'[j] = jobData[j]
                                         /\ jobState'[j] = jobState[j]
           /\ jobState'[Len(jobData) + 1] = "waiting" /\ QueueSound'
           /\ \A w \in Workers : run[w].job # Len(jobData) + 1
<1> DEFINE n == Len(jobData) + 1
<1>1. PICK data : AddSyncJob(data)
  BY DEF Requests, HandleStockChange, TriggerProductSync, TriggerChannelSync, TriggerFullSync
<1>2. /\ jobData \in Seq(JobData) /\ Len(jobData) \in Nat /\ n \in Jobs
      /\ jobState \in [Jobs -> JobState] /\ waiting \in Seq(Jobs) /\ Len(waiting) \in Nat
  <2>1. /\ jobData \in Seq(JobData) /\ Len(jobData) < MaxJobs
        /\ jobState \in [Jobs -> JobState] /\ waiting \in Seq(Jobs)
    BY <1>1 DEF AddSyncJob, Inv, TypeOK
  <2>2. Len(jobData) \in Nat /\ Len(waiting) \in Nat
    BY <2>1, LenProperties
  <2> QED
    BY <2>1, <2>2, BoundsAssumption DEF Jobs
<1>3. jobState[n] = "none"
  BY <1>2 DEF Inv, QueueOK
<1>4. /\ jobData' = Append(jobData, data) /\ jobState' = [jobState EXCEPT ![n] = "waiting"]
      /\ waiting' = Append(waiting, n)
      /\ UNCHANGED <<attempts, stalls, result, run, active, switched>>
  BY <1>1 DEF AddSyncJob, faultVars
<1>5. /\ Len(jobData') = n /\ \A j \in 1..Len(jobData) : jobData'[j] = jobData[j]
  BY <1>2, <1>4
<1>6. /\ jobState'[n] = "waiting"
      /\ \A j \in 1..Len(jobData) : jobState'[j] = jobState[j] /\ j # n /\ j \in 1..n
  BY <1>2, <1>4 DEF Jobs
<1>7. dbStock' = dbStock /\ audit' = audit
  BY DEF Requests, HandleStockChange, TriggerProductSync, TriggerChannelSync, TriggerFullSync,
         dataVars
<1> HIDE DEF n
<1>8. \A w \in Workers : run[w].job # n
  <2>1. n # 0
    BY <1>2 DEF Jobs
  <2> QED
    BY <1>3, <2>1 DEF BookInv, QueueSound
<1>9. QueueSound'
  BY <1>2, <1>3, <1>4, <1>8, AppendKeepsQueue DEF BookInv
<1> QED
  BY <1>2, <1>4, <1>5, <1>6, <1>7, <1>8, <1>9 DEF n

LEMMA RequestsBook == ASSUME Inv, BookInv, Requests PROVE BookInv'
<1>1. /\ UNCHANGED <<attempts, stalls, result, run, dbStock, audit, active, switched>>
      /\ Len(jobData') = Len(jobData) + 1 /\ Len(jobData) \in Nat
      /\ \A j \in 1..Len(jobData) : jobData'[j] = jobData[j] /\ jobState'[j] = jobState[j]
      /\ QueueSound'
  BY RequestMoves
<1>2. \A j : Try(j)' = Try(j)
  BY <1>1 DEF Try
<1>3. ASSUME NEW i \in DOMAIN audit PROVE RowSound(i)'
  <2>1. audit[i].job \in 1..Len(jobData)
    BY RowFacts DEF RowSound
  <2>2. Unbegun(audit[i].job)' => Unbegun(audit[i].job)
    BY <1>1, <2>1 DEF Unbegun
  <2> QED
    BY <1>1, <1>2, <2>2, RowSoundStays
<1>4. \A w \in Workers : Placed(w)'
  BY <1>1, <1>2, PlacedStays
<1> QED
  BY <1>1, <1>3, <1>4 DEF BookInv, RowsSound, Unswitched

\* Start, stop, crash and the switching of channels leave jobs and rows alone.
LEMMA EnvironmentMoves ==
    ASSUME Inv, BookInv,
           \/ Start \/ Stop \/ Stopped \/ Crash
           \/ (\E c \in Channels : ToggleChannel(c)) \/ UNCHANGED vars
    PROVE  /\ UNCHANGED <<jobData, jobState, waiting, attempts, stalls, result, dbStock,
                          chanStock, audit>>
           /\ switched \subseteq switched' /\ Unswitched'
           /\ run' = run \/ \A w \in Workers : run'[w] = IdleRun
           /\ IdleRun.job = 0 /\ IdleRun.pc = "idle" /\ IdleRun.pending = {} /\ IdleRun.row = 0
           /\ IdleRun.cur = NoProduct
<1>1. /\ UNCHANGED <<queueVars, dataVars>> /\ switched \subseteq switched'
      /\ run' = run \/ run' = [w \in Workers |-> IdleRun]
  BY DEF Start, Stop, Stopped, Crash, ToggleChannel, vars, faultVars
<1>2. Unswitched'
  <2>1. CASE UNCHANGED <<active, switched>>
    BY <2>1 DEF BookInv, Unswitched
  <2>2. ASSUME NEW c \in Channels, ToggleChannel(c) PROVE Unswitched'
    BY <2>2 DEF BookInv, Unswitched, ToggleChannel, Inv, TypeOK
  <2> QED
    BY <2>1, <2>2 DEF Start, Stop, Stopped, Crash, vars, faultVars
<1> QED
  BY <1>1, <1>2 DEF queueVars, dataVars, IdleRun

LEMMA EnvironmentBook ==
    ASSUME Inv, BookInv,
           \/ Start \/ Stop \/ Stopped \/ Crash
           \/ (\E c \in Channels : ToggleChannel(c)) \/ UNCHANGED vars
    PROVE  BookInv'
<1>1. /\ UNCHANGED <<jobData, jobState, waiting, attempts, stalls, result, audit>>
      /\ Unswitched'
      /\ run' = run \/ \A w \in Workers : run'[w] = IdleRun
      /\ IdleRun.job = 0 /\ IdleRun.pc = "idle" /\ IdleRun.pending = {} /\ IdleRun.row = 0
  BY EnvironmentMoves
<1>2. \A j : Try(j)' = Try(j)
  BY <1>1 DEF Try
<1>3. QueueSound'
  <2>1. \A w \in Workers : run'[w].job = run[w].job \/ run'[w].job = 0
    BY <1>1
  <2> QED
    BY <1>1, <2>1 DEF BookInv, QueueSound
<1>4. ASSUME NEW i \in DOMAIN audit PROVE RowSound(i)'
  <2>1. Unbegun(audit[i].job)' => Unbegun(audit[i].job)
    BY <1>1 DEF Unbegun
  <2>2. Len(jobData) \in Nat
    BY LenProperties DEF Inv, TypeOK
  <2> QED
    BY <1>1, <1>2, <2>1, <2>2, RowSoundStays
<1>5. ASSUME NEW w \in Workers PROVE Placed(w)'
  <2>1. CASE run' = run
    BY <1>1, <1>2, <2>1, PlacedStays
  <2>2. CASE run'[w] = IdleRun
    BY <1>1, <2>2 DEF Placed
  <2> QED
    BY <1>1, <2>1, <2>2
<1> QED
  BY <1>1, <1>3, <1>4, <1>5 DEF BookInv, RowsSound

\* The books are kept by every step, whatever the number of slots.
LEMMA NextBook == ASSUME Inv, BookInv, [Next]_vars PROVE BookInv'
<1>1. ASSUME NEW w \in Workers, TakeJob(w) \/ JobStep(w) \/ Faults(w) PROVE BookInv'
  BY <1>1, TakeJobBook, FinishJobBook, FailJobBook, LookupBook, SourceBook,
     NextProductBook, CreateBook, PullBook, UpdateBook, MappingsBook,
     PushBook, EndRowBook, DbErrorBook, LostReplyBook DEF JobStep, Faults
<1>2. ASSUME NEW j \in Jobs, PromoteDelayed(j) \/ RecoverStalled(j) PROVE BookInv'
  BY <1>2, RequeueBook
<1> QED
  BY <1>1, <1>2, RequestsBook, EnvironmentBook DEF Next

LEMMA InitBook == ASSUME Init PROVE BookInv
<1>1. Len(waiting) = 0 /\ DOMAIN audit = {}
  BY EmptySeq DEF Init
<1>2. /\ IdleRun.job = 0 /\ IdleRun.pc = "idle" /\ IdleRun.pending = {} /\ IdleRun.row = 0
      /\ \A w \in Workers : run[w] = IdleRun
  BY DEF Init, IdleRun
<1>3. \A w \in Workers : Placed(w)
  BY <1>2 DEF Placed
<1> QED
  BY <1>1, <1>2, <1>3 DEF BookInv, Unswitched, QueueSound, RowsSound, Init

-----------------------------------------------------------------------------
(* A product that no two slots are at together *)

\* The slot is between the lookup of product p and the settling of its row.
At(w, p) ==
    /\ run[w].cur = p
    /\ run[w].pc \in {"record", "pull", "unavailable", "write", "mappings", "push", "abort"}

Alone(p) == \A v, w \in Workers : At(v, p) /\ At(w, p) => v = w

\* A change of p reported by c that is still to be worked off.
Sale(p, c) == \E j \in 1..Len(jobData) :
    /\ jobData[j].op = "stock_change" /\ jobData[j].prod = p /\ jobData[j].src = c
    /\ jobState[j] # "completed"
    /\ \A w \in Workers : run[w].job = j => run[w].pc # "done"

\* The channels a change of the product at hand has to reach.
Due(w) == Mapping[run[w].cur] \ ({run[w].src} \cup switched)

\* The slot writes its channels (an unforced full sync may have skipped them).
Pushes(w) ==
    run[w].pc = "push" /\ (JobOf(w).op = "full_sync" => JobOf(w).force)

\* The row of the slot is the newest about its product.
Held(w) == run[w].row # 0 => Newest(run[w].row)

\* The slot has its channels before it, and what it writes is in the database.
Aimed(w) ==
    /\ run[w].pc \in {"record", "pull", "write"} /\ JobOf(w).op \in Pulls
          => Due(w) \subseteq run[w].todo
    /\ run[w].pc = "mappings" \/ Pushes(w) => dbStock[run[w].cur] = run[w].qty

\* A channel it has done shows the stock, unless another change came in since,
\* or is noted as an error.
Reached(w) == Pushes(w) =>
    \A c \in Due(w) \ run[w].todo :
        \/ chanStock[run[w].cur][c] = Expected(run[w].cur, c, run[w].qty)
        \/ Sale(run[w].cur, c)
        \/ <<run[w].cur, c>> \in run[w].errors

SlotSound(w) == Held(w) /\ Aimed(w) /\ Reached(w)

\* The job of row i has noted channel c, or is not over.
Noted(i, c) ==
    LET j == audit[i].job
        e == <<audit[i].prod, c>>
    IN  IF jobState[j] = "completed" THEN e \in result[j]
        ELSE \A w \in Workers : run[w].job = j => e \in run[w].errors

Accounted(i) ==
    LET p == audit[i].prod IN
    Newest(i) /\ Pushed(i) =>
        \A c \in Mapping[p] \ ({audit[i].src} \cup switched) :
            \/ chanStock[p][c] = Expected(p, c, dbStock[p])
            \/ Sale(p, c) \/ Noted(i, c)

ProductInv(p) ==
    /\ AuditTells(p)
    /\ \A i \in DOMAIN audit : audit[i].prod = p => Accounted(i)
    /\ \A w \in Workers : At(w, p) => SlotSound(w)

\* No row about p is added, settled or removed.
RowsKept(p) ==
    /\ \A i \in DOMAIN audit : audit[i].prod = p => i \in DOMAIN audit' /\ audit'[i] = audit[i]
    /\ \A i \in DOMAIN audit' : audit'[i].prod = p => i \in DOMAIN audit /\ audit[i].prod = p

SalesKept(p) == \A c \in Mapping[p] : p \in Known /\ Sale(p, c) => Sale(p, c)'

\* What a job has noted for a row of its last attempt it does not forget.
NotesKept(p) ==
    \A i \in DOMAIN audit : audit[i].prod = p /\ Pushed(i)' =>
        Pushed(i) /\ \A c : Noted(i, c) => Noted(i, c)'

LEMMA RowsLength ==
    ASSUME Inv, BookInv, Inv' PROVE
      /\ Len(audit) \in Nat /\ DOMAIN audit = 1..Len(audit)
      /\ Len(audit') \in Nat /\ DOMAIN audit' = 1..Len(audit')
<1>1. audit \in Seq(AuditRow) /\ audit' \in Seq(AuditRow)
  BY DEF Inv, TypeOK
<1> QED
  BY <1>1, LenProperties

LEMMA NewestStays ==
    ASSUME Inv, BookInv, Inv', NEW p, RowsKept(p), NEW i \in DOMAIN audit, audit[i].prod = p
    PROVE  Newest(i)' <=> Newest(i)
<1>1. /\ Len(audit) \in Nat /\ DOMAIN audit = 1..Len(audit)
      /\ Len(audit') \in Nat /\ DOMAIN audit' = 1..Len(audit')
  BY RowsLength
<1>2. audit'[i].prod = p
  BY DEF RowsKept
<1>3. ASSUME Newest(i), NEW k \in i + 1..Len(audit'), audit'[k].prod = p PROVE FALSE
  <2>1. k \in DOMAIN audit /\ audit[k].prod = p
    BY <1>1, <1>3 DEF RowsKept
  <2>2. k \in i + 1..Len(audit)
    BY <1>1, <2>1
  <2> QED
    BY <1>3, <2>1, <2>2 DEF Newest
<1>4. ASSUME Newest(i)', NEW k \in i + 1..Len(audit), audit[k].prod = p PROVE FALSE
  <2>1. k \in DOMAIN audit
    BY <1>1
  <2>2. k \in DOMAIN audit' /\ audit'[k].prod = p
    BY <1>4, <2>1 DEF RowsKept
  <2>3. k \in i + 1..Len(audit')
    BY <1>1, <2>2
  <2> QED
    BY <1>2, <1>4, <2>2, <2>3 DEF Newest
<1> QED
  BY <1>2, <1>3, <1>4 DEF Newest

\* A step that leaves the rows and the stock of p alone, and its channels but for
\* new changes, leaves p in order if it does so with the slots that are at p.
LEMMA ProductStays ==
    ASSUME Inv, BookInv, Inv', NEW p \in Products, ProductInv(p),
           RowsKept(p), SalesKept(p), NotesKept(p),
           dbStock'[p] = dbStock[p], switched \subseteq switched',
           \A c \in Mapping[p] :
               p \in Known => chanStock'[p][c] = chanStock[p][c] \/ Sale(p, c)',
           \A u \in Workers : At(u, p)' =>
               SlotSound(u)' \/ (At(u, p) /\ run'[u] = run[u] /\ JobOf(u)' = JobOf(u))
    PROVE  ProductInv(p)'
<1>1. \A i \in DOMAIN audit' : audit'[i].prod = p =>
          /\ i \in DOMAIN audit /\ audit[i].prod = p /\ audit'[i] = audit[i]
          /\ Newest(i)' <=> Newest(i)
  BY NewestStays DEF RowsKept
<1>2. AuditTells(p)'
  BY <1>1 DEF ProductInv, AuditTells
<1>3. ASSUME NEW i \in DOMAIN audit', audit'[i].prod = p PROVE Accounted(i)'
  <2>1. /\ i \in DOMAIN audit /\ audit[i].prod = p /\ audit'[i] = audit[i]
        /\ Newest(i)' <=> Newest(i)
    BY <1>1, <1>3
  <2>2. p \in Known /\ Accounted(i)
    BY <2>1, RowFacts DEF ProductInv, RowSound
  <2> SUFFICES ASSUME Newest(i), Pushed(i)',
                      NEW c \in Mapping[p] \ ({audit[i].src} \cup switched)
               PROVE  \/ chanStock'[p][c] = Expected(p, c, dbStock[p])
                      \/ Sale(p, c)' \/ Noted(i, c)'
    BY <2>1 DEF Accounted, Expected
  <2>3. Pushed(i) /\ (Noted(i, c) => Noted(i, c)')
    BY <2>1 DEF NotesKept
  <2>4. \/ chanStock[p][c] = Expected(p, c, dbStock[p])
        \/ Sale(p, c) \/ Noted(i, c)
    BY <2>1, <2>2, <2>3 DEF Accounted
  <2> QED
    BY <2>2, <2>3, <2>4 DEF SalesKept
<1>4. ASSUME NEW u \in Workers, At(u, p), run'[u] = run[u], JobOf(u)' = JobOf(u)
      PROVE  SlotSound(u)'
  <2>1. SlotSound(u) /\ Placed(u) /\ RunOK(u) /\ run[u].cur = p /\ p \in Known
    BY <1>4, SlotFacts DEF ProductInv, At, Placed
  <2>2. Held(u)'
    <3>1. CASE run[u].row = 0
      BY <1>4, <3>1 DEF Held
    <3>2. CASE run[u].row # 0
      <4>1. run[u].row \in DOMAIN audit /\ audit[run[u].row].prod = p
        BY <2>1, <3>2, SlotFacts DEF RunOK, Placed
      <4>2. PICK i \in DOMAIN audit : i = run[u].row
        BY <4>1
      <4>3. Newest(i)' <=> Newest(i)
        BY <4>1, <4>2, NewestStays
      <4>4. Newest(i) /\ run'[u].row = i
        BY <1>4, <2>1, <3>2, <4>2 DEF SlotSound, Held
      <4> QED
        BY <4>3, <4>4 DEF Held, Newest
    <3> QED
      BY <3>1, <3>2
  <2>3. Due(u)' \subseteq Due(u) /\ (Pushes(u)' <=> Pushes(u))
    BY <1>4 DEF Due, Pushes
  <2>4. Aimed(u)'
    BY <1>4, <2>1, <2>3 DEF SlotSound, Aimed
  <2>5. Reached(u)'
    <3> SUFFICES ASSUME Pushes(u), NEW c \in Due(u) \ run[u].todo
                 PROVE  \/ chanStock'[p][c] = Expected(p, c, run[u].qty)
                        \/ Sale(p, c)' \/ <<p, c>> \in run[u].errors
      BY <1>4, <2>1, <2>3 DEF Reached, Expected
    <3>1. c \in Mapping[p]
      BY <2>1 DEF Due
    <3>2. \/ chanStock[p][c] = Expected(p, c, run[u].qty)
          \/ Sale(p, c) \/ <<p, c>> \in run[u].errors
      BY <2>1 DEF SlotSound, Reached
    <3> QED
      BY <2>1, <3>1, <3>2 DEF SalesKept
  <2> QED
    BY <2>2, <2>4, <2>5 DEF SlotSound
<1>5. ASSUME NEW u \in Workers, At(u, p)' PROVE SlotSound(u)'
  BY <1>4, <1>5
<1> QED
  BY <1>2, <1>3, <1>5 DEF ProductInv
-----------------------------------------------------------------------------
(* The steps of a slot that write neither rows nor stocks *)

\* The slot stays in its job and, once it has begun, forgets no error.
InJob(w) ==
    /\ UNCHANGED <<queueVars, active, switched>>
    /\ \A u \in Workers \ {w} : run'[u] = run[u]
    /\ run'[w].job = run[w].job /\ run[w].pc # "idle"
    /\ run[w].pc \in {"lookup", "source"} \/ run[w].errors \subseteq run'[w].errors

LEMMA SlotNotes ==
    ASSUME Inv, BookInv, NEW p, NEW w \in Workers, InJob(w), RowsKept(p)
    PROVE  NotesKept(p)
<1> SUFFICES ASSUME NEW i \in DOMAIN audit, audit[i].prod = p, Pushed(i)'
             PROVE  Pushed(i) /\ \A c : Noted(i, c) => Noted(i, c)'
  BY DEF NotesKept
<1>1. audit'[i] = audit[i] /\ UNCHANGED <<jobData, jobState, attempts, stalls, result>>
  BY DEF RowsKept, InJob, queueVars
<1>2. Pushed(i)
  BY <1>1 DEF Pushed, Try
<1>3. ASSUME NEW c, Noted(i, c) PROVE Noted(i, c)'
  <2>1. CASE run[w].errors \subseteq run'[w].errors
    BY <1>1, <1>3, <2>1 DEF Noted, InJob
  <2>2. CASE run[w].pc \in {"lookup", "source"}
    <3>1. audit[i].try = Try(audit[i].job) /\ audit[i].try \in Nat /\ RowSound(i)
      BY <1>2, RowFacts DEF Pushed, AuditRow
    <3>2. ~Unbegun(audit[i].job)
      BY <3>1 DEF RowSound
    <3>3. run[w].job # audit[i].job
      BY <2>2, <3>2 DEF Unbegun
    <3> QED
      BY <1>1, <1>3, <3>3 DEF Noted, InJob
  <2> QED
    BY <2>1, <2>2 DEF InJob
<1> QED
  BY <1>2, <1>3

\* A change is worked off only at the end of its job.
LEMMA SlotSales ==
    ASSUME NEW p, NEW w \in Workers, InJob(w),
           run'[w].pc # "done" \/ JobOf(w).op # "stock_change"
    PROVE  SalesKept(p)
<1>1. UNCHANGED <<jobData, jobState>>
  BY DEF InJob, queueVars
<1> SUFFICES ASSUME NEW c, Sale(p, c) PROVE Sale(p, c)'
  BY DEF SalesKept
<1>2. PICK j \in 1..Len(jobData) :
         /\ jobData[j].op = "stock_change" /\ jobData[j].prod = p /\ jobData[j].src = c
         /\ jobState[j] # "completed"
         /\ \A u \in Workers : run[u].job = j => run[u].pc # "done"
  BY DEF Sale
<1>3. \A u \in Workers : run'[u].job = j => run'[u].pc # "done"
  BY <1>2 DEF InJob, JobOf
<1> QED
  BY <1>1, <1>2, <1>3 DEF Sale

\* What a slot does elsewhere is nothing to p, unless it comes to p.
LEMMA Elsewhere ==
    ASSUME Inv, BookInv, Inv', NEW p \in Products, ProductInv(p), NEW w \in Workers, InJob(w),
           RowsKept(p), SalesKept(p), dbStock'[p] = dbStock[p],
           \A c \in Mapping[p] : chanStock'[p][c] = chanStock[p][c],
           At(w, p)' => SlotSound(w)'
    PROVE  ProductInv(p)'
<1>1. NotesKept(p)
  BY SlotNotes
<1>2. switched \subseteq switched'
  BY DEF InJob
<1>3. ASSUME NEW u \in Workers, At(u, p)'
      PROVE  SlotSound(u)' \/ (At(u, p) /\ run'[u] = run[u] /\ JobOf(u)' = JobOf(u))
  BY <1>3 DEF InJob, At, JobOf, queueVars
<1> QED
  BY <1>1, <1>2, <1>3, ProductStays

LEMMA QuietProduct ==
    ASSUME Inv, BookInv, Inv', NEW p \in Products, ProductInv(p), NEW w \in Workers, InJob(w),
           SalesKept(p), UNCHANGED dataVars, At(w, p)' => SlotSound(w)'
    PROVE  ProductInv(p)'
<1>1. UNCHANGED <<audit, dbStock, chanStock>>
  BY DEF dataVars
<1>2. RowsKept(p)
  BY <1>1 DEF RowsKept
<1> QED
  BY <1>1, <1>2, Elsewhere

\* The channels a slot sets out for are those a change has to reach.
LEMMA TargetsAreDue ==
    ASSUME BookInv, NEW p \in Products, NEW src
    PROVE  Mapping[p] \ ({src} \cup switched) \subseteq Targets(p, src)
BY ProductsAssumption DEF BookInv, Unswitched, Targets

LEMMA LookupProductStep ==
    ASSUME Inv, BookInv, Inv', NEW p \in Products, ProductInv(p), NEW w \in Workers,
           LookupProduct(w)
    PROVE  ProductInv(p)'
<1>1. KeepsRow(w)
  BY KeepsRowSteps
<1>2. InJob(w)
  BY <1>1, LookupMoves DEF InJob, KeepsRow
<1>3. JobOf(w)' = JobOf(w) /\ UNCHANGED <<jobData, jobState, dbStock>> /\ UNCHANGED dataVars
  BY LookupMoves DEF JobOf, queueVars, dataVars
<1>4. CASE Found(JobOf(w))
  <2>1. SalesKept(p)
    BY <1>2, <1>4, LookupMoves, SlotSales
  <2>2. SlotSound(w)'
    BY <1>3, <1>4, LookupMoves DEF SlotSound, Held, Aimed, Reached, Pushes, Pulls
  <2> QED
    BY <1>2, <1>3, <2>1, <2>2, QuietProduct
<1>5. CASE ~Found(JobOf(w))
  <2>1. SalesKept(p)
    <3> SUFFICES ASSUME NEW c \in Mapping[p], p \in Known, Sale(p, c) PROVE Sale(p, c)'
      BY DEF SalesKept
    <3>1. PICK j \in 1..Len(jobData) :
             /\ jobData[j].op = "stock_change" /\ jobData[j].prod = p /\ jobData[j].src = c
             /\ jobState[j] # "completed"
             /\ \A u \in Workers : run[u].job = j => run[u].pc # "done"
      BY DEF Sale
    <3>2. run[w].job # j
      BY <1>5, <3>1 DEF Found, JobOf
    <3>3. \A u \in Workers : run'[u].job = j => run'[u].pc # "done"
      BY <1>2, <3>1, <3>2 DEF InJob
    <3> QED
      BY <1>3, <3>1, <3>3 DEF Sale
  <2>2. ~At(w, p)'
    BY <1>5, LookupMoves DEF At
  <2> QED
    BY <1>2, <1>3, <2>1, <2>2, QuietProduct
<1> QED
  BY <1>4, <1>5

LEMMA SourceStep ==
    ASSUME Inv, BookInv, Inv', NEW p \in Products, ProductInv(p), NEW w \in Workers,
           CheckChannel(w) \/ ChooseSourceOfTruth(w) \/ LoadProducts(w)
    PROVE  ProductInv(p)'
<1>1. KeepsRow(w)
  BY KeepsRowSteps
<1>2. InJob(w)
  BY <1>1, SourceMoves DEF InJob, KeepsRow
<1>3. SalesKept(p) /\ UNCHANGED dataVars /\ ~At(w, p)'
  BY <1>2, SourceMoves, SlotSales DEF At
<1> QED
  BY <1>2, <1>3, QuietProduct

LEMMA NextProductStep ==
    ASSUME Inv, BookInv, Inv', NEW p \in Products, ProductInv(p), NEW w \in Workers,
           NextProduct(w)
    PROVE  ProductInv(p)'
<1>1. KeepsRow(w)
  BY KeepsRowSteps
<1>2. InJob(w)
  BY <1>1, NextMoves DEF InJob, KeepsRow
<1>3. SalesKept(p) /\ UNCHANGED dataVars
  BY <1>2, NextMoves, SlotSales
<1>4. ASSUME At(w, p)' PROVE SlotSound(w)'
  <2>1. PICK q \in run[w].pending :
           /\ run'[w].pc = "record" /\ run'[w].cur = q /\ run'[w].src = run[w].src
           /\ run'[w].todo = Targets(q, run[w].src)
    BY <1>4, NextMoves DEF At
  <2>2. q \in Products /\ run'[w].row = 0 /\ switched' = switched
    BY NextMoves, ProductsAssumption
  <2>3. Due(w)' \subseteq run'[w].todo
    BY <2>1, <2>2, TargetsAreDue DEF Due
  <2> QED
    BY <2>1, <2>2, <2>3 DEF SlotSound, Held, Aimed, Reached, Pushes
<1> QED
  BY <1>2, <1>3, <1>4, QuietProduct

LEMMA PullStep ==
    ASSUME Inv, BookInv, Inv', NEW p \in Products, ProductInv(p), NEW w \in Workers,
           PullStock(w) \/ PullUnavailable(w)
    PROVE  ProductInv(p)'
<1>1. KeepsRow(w)
  BY KeepsRowSteps
<1>2. InJob(w)
  BY <1>1, PullMoves DEF InJob, KeepsRow
<1>3. SalesKept(p) /\ UNCHANGED dataVars
  BY <1>2, PullMoves, SlotSales
<1>4. ASSUME At(w, p)' PROVE SlotSound(w)'
  <2>1. /\ run[w].pc = "pull" /\ JobOf(w).op \in Pulls /\ run[w].cur = p
        /\ JobOf(w)' = JobOf(w) /\ Due(w)' = Due(w) /\ audit' = audit /\ run'[w].row = run[w].row
    BY <1>4, PullMoves DEF At, JobOf, Due, queueVars, dataVars
  <2>2. SlotSound(w)
    BY <2>1 DEF ProductInv, At
  <2>3. ~Pushes(w)' /\ run'[w].pc # "mappings"
    BY <2>1, PullMoves DEF Pushes
  <2>4. Aimed(w)' /\ Reached(w)'
    BY <2>1, <2>2, <2>3, PullMoves DEF SlotSound, Aimed, Reached
  <2>5. Held(w)'
    BY <2>1, <2>2 DEF SlotSound, Held, Newest
  <2> QED
    BY <2>4, <2>5 DEF SlotSound
<1> QED
  BY <1>2, <1>3, <1>4, QuietProduct

LEMMA MappingsStep ==
    ASSUME Inv, BookInv, Inv', NEW p \in Products, ProductInv(p), NEW w \in Workers,
           LoadMappings(w) \/ EndProductSync(w)
    PROVE  ProductInv(p)'
<1>1. KeepsRow(w)
  BY KeepsRowSteps
<1>2. InJob(w)
  BY <1>1, MappingsMoves DEF InJob, KeepsRow
<1>3. SalesKept(p) /\ UNCHANGED dataVars
  BY <1>2, MappingsMoves, SlotSales
<1>4. ASSUME At(w, p)' PROVE SlotSound(w)'
  <2>1. /\ run[w].pc = "mappings" /\ run'[w].pc = "push" /\ run[w].cur = p
        /\ run'[w].todo = Targets(p, run[w].src)
        /\ JobOf(w)' = JobOf(w) /\ Due(w)' = Due(w) /\ run'[w].row = run[w].row
        /\ UNCHANGED <<audit, dbStock>>
    BY <1>4, MappingsMoves DEF At, JobOf, Due, queueVars, dataVars
  <2>2. SlotSound(w)
    BY <2>1 DEF ProductInv, At
  <2>3. Due(w) \subseteq Targets(p, run[w].src)
    BY <2>1, TargetsAreDue DEF Due
  <2>4. Aimed(w)' /\ Reached(w)'
    BY <2>1, <2>2, <2>3, MappingsMoves DEF SlotSound, Aimed, Reached, Pushes
  <2>5. Held(w)'
    BY <2>1, <2>2 DEF SlotSound, Held, Newest
  <2> QED
    BY <2>4, <2>5 DEF SlotSound
<1> QED
  BY <1>2, <1>3, <1>4, QuietProduct

\* The slot of a failing statement at p has its row and its errors for the catch block.
LEMMA RaiseSound ==
    ASSUME Inv, BookInv, NEW p, ProductInv(p), NEW w \in Workers, Raise(w), At(w, p)',
           Len(audit') = Len(audit), \A i \in DOMAIN audit : audit'[i].prod = audit[i].prod
    PROVE  SlotSound(w)'
<1>1. /\ run'[w].pc = "abort" /\ InTry(w) /\ run'[w].row = run[w].row /\ run[w].cur = p
  BY RaiseMoves DEF At
<1>2. SlotSound(w) /\ RunOK(w)
  BY <1>1, SlotFacts DEF ProductInv, At, InTry
<1>3. Held(w)'
  <2>1. CASE run[w].row = 0
    BY <1>1, <2>1 DEF Held
  <2>2. CASE run[w].row # 0
    <3>1. run[w].row \in DOMAIN audit /\ DOMAIN audit = 1..Len(audit) /\ Len(audit) \in Nat
      BY <1>2, <2>2, SlotFacts DEF RunOK
    <3>2. PICK i \in DOMAIN audit : i = run[w].row
      BY <3>1
    <3>3. Newest(i) /\ \A k \in i + 1..Len(audit) : k \in DOMAIN audit
      BY <1>2, <2>2, <3>1, <3>2 DEF SlotSound, Held
    <3>4. Newest(i)'
      BY <3>3 DEF Newest
    <3> QED
      BY <1>1, <3>2, <3>4 DEF Held, Newest
  <2> QED
    BY <2>1, <2>2
<1> QED
  BY <1>1, <1>3 DEF SlotSound, Aimed, Reached, Pushes

LEMMA DbErrorStep ==
    ASSUME Inv, BookInv, Inv', NEW p \in Products, ProductInv(p), NEW w \in Workers, DbError(w)
    PROVE  ProductInv(p)'
<1>1. Raise(w) /\ UNCHANGED <<queueVars, dataVars, active, switched>> /\ audit' = audit
  BY DEF DbError, dataVars
<1>2. InJob(w)
  BY <1>1, RaiseMoves DEF InJob
<1>3. SalesKept(p)
  BY <1>1, <1>2, RaiseMoves, SlotSales
<1>4. At(w, p)' => SlotSound(w)'
  BY <1>1, RaiseSound
<1> QED
  BY <1>1, <1>2, <1>3, <1>4, QuietProduct
-----------------------------------------------------------------------------
(* The steps of a slot that write rows or stocks *)

\* While a slot holds its row, no other row is the newest about its product.
LEMMA HeldIsNewest ==
    ASSUME Inv, BookInv, NEW w \in Workers, run[w].row # 0, Held(w),
           NEW i \in DOMAIN audit, Newest(i), audit[i].prod = run[w].cur
    PROVE  i = run[w].row
<1>1. PICK row : row = run[w].row
  OBVIOUS
<1>2. /\ row \in DOMAIN audit /\ Len(audit) \in Nat /\ DOMAIN audit = 1..Len(audit)
      /\ audit[row].prod = run[w].cur /\ Newest(row)
  BY <1>1, SlotFacts DEF RunOK, Placed, Held
<1>3. i < row => row \in i + 1..Len(audit)
  BY <1>2
<1>4. row < i => i \in row + 1..Len(audit)
  BY <1>2
<1>5. ~(i < row) /\ ~(row < i)
  BY <1>2, <1>3, <1>4 DEF Newest
<1> QED
  BY <1>1, <1>2, <1>5

\* The slot that is at p is the only one, before and after its step.
LEMMA OnlyOne ==
    ASSUME NEW p, Alone(p), NEW w \in Workers, At(w, p), InJob(w), NEW u \in Workers, At(u, p)'
    PROVE  u = w
BY DEF Alone, At, InJob

\* The new row is the newest and not completed.
LEMMA AppendStep ==
    ASSUME Inv, BookInv, Inv', NEW p \in Products, ProductInv(p), Alone(p), NEW w \in Workers,
           InJob(w), run[w].pc = "record", audit' = Append(audit, NewRow(w)),
           UNCHANGED <<dbStock, chanStock>>, run'[w].pc # "done", At(w, p)' => SlotSound(w)'
    PROVE  ProductInv(p)'
<1>1. /\ Len(audit') = Len(audit) + 1 /\ DOMAIN audit' = 1..(Len(audit) + 1)
      /\ audit'[Len(audit) + 1] = NewRow(w) /\ \A i \in DOMAIN audit : audit'[i] = audit[i]
      /\ \A i \in DOMAIN audit : i \in DOMAIN audit'
      /\ \A i \in DOMAIN audit' \ DOMAIN audit : i = Len(audit) + 1
  BY AppendRows
<1>2. NewRow(w).prod = run[w].cur /\ NewRow(w).status = "processing"
  BY DEF NewRow
<1>3. CASE run[w].cur # p
  <2>1. RowsKept(p)
    BY <1>1, <1>2, <1>3 DEF RowsKept
  <2>2. SalesKept(p)
    BY SlotSales
  <2> QED
    BY <2>1, <2>2, Elsewhere
<1>4. CASE run[w].cur = p
  <2>1. At(w, p)
    BY <1>4 DEF At
  <2>2. ASSUME NEW i \in DOMAIN audit', audit'[i].prod = p, Newest(i)'
        PROVE  audit'[i].status = "processing"
    <3>1. CASE i = Len(audit) + 1
      BY <1>1, <1>2, <3>1
    <3>2. CASE i \in DOMAIN audit
      <4>1. Len(audit) \in Nat /\ DOMAIN audit = 1..Len(audit)
        BY SlotFacts
      <4>2. Len(audit) + 1 \in i + 1..Len(audit')
        BY <1>1, <3>2, <4>1
      <4> QED
        BY <1>1, <1>2, <1>4, <2>2, <4>2 DEF Newest
    <3> QED
      BY <1>1, <3>1, <3>2
  <2>3. AuditTells(p)'
    BY <2>2 DEF AuditTells
  <2>4. \A i \in DOMAIN audit' : audit'[i].prod = p => Accounted(i)'
    BY <2>2 DEF Accounted, Pushed
  <2>5. \A u \in Workers : At(u, p)' => SlotSound(u)'
    BY <2>1, OnlyOne
  <2> QED
    BY <2>3, <2>4, <2>5 DEF ProductInv
<1> QED
  BY <1>3, <1>4

LEMMA CreateStep ==
    ASSUME Inv, BookInv, Inv', NEW p \in Products, ProductInv(p), Alone(p), NEW w \in Workers,
           CreateSyncEvent(w)
    PROVE  ProductInv(p)'
<1>1. InJob(w)
  BY CreateMoves DEF InJob
<1>2. ASSUME At(w, p)' PROVE SlotSound(w)'
  <2>1. /\ run[w].pc = "record" /\ run[w].cur = p /\ JobOf(w)' = JobOf(w) /\ Due(w)' = Due(w)
        /\ run'[w].pc \in {"write", "pull"} /\ run'[w].todo = run[w].todo
        /\ run'[w].row = Len(audit) + 1 /\ audit' = Append(audit, NewRow(w))
    BY <1>2, CreateMoves DEF At, JobOf, Due, queueVars
  <2>2. SlotSound(w)
    BY <2>1 DEF ProductInv, At
  <2>3. Aimed(w)' /\ Reached(w)'
    BY <2>1, <2>2 DEF SlotSound, Aimed, Reached, Pushes
  <2>4. Len(audit') = Len(audit) + 1 /\ Len(audit) \in Nat
    BY <2>1, AppendRows, SlotFacts
  <2>5. Held(w)'
    BY <2>1, <2>4 DEF Held, Newest
  <2> QED
    BY <2>3, <2>5 DEF SlotSound
<1> QED
  BY <1>1, <1>2, CreateMoves, AppendStep

\* The write of the stock: the newest row about its product is the slot's own, which
\* is not completed.
LEMMA WriteStep ==
    ASSUME Inv, BookInv, Inv', NEW p \in Products, ProductInv(p), Alone(p), NEW w \in Workers,
           InJob(w), run[w].pc = "write", dbStock' = [dbStock EXCEPT ![run[w].cur] = run[w].qty],
           UNCHANGED <<audit, chanStock>>, run'[w].pc # "done", At(w, p)' => SlotSound(w)'
    PROVE  ProductInv(p)'
<1>1. CASE run[w].cur # p
  <2>1. RowsKept(p) /\ SalesKept(p)
    BY SlotSales DEF RowsKept
  <2>2. dbStock'[p] = dbStock[p]
    BY <1>1, SlotFacts
  <2> QED
    BY <2>1, <2>2, Elsewhere
<1>2. CASE run[w].cur = p
  <2>1. At(w, p)
    BY <1>2 DEF At
  <2>2. Held(w) /\ run[w].row # 0 /\ audit[run[w].row].status = "processing"
    BY <2>1, SlotFacts DEF ProductInv, SlotSound, RunOK, HoldsRow, Placed
  <2>3. ASSUME NEW i \in DOMAIN audit', audit'[i].prod = p, Newest(i)'
        PROVE  audit'[i].status = "processing"
    <3>1. Newest(i) /\ audit[i].prod = run[w].cur /\ i \in DOMAIN audit
      BY <1>2, <2>3 DEF Newest
    <3> QED
      BY <2>2, <3>1, HeldIsNewest
  <2>4. AuditTells(p)'
    BY <2>3 DEF AuditTells
  <2>5. \A i \in DOMAIN audit' : audit'[i].prod = p => Accounted(i)'
    BY <2>3 DEF Accounted, Pushed
  <2>6. \A u \in Workers : At(u, p)' => SlotSound(u)'
    BY <2>1, OnlyOne
  <2> QED
    BY <2>4, <2>5, <2>6 DEF ProductInv
<1> QED
  BY <1>1, <1>2

LEMMA UpdateStep ==
    ASSUME Inv, BookInv, Inv', NEW p \in Products, ProductInv(p), Alone(p), NEW w \in Workers,
           UpdateProductStock(w)
    PROVE  ProductInv(p)'
<1>1. \A u \in Workers \ {w} : run'[u] = run[u]
  BY SlotFacts DEF UpdateProductStock, Goto
<1>2. InJob(w)
  BY <1>1, UpdateMoves DEF InJob
<1>3. ASSUME At(w, p)' PROVE SlotSound(w)'
  <2>1. /\ run[w].pc = "write" /\ run[w].cur = p /\ JobOf(w)' = JobOf(w) /\ Due(w)' = Due(w)
        /\ run'[w].pc = IF JobOf(w).op = "stock_change" THEN "mappings" ELSE "push"
        /\ run'[w].todo = run[w].todo /\ run'[w].row = run[w].row /\ run'[w].cur = p
        /\ run'[w].qty = run[w].qty
        /\ dbStock' = [dbStock EXCEPT ![p] = run[w].qty] /\ audit' = audit
    BY <1>3, UpdateMoves DEF At, JobOf, Due, queueVars
  <2>2. SlotSound(w) /\ RunOK(w) /\ dbStock'[p] = run[w].qty
    BY <2>1, SlotFacts DEF ProductInv, At
  <2>3. JobOf(w).op # "stock_change" => JobOf(w).op \in Pulls
    BY <2>1, <2>2, JobTypes DEF RunOK, Operations, Pulls
  <2>4. Aimed(w)'
    BY <2>1, <2>2 DEF Aimed
  <2>5. Reached(w)'
    BY <2>1, <2>2, <2>3 DEF SlotSound, Aimed, Reached, Pushes
  <2>6. Held(w)'
    BY <2>1, <2>2 DEF SlotSound, Held, Newest
  <2> QED
    BY <2>4, <2>5, <2>6 DEF SlotSound
<1> QED
  BY <1>2, <1>3, UpdateMoves, WriteStep

\* A channel of p is brought up to the stock of the slot, or noted as an error.
LEMMA PushStep ==
    ASSUME Inv, BookInv, Inv', NEW p \in Products, ProductInv(p), Alone(p), NEW w \in Workers,
           NEW c \in Channels, PushChannel(w, c) \/ \E applied \in BOOLEAN : PushFails(w, c, applied)
    PROVE  ProductInv(p)'
<1>1. \A u \in Workers \ {w} : run'[u] = run[u]
  BY SlotFacts DEF PushChannel, PushFails
<1>2. InJob(w) /\ SalesKept(p)
  <2>1. InJob(w)
    BY <1>1, PushMoves DEF InJob
  <2> QED
    BY <2>1, PushMoves, SlotSales
<1>3. RowsKept(p) /\ UNCHANGED <<audit, dbStock>>
  BY PushMoves DEF RowsKept
<1>4. CASE run[w].cur # p
  <2>1. chanStock \in [Products -> [Channels -> Stock]]
    BY SlotFacts
  <2>2. WriteChannel(w, c) \/ chanStock' = chanStock
    BY PushMoves
  <2>3. chanStock'[p] = chanStock[p]
    BY <1>4, <2>1, <2>2 DEF WriteChannel
  <2>4. ~At(w, p)'
    BY <1>4, PushMoves DEF At
  <2> QED
    BY <1>2, <1>3, <2>3, <2>4, Elsewhere
<1>5. CASE run[w].cur = p
  <2> DEFINE x == Expected(p, c, run[w].qty)
  <2>1. At(w, p) /\ SlotSound(w) /\ RunOK(w) /\ Placed(w)
    BY <1>5, PushMoves, SlotFacts DEF ProductInv, At
  <2>2. /\ \A d : d # c => chanStock'[p][d] = chanStock[p][d]
        /\ \/ chanStock'[p][c] = x
           \/ chanStock'[p][c] = chanStock[p][c] /\ <<p, c>> \in run'[w].errors
    <3>1. \/ chanStock' = [chanStock EXCEPT ![p][c] = x]
          \/ chanStock' = chanStock /\ <<p, c>> \in run'[w].errors
      BY <1>5, PushMoves DEF WriteChannel
    <3>2. chanStock \in [Products -> [Channels -> Stock]]
      BY SlotFacts
    <3> HIDE DEF x
    <3>3. CASE chanStock' = [chanStock EXCEPT ![p][c] = x]
      <4>1. chanStock'[p] = [chanStock[p] EXCEPT ![c] = x] /\ chanStock[p] \in [Channels -> Stock]
        BY <3>2, <3>3
      <4>2. chanStock'[p][c] = x /\ \A d : d # c => chanStock'[p][d] = chanStock[p][d]
        BY <4>1
      <4> QED
        BY <4>2
    <3> QED
      BY <3>1, <3>3
  <2> HIDE DEF x
  <2>3. /\ JobOf(w)' = JobOf(w) /\ Due(w)' = Due(w) /\ (Pushes(w)' <=> Pushes(w))
        /\ run'[w].cur = p /\ run'[w].qty = run[w].qty /\ run'[w].todo = run[w].todo \ {c}
        /\ run'[w].row = run[w].row /\ run'[w].pc = "push" /\ run[w].errors \subseteq run'[w].errors
    BY <1>5, PushMoves DEF JobOf, queueVars, Due, Pushes
  <2>4. SlotSound(w)'
    <3>1. Held(w)'
      BY <1>3, <2>1, <2>3 DEF SlotSound, Held, Newest
    <3>2. Aimed(w)'
      BY <1>3, <1>5, <2>1, <2>3 DEF SlotSound, Aimed
    <3>3. Reached(w)'
      <4> SUFFICES ASSUME Pushes(w), NEW d \in Due(w) \ (run[w].todo \ {c})
                   PROVE  \/ chanStock'[p][d] = Expected(p, d, run[w].qty)
                          \/ Sale(p, d)' \/ <<p, d>> \in run'[w].errors
        BY <2>3 DEF Reached, Expected
      <4>1. CASE d = c
        BY <2>1, <2>2, <4>1, PushMoves, <1>5, <2>3 DEF x, SlotSound, Reached
      <4>2. CASE d # c
        <5>1. d \in Mapping[p] /\ p \in Known
          BY <1>5, <2>1 DEF Due, Placed, At
        <5>2. \/ chanStock[p][d] = Expected(p, d, run[w].qty)
              \/ Sale(p, d) \/ <<p, d>> \in run[w].errors
          BY <1>5, <2>1, <4>2 DEF SlotSound, Reached
        <5> QED
          BY <1>2, <2>2, <2>3, <4>2, <5>1, <5>2 DEF SalesKept
      <4> QED
        BY <4>1, <4>2
    <3> QED
      BY <3>1, <3>2, <3>3 DEF SlotSound
  <2>5. AuditTells(p)'
    BY <1>3 DEF ProductInv, AuditTells, Newest
  <2>6. ASSUME NEW i \in DOMAIN audit', audit'[i].prod = p PROVE Accounted(i)'
    <3>1. i \in DOMAIN audit /\ audit[i].prod = p /\ (Newest(i)' <=> Newest(i))
      BY <1>3, <2>6 DEF Newest
    <3>2. CASE run[w].row # 0
      <4>1. Newest(i) => i = run[w].row
        BY <1>5, <2>1, <3>1, <3>2, HeldIsNewest DEF SlotSound
      <4>2. run[w].pc = "push"
        BY PushMoves
      <4>3. audit[run[w].row].status = "processing"
        BY <2>1, <3>2, <4>2 DEF Placed
      <4> QED
        BY <1>3, <3>1, <4>1, <4>3 DEF Accounted, Pushed
    <3>3. CASE run[w].row = 0
      <4>1. dbStock[p] = run[w].qty
        <5>1. run[w].pc = "push"
          BY PushMoves
        <5>2. JobOf(w).op = "product_sync"
          BY <2>1, <3>3, <5>1, SlotFacts DEF RunOK, HoldsRow
        <5> QED
          BY <1>5, <2>1, <5>1, <5>2 DEF SlotSound, Aimed, Pushes
      <4>2. p \in Known /\ Accounted(i)
        BY <3>1, RowFacts DEF ProductInv, RowSound
      <4>3. NotesKept(p)
        BY <1>2, <1>3, SlotNotes
      <4>4. chanStock'[p][c] = Expected(p, c, dbStock[p]) \/ chanStock'[p][c] = chanStock[p][c]
        BY <2>2, <4>1 DEF x
      <4> SUFFICES ASSUME Newest(i), Pushed(i)',
                          NEW d \in Mapping[p] \ ({audit[i].src} \cup switched)
                   PROVE  \/ chanStock'[p][d] = Expected(p, d, dbStock[p])
                          \/ Sale(p, d)' \/ Noted(i, d)'
        BY <1>2, <1>3, <3>1 DEF Accounted, Expected, InJob
      <4>5. Pushed(i) /\ (Noted(i, d) => Noted(i, d)')
        BY <3>1, <4>3 DEF NotesKept
      <4>6. \/ chanStock[p][d] = Expected(p, d, dbStock[p])
            \/ Sale(p, d) \/ Noted(i, d)
        BY <3>1, <4>2, <4>5 DEF Accounted
      <4> QED
        BY <1>2, <2>2, <4>2, <4>4, <4>5, <4>6 DEF SalesKept
    <3> QED
      BY <3>2, <3>3
  <2>7. \A u \in Workers : At(u, p)' => SlotSound(u)'
    BY <1>2, <2>1, <2>4, OnlyOne
  <2> QED
    BY <2>5, <2>6, <2>7 DEF ProductInv
<1> QED
  BY <1>4, <1>5

\* The slot settles its row: if as completed, the row tells what the slot has written
\* to the database, and speaks for the channels it has reached.
LEMMA SettleStep ==
    ASSUME Inv, BookInv, Inv', NEW p \in Products, ProductInv(p), Alone(p), NEW w \in Workers,
           InJob(w), run[w].errors \subseteq run'[w].errors,
           run[w].pc \in {"push", "unavailable", "abort", "pull", "write", "mappings"},
           run[w].row # 0, NEW s \in {"completed", "failed"}, SetStatus(w, s),
           s = "completed" => run[w].pc = "push" /\ run[w].todo = {},
           UNCHANGED <<dbStock, chanStock>>,
           \A q, c : Sale(q, c) => Sale(q, c)' \/ (q = run[w].cur /\ c = run[w].src),
           At(w, p)' => SlotSound(w)'
    PROVE  ProductInv(p)'
<1>0. PICK row : row = run[w].row
  OBVIOUS
<1>1. /\ row \in DOMAIN audit /\ row # 0
      /\ DOMAIN audit' = DOMAIN audit /\ Len(audit') = Len(audit)
      /\ \A i \in DOMAIN audit : i # row => audit'[i] = audit[i]
      /\ \A i \in DOMAIN audit :
            /\ audit'[i].prod = audit[i].prod /\ audit'[i].src = audit[i].src
            /\ audit'[i].new = audit[i].new /\ audit'[i].job = audit[i].job
            /\ audit'[i].try = audit[i].try
      /\ audit'[row].status = s
      /\ Placed(w) /\ audit[row].prod = run[w].cur /\ audit[row].src = run[w].src
      /\ audit[row].job = run[w].job /\ audit[row].new = JobOf(w).qty
  BY <1>0, SettleRows, SlotFacts DEF Placed
<1>2. CASE run[w].cur # p
  <2>1. RowsKept(p)
    BY <1>1, <1>2 DEF RowsKept
  <2>2. SalesKept(p)
    BY <1>2 DEF SalesKept
  <2> QED
    BY <2>1, <2>2, Elsewhere
<1>3. CASE run[w].cur = p
  <2>1. At(w, p) /\ SlotSound(w) /\ DOMAIN audit = 1..Len(audit) /\ Len(audit) \in Nat
    BY <1>3, SlotFacts DEF ProductInv, At
  <2>2. ASSUME NEW i \in DOMAIN audit', audit'[i].prod = p, Newest(i)' PROVE i = row
    <3>1. i \in DOMAIN audit /\ audit[i].prod = p
      BY <1>1, <2>2
    <3>2. \A k \in i + 1..Len(audit) : k \in DOMAIN audit
      BY <2>1, <3>1
    <3>3. Newest(i)
      BY <1>1, <2>2, <3>2 DEF Newest
    <3> QED
      BY <1>0, <1>1, <1>3, <2>1, <3>1, <3>3, HeldIsNewest DEF SlotSound
  <2>3. s = "completed" => (Pushes(w) => dbStock[p] = run[w].qty)
    BY <1>3, <2>1 DEF SlotSound, Aimed
  <2>4. AuditTells(p)'
    <3> SUFFICES ASSUME s = "completed", audit[row].new # NoStock PROVE dbStock[p] = audit[row].new
      BY <1>1, <2>2 DEF AuditTells
    <3>1. JobOf(w).op = "stock_change"
      BY <1>1, JobTypes DEF JobData
    <3>2. run[w].qty = JobOf(w).qty /\ Pushes(w)
      BY <1>1, <3>1 DEF Placed, Pushes
    <3> QED
      BY <1>1, <2>3, <3>2
  <2>5. ASSUME s = "completed", Pushed(row)' PROVE Accounted(row)'
    <3>1. PICK j : j = run[w].job
      OBVIOUS
    <3>2. Pushes(w)
      BY <1>1, <2>5 DEF Pushed, Pushes, JobOf, queueVars, InJob
    <3>3. jobState[j] = "active" /\ \A u \in Workers : run[u].job = j => u = w
      BY <3>1, JobFacts
    <3>4. ASSUME NEW c, <<p, c>> \in run[w].errors PROVE Noted(row, c)'
      BY <1>1, <1>3, <3>1, <3>3, <3>4 DEF Noted, InJob, queueVars
    <3>5. ASSUME NEW c \in Mapping[p] \ ({run[w].src} \cup switched)
          PROVE  \/ chanStock[p][c] = Expected(p, c, dbStock[p])
                 \/ Sale(p, c)' \/ Noted(row, c)'
      <4>1. c \in Due(w) \ run[w].todo
        BY <1>3, <2>5, <3>5 DEF Due
      <4>2. \/ chanStock[p][c] = Expected(p, c, run[w].qty)
            \/ Sale(p, c) \/ <<p, c>> \in run[w].errors
        BY <1>3, <2>1, <3>2, <4>1 DEF SlotSound, Reached
      <4> QED
        BY <1>3, <2>3, <2>5, <3>2, <3>4, <3>5, <4>2
    <3> QED
      BY <1>1, <1>3, <3>5 DEF Accounted, Expected, InJob
  <2>6. ASSUME NEW i \in DOMAIN audit', audit'[i].prod = p PROVE Accounted(i)'
    <3>1. CASE s = "failed" \/ ~Pushed(row)'
      <4>1. ~Pushed(row)'
        BY <1>1, <3>1 DEF Pushed
      <4> QED
        BY <2>2, <2>6, <4>1 DEF Accounted
    <3>2. CASE s = "completed" /\ Pushed(row)'
      BY <2>2, <2>5, <2>6, <3>2 DEF Accounted
    <3> QED
      BY <3>1, <3>2
  <2>7. \A u \in Workers : At(u, p)' => SlotSound(u)'
    BY <2>1, OnlyOne
  <2> QED
    BY <2>4, <2>6, <2>7 DEF ProductInv
<1> QED
  BY <1>2, <1>3

\* The slot leaves the row it settles; a change that is worked off was of the product
\* at hand, reported by the source of the row.
LEMMA EndRowStep ==
    ASSUME Inv, BookInv, Inv', NEW p \in Products, ProductInv(p), Alone(p), NEW w \in Workers,
           CompleteSyncEvent(w) \/ RejectSyncEvent(w) \/ FailSyncEvent(w)
    PROVE  ProductInv(p)'
<1>1. \A u \in Workers \ {w} : run'[u] = run[u]
  <2>1. \E errs, end : LeaveRow(w, errs, end)
    BY DEF CompleteSyncEvent, RejectSyncEvent, FailSyncEvent
  <2> QED
    BY <2>1, SlotFacts DEF LeaveRow
<1>2. /\ InJob(w) /\ run[w].errors \subseteq run'[w].errors /\ run[w].row # 0
      /\ run[w].pc \in {"push", "unavailable", "abort"} /\ UNCHANGED <<dbStock, chanStock>>
  BY <1>1, EndRowMoves DEF InJob
<1>3. PICK s \in {"completed", "failed"} :
         /\ SetStatus(w, s)
         /\ s = "completed" => run[w].pc = "push" /\ run[w].todo = {}
         /\ run'[w].pc = IF JobOf(w).op # "stock_change" THEN "next"
                         ELSE IF s = "completed" THEN "done"
                         ELSE IF run[w].pc = "unavailable" THEN "next" ELSE "throw"
  BY EndRowMoves
<1>4. ~At(w, p)'
  BY EndRowMoves, ProductsAssumption DEF At
<1>5. ASSUME NEW q, NEW c, Sale(q, c) PROVE Sale(q, c)' \/ (q = run[w].cur /\ c = run[w].src)
  <2>1. PICK j \in 1..Len(jobData) :
           /\ jobData[j].op = "stock_change" /\ jobData[j].prod = q /\ jobData[j].src = c
           /\ jobState[j] # "completed"
           /\ \A u \in Workers : run[u].job = j => run[u].pc # "done"
    BY <1>5 DEF Sale
  <2>2. UNCHANGED <<jobData, jobState>>
    BY EndRowMoves DEF queueVars
  <2>3. CASE run[w].job = j
    <3>1. JobOf(w).op = "stock_change" /\ JobOf(w).prod = q /\ JobOf(w).src = c
      BY <2>1, <2>3 DEF JobOf
    <3>2. run[w].pc # "unavailable"
      BY <3>1, SlotFacts DEF RunOK, Pulls
    <3> QED
      BY <1>2, <3>1, <3>2, SlotFacts DEF Placed
  <2>4. CASE run[w].job # j
    <3>1. \A u \in Workers : run'[u].job = j => run'[u].pc # "done"
      BY <1>2, <2>1, <2>4 DEF InJob
    <3> QED
      BY <2>1, <2>2, <3>1 DEF Sale
  <2> QED
    BY <2>3, <2>4
<1> QED
  BY <1>2, <1>3, <1>4, <1>5, SettleStep

LEMMA LostReplyStep ==
    ASSUME Inv, BookInv, Inv', NEW p \in Products, ProductInv(p), Alone(p), NEW w \in Workers,
           LostReply(w)
    PROVE  ProductInv(p)'
<1>1. Raise(w) /\ UNCHANGED <<queueVars, chanStock, active, switched>>
  BY LostEffects
<1>2. /\ InJob(w) /\ run'[w].pc # "done" /\ run'[w].errors = run[w].errors
  BY <1>1, RaiseMoves DEF InJob
<1>3. CASE run[w].pc = "record" /\ audit' = Append(audit, NewRow(w)) /\ UNCHANGED dbStock
  <2>1. ~At(w, p)'
    BY <1>1, <1>3, RaiseMoves DEF At, InTry
  <2> QED
    BY <1>1, <1>2, <1>3, <2>1, AppendStep
<1>4. CASE /\ run[w].pc = "write"
           /\ dbStock' = [dbStock EXCEPT ![run[w].cur] = run[w].qty] /\ UNCHANGED audit
  <2>1. At(w, p)' => SlotSound(w)'
    BY <1>1, <1>4, RaiseSound
  <2> QED
    BY <1>1, <1>2, <1>4, <2>1, WriteStep
<1>5. ASSUME run[w].row # 0, UNCHANGED dbStock, NEW s \in {"completed", "failed"}, SetStatus(w, s),
             s = "completed" => run[w].pc = "push" /\ run[w].todo = {}
      PROVE  ProductInv(p)'
  <2>1. Len(audit') = Len(audit) /\ \A i \in DOMAIN audit : audit'[i].prod = audit[i].prod
    BY <1>5, SettleRows
  <2>2. At(w, p)' => SlotSound(w)'
    BY <1>1, <2>1, RaiseSound
  <2>3. run[w].pc \in {"push", "unavailable", "abort", "pull", "write", "mappings"}
    <3>1. RunOK(w) /\ run[w].pc \notin {"idle", "done", "throw"}
      BY <1>1, SlotFacts, RaiseMoves
    <3> QED
      BY <1>1, <1>5, <3>1 DEF RunOK, HoldsRow, Raise, InTry, OutsideTry
  <2>4. ASSUME NEW q, NEW c, Sale(q, c) PROVE Sale(q, c)'
    <3>1. PICK j \in 1..Len(jobData) :
             /\ jobData[j].op = "stock_change" /\ jobData[j].prod = q /\ jobData[j].src = c
             /\ jobState[j] # "completed"
             /\ \A u \in Workers : run[u].job = j => run[u].pc # "done"
      BY <2>4 DEF Sale
    <3>2. \A u \in Workers : run'[u].job = j => run'[u].pc # "done"
      BY <1>2, <3>1 DEF InJob
    <3>3. UNCHANGED <<jobData, jobState>>
      BY <1>1 DEF queueVars
    <3> QED
      BY <3>1, <3>2, <3>3 DEF Sale
  <2> QED
    BY <1>1, <1>2, <1>5, <2>2, <2>3, <2>4, SettleStep
<1> QED
  BY <1>3, <1>4, <1>5, LostEffects
-----------------------------------------------------------------------------
(* The queue, the requests and the environment *)

\* A change that is not worked off stays so until its job is completed.
LEMMA SalesStay ==
    ASSUME NEW p,
           \A j \in 1..Len(jobData) :
               /\ j \in 1..Len(jobData') /\ jobData'[j] = jobData[j]
               /\ jobState'[j] = "completed" => \/ jobState[j] = "completed"
                                                \/ \E u \in Workers : run[u].job = j /\ run[u].pc = "done",
           \A u \in Workers : run'[u] = run[u] \/ run'[u].pc # "done"
    PROVE  SalesKept(p)
<1> SUFFICES ASSUME NEW c, Sale(p, c) PROVE Sale(p, c)'
  BY DEF SalesKept
<1>1. PICK j \in 1..Len(jobData) :
         /\ jobData[j].op = "stock_change" /\ jobData[j].prod = p /\ jobData[j].src = c
         /\ jobState[j] # "completed"
         /\ \A u \in Workers : run[u].job = j => run[u].pc # "done"
  BY DEF Sale
<1>2. jobState'[j] # "completed" /\ \A u \in Workers : run'[u].job = j => run'[u].pc # "done"
  BY <1>1
<1> QED
  BY <1>1, <1>2 DEF Sale

\* What leaves the rows, the database and the slots at work alone leaves p in order.
LEMMA QueueStep ==
    ASSUME Inv, BookInv, Inv', NEW p \in Products, ProductInv(p), SalesKept(p), NotesKept(p),
           UNCHANGED <<audit, dbStock>>, switched \subseteq switched',
           \A j \in 1..Len(jobData) : jobData'[j] = jobData[j],
           \A c \in Mapping[p] : chanStock'[p][c] = chanStock[p][c] \/ Sale(p, c)',
           \A u \in Workers : run'[u] = run[u] \/ run'[u].pc \in {"idle", "lookup", "source"}
    PROVE  ProductInv(p)'
<1>1. RowsKept(p) /\ dbStock'[p] = dbStock[p]
  BY DEF RowsKept
<1>2. ASSUME NEW u \in Workers, At(u, p)'
      PROVE  At(u, p) /\ run'[u] = run[u] /\ JobOf(u)' = JobOf(u)
  <2>1. run'[u] = run[u]
    BY <1>2 DEF At
  <2>2. At(u, p) /\ run[u].pc # "idle"
    BY <1>2, <2>1 DEF At
  <2> QED
    BY <2>1, <2>2, JobFacts DEF JobOf
<1> QED
  BY <1>1, <1>2, ProductStays

LEMMA TakeJobStep ==
    ASSUME Inv, BookInv, Inv', NEW p \in Products, ProductInv(p), NEW w \in Workers, TakeJob(w)
    PROVE  ProductInv(p)'
<1>1. PICK i \in 1..Len(waiting) :
              /\ waiting[i] \in Jobs /\ waiting[i] \in 1..Len(jobData) /\ waiting[i] # 0
              /\ jobState[waiting[i]] = "waiting" /\ waiting' = RemoveAt(waiting, i)
              /\ jobState'[waiting[i]] = "active"
              /\ \A k : k # waiting[i] => jobState'[k] = jobState[k]
              /\ run[w].pc = "idle" /\ \A u \in Workers \ {w} : run'[u] = run[u]
              /\ run'[w].job = waiting[i] /\ run'[w].pc \in {"lookup", "source"}
              /\ run'[w].pending = {} /\ run'[w].row = 0 /\ run'[w].cur = NoProduct
              /\ run'[w].src = jobData[waiting[i]].src
              /\ UNCHANGED <<jobData, attempts, stalls, result, dbStock, chanStock, audit,
                             active, switched>>
  BY TakeMoves
<1>2. PICK j : j = waiting[i]
  OBVIOUS
<1>3. \A u \in Workers : run'[u] = run[u] \/ run'[u].pc \in {"lookup", "source"}
  BY <1>1
<1>4. SalesKept(p)
  BY <1>1, <1>3, SalesStay
<1>5. NotesKept(p)
  <2> SUFFICES ASSUME NEW r \in DOMAIN audit, Pushed(r)'
               PROVE  Pushed(r) /\ \A c : Noted(r, c) => Noted(r, c)'
    BY DEF NotesKept
  <2>1. Pushed(r)
    BY <1>1 DEF Pushed, Try
  <2>2. audit[r].try = Try(audit[r].job) /\ audit[r].try \in Nat /\ RowSound(r)
    BY <2>1, RowFacts DEF Pushed, AuditRow
  <2>3. audit[r].job # j
    BY <1>1, <1>2, <2>2 DEF RowSound, Unbegun
  <2> QED
    BY <1>1, <1>2, <2>1, <2>3 DEF Noted
<1> QED
  BY <1>1, <1>3, <1>4, <1>5, QueueStep

LEMMA FinishJobStep ==
    ASSUME Inv, BookInv, Inv', NEW p \in Products, ProductInv(p), NEW w \in Workers, FinishJob(w)
    PROVE  ProductInv(p)'
<1>0. PICK j : j = run[w].job
  OBVIOUS
<1>1. /\ run[w].pc = "done" /\ jobState' = [jobState EXCEPT ![j] = "completed"]
      /\ result' = [result EXCEPT ![j] = run[w].errors]
      /\ run' = [run EXCEPT ![w] = IdleRun]
      /\ UNCHANGED <<jobData, attempts, stalls, audit, dbStock, chanStock, switched>>
  BY <1>0 DEF FinishJob, dataVars, faultVars
<1>2. /\ j \in Jobs /\ jobState'[j] = "completed" /\ result'[j] = run[w].errors
      /\ jobState[j] = "active"
      /\ \A k : k # j => jobState'[k] = jobState[k] /\ result'[k] = result[k]
  <2>1. j \in Jobs /\ jobState[j] = "active"
    BY <1>0, <1>1, JobFacts
  <2> QED
    BY <1>1, <2>1 DEF Inv, TypeOK
<1>3. /\ run'[w].job = 0 /\ run'[w].pc = "idle"
      /\ \A u \in Workers \ {w} : run'[u] = run[u] /\ run[u].job # j
  BY <1>0, <1>1, SlotFacts, JobFacts DEF IdleRun
<1>4. SalesKept(p)
  BY <1>0, <1>1, <1>2, <1>3, SalesStay
<1>5. NotesKept(p)
  <2> SUFFICES ASSUME NEW r \in DOMAIN audit, Pushed(r)'
               PROVE  Pushed(r) /\ \A c : Noted(r, c) => Noted(r, c)'
    BY DEF NotesKept
  <2>1. Pushed(r) /\ audit[r].job # 0
    BY <1>1, RowFacts DEF Pushed, Try, Jobs
  <2>2. CASE audit[r].job = j
    BY <1>0, <1>1, <1>2, <2>1, <2>2 DEF Noted
  <2>3. CASE audit[r].job # j
    BY <1>1, <1>2, <1>3, <2>1, <2>3 DEF Noted
  <2> QED
    BY <2>1, <2>2, <2>3
<1>6. \A u \in Workers : run'[u] = run[u] \/ run'[u].pc \in {"idle", "lookup", "source"}
  BY <1>3
<1> QED
  BY <1>1, <1>4, <1>5, <1>6, QueueStep

LEMMA FailJobStep ==
    ASSUME Inv, BookInv, Inv', NEW p \in Products, ProductInv(p), NEW w \in Workers, FailJob(w)
    PROVE  ProductInv(p)'
<1>1. /\ run[w].pc = "throw" /\ run' = [run EXCEPT ![w] = IdleRun]
      /\ jobState'[run[w].job] \in {"delayed", "failed"}
      /\ \A k \in Jobs : k # run[w].job => jobState'[k] = jobState[k] /\ Try(k)' = Try(k)
      /\ UNCHANGED <<jobData, waiting, stalls, result, dbStock, chanStock, audit, active, switched>>
  BY FailMoves
<1>2. PICK j \in 1..Len(jobData) : j = run[w].job
  BY <1>1, JobFacts
<1>3. Try(j)' \in Nat /\ Try(j)' > Try(j)
  BY <1>1, <1>2, FailMoves, JobFacts
<1>4. /\ run'[w].job = 0 /\ run'[w].pc = "idle"
      /\ \A u \in Workers \ {w} : run'[u] = run[u]
  BY <1>1, SlotFacts DEF IdleRun
<1>5. SalesKept(p)
  <2>1. \A k \in 1..Len(jobData) : jobState'[k] = "completed" => jobState[k] = "completed"
    BY <1>1, AcceptedJobs
  <2> QED
    BY <1>1, <1>4, <2>1, SalesStay
<1>6. NotesKept(p)
  <2> SUFFICES ASSUME NEW r \in DOMAIN audit, Pushed(r)'
               PROVE  Pushed(r) /\ \A c : Noted(r, c) => Noted(r, c)'
    BY DEF NotesKept
  <2>1. audit[r].job # j
    BY <1>1, <1>3, OverSound
  <2>2. audit[r].job \in Jobs /\ audit[r].job # 0 /\ Try(audit[r].job)' = Try(audit[r].job)
    BY <1>1, <1>2, <2>1, RowFacts DEF Jobs
  <2>3. Pushed(r)
    BY <1>1, <2>2 DEF Pushed
  <2>4. jobState'[audit[r].job] = jobState[audit[r].job]
    BY <1>1, <1>2, <2>1, <2>2
  <2> QED
    BY <1>1, <1>4, <2>2, <2>3, <2>4 DEF Noted
<1>7. \A u \in Workers : run'[u] = run[u] \/ run'[u].pc \in {"idle", "lookup", "source"}
  BY <1>4
<1> QED
  BY <1>1, <1>5, <1>6, <1>7, QueueStep

LEMMA RequeueStep ==
    ASSUME Inv, BookInv, Inv', NEW p \in Products, ProductInv(p),
           NEW j \in Jobs, PromoteDelayed(j) \/ RecoverStalled(j)
    PROVE  ProductInv(p)'
<1>1. /\ UNCHANGED <<jobData, attempts, result, run, dbStock, chanStock, audit, active, switched>>
      /\ jobState[j] \in {"delayed", "active"} /\ jobState'[j] \in {"waiting", "failed"}
      /\ \A k \in Jobs : k # j => jobState'[k] = jobState[k] /\ Try(k)' = Try(k)
      /\ Try(j)' = Try(j) \/ (Try(j)' \in Nat /\ Try(j)' > Try(j))
      /\ j \in 1..Len(jobData) /\ \A w \in Workers : run[w].job # j
  BY RequeueMoves
<1>2. SalesKept(p)
  <2>1. \A k \in 1..Len(jobData) : jobState'[k] = "completed" => jobState[k] = "completed"
    BY <1>1, AcceptedJobs
  <2> QED
    BY <1>1, <2>1, SalesStay
<1>3. NotesKept(p)
  <2> SUFFICES ASSUME NEW r \in DOMAIN audit, Pushed(r)'
               PROVE  Pushed(r) /\ \A c : Noted(r, c) => Noted(r, c)'
    BY DEF NotesKept
  <2>1. audit[r].job \in Jobs
    BY RowFacts
  <2>2. CASE audit[r].job # j
    <3>1. /\ Try(audit[r].job)' = Try(audit[r].job)
          /\ jobState'[audit[r].job] = jobState[audit[r].job]
      BY <1>1, <2>1, <2>2
    <3> QED
      BY <1>1, <3>1 DEF Pushed, Noted
  <2>3. CASE audit[r].job = j
    <3>1. Try(j)' = Try(j)
      BY <1>1, <2>3, OverSound
    <3> QED
      BY <1>1, <2>3, <3>1 DEF Pushed, Noted
  <2> QED
    BY <2>2, <2>3
<1> QED
  BY <1>1, <1>2, <1>3, QueueStep

LEMMA RequestsStep ==
    ASSUME Inv, BookInv, Inv', NEW p \in Products, ProductInv(p), Requests
    PROVE  ProductInv(p)'
<1>1. /\ UNCHANGED <<attempts, stalls, result, run, dbStock, audit, active, switched>>
      /\ Len(jobData') = Len(jobData) + 1 /\ Len(jobData) \in Nat
      /\ \A j \in 1..Len(jobData) : /\ j \in 1..Len(jobData') /\ jobData'[j] = jobData[j]
                                    /\ jobState'[j] = jobState[j]
      /\ jobState'[Len(jobData) + 1] = "waiting"
      /\ \A w \in Workers : run[w].job # Len(jobData) + 1
  BY RequestMoves
<1>2. SalesKept(p)
  BY <1>1, SalesStay
<1>3. NotesKept(p)
  <2> SUFFICES ASSUME NEW r \in DOMAIN audit, Pushed(r)'
               PROVE  Pushed(r) /\ \A c : Noted(r, c) => Noted(r, c)'
    BY DEF NotesKept
  <2>1. audit[r].job \in 1..Len(jobData)
    BY RowFacts DEF RowSound
  <2>2. Pushed(r)
    BY <1>1, <2>1 DEF Pushed, Try
  <2> QED
    BY <1>1, <2>1, <2>2 DEF Noted
<1>4. ASSUME NEW c \in Mapping[p] PROVE chanStock'[p][c] = chanStock[p][c] \/ Sale(p, c)'
  <2>1. CASE UNCHANGED chanStock
    BY <2>1
  <2>2. ASSUME NEW q \in Products, NEW d \in Channels, NEW n \in Stock, HandleStockChange(q, d, n)
        PROVE  chanStock'[p][c] = chanStock[p][c] \/ Sale(p, c)'
    <3>1. PICK data : /\ data.op = "stock_change" /\ data.prod = q /\ data.src = d
                      /\ AddSyncJob(data)
      BY <2>2 DEF HandleStockChange
    <3>2. jobData'[Len(jobData) + 1] = data
      BY <1>1, <3>1 DEF AddSyncJob, Inv, TypeOK
    <3>3. chanStock' = [chanStock EXCEPT ![q][d] = n] /\ chanStock \in [Products -> [Channels -> Stock]]
      BY <2>2 DEF HandleStockChange, Inv, TypeOK
    <3>4. CASE q = p /\ d = c
      BY <1>1, <3>1, <3>2, <3>4 DEF Sale
    <3>5. CASE q # p
      BY <3>3, <3>5
    <3>6. CASE q = p /\ d # c
      <4>1. chanStock'[p] = [chanStock[p] EXCEPT ![d] = n] /\ chanStock[p] \in [Channels -> Stock]
        BY <3>3, <3>6
      <4> QED
        BY <3>6, <4>1
    <3> QED
      BY <3>4, <3>5, <3>6
  <2> QED
    BY <2>1, <2>2
    DEF Requests, TriggerProductSync, TriggerChannelSync, TriggerFullSync, dataVars
<1> QED
  BY <1>1, <1>2, <1>3, <1>4, QueueStep

LEMMA EnvironmentStep ==
    ASSUME Inv, BookInv, Inv', NEW p \in Products, ProductInv(p),
           \/ Start \/ Stop \/ Stopped \/ Crash
           \/ (\E c \in Channels : ToggleChannel(c)) \/ UNCHANGED vars
    PROVE  ProductInv(p)'
<1>1. /\ UNCHANGED <<jobData, jobState, attempts, stalls, result, dbStock, chanStock, audit>>
      /\ switched \subseteq switched'
      /\ \A w \in Workers : run'[w] = run[w] \/ run'[w] = IdleRun
      /\ IdleRun.job = 0 /\ IdleRun.pc = "idle"
  BY EnvironmentMoves
<1>2. SalesKept(p)
  BY <1>1, SalesStay
<1>3. NotesKept(p)
  <2> SUFFICES ASSUME NEW r \in DOMAIN audit, Pushed(r)'
               PROVE  Pushed(r) /\ \A c : Noted(r, c) => Noted(r, c)'
    BY DEF NotesKept
  <2>1. Pushed(r) /\ audit[r].job # 0
    BY <1>1, RowFacts DEF Pushed, Try, Jobs
  <2> QED
    BY <1>1, <2>1 DEF Noted
<1>4. \A u \in Workers : run'[u] = run[u] \/ run'[u].pc \in {"idle", "lookup", "source"}
  BY <1>1
<1> QED
  BY <1>1, <1>2, <1>3, <1>4, QueueStep

-----------------------------------------------------------------------------
(* The theorems *)

LEMMA InitProduct == ASSUME Init, NEW p \in Products PROVE ProductInv(p)
<1>1. DOMAIN audit = {} /\ \A w \in Workers : ~At(w, p)
  BY EmptySeq DEF Init, IdleRun, At
<1> QED
  BY <1>1 DEF ProductInv, AuditTells

LEMMA NextProductInvariant ==
    ASSUME Inv, BookInv, NEW p \in Products, ProductInv(p), Alone(p), [Next]_vars
    PROVE  ProductInv(p)'
<1>1. Inv'
  BY NextInv
<1>2. ASSUME NEW w \in Workers, TakeJob(w) \/ JobStep(w) \/ Faults(w) PROVE ProductInv(p)'
  BY <1>1, <1>2, TakeJobStep, FinishJobStep, FailJobStep, LookupProductStep, SourceStep,
     NextProductStep, CreateStep, PullStep, UpdateStep, MappingsStep, PushStep, EndRowStep,
     DbErrorStep, LostReplyStep DEF JobStep, Faults
<1>3. ASSUME NEW j \in Jobs, PromoteDelayed(j) \/ RecoverStalled(j) PROVE ProductInv(p)'
  BY <1>1, <1>3, RequeueStep
<1> QED
  BY <1>1, <1>2, <1>3, RequestsStep, EnvironmentStep DEF Next

\* A channel no failure is noted for shows the stock once no job is left.
LEMMA QuietAccounts ==
    ASSUME Inv, BookInv, NEW p \in Products, ProductInv(p) PROVE ErrorsAccount(p)
<1> SUFFICES ASSUME Quiet, NEW i \in DOMAIN audit, audit[i].prod = p, Newest(i), Pushed(i),
                    NEW c \in Mapping[p] \ ({audit[i].src} \cup switched),
                    <<p, c>> \notin result[audit[i].job]
             PROVE  chanStock[p][c] = Expected(p, c, dbStock[p])
  BY DEF ErrorsAccount
<1>1. Accounted(i) /\ audit[i].job \in 1..Len(jobData)
  BY RowFacts DEF ProductInv, RowSound
<1>2. ~Sale(p, c) /\ ~Noted(i, c)
  BY <1>1 DEF Quiet, Accepted, Sale, Noted
<1> QED
  BY <1>1, <1>2 DEF Accounted

\* For any number of slots: as long as no two of them are at product p together, the
\* newest row about p that records a completed change holds the stock of the database,
\* whatever the other slots, the channels, lost replies and crashes do (createSyncEvent,
\* updateProductStock and updateSyncEventStatus in processStockChange).
THEOREM AuditTellsAlone ==
    ASSUME NEW p \in Products PROVE Spec /\ []Alone(p) => []AuditTells(p)
<1>1. Init => Inv /\ BookInv /\ ProductInv(p)
  BY InitInv, InitBook, InitProduct
<1>2. Inv /\ BookInv /\ ProductInv(p) /\ Alone(p) /\ [Next]_vars
          => (Inv /\ BookInv /\ ProductInv(p))'
  BY NextInv, NextBook, NextProductInvariant
<1>3. ProductInv(p) => AuditTells(p)
  BY DEF ProductInv
<1> QED
  BY <1>1, <1>2, <1>3, PTL DEF Spec

\* Likewise, once every job is done a channel that disagrees with the database about p
\* is named in the errors of the job that changed p last, is the source of that change,
\* or was switched off and on in between.
THEOREM ErrorsAccountAlone ==
    ASSUME NEW p \in Products PROVE Spec /\ []Alone(p) => []ErrorsAccount(p)
<1>1. Init => Inv /\ BookInv /\ ProductInv(p)
  BY InitInv, InitBook, InitProduct
<1>2. Inv /\ BookInv /\ ProductInv(p) /\ Alone(p) /\ [Next]_vars
          => (Inv /\ BookInv /\ ProductInv(p))'
  BY NextInv, NextBook, NextProductInvariant
<1>3. Inv /\ BookInv /\ ProductInv(p) => ErrorsAccount(p)
  BY QuietAccounts
<1> QED
  BY <1>1, <1>2, <1>3, PTL DEF Spec

Apart == \A p \in Products : Alone(p)

\* What the runs check of one slot holds of any number of them that keep apart.
COROLLARY AuditAlwaysTells == Spec /\ []Apart => []AuditTellsStock
<1>1. Init => Inv /\ BookInv /\ \A p \in Products : ProductInv(p)
  BY InitInv, InitBook, InitProduct
<1>2. Inv /\ BookInv /\ (\A p \in Products : ProductInv(p)) /\ Apart /\ [Next]_vars
          => (Inv /\ BookInv /\ \A p \in Products : ProductInv(p))'
  BY NextInv, NextBook, NextProductInvariant DEF Apart
<1>3. (\A p \in Products : ProductInv(p)) => AuditTellsStock
  BY DEF ProductInv, AuditTellsStock
<1> QED
  BY <1>1, <1>2, <1>3, PTL DEF Spec

COROLLARY ErrorsAlwaysAccount == Spec /\ []Apart => []ErrorsAccountForDivergence
<1>1. Init => Inv /\ BookInv /\ \A p \in Products : ProductInv(p)
  BY InitInv, InitBook, InitProduct
<1>2. Inv /\ BookInv /\ (\A p \in Products : ProductInv(p)) /\ Apart /\ [Next]_vars
          => (Inv /\ BookInv /\ \A p \in Products : ProductInv(p))'
  BY NextInv, NextBook, NextProductInvariant DEF Apart
<1>3. Inv /\ BookInv /\ (\A p \in Products : ProductInv(p)) => ErrorsAccountForDivergence
  BY QuietAccounts DEF ErrorsAccountForDivergence
<1> QED
  BY <1>1, <1>2, <1>3, PTL DEF Spec
=============================================================================
