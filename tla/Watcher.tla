-------------------------------- MODULE Watcher ---------------------------------
(***************************************************************************)
(* The sync engine's Watcher Agent: webhooks queued with addWebhookJob are *)
(* parsed by their channel's type, line by line, each line looking up the  *)
(* product it is about; once all are read, the stock changes are emitted   *)
(* on the event bus, where Sync and Alert Agent listen.                    *)
(***************************************************************************)
EXTENDS Integers, Sequences, FiniteSets

CONSTANTS
    WatchJobs,   \* webhook jobs
    Webhooks,    \* what a webhook may say, see WebhookShape
    Mappings,    \* external ids a product mapping may exist for
    Stocks,      \* the levels a product's stock takes
    WatchTries   \* maxRetries, attempts of a job

\* form: what the event type makes of the payload; hint: the class its words ask for.
WebhookShape ==
    [channel : {"eposnow", "wix", "deliveroo", "other"},
     form : {"level", "product", "sale", "availability", "none"},
     hint : {"sale", "order", "return", "restock", "none"},
     lines : Seq([item : Mappings, quantity : Int, tracked : BOOLEAN])]

ASSUME WebhooksAreShaped == Webhooks \subseteq WebhookShape
ASSUME StocksAreNumbers == Stocks \subseteq Nat
ASSUME JobsAreRetried == WatchTries \in Nat \ {0}

Unmapped == -1

VARIABLES
    webhook,    \* what each job carries
    job,        \* "unqueued", "waiting", "reading", "done" or "failed"
    failures,   \* attempts of it that failed
    stock,      \* currentStock of the product mapped to an external id, or Unmapped
    parsed,     \* the stock changes parsed so far in the present attempt
    emitted     \* those that went out on the event bus

watchVars == <<webhook, job, failures, stock, parsed, emitted>>

Classes == {"sale", "order", "return", "restock", "adjustment"}

IsChange(c) ==
    /\ c.item \in Mappings
    /\ c.previous \in Nat \cup {Unmapped}
    /\ c.level \in Int /\ c.class \in Classes

WatchTypeOK ==
    /\ \A j \in WatchJobs : webhook[j] \in Webhooks
    /\ job \in [WatchJobs -> {"unqueued", "waiting", "reading", "done", "failed"}]
    /\ failures \in [WatchJobs -> 0 .. WatchTries]
    /\ stock \in [Mappings -> Stocks \cup {Unmapped}]
    /\ \A j \in WatchJobs :
          /\ \A n \in DOMAIN parsed[j] : IsChange(parsed[j][n])
          /\ \A n \in DOMAIN emitted[j] : IsChange(emitted[j][n])
          /\ emitted[j] # <<>> => job[j] = "done"

WatchInit ==
    /\ webhook \in [WatchJobs -> Webhooks]
    /\ job = [j \in WatchJobs |-> "unqueued"]
    /\ failures = [j \in WatchJobs |-> 0]
    /\ stock \in [Mappings -> Stocks \cup {Unmapped}]
    /\ parsed = [j \in WatchJobs |-> <<>>]
    /\ emitted = [j \in WatchJobs |-> <<>>]

-----------------------------------------------------------------------------
\* What each parser knows of an event; anything else is no stock change.
EposnowReads(w) == w.form \in {"level", "sale"}
WixReads(w) == w.form \in {"level", "product", "sale"}
OtterReads(w) == w.form \in {"availability", "sale"}

Lines(w) ==
    IF \/ w.channel = "eposnow" /\ EposnowReads(w)
       \/ w.channel = "wix" /\ WixReads(w)
       \/ w.channel = "deliveroo" /\ OtterReads(w)
    THEN w.lines ELSE <<>>

\* classifyStockChange: the words of the event and its reason first, the sign of the change last.
Classify(previous, level, hint) ==
    CASE hint # "none" -> hint
      [] hint = "none" /\ previous # Unmapped /\ level < previous -> "sale"
      [] hint = "none" /\ previous # Unmapped /\ level > previous -> "restock"
      [] OTHER -> "adjustment"

\* What is sold is taken off the stock the mapping shows; nothing is known of an unmapped product.
LeftAfter(previous, sold) ==
    IF previous = Unmapped \/ previous < sold THEN 0 ELSE previous - sold

LevelChange(line, previous, hint) ==
    [item |-> line.item, previous |-> previous, level |-> line.quantity,
     class |-> Classify(previous, line.quantity, hint)]

SaleChange(w, line, previous) ==
    [item |-> line.item, previous |-> previous, level |-> LeftAfter(previous, line.quantity),
     class |-> IF w.channel = "eposnow" THEN "sale" ELSE "order"]

AvailabilityChange(line, previous) ==
    [item |-> line.item, previous |-> previous, level |-> IF line.quantity > 0 THEN 1 ELSE 0,
     class |-> "adjustment"]

Change(w, line, previous) ==
    CASE w.form \in {"level", "product"} -> LevelChange(line, previous, w.hint)
      [] w.form = "sale" -> SaleChange(w, line, previous)
      [] w.form = "availability" -> AvailabilityChange(line, previous)

-----------------------------------------------------------------------------
AddWebhookJob(j) ==
    /\ job[j] = "unqueued"
    /\ job' = [job EXCEPT ![j] = "waiting"]
    /\ UNCHANGED <<webhook, failures, stock, parsed, emitted>>

Takes(j) ==
    /\ job[j] = "waiting"
    /\ job' = [job EXCEPT ![j] = "reading"]
    /\ parsed' = [parsed EXCEPT ![j] = <<>>]
    /\ UNCHANGED <<webhook, failures, stock, emitted>>

\* The lines that count: only tracked products of a product event, of the others all.
Counting(w) == {n \in DOMAIN Lines(w) : w.form = "product" => Lines(w)[n].tracked}

\* The n that is the next of them after those already parsed.
IsNext(n, w, read) == n \in Counting(w) /\ Cardinality({m \in Counting(w) : m < n}) = Len(read)

\* The next line: its product is looked up, whatever the lines before it said.
ReadLine(j) ==
    LET w == webhook[j]
        line(n) == Lines(w)[n]
    IN /\ job[j] = "reading"
       /\ \E n \in DOMAIN Lines(w) :
             /\ IsNext(n, w, parsed[j])
             /\ parsed' = [parsed EXCEPT ![j] = Append(@, Change(w, line(n), stock[line(n).item]))]
       /\ UNCHANGED <<webhook, job, failures, stock, emitted>>

\* All lines are read: the changes go out together.
Emits(j) ==
    LET w == webhook[j]
    IN /\ job[j] = "reading"
       /\ Len(parsed[j]) = Cardinality(Counting(w))
       /\ emitted' = [emitted EXCEPT ![j] = @ \o parsed[j]]
       /\ job' = [job EXCEPT ![j] = "done"]
       /\ UNCHANGED <<webhook, failures, stock, parsed>>

\* A lookup throws: what was parsed is gone, the job is tried again up to WatchTries times.
LookupFails(j) ==
    /\ job[j] = "reading" /\ Lines(webhook[j]) # <<>>
    /\ failures' = [failures EXCEPT ![j] = @ + 1]
    /\ job' = [job EXCEPT ![j] = IF failures[j] + 1 < WatchTries THEN "waiting" ELSE "failed"]
    /\ parsed' = [parsed EXCEPT ![j] = <<>>]
    /\ UNCHANGED <<webhook, stock, emitted>>

\* Whoever writes the product's stock, and whoever maps or unmaps it, meanwhile.
StockMoves(i, level) ==
    /\ stock[i] # level
    /\ stock' = [stock EXCEPT ![i] = level]
    /\ UNCHANGED <<webhook, job, failures, parsed, emitted>>

WatchNext ==
    \/ \E j \in WatchJobs : AddWebhookJob(j) \/ Takes(j) \/ ReadLine(j) \/ Emits(j) \/ LookupFails(j)
    \/ \E i \in Mappings, level \in Stocks \cup {Unmapped} : StockMoves(i, level)
=============================================================================
