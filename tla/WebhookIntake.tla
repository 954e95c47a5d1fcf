----------------------------- MODULE WebhookIntake ------------------------------
(***************************************************************************)
(* The webhook receivers of the backend (routes/webhooks.ts): a platform's *)
(* notice is matched to a channel by its external identifier, answered,    *)
(* queued; the queue's worker turns it into stock change events with the   *)
(* platform's webhook handler.  What becomes of the events is the matter   *)
(* of BackendSync.                                                         *)
(***************************************************************************)
EXTENDS Integers, Sequences, FiniteSets

CONSTANTS
    Deliveries,    \* HTTP requests of platforms; a notice may be delivered twice
    Notices,       \* what a platform may say, see NoticeShape
    RowIds,        \* ids of rows of channels
    Tenants,
    Nobody,        \* no tenant
    WebhookTries   \* attempts of a webhook job

\* from: the platform; ext: the identifier it names; about: its event; lines: the items.
NoticeShape ==
    [from : {"eposnow", "wix", "deliveroo", "shopify", "woocommerce", "uber_eats"},
     ext : STRING, about : STRING,
     lines : Seq([item : STRING, quantity : Int]),
     valid : BOOLEAN]

ASSUME NoticesAreShaped == Notices \subseteq NoticeShape
ASSUME NobodyIsNoTenant == Nobody \notin Tenants
ASSUME JobsAreTried == WebhookTries \in Nat \ {0}

VARIABLES
    rows,        \* channels: id to [tenant, type, ext, active], for the rows there are
    gone,        \* ids of rows that were deleted
    cache,       \* channelSecretCache: [type, ext] to the tenant first found
    notice,      \* what each delivery says
    reached,          \* how far the receiver is with it
    owner,       \* the tenant it found for it
    row,         \* and the channel's row
    jobs,        \* the webhook queue: deliveries waiting for the worker
    attempts,    \* of each delivery's job
    events       \* the stock changes the worker made of it

intakeVars == <<rows, gone, cache, notice, reached, owner, row, jobs, attempts, events>>

Keys == {[type |-> notice[d].from, ext |-> notice[d].ext] : d \in Deliveries}

IntakeTypeOK ==
    /\ gone \subseteq RowIds /\ DOMAIN rows \subseteq RowIds \ gone
    /\ \A r \in DOMAIN rows :
          rows[r].tenant \in Tenants /\ [type |-> rows[r].type, ext |-> rows[r].ext] \in Keys
    /\ DOMAIN cache \subseteq Keys /\ \A k \in DOMAIN cache : cache[k] \in Tenants
    /\ reached \in [Deliveries -> {"away", "received", "asked", "again", "found", "answered",
                              "queued", "lost", "unmatched", "unreadable"}]
    /\ owner \in [Deliveries -> Tenants \cup {Nobody}]
    /\ jobs \subseteq Deliveries
    /\ attempts \in [Deliveries -> 0 .. WebhookTries]
    /\ \A d \in jobs : reached[d] = "queued" /\ owner[d] # Nobody

Empty == [k \in {} |-> Nobody]

IntakeInit ==
    /\ rows = Empty /\ gone = {} /\ cache = Empty
    /\ notice \in [Deliveries -> Notices]
    \* Of one platform: the type is part of every key, so that platforms never meet here.
    /\ \A d, e \in Deliveries : notice[d].from = notice[e].from
    /\ reached = [d \in Deliveries |-> "away"]
    /\ owner = [d \in Deliveries |-> Nobody]
    /\ row = [d \in Deliveries |-> "none"]
    /\ jobs = {}
    /\ attempts = [d \in Deliveries |-> 0]
    /\ events = [d \in Deliveries |-> <<>>]

-----------------------------------------------------------------------------
\* The channels table, as its routes change it meanwhile.
RowAppears(r, t, k) ==
    /\ r \in RowIds \ (DOMAIN rows \cup gone)
    /\ rows' = [x \in DOMAIN rows \cup {r} |->
                  IF x = r THEN [tenant |-> t, type |-> k.type, ext |-> k.ext, active |-> TRUE]
                  ELSE rows[x]]
    /\ UNCHANGED <<gone, cache, notice, reached, owner, row, jobs, attempts, events>>

RowGoes(r) ==
    /\ r \in DOMAIN rows
    /\ rows' = [x \in DOMAIN rows \ {r} |-> rows[x]]
    /\ gone' = gone \cup {r}
    /\ UNCHANGED <<cache, notice, reached, owner, row, jobs, attempts, events>>

RowSwitches(r) ==
    /\ r \in DOMAIN rows
    /\ rows' = [rows EXCEPT ![r].active = ~@]
    /\ UNCHANGED <<gone, cache, notice, reached, owner, row, jobs, attempts, events>>

-----------------------------------------------------------------------------
\* The steps of a receiver.
Step(d, from, to) ==
    /\ reached[d] = from
    /\ reached' = [reached EXCEPT ![d] = to]

Arrives(d) ==
    /\ Step(d, "away", IF notice[d].valid THEN "received" ELSE "unreadable")
    /\ UNCHANGED <<rows, gone, cache, notice, owner, row, jobs, attempts, events>>

Key(d) == [type |-> notice[d].from, ext |-> notice[d].ext]

\* The active channels with the notice's identifier.
Matches(d) ==
    {r \in DOMAIN rows : /\ rows[r].type = notice[d].from /\ rows[r].ext = notice[d].ext
                         /\ rows[r].active}

Finds(d, r) ==
    /\ owner' = [owner EXCEPT ![d] = rows[r].tenant]
    /\ row' = [row EXCEPT ![d] = r]

\* getChannelByExternalId: without an identifier there is no channel; a cached key is asked
\* for in the database all the same.
LooksUp(d) ==
    /\ Step(d, "received", IF notice[d].ext = "" THEN "unmatched"
                           ELSE IF Key(d) \in DOMAIN cache THEN "asked" ELSE "again")
    /\ UNCHANGED <<rows, gone, cache, notice, owner, row, jobs, attempts, events>>

\* Mutant of CachedLookup: the cached tenant is believed.
MutCachedLookup(d) ==
    /\ Step(d, "asked", "found")
    /\ owner' = [owner EXCEPT ![d] = cache[Key(d)]]
    /\ UNCHANGED <<rows, gone, cache, notice, row, jobs, attempts, events>>

CachedLookup(d) ==
    /\ reached[d] = "asked"
    /\ \/ \E r \in Matches(d) : Finds(d, r) /\ Step(d, "asked", "found")
       \/ Matches(d) = {} /\ Step(d, "asked", "again") /\ UNCHANGED <<owner, row>>
    /\ UNCHANGED <<rows, gone, cache, notice, jobs, attempts, events>>

Lookup(d) ==
    /\ reached[d] = "again"
    /\ \/ \E r \in Matches(d) :
             /\ Finds(d, r) /\ Step(d, "again", "found")
             /\ cache' = [k \in DOMAIN cache \cup {Key(d)} |->
                            IF k = Key(d) THEN rows[r].tenant ELSE cache[k]]
       \/ Matches(d) = {} /\ Step(d, "again", "unmatched") /\ UNCHANGED <<owner, row, cache>>
    /\ UNCHANGED <<rows, gone, notice, jobs, attempts, events>>

\* The database is away: 200 all the same, so that the platform does not send it again.
LookupThrows(d) ==
    /\ reached[d] \in {"asked", "again"}
    /\ Step(d, reached[d], "lost")
    /\ UNCHANGED <<rows, gone, cache, notice, owner, row, jobs, attempts, events>>

\* 200 is sent before the job is queued.
Answers(d) ==
    /\ Step(d, "found", "answered")
    /\ UNCHANGED <<rows, gone, cache, notice, owner, row, jobs, attempts, events>>

Queues(d) ==
    /\ Step(d, "answered", "queued")
    /\ jobs' = jobs \cup {d}
    /\ UNCHANGED <<rows, gone, cache, notice, owner, row, attempts, events>>

\* Redis does not take the job: the error is logged, the platform was told 200.
QueueFails(d) ==
    /\ Step(d, "answered", "lost")
    /\ UNCHANGED <<rows, gone, cache, notice, owner, row, jobs, attempts, events>>

\* The receivers.  The identifier is a header's or, for Eposnow, Wix and Otter, the body's;
\* WooCommerce's is the host of the shop's address.
Route(d, platform) ==
    /\ notice[d].from = platform
    /\ \/ Arrives(d) \/ LooksUp(d) \/ CachedLookup(d) \/ Lookup(d) \/ LookupThrows(d)
       \/ Answers(d) \/ Queues(d) \/ QueueFails(d)

EposnowRoute(d) == Route(d, "eposnow")
WixRoute(d) == Route(d, "wix")
OtterRoute(d) == Route(d, "deliveroo")
ShopifyRoute(d) == Route(d, "shopify")
WooCommerceRoute(d) == Route(d, "woocommerce")
UberEatsRoute(d) == Route(d, "uber_eats")

-----------------------------------------------------------------------------
NotSaid == -1000

\* The handlers: what a notice says of which item, as sequences of [item, quantity].
Said(n) == [j \in DOMAIN n.lines |-> [item |-> n.lines[j].item, quantity |-> n.lines[j].quantity]]
Sold(n) == [j \in DOMAIN n.lines |-> [item |-> n.lines[j].item, quantity |-> -n.lines[j].quantity]]
Unsaid(n) == [j \in DOMAIN n.lines |-> [item |-> n.lines[j].item, quantity |-> NotSaid]]

First(list) == IF list = <<>> THEN <<>> ELSE <<list[1]>>

\* Of a transaction only the first item counts.
EposnowEvents(n) ==
    CASE n.about \in {"stock.updated", "product.updated", "product.created"} -> First(Said(n))
      [] n.about = "transaction.completed" -> First(Sold(n))
      [] OTHER -> <<>>

\* One event for each variant or line.
WixEvents(n) ==
    CASE n.about \in {"inventory.updated", "product.created", "product.updated"} -> Said(n)
      [] n.about \in {"orders.created", "orders.updated"} -> Sold(n)
      [] OTHER -> <<>>

\* An availability that changed, and a menu, say no quantity of what is available.
OtterHandler(n) ==
    CASE n.about \in {"item.availability_changed", "menu.updated"} -> Unsaid(n)
      [] n.about = "item.stock_updated" -> First(Said(n))
      [] n.about \in {"order.created", "order.updated"} -> Sold(n)
      [] n.about = "order.cancelled" -> Said(n)
      [] OTHER -> <<>>

\* A quantity that is not said becomes 0, of an item that is available again as well.
OtterEvents(n) ==
    LET said == OtterHandler(n)
    IN [j \in DOMAIN said |-> [said[j] EXCEPT !.quantity = IF @ = NotSaid THEN 0 ELSE @]]

ShopifyHandler(n) ==
    CASE n.about \in {"inventory_levels/update", "products/update", "products/create"}
            -> First(Said(n))
      [] n.about = "orders/create" -> First(Sold(n))
      [] OTHER -> <<>>

\* Without a webhook secret Shopify's provider is mute.
ShopifyEvents(n, secret) == IF secret THEN ShopifyHandler(n) ELSE <<>>

WooCommerceHandler(n, topic) ==
    CASE topic \in {"order.completed", "order.updated"} -> First(Sold(n))
      [] topic \in {"product.updated", "product.created"} -> First(Said(n))
      [] OTHER -> <<>>

\* The topic is told from the data: what has lines is a completed order.
WooCommerceEvents(n) ==
    CASE n.about \in {"order.completed", "order.updated", "order.created"}
            -> WooCommerceHandler(n, "order.completed")
      [] n.about \in {"product.updated", "product.created"}
            -> WooCommerceHandler(n, "product.updated")
      [] OTHER -> <<>>

\* An order names itself in the place of an item, with -1; a store that goes inactive, with 0.
UberEatsEvents(n) ==
    CASE n.about = "orders.notification" -> <<[item |-> n.ext, quantity |-> -1]>>
      [] n.about = "eats.store.status_update" -> <<[item |-> n.ext, quantity |-> 0]>>
      [] OTHER -> <<>>

Events(n) ==
    CASE n.from = "eposnow" -> EposnowEvents(n)
      [] n.from = "wix" -> WixEvents(n)
      [] n.from = "deliveroo" -> OtterEvents(n)
      [] n.from = "shopify" -> ShopifyEvents(n, FALSE)  \* processWebhookJob sets none
      [] n.from = "woocommerce" -> WooCommerceEvents(n)
      [] n.from = "uber_eats" -> UberEatsEvents(n)

\* The worker: a channel that is gone ends the job without events.
Handles(d) ==
    /\ d \in jobs
    /\ jobs' = jobs \ {d}
    /\ attempts' = [attempts EXCEPT ![d] = @ + 1]
    /\ events' = [events EXCEPT ![d] = IF row[d] \in DOMAIN rows THEN Events(notice[d]) ELSE <<>>]
    /\ UNCHANGED <<rows, gone, cache, notice, reached, owner, row>>

\* Mutant of HandlerThrows: one attempt too many.
MutHandlerThrows(d) ==
    /\ d \in jobs
    /\ attempts' = [attempts EXCEPT ![d] = @ + 1]
    /\ jobs' = IF attempts[d] < WebhookTries THEN jobs ELSE jobs \ {d}
    /\ UNCHANGED <<rows, gone, cache, notice, reached, owner, row, events>>

\* A handler or the database throws: the job is tried again, WebhookTries times in all.
HandlerThrows(d) ==
    /\ d \in jobs
    /\ attempts' = [attempts EXCEPT ![d] = @ + 1]
    /\ jobs' = IF attempts[d] + 1 < WebhookTries THEN jobs ELSE jobs \ {d}
    /\ UNCHANGED <<rows, gone, cache, notice, reached, owner, row, events>>

IntakeNext ==
    \/ \E r \in RowIds, t \in Tenants, k \in Keys : RowAppears(r, t, k)
    \/ \E r \in RowIds : RowGoes(r) \/ RowSwitches(r)
    \/ \E d \in Deliveries :
          \/ EposnowRoute(d) \/ WixRoute(d) \/ OtterRoute(d)
          \/ ShopifyRoute(d) \/ WooCommerceRoute(d) \/ UberEatsRoute(d)
          \/ Handles(d) \/ HandlerThrows(d)

-----------------------------------------------------------------------------
(***************************************************************************)
(* A notice goes to a tenant that owns an active channel with the notice's *)
(* identifier at the moment it is matched - getChannelByExternalId: the    *)
(* cache of earlier matches never speaks for a channel that was removed,   *)
(* switched off or taken over since.                                       *)
(***************************************************************************)
NoticesFollowChannels ==
    [][\A d \in Deliveries : owner'[d] # owner[d] =>
          \E r \in DOMAIN rows : /\ rows[r].tenant = owner'[d] /\ rows[r].active
                                 /\ rows[r].type = notice[d].from
                                 /\ rows[r].ext = notice[d].ext]_intakeVars
=============================================================================
