------------------------------ MODULE ProductRoutes ------------------------------
(***************************************************************************)
(* Products, their mappings to channels and the requests to synchronise    *)
(* them: backend/src/routes/products.ts and the triggers of routes/sync.ts *)
(* over the tables of db/index.ts.  A handler looks before it writes, with *)
(* an await between; what it must not break is left to the unique indexes  *)
(* and foreign keys, which answer a lost race with 500.                    *)
(***************************************************************************)
EXTENDS Shops

CONSTANTS
    Products, Mappings,    \* ids of rows
    Skus, ExternalIds,
    Requests,              \* handlers in flight
    NoSku                  \* of a PATCH that leaves the SKU alone

ASSUME SkuAssumption == NoSku \notin Skus

VARIABLES
    product,    \* the products table
    mapping,    \* product_channel_mappings
    request,    \* handlers in flight
    syncQueue,  \* jobs added to the sync queue
    wanted      \* requests begun

productVars == <<product, mapping, request, syncQueue, wanted>>

NoRequest == [at |-> "idle"]

RequestShape ==
    {NoRequest}
    \cup [at : {"create"}, tenant : Tenants, sku : Skus]
    \cup [at : {"conflict", "update"}, tenant : Tenants, id : Products, sku : Skus \cup {NoSku}]
    \cup [at : {"mapped", "map"}, tenant : Tenants, id : Products, channel : Channels, ext : ExternalIds]
    \cup [at : {"unmap"}, id : Products, mapping : Mappings]
    \cup [at : {"queue"}, tenant : Tenants, channels : SUBSET Channels,
          operation : {"full_sync", "incremental_sync"}]

ProductTypeOK ==
    /\ DOMAIN product \subseteq Products
    /\ \A p \in DOMAIN product : product[p] \in [tenant : tenants, sku : Skus]
    /\ DOMAIN mapping \subseteq Mappings
    /\ \A m \in DOMAIN mapping :
            mapping[m] \in [product : Products, channel : Channels, ext : ExternalIds]
    /\ request \in [Requests -> RequestShape]
    /\ syncQueue \subseteq [tenant : Tenants, channel : Channels,
                            operation : {"full_sync", "incremental_sync"}]
    /\ wanted \in Nat

ProductInit ==
    /\ product = <<>> /\ mapping = <<>> /\ syncQueue = {} /\ wanted = 0
    /\ request = [q \in Requests |-> NoRequest]

Begun(q, to) ==
    /\ request[q] = NoRequest
    /\ request' = [request EXCEPT ![q] = to]
    /\ wanted' = wanted + 1

Continues(q, to) == request' = [request EXCEPT ![q].at = to] /\ UNCHANGED wanted
Replies(q) == request' = [request EXCEPT ![q] = NoRequest] /\ UNCHANGED wanted

Own(t) == {p \in DOMAIN product : product[p].tenant = t}
Taken(t, s) == \E p \in Own(t) : product[p].sku = s

-----------------------------------------------------------------------------
(* POST /products *)

CreateLooks(q, t, s) ==
    /\ t \in Signed /\ ~Taken(t, s)
    /\ Begun(q, [at |-> "create", tenant |-> t, sku |-> s])
    /\ UNCHANGED <<product, mapping, syncQueue>>

\* The unique index on (tenant_id, sku) refuses what was taken meanwhile.
CreateInserts(q) ==
    LET r == request[q]
    IN /\ r.at = "create"
       /\ Replies(q)
       /\ IF Taken(r.tenant, r.sku) THEN UNCHANGED product
          ELSE \E p \in Products \ (DOMAIN product \cup gone.product) :
                  product' = WithRow(product, p, [tenant |-> r.tenant, sku |-> r.sku])
       /\ UNCHANGED <<mapping, syncQueue>>

-----------------------------------------------------------------------------
(* PATCH /products/:id *)

\* A conflict is looked for only when the SKU changes.
PatchReads(q, t, p, s) ==
    /\ t \in Signed /\ p \in Own(t)
    /\ Begun(q, [at |-> IF s \in {NoSku, product[p].sku} THEN "update" ELSE "conflict",
                 tenant |-> t, id |-> p, sku |-> s])
    /\ UNCHANGED <<product, mapping, syncQueue>>

PatchLooks(q) ==
    /\ request[q].at = "conflict"
    /\ IF Taken(request[q].tenant, request[q].sku) THEN Replies(q) ELSE Continues(q, "update")
    /\ UNCHANGED <<product, mapping, syncQueue>>

\* Mutant of PatchWrites: no unique index.
MutNoIndex(q) ==
    LET r == request[q]
    IN /\ r.at = "update"
       /\ Replies(q)
       /\ IF r.id \notin DOMAIN product \/ r.sku = NoSku THEN UNCHANGED product
          ELSE product' = [product EXCEPT ![r.id].sku = r.sku]
       /\ UNCHANGED <<mapping, syncQueue>>

\* A product that has gone is answered 200 with no row; a SKU taken meanwhile, 500.
PatchWrites(q) ==
    LET r == request[q]
    IN /\ r.at = "update"
       /\ Replies(q)
       /\ IF \/ r.id \notin DOMAIN product \/ r.sku = NoSku
             \/ \E p \in Own(product[r.id].tenant) \ {r.id} : product[p].sku = r.sku
          THEN UNCHANGED product
          ELSE product' = [product EXCEPT ![r.id].sku = r.sku]
       /\ UNCHANGED <<mapping, syncQueue>>

\* DELETE /products/:id; the mappings go with the product.
DeleteProduct(t, p) ==
    /\ t \in Signed /\ p \in Own(t)
    /\ wanted' = wanted + 1
    /\ product' = Restrict(product, DOMAIN product \ {p})
    /\ mapping' = Restrict(mapping, {m \in DOMAIN mapping : mapping[m].product # p})
    /\ UNCHANGED <<request, syncQueue>>

-----------------------------------------------------------------------------
(* Mappings *)

\* POST /products/:id/mappings: the product is looked up, the channel is not.
MapFindsProduct(q, t, p, x, e) ==
    /\ t \in Signed /\ p \in Own(t)
    /\ Begun(q, [at |-> "mapped", tenant |-> t, id |-> p, channel |-> x, ext |-> e])
    /\ UNCHANGED <<product, mapping, syncQueue>>

Pairs(p, x) == {m \in DOMAIN mapping : mapping[m].product = p /\ mapping[m].channel = x}

MapLooks(q) ==
    LET r == request[q]
    IN /\ r.at = "mapped"
       /\ IF Pairs(r.id, r.channel) # {} THEN Replies(q) ELSE Continues(q, "map")
       /\ UNCHANGED <<product, mapping, syncQueue>>

\* The foreign keys and the unique index on (channel_id, external_id) may refuse
\* it; a second mapping of the pair they let pass.
MapInserts(q) ==
    LET r == request[q]
    IN /\ r.at = "map"
       /\ Replies(q)
       /\ IF \/ r.id \notin DOMAIN product \/ r.channel \notin DOMAIN channel
             \/ \E m \in DOMAIN mapping : mapping[m].channel = r.channel /\ mapping[m].ext = r.ext
          THEN UNCHANGED mapping
          ELSE \E m \in Mappings \ (DOMAIN mapping \cup gone.mapping) :
                  mapping' = WithRow(mapping, m, [product |-> r.id, channel |-> r.channel, ext |-> r.ext])
       /\ UNCHANGED <<product, syncQueue>>

\* DELETE /products/:id/mappings/:mappingId: the product is looked up, the
\* mapping deleted if it still is the product's.
UnmapFinds(q, t, p, m) ==
    /\ t \in Signed /\ p \in Own(t)
    /\ Begun(q, [at |-> "unmap", id |-> p, mapping |-> m])
    /\ UNCHANGED <<product, mapping, syncQueue>>

UnmapDeletes(q) ==
    LET r == request[q]
    IN /\ r.at = "unmap"
       /\ Replies(q)
       /\ mapping' = Restrict(mapping, {m \in DOMAIN mapping :
                                           m # r.mapping \/ mapping[m].product # r.id})
       /\ UNCHANGED <<product, syncQueue>>

\* ON DELETE CASCADE: the mappings of a channel that Shops deletes.
ChannelsCascade == mapping' = Restrict(mapping, {m \in DOMAIN mapping :
                                                    mapping[m].channel \in DOMAIN channel'})

-----------------------------------------------------------------------------
(* Triggers *)

Active(t) == {x \in DOMAIN channel : channel[x].tenant = t /\ channel[x].active}

\* POST /sync/full, also reached through /sync/trigger-all: one job per active channel.
FullSyncReads(q, t) ==
    /\ t \in Signed /\ Active(t) # {}
    /\ Begun(q, [at |-> "queue", tenant |-> t, channels |-> Active(t), operation |-> "full_sync"])
    /\ UNCHANGED <<product, mapping, syncQueue>>

\* POST /sync/channel/:id, also reached through /sync/trigger/:channelId.
ChannelSyncReads(q, t, x, operation) ==
    /\ t \in Signed /\ x \in Active(t)
    /\ Begun(q, [at |-> "queue", tenant |-> t, channels |-> {x}, operation |-> operation])
    /\ UNCHANGED <<product, mapping, syncQueue>>

\* All jobs of a request are added at once, also for channels that have gone.
SyncQueues(q) ==
    LET r == request[q]
    IN /\ r.at = "queue"
       /\ Replies(q)
       /\ syncQueue' = syncQueue \cup {[tenant |-> r.tenant, channel |-> x, operation |-> r.operation] :
                                       x \in r.channels}
       /\ UNCHANGED <<product, mapping>>

\* A query fails or Redis does: 500.
RequestFails(q) ==
    /\ request[q] # NoRequest
    /\ Replies(q)
    /\ UNCHANGED <<product, mapping, syncQueue>>

-----------------------------------------------------------------------------

ProductRequest(q, t) ==
    \/ \E s \in Skus : CreateLooks(q, t, s)
    \/ FullSyncReads(q, t)
    \/ \E x \in DOMAIN channel, operation \in {"full_sync", "incremental_sync"} :
          ChannelSyncReads(q, t, x, operation)
    \/ \E p \in Own(t) :
        \/ \E s \in Skus \cup {NoSku} : PatchReads(q, t, p, s)
        \/ \E x \in DOMAIN channel, e \in ExternalIds : MapFindsProduct(q, t, p, x, e)
        \/ \E m \in DOMAIN mapping : UnmapFinds(q, t, p, m)

ProductNext ==
    \/ \E t \in tenants :
        \/ \E q \in Requests : ProductRequest(q, t)
        \/ \E p \in Own(t) : DeleteProduct(t, p)
    \/ \E q \in Requests :
        \/ CreateInserts(q) \/ PatchLooks(q) \/ PatchWrites(q) \/ MapLooks(q) \/ MapInserts(q)
        \/ UnmapDeletes(q) \/ SyncQueues(q) \/ RequestFails(q)

-----------------------------------------------------------------------------

\* Whatever handlers overlap, and whichever product or channel is deleted under
\* them: a tenant's products differ in their SKUs, so that matching by SKU finds
\* one; a channel's mappings differ in their external ids, so that a webhook is
\* about one product; and a mapping joins a product and a channel that exist.
CatalogueHolds ==
    /\ \A p, o \in DOMAIN product :
          product[p] = product[o] => p = o
    /\ \A m, n \in DOMAIN mapping :
          mapping[m].channel = mapping[n].channel /\ mapping[m].ext = mapping[n].ext => m = n
    /\ \A m \in DOMAIN mapping :
          mapping[m].product \in DOMAIN product /\ mapping[m].channel \in DOMAIN channel
=============================================================================
