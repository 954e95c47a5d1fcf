---------------------------- MODULE TenancyProofs ----------------------------
(***************************************************************************)
(* Proofs about Tenancy: what the requests of any number of tenants,       *)
(* handlers and calls that overlap never do to the catalogue, to reset     *)
(* links, to the shops of an OAuth flow or of a removed app, and to the    *)
(* plan a tenant pays for; and the type invariant.                         *)
(***************************************************************************)
EXTENDS Tenancy, TLAPS

-----------------------------------------------------------------------------
(* The catalogue.  Given that rows have their columns, CatalogueHolds is   *)
(* inductive by itself: what a request read before is of no account, the   *)
(* indexes and foreign keys decide.                                        *)

\* A product's row has a tenant and a SKU.
RowsOK ==
    \A p \in DOMAIN product : product[p] = [tenant |-> product[p].tenant, sku |-> product[p].sku]

CatInv == CatalogueHolds /\ RowsOK

\* The three parts of CatalogueHolds.
SkusDiffer == \A p, o \in DOMAIN product : product[p] = product[o] => p = o
ExternalIdsDiffer ==
    \A m, n \in DOMAIN mapping :
        mapping[m].channel = mapping[n].channel /\ mapping[m].ext = mapping[n].ext => m = n
MappingsJoin ==
    \A m \in DOMAIN mapping :
        mapping[m].product \in DOMAIN product /\ mapping[m].channel \in DOMAIN channel

LEMMA CatalogueParts == CatalogueHolds <=> SkusDiffer /\ ExternalIdsDiffer /\ MappingsJoin
BY DEF CatalogueHolds, SkusDiffer, ExternalIdsDiffer, MappingsJoin

\* Deleting mappings.
LEMMA FewerMappings ==
    ASSUME CatInv, NEW S, mapping' = Restrict(mapping, S), S \subseteq DOMAIN mapping,
           UNCHANGED product,
           \A m \in S : mapping[m].channel \in DOMAIN channel'
    PROVE  CatInv'
<1>1. DOMAIN mapping' = S /\ \A m \in S : mapping'[m] = mapping[m]
  BY DEF Restrict
<1>2. QED
  BY <1>1 DEF CatInv, RowsOK, CatalogueHolds

LEMMA ProductStepKeeps ==
    ASSUME CatInv, ProductNext, UNCHANGED channel
    PROVE  CatInv'
<1>1. CASE UNCHANGED <<product, mapping>>
  BY <1>1 DEF CatInv, RowsOK, CatalogueHolds
<1>2. ASSUME NEW q \in Requests, CreateInserts(q)
      PROVE  CatInv'
  <2> DEFINE r == request[q]
             row == [tenant |-> r.tenant, sku |-> r.sku]
  <2>1. CASE UNCHANGED product
    BY <1>2, <2>1 DEF CreateInserts, CatInv, RowsOK, CatalogueHolds
  <2>2. CASE ~Taken(r.tenant, r.sku)
    <3>1. PICK p \in Products \ (DOMAIN product \cup gone.product) : product' = WithRow(product, p, row)
      BY <1>2, <2>2 DEF CreateInserts
    <3>2. \A o \in DOMAIN product : product[o] # row
      BY <2>2 DEF Taken, Own
    <3>3. row = [tenant |-> row.tenant, sku |-> row.sku] /\ p \notin DOMAIN product
      BY <3>1
    <3> HIDE DEF row
    <3>8. /\ DOMAIN product' = DOMAIN product \cup {p} /\ product'[p] = row
          /\ \A o \in DOMAIN product : product'[o] = product[o]
      BY <3>1, <3>3 DEF WithRow
    <3>4. UNCHANGED mapping
      BY <1>2 DEF CreateInserts
    <3>5. SkusDiffer'
      BY <3>2, <3>8 DEF CatInv, CatalogueHolds, SkusDiffer
    <3>6. ExternalIdsDiffer' /\ MappingsJoin'
      BY <3>4, <3>8 DEF CatInv, CatalogueHolds, ExternalIdsDiffer, MappingsJoin
    <3>9. RowsOK'
      BY <3>3, <3>8 DEF CatInv, RowsOK
    <3>7. QED
      BY <3>5, <3>6, <3>9 DEF CatInv, RowsOK, CatalogueHolds, SkusDiffer, ExternalIdsDiffer, MappingsJoin
  <2>3. QED
    BY <1>2, <2>1, <2>2 DEF CreateInserts
<1>3. ASSUME NEW q \in Requests, PatchWrites(q)
      PROVE  CatInv'
  <2> DEFINE r == request[q]
  <2>1. CASE UNCHANGED product
    BY <1>3, <2>1 DEF PatchWrites, CatInv, RowsOK, CatalogueHolds
  <2>2. CASE /\ r.id \in DOMAIN product
             /\ \A p \in Own(product[r.id].tenant) \ {r.id} : product[p].sku # r.sku
             /\ product' = [product EXCEPT ![r.id].sku = r.sku]
    <3>1. /\ DOMAIN product' = DOMAIN product
          /\ \A o \in DOMAIN product \ {r.id} : product'[o] = product[o]
          /\ product'[r.id] = [product[r.id] EXCEPT !.sku = r.sku]
      BY <2>2
    <3>8. product'[r.id] = [tenant |-> product[r.id].tenant, sku |-> r.sku]
      BY <2>2, <3>1 DEF CatInv, RowsOK
    <3>2. \A o \in DOMAIN product \ {r.id} : product[o] # product'[r.id]
      BY <2>2, <3>8 DEF Own
    <3>3. UNCHANGED mapping
      BY <1>3 DEF PatchWrites
    <3>4. SkusDiffer'
      BY <3>1, <3>2 DEF CatInv, RowsOK, CatalogueHolds, SkusDiffer
    <3>5. ExternalIdsDiffer' /\ MappingsJoin'
      BY <3>1, <3>3 DEF CatInv, RowsOK, CatalogueHolds, ExternalIdsDiffer, MappingsJoin
    <3>7. RowsOK'
      BY <3>1, <3>8 DEF CatInv, RowsOK
    <3>6. QED
      BY <3>4, <3>5, <3>7 DEF CatInv, RowsOK, CatalogueHolds, SkusDiffer, ExternalIdsDiffer, MappingsJoin
  <2>3. QED
    BY <1>3, <2>1, <2>2 DEF PatchWrites
<1>4. ASSUME NEW t, NEW p, DeleteProduct(t, p)
      PROVE  CatInv'
  <2>1. DOMAIN product' = DOMAIN product \ {p} /\ \A o \in DOMAIN product' : product'[o] = product[o]
    BY <1>4 DEF DeleteProduct, Restrict
  <2>2. /\ DOMAIN mapping' = {m \in DOMAIN mapping : mapping[m].product # p}
        /\ \A m \in DOMAIN mapping' : mapping'[m] = mapping[m]
    BY <1>4 DEF DeleteProduct, Restrict
  <2>3. QED
    BY <2>1, <2>2 DEF CatInv, RowsOK, CatalogueHolds
<1>5. ASSUME NEW q \in Requests, MapInserts(q)
      PROVE  CatInv'
  <2> DEFINE r == request[q]
             row == [product |-> r.id, channel |-> r.channel, ext |-> r.ext]
  <2>1. CASE UNCHANGED mapping
    BY <1>5, <2>1 DEF MapInserts, CatInv, RowsOK, CatalogueHolds
  <2>2. CASE /\ r.id \in DOMAIN product /\ r.channel \in DOMAIN channel
             /\ \A m \in DOMAIN mapping :
                    ~(mapping[m].channel = r.channel /\ mapping[m].ext = r.ext)
             /\ \E m \in Mappings \ (DOMAIN mapping \cup gone.mapping) : mapping' = WithRow(mapping, m, row)
    <3>1. PICK m \in Mappings \ (DOMAIN mapping \cup gone.mapping) : mapping' = WithRow(mapping, m, row)
      BY <2>2
    <3>3. row.product = r.id /\ row.channel = r.channel /\ row.ext = r.ext /\ m \notin DOMAIN mapping
      BY <3>1
    <3>4. UNCHANGED product
      BY <1>5 DEF MapInserts
    <3> HIDE DEF r, row
    <3>2. /\ DOMAIN mapping' = DOMAIN mapping \cup {m} /\ mapping'[m] = row
          /\ \A n \in DOMAIN mapping : mapping'[n] = mapping[n]
      BY <3>1, <3>3 DEF WithRow
    <3>5. SkusDiffer' /\ MappingsJoin'
      BY <2>2, <3>2, <3>3, <3>4 DEF CatInv, RowsOK, CatalogueHolds, SkusDiffer, MappingsJoin
    <3>6. ExternalIdsDiffer'
      BY <2>2, <3>2, <3>3 DEF CatInv, RowsOK, CatalogueHolds, ExternalIdsDiffer
    <3>7. QED
      BY <3>4, <3>5, <3>6 DEF CatInv, RowsOK, CatalogueHolds, SkusDiffer, ExternalIdsDiffer, MappingsJoin
  <2>3. QED
    BY <1>5, <2>1, <2>2 DEF MapInserts
<1>6. ASSUME NEW q \in Requests, UnmapDeletes(q)
      PROVE  CatInv'
  <2> DEFINE S == {m \in DOMAIN mapping : m # request[q].mapping \/ mapping[m].product # request[q].id}
  <2>1. mapping' = Restrict(mapping, S) /\ UNCHANGED product
    BY <1>6 DEF UnmapDeletes
  <2>2. \A m \in S : mapping[m].channel \in DOMAIN channel'
    BY DEF CatInv, RowsOK, CatalogueHolds
  <2>3. QED
    BY <2>1, <2>2, FewerMappings
<1>7. ASSUME NEW q \in Requests, NEW t, ProductRequest(q, t)
      PROVE  UNCHANGED <<product, mapping>>
  BY <1>7 DEF ProductRequest, CreateLooks, FullSyncReads, ChannelSyncReads, PatchReads,
              MapFindsProduct, UnmapFinds
<1>8. ASSUME NEW q \in Requests, PatchLooks(q) \/ MapLooks(q) \/ SyncQueues(q) \/ RequestFails(q)
      PROVE  UNCHANGED <<product, mapping>>
  BY <1>8 DEF PatchLooks, MapLooks, SyncQueues, RequestFails
<1>9. QED
  BY <1>1, <1>2, <1>3, <1>4, <1>5, <1>6, <1>7, <1>8 DEF ProductNext

LEMMA NextKeepsCatalogue ==
    ASSUME CatInv, [Next]_vars
    PROVE  CatInv'
<1>1. CASE UNCHANGED <<product, mapping, channel>>
  BY <1>1 DEF CatInv, RowsOK, CatalogueHolds
<1>2. CASE ShopsNext /\ ChannelsCascade /\ UNCHANGED <<product, request, syncQueue, wanted, billVars>>
  <2> DEFINE S == {m \in DOMAIN mapping : mapping[m].channel \in DOMAIN channel'}
  <2>1. mapping' = Restrict(mapping, S) /\ UNCHANGED product
    BY <1>2 DEF ChannelsCascade
  <2>2. QED
    BY <2>1, FewerMappings
<1>3. CASE ProductNext /\ UNCHANGED <<accountVars, shopVars, billVars>>
  BY <1>3, ProductStepKeeps DEF shopVars
<1>4. QED
  BY <1>1, <1>2, <1>3 DEF Next, vars, shopVars, productVars

\* However the requests of however many tenants overlap with each other and with
\* deletions, no two products of a tenant share a SKU, no two mappings of a channel
\* an external id, and no mapping is of a product or a channel that has gone.
THEOREM CatalogueAlwaysHolds == Spec => []CatalogueHolds
<1>1. Init => CatInv
  BY DEF Init, ProductInit, CatInv, RowsOK, CatalogueHolds
<1>2. CatInv => CatalogueHolds
  BY DEF CatInv
<1>3. QED
  BY <1>1, <1>2, NextKeepsCatalogue, PTL DEF Spec

-----------------------------------------------------------------------------
(* Reset links.  DeadLinksStayDead is strengthened by what a request knows *)
(* while it is in flight: the links it read exist and are its own, and     *)
(* once it has invalidated them they are used; no step makes a used or an  *)
(* expired link usable again.                                              *)

Whole(r) == DOMAIN r = {"at", "tenant", "email", "password", "hash", "link", "known", "late"}

CallsOK == DOMAIN call = Calls /\ \A c \in Calls : Whole(call[c])

LinksOK ==
    \A l \in DOMAIN link :
        /\ DOMAIN link[l] = {"email", "used", "expired"}
        /\ link[l].used \in BOOLEAN /\ link[l].expired \in BOOLEAN

DeadAreSpent == \A l \in dead : l \in DOMAIN link /\ (link[l].used = TRUE \/ link[l].expired = TRUE)

CallSound(c) ==
    /\ call[c].at = "invalidate" =>
          \A l \in call[c].known : l \in DOMAIN link /\ link[l].email = call[c].email
    /\ call[c].at = "token" => \A l \in call[c].known : l \in DOMAIN link /\ link[l].used = TRUE
    /\ call[c].at = "hash" => call[c].link \in DOMAIN link /\ call[c].late = FALSE

LinkInv == CallsOK /\ LinksOK /\ DeadAreSpent /\ \A c \in Calls : CallSound(c)

\* What every step does to the links: they stay, and stay spent.
LinksOnlySpent ==
    \A l \in DOMAIN link :
        /\ l \in DOMAIN link' /\ link'[l].email = link[l].email
        /\ link[l].used = TRUE => link'[l].used = TRUE
        /\ link[l].expired = TRUE => link'[l].expired = TRUE

\* A step that moves one call has that call alone to answer for.
LEMMA OneCallMoves ==
    ASSUME LinkInv, LinksOnlySpent, LinksOK', DeadAreSpent', NEW c \in Calls, NEW to, Whole(to),
           Moves(c, to), CallSound(c)'
    PROVE  LinkInv'
<1>1. CallsOK'
  BY DEF LinkInv, CallsOK, Moves, Whole
<1>2. ASSUME NEW o \in Calls, o # c PROVE CallSound(o)'
  <2>1. call'[o] = call[o]
    BY <1>2 DEF LinkInv, CallsOK, Moves
  <2>2. CallSound(o)
    BY DEF LinkInv
  <2>3. QED
    BY <2>1, <2>2 DEF CallSound, LinksOnlySpent
<1>3. QED
  BY <1>1, <1>2 DEF LinkInv

\* A step that leaves links alone and moves a call to where it claims nothing.
LEMMA HarmlessMove ==
    ASSUME LinkInv, UNCHANGED <<link, dead>>, NEW c \in Calls, NEW to, Whole(to), Moves(c, to),
           to.at \notin {"invalidate", "token", "hash"}
    PROVE  LinkInv'
<1>1. call'[c] = to
  BY DEF LinkInv, CallsOK, Moves
<1>2. CallSound(c)'
  BY <1>1 DEF CallSound
<1>3. LinksOnlySpent /\ LinksOK' /\ DeadAreSpent'
  BY DEF LinkInv, LinksOnlySpent, LinksOK, DeadAreSpent
<1>4. QED
  BY <1>2, <1>3, OneCallMoves

LEMMA IdleWhole == Whole(Idle) /\ Idle.at = "idle"
BY DEF Whole, Idle

LEMMA AccountStepKeeps ==
    ASSUME LinkInv, AccountsNext
    PROVE  LinkInv'
<1>1. ASSUME NEW e, OnboardingComplete(e) PROVE LinkInv'
  BY <1>1 DEF OnboardingComplete, LinkInv, CallsOK, LinksOK, DeadAreSpent, CallSound
<1>2. ASSUME NEW l, LinkExpires(l) PROVE LinkInv'
  <2>1. /\ DOMAIN link' = DOMAIN link /\ l \in DOMAIN link
        /\ \A k \in DOMAIN link \ {l} : link'[k] = link[k]
        /\ DOMAIN link'[l] = DOMAIN link[l] /\ link'[l].email = link[l].email
        /\ link'[l].used = link[l].used /\ link'[l].expired = TRUE
    BY <1>2 DEF LinkExpires, LinkInv, LinksOK
  <2>2. dead' = dead \cup {l} /\ UNCHANGED call
    BY <1>2 DEF LinkExpires
  <2>3. LinksOK' /\ DeadAreSpent'
    BY <2>1, <2>2 DEF LinkInv, LinksOK, DeadAreSpent
  <2>4. \A c \in Calls : CallSound(c)'
    BY <2>1, <2>2 DEF LinkInv, CallSound
  <2>5. QED
    BY <2>2, <2>3, <2>4 DEF LinkInv, CallsOK
<1>3. ASSUME NEW c \in Calls, CallFails(c) PROVE LinkInv'
  BY <1>3, IdleWhole, HarmlessMove DEF CallFails, Answers
<1>4. ASSUME NEW c \in Calls, NEW t, NEW e, NEW p, RegisterFindsSlug(c, t, e, p) PROVE LinkInv'
  <2> DEFINE to == [Idle EXCEPT !.at = "email", !.tenant = t, !.email = e, !.password = p]
  <2>1. Whole(to) /\ to.at = "email"
    BY IdleWhole DEF Whole
  <2>2. Moves(c, to) /\ UNCHANGED <<link, dead>>
    BY <1>4 DEF RegisterFindsSlug
  <2> HIDE DEF to
  <2>3. QED
    BY <2>1, <2>2, HarmlessMove
<1>5. ASSUME NEW c \in Calls, RegisterFindsEmail(c) PROVE LinkInv'
  <2> DEFINE to == [call[c] EXCEPT !.at = "insert"]
  <2>1. Whole(to) /\ to.at = "insert"
    BY DEF Whole, LinkInv, CallsOK
  <2>2. (Answers(c) \/ Moves(c, to)) /\ UNCHANGED <<link, dead>>
    BY <1>5 DEF RegisterFindsEmail
  <2> HIDE DEF to
  <2>3. CASE Moves(c, to)
    BY <2>1, <2>2, <2>3, HarmlessMove
  <2>4. CASE Answers(c)
    BY <2>2, <2>4, IdleWhole, HarmlessMove DEF Answers
  <2>5. QED
    BY <2>2, <2>3, <2>4
<1>6. ASSUME NEW c \in Calls, RegisterInserts(c) \/ LoginVerifies(c) PROVE LinkInv'
  <2>1. Moves(c, Idle) /\ UNCHANGED <<link, dead>>
    BY <1>6 DEF RegisterInserts, LoginVerifies, Answers
  <2>2. QED
    BY <2>1, IdleWhole, HarmlessMove
<1>7. ASSUME NEW c \in Calls, NEW e, NEW p, LoginReads(c, e, p) PROVE LinkInv'
  <2> DEFINE to == [Idle EXCEPT !.at = "verify", !.email = e, !.password = p, !.hash = user[e].hash]
  <2>1. Whole(to) /\ to.at = "verify"
    BY IdleWhole DEF Whole
  <2>2. Moves(c, to) /\ UNCHANGED <<link, dead>>
    BY <1>7 DEF LoginReads
  <2> HIDE DEF to
  <2>3. QED
    BY <2>1, <2>2, HarmlessMove
<1>8. ASSUME NEW c \in Calls, NEW e, ForgotReads(c, e) PROVE LinkInv'
  <2> DEFINE to == [Idle EXCEPT !.at = "invalidate", !.email = Lower[e], !.known = Of(Lower[e])]
  <2>1. Whole(to) /\ to.at = "invalidate" /\ to.email = Lower[e] /\ to.known = Of(Lower[e])
    BY IdleWhole DEF Whole
  <2>2. Moves(c, to) /\ UNCHANGED <<link, dead>>
    BY <1>8 DEF ForgotReads
  <2> HIDE DEF to
  <2>3. call'[c] = to
    BY <2>2 DEF Moves, LinkInv, CallsOK
  <2>4. CallSound(c)'
    BY <2>1, <2>2, <2>3 DEF CallSound, Of
  <2>5. LinksOnlySpent /\ LinksOK' /\ DeadAreSpent'
    BY <2>2 DEF LinkInv, LinksOnlySpent, LinksOK, DeadAreSpent
  <2>6. QED
    BY <2>1, <2>2, <2>4, <2>5, OneCallMoves
<1>9. ASSUME NEW c \in Calls, ForgotInvalidates(c) PROVE LinkInv'
  <2> DEFINE to == [call[c] EXCEPT !.at = "token"]
             mail == call[c].email
  <2>1. /\ Whole(to) /\ to.at = "token" /\ to.known = call[c].known
    BY DEF Whole, LinkInv, CallsOK
  <2>2. /\ Moves(c, to) /\ UNCHANGED dead /\ call[c].at = "invalidate"
        /\ link' = [l \in DOMAIN link |-> [link[l] EXCEPT !.used = @ \/ link[l].email = mail]]
    BY <1>9 DEF ForgotInvalidates
  <2>3. /\ DOMAIN link' = DOMAIN link
        /\ \A l \in DOMAIN link :
              /\ DOMAIN link'[l] = DOMAIN link[l] /\ link'[l].email = link[l].email
              /\ link'[l].used \in BOOLEAN
              /\ link[l].used = TRUE \/ link[l].email = mail => link'[l].used = TRUE
              /\ link'[l].expired = link[l].expired
    BY <2>2 DEF LinkInv, LinksOK
  <2>4. \A l \in call[c].known : l \in DOMAIN link /\ link[l].email = mail
    BY <2>2 DEF LinkInv, CallSound
  <2> HIDE DEF to, mail
  <2>5. call'[c] = to
    BY <2>2 DEF Moves, LinkInv, CallsOK
  <2>6. LinksOnlySpent /\ LinksOK' /\ DeadAreSpent'
    BY <2>2, <2>3 DEF LinkInv, LinksOnlySpent, LinksOK, DeadAreSpent
  <2>7. CallSound(c)'
    BY <2>1, <2>3, <2>4, <2>5 DEF CallSound
  <2>8. QED
    BY <2>1, <2>2, <2>6, <2>7, OneCallMoves
<1>10. ASSUME NEW c \in Calls, NEW l, ForgotInserts(c, l) PROVE LinkInv'
  <2> DEFINE row == [email |-> call[c].email, used |-> FALSE, expired |-> FALSE]
  <2>1. /\ DOMAIN row = {"email", "used", "expired"}
        /\ row.used \in BOOLEAN /\ row.expired \in BOOLEAN
    OBVIOUS
  <2>2. /\ Moves(c, Idle) /\ call[c].at = "token" /\ l \notin DOMAIN link
        /\ dead' = dead \cup call[c].known /\ link' = WithRow(link, l, row)
    BY <1>10 DEF ForgotInserts, Answers
  <2>3. \A k \in call[c].known : k \in DOMAIN link /\ link[k].used = TRUE
    BY <2>2 DEF LinkInv, CallSound
  <2> HIDE DEF row
  <2>4. /\ DOMAIN link' = DOMAIN link \cup {l} /\ link'[l] = row
        /\ \A k \in DOMAIN link : link'[k] = link[k]
    BY <2>2 DEF WithRow
  <2>5. LinksOnlySpent /\ LinksOK' /\ DeadAreSpent'
    BY <2>1, <2>2, <2>3, <2>4 DEF LinkInv, LinksOnlySpent, LinksOK, DeadAreSpent
  <2>6. CallSound(c)'
    BY <2>2, IdleWhole DEF CallSound, Moves, LinkInv, CallsOK
  <2>7. QED
    BY <2>2, <2>5, <2>6, IdleWhole, OneCallMoves
<1>11. ASSUME NEW c \in Calls, NEW l, NEW p, ResetReads(c, l, p) PROVE LinkInv'
  <2> DEFINE late == l \in dead
             to == [Idle EXCEPT !.at = "hash", !.email = link[l].email, !.link = l,
                                !.password = p, !.late = late]
  <2>1. l \notin dead
    BY <1>11 DEF ResetReads, LinkInv, LinksOK, DeadAreSpent, Usable
  <2>2. Moves(c, to) /\ UNCHANGED <<link, dead>> /\ l \in DOMAIN link
    BY <1>11 DEF ResetReads
  <2>8. late = FALSE
    BY <2>1
  <2> HIDE DEF late
  <2>4. Whole(to) /\ to.at = "hash" /\ to.link = l /\ to.late = FALSE
    BY <2>8, IdleWhole DEF Whole
  <2> HIDE DEF to
  <2>3. call'[c] = to
    BY <2>2 DEF Moves, LinkInv, CallsOK
  <2>5. CallSound(c)'
    BY <2>2, <2>3, <2>4 DEF CallSound
  <2>6. LinksOnlySpent /\ LinksOK' /\ DeadAreSpent'
    BY <2>2 DEF LinkInv, LinksOnlySpent, LinksOK, DeadAreSpent
  <2>7. QED
    BY <2>2, <2>4, <2>5, <2>6, OneCallMoves
<1>12. ASSUME NEW c \in Calls, ResetCommits(c) PROVE LinkInv'
  <2> DEFINE l == call[c].link
  <2>1. /\ Moves(c, Idle) /\ call[c].at = "hash" /\ dead' = dead \cup {l}
        /\ link' = [link EXCEPT ![l].used = TRUE]
    BY <1>12 DEF ResetCommits, Answers
  <2>2. l \in DOMAIN link
    BY <2>1 DEF LinkInv, CallSound
  <2> HIDE DEF l
  <2>3. /\ DOMAIN link' = DOMAIN link
        /\ \A k \in DOMAIN link \ {l} : link'[k] = link[k]
        /\ DOMAIN link'[l] = DOMAIN link[l] /\ link'[l].email = link[l].email
        /\ link'[l].used = TRUE /\ link'[l].expired = link[l].expired
    BY <2>1, <2>2 DEF LinkInv, LinksOK
  <2>4. LinksOnlySpent /\ LinksOK' /\ DeadAreSpent'
    BY <2>1, <2>2, <2>3 DEF LinkInv, LinksOnlySpent, LinksOK, DeadAreSpent
  <2>5. CallSound(c)'
    BY <2>1, IdleWhole DEF CallSound, Moves, LinkInv, CallsOK
  <2>6. QED
    BY <2>1, <2>4, <2>5, IdleWhole, OneCallMoves
<1>13. QED
  BY <1>1, <1>2, <1>3, <1>4, <1>5, <1>6, <1>7, <1>8, <1>9, <1>10, <1>11, <1>12 DEF AccountsNext

\* Tills that register move a call, but read no link.
LEMMA ProvisionKeeps ==
    ASSUME LinkInv, ProvisionStep
    PROVE  LinkInv'
<1>1. CASE UNCHANGED <<call, link, dead>>
  BY <1>1 DEF LinkInv, CallsOK, LinksOK, DeadAreSpent, CallSound
<1>2. ASSUME NEW c \in Calls, NEW e, NEW p, EposFindsEmail(c, e, p) PROVE LinkInv'
  <2> DEFINE to == [Idle EXCEPT !.at = "eposTenant", !.email = e, !.password = p]
  <2>1. Whole(to) /\ to.at = "eposTenant"
    BY IdleWhole DEF Whole
  <2>2. Moves(c, to) /\ UNCHANGED <<link, dead>>
    BY <1>2 DEF EposFindsEmail
  <2> HIDE DEF to
  <2>3. QED
    BY <2>1, <2>2, HarmlessMove
<1>3. ASSUME NEW c \in Calls, NEW t, EposMakesTenant(c, t) PROVE LinkInv'
  <2> DEFINE to == [call[c] EXCEPT !.at = "eposUser", !.tenant = t]
  <2>1. Whole(to) /\ to.at = "eposUser"
    BY DEF Whole, LinkInv, CallsOK
  <2>2. Moves(c, to) /\ UNCHANGED <<link, dead>>
    BY <1>3 DEF EposMakesTenant
  <2> HIDE DEF to
  <2>3. QED
    BY <2>1, <2>2, HarmlessMove
<1>4. ASSUME NEW c \in Calls, EposMakesUser(c) PROVE LinkInv'
  <2> DEFINE to == [call[c] EXCEPT !.at = "eposChannel"]
  <2>1. Whole(to) /\ to.at = "eposChannel"
    BY DEF Whole, LinkInv, CallsOK
  <2>2. (Moves(c, Idle) \/ Moves(c, to)) /\ UNCHANGED <<link, dead>>
    BY <1>4 DEF EposMakesUser, Answers
  <2> HIDE DEF to
  <2>3. QED
    BY <2>1, <2>2, IdleWhole, HarmlessMove
<1>5. ASSUME NEW c \in Calls, NEW i, EposMakesChannel(c, i) PROVE LinkInv'
  <2>1. Moves(c, Idle) /\ UNCHANGED <<link, dead>>
    BY <1>5 DEF EposMakesChannel, Answers
  <2>2. QED
    BY <2>1, IdleWhole, HarmlessMove
<1>6. QED
  BY <1>1, <1>2, <1>3, <1>4, <1>5 DEF ProvisionStep, InstallMakesTenant, InstallMakesOwner

LEMMA NextKeepsLinks ==
    ASSUME LinkInv, [Next]_vars
    PROVE  LinkInv'
<1>1. CASE UNCHANGED accountVars
  BY <1>1 DEF accountVars, LinkInv, CallsOK, LinksOK, DeadAreSpent, CallSound
<1>2. QED
  BY <1>1, AccountStepKeeps, ProvisionKeeps DEF Next, ShopsNext, vars

\* However requests for links, resets, registrations and logins overlap, a request
\* to reset a password never begins with a link that was spent by an answered
\* reset, had expired, or was superseded by a later link that was answered.
THEOREM DeadLinksNeverUsed == Spec => []DeadLinksStayDead
<1>1. Init => LinkInv
  BY IdleWhole DEF Init, AccountsInit, LinkInv, CallsOK, Whole, LinksOK, DeadAreSpent, CallSound
<1>2. LinkInv => DeadLinksStayDead
  BY DEF LinkInv, CallSound, DeadLinksStayDead
<1>3. QED
  BY <1>1, <1>2, NextKeepsLinks, PTL DEF Spec

-----------------------------------------------------------------------------
(* A removed app.  RemovedAppIsQuiet holds because whoever is under way for *)
(* a site took the site out of removed when it began, and because a channel *)
(* a handler found is still of the handler's site when it writes, unless it *)
(* has gone: an id is never given to another row.                           *)

ChannelsQuiet ==
    \A x \in DOMAIN channel :
        /\ DOMAIN channel[x] = {"tenant", "type", "instance", "active", "flow"}
        /\ channel[x].type = "wix" /\ channel[x].instance \in removed => channel[x].active = FALSE

GoneApart == \A x \in gone.channel : x \notin DOMAIN channel

HandlerKeys(r) == DOMAIN r = {"at", "tenant", "instance", "flow", "type", "found"}

HandlerSound(h) ==
    /\ HandlerKeys(handler[h])
    /\ handler[h].at # "idle" => handler[h].instance \notin removed
    /\ handler[h].at = "write" /\ handler[h].found # NoChannel =>
          /\ handler[h].found \in DOMAIN channel \cup gone.channel
          /\ handler[h].found \in DOMAIN channel =>
                channel[handler[h].found].instance = handler[h].instance

QuietInv == ChannelsQuiet /\ GoneApart /\ DOMAIN handler = Handlers /\ \A h \in Handlers : HandlerSound(h)

\* What every step does to the channels: they keep their instance, or go for good.
ChannelsKeep ==
    /\ \A x \in DOMAIN channel :
          \/ x \in DOMAIN channel' /\ channel'[x].instance = channel[x].instance
          \/ x \notin DOMAIN channel' /\ x \in gone'.channel
    /\ gone.channel \subseteq gone'.channel

LEMMA RestingKeys == HandlerKeys(Resting) /\ Resting.at = "idle"
BY DEF HandlerKeys, Resting

LEMMA OthersStay ==
    ASSUME QuietInv, ChannelsKeep, GoneApart', NEW h \in Handlers, handler'[h] = handler[h],
           handler[h].at # "idle" => handler[h].instance \notin removed'
    PROVE  HandlerSound(h)'
BY DEF QuietInv, HandlerSound, ChannelsKeep, GoneApart

\* A step that moves one handler has that handler alone to answer for.
LEMMA OneHandlerMoves ==
    ASSUME QuietInv, ChannelsKeep, GoneApart', ChannelsQuiet', removed' \subseteq removed,
           NEW h \in Handlers, NEW to, Goes(h, to), HandlerSound(h)'
    PROVE  QuietInv'
<1>1. DOMAIN handler' = Handlers /\ \A o \in Handlers \ {h} : handler'[o] = handler[o]
  BY DEF QuietInv, Goes
<1>2. \A o \in Handlers \ {h} : handler[o].at # "idle" => handler[o].instance \notin removed'
  BY DEF QuietInv, HandlerSound
<1>3. \A o \in Handlers \ {h} : HandlerSound(o)'
  BY <1>1, <1>2, OthersStay
<1>4. QED
  BY <1>1, <1>3 DEF QuietInv

LEMMA NoHandlerMoves ==
    ASSUME QuietInv, ChannelsKeep, GoneApart', ChannelsQuiet', UNCHANGED handler,
           \A h \in Handlers : handler[h].at # "idle" => handler[h].instance \notin removed'
    PROVE  QuietInv'
BY OthersStay DEF QuietInv

\* A row is inserted, active, for an instance that is not removed.
LEMMA NewRow ==
    ASSUME QuietInv, NEW t, NEW type, NEW i, NEW f, Inserts(Row(t, type, i, f)), Retires,
           removed' \subseteq removed, type = "wix" => i \notin removed'
    PROVE  ChannelsKeep /\ GoneApart' /\ ChannelsQuiet'
<1> DEFINE row == Row(t, type, i, f)
<1>1. PICK x \in Unused : channel' = WithRow(channel, x, row)
  BY DEF Inserts
<1>2. DOMAIN row = {"tenant", "type", "instance", "active", "flow"} /\ row.type = type /\ row.instance = i
  BY DEF Row
<1> HIDE DEF row
<1>3. /\ DOMAIN channel' = DOMAIN channel \cup {x} /\ channel'[x] = row
      /\ \A y \in DOMAIN channel : channel'[y] = channel[y]
  BY <1>1 DEF WithRow, Unused
<1>4. gone.channel \subseteq gone'.channel /\ gone'.channel \cap DOMAIN channel' = {}
  BY <1>1, <1>3 DEF Retires, Unused, QuietInv, GoneApart, Lost
<1>5. QED
  BY <1>2, <1>3, <1>4 DEF QuietInv, ChannelsKeep, GoneApart, ChannelsQuiet

\* Rows stay as they are, or go.
LEMMA RowsGo ==
    ASSUME QuietInv, NEW S \in SUBSET DOMAIN channel, channel' = Restrict(channel, S), Retires,
           removed' \subseteq removed
    PROVE  ChannelsKeep /\ GoneApart' /\ ChannelsQuiet'
BY DEF Restrict, Retires, Lost, QuietInv, GoneApart, ChannelsKeep, ChannelsQuiet

\* Rows are rewritten in place, switched off or on.
LEMMA RowsSwitched ==
    ASSUME QuietInv, Retires, DOMAIN channel' = DOMAIN channel, removed' \subseteq removed,
           \A x \in DOMAIN channel :
              /\ DOMAIN channel'[x] = DOMAIN channel[x] /\ channel'[x].type = channel[x].type
              /\ channel'[x].instance = channel[x].instance
              /\ channel'[x].active = channel[x].active \/ channel[x].instance \notin removed'
    PROVE  ChannelsKeep /\ GoneApart' /\ ChannelsQuiet'
BY DEF Retires, Lost, QuietInv, GoneApart, ChannelsKeep, ChannelsQuiet

LEMMA RowsStay ==
    ASSUME QuietInv, Retires, UNCHANGED channel, removed' \subseteq removed
    PROVE  ChannelsKeep /\ GoneApart' /\ ChannelsQuiet'
BY DEF Retires, Lost, QuietInv, GoneApart, ChannelsKeep, ChannelsQuiet

\* A step of the signed-in user that no handler takes part in.
LEMMA UserStep ==
    ASSUME QuietInv, UNCHANGED handler, removed' \subseteq removed,
           ChannelsKeep, GoneApart', ChannelsQuiet'
    PROVE  QuietInv'
BY NoHandlerMoves DEF QuietInv, HandlerSound

\* A handler that begins, for an instance that it takes out of removed.
LEMMA Starts ==
    ASSUME QuietInv, Retires, UNCHANGED channel, NEW h \in Handlers, NEW to, Goes(h, to),
           HandlerKeys(to), removed' = removed \ {to.instance},
           to.at = "write" /\ to.found # NoChannel =>
              to.found \in DOMAIN channel /\ channel[to.found].instance = to.instance
    PROVE  QuietInv'
<1>1. handler'[h] = to
  BY DEF Goes, QuietInv
<1>2. HandlerSound(h)'
  BY <1>1 DEF HandlerSound
<1>3. QED
  BY <1>2, RowsStay, OneHandlerMoves

\* A handler that goes on to anything but "write", of the same instance.
LEMMA GoesOn ==
    ASSUME QuietInv, Retires, UNCHANGED <<channel, removed>>, NEW h \in Handlers, NEW to, Goes(h, to),
           HandlerKeys(to), handler[h].at # "idle", to.at # "write", to.instance = handler[h].instance
    PROVE  QuietInv'
<1>1. handler'[h] = to
  BY DEF Goes, QuietInv
<1>2. HandlerSound(h)'
  BY <1>1 DEF HandlerSound, QuietInv
<1>3. QED
  BY <1>2, RowsStay, OneHandlerMoves

\* A handler that ends.
LEMMA Ends ==
    ASSUME QuietInv, NEW h \in Handlers, Rests(h), UNCHANGED removed,
           ChannelsKeep, GoneApart', ChannelsQuiet'
    PROVE  QuietInv'
<1>1. handler'[h] = Resting
  BY DEF Rests, Goes, QuietInv
<1>2. HandlerSound(h)'
  BY <1>1, RestingKeys DEF HandlerSound
<1>3. QED
  BY <1>2, OneHandlerMoves DEF Rests

LEMMA ChannelRoutesKeepQuiet ==
    ASSUME QuietInv, Retires, NEW t,
           \/ \E type \in Types, i \in Instances \cup {NoInstance} : CreateChannel(t, type, i)
           \/ \E x \in DOMAIN channel :
                \/ \E active \in BOOLEAN : PatchChannel(t, x, active)
                \/ DeleteChannel(t, x)
           \/ \E f \in Flows : OAuthStart(f, t) \/ StateExpires(f)
           \/ \E i \in Instances : EposConnect(t, i)
    PROVE  QuietInv'
<1>1. ASSUME NEW type, NEW i, CreateChannel(t, type, i) PROVE QuietInv'
  <2>1. /\ Inserts(Row(t, type, i, NoFlow)) /\ removed' = removed \ {i} /\ UNCHANGED handler
    BY <1>1 DEF CreateChannel, Revives
  <2>2. QED
    BY <2>1, NewRow, UserStep
<1>2. ASSUME NEW i, EposConnect(t, i) PROVE QuietInv'
  <2>1. /\ Inserts(Row(t, "eposnow", i, NoFlow)) /\ UNCHANGED <<removed, handler>>
    BY <1>2 DEF EposConnect
  <2>2. QED
    BY <2>1, NewRow, UserStep
<1>3. ASSUME NEW x \in DOMAIN channel, NEW active, PatchChannel(t, x, active) PROVE QuietInv'
  <2>1. /\ channel' = [channel EXCEPT ![x].active = active] /\ removed' = removed \ {channel[x].instance}
        /\ UNCHANGED handler
    BY <1>3 DEF PatchChannel, Revives
  <2>2. \A y \in DOMAIN channel :
            /\ DOMAIN channel'[y] = DOMAIN channel[y] /\ channel'[y].type = channel[y].type
            /\ channel'[y].instance = channel[y].instance
            /\ channel'[y].active = channel[y].active \/ channel[y].instance \notin removed'
    BY <2>1 DEF QuietInv, ChannelsQuiet
  <2>3. QED
    BY <2>1, <2>2, RowsSwitched, UserStep
<1>4. ASSUME NEW x, DeleteChannel(t, x) PROVE QuietInv'
  BY <1>4, RowsGo, UserStep DEF DeleteChannel
<1>5. ASSUME NEW f, OAuthStart(f, t) \/ StateExpires(f) PROVE QuietInv'
  BY <1>5, RowsStay, UserStep DEF OAuthStart, StateExpires
<1>6. QED
  BY <1>1, <1>2, <1>3, <1>4, <1>5

LEMMA OAuthKeepsQuiet ==
    ASSUME QuietInv, Retires, NEW h \in Handlers,
           \/ \E f \in Flows, type \in Providers, i \in Instances \cup {NoInstance} :
                CallbackChecks(h, f, type, i)
           \/ CallbackTakes(h) \/ CallbackInserts(h) \/ HandlerFails(h)
    PROVE  QuietInv'
<1>1. ASSUME NEW f, NEW type, NEW i, CallbackChecks(h, f, type, i) PROVE QuietInv'
  <2> DEFINE to == [Resting EXCEPT !.at = "take", !.flow = f, !.type = type, !.instance = i]
  <2>1. HandlerKeys(to) /\ to.at = "take" /\ to.instance = i
    BY RestingKeys DEF HandlerKeys
  <2>2. Goes(h, to) /\ removed' = removed \ {i} /\ UNCHANGED channel
    BY <1>1 DEF CallbackChecks, Revives
  <2> HIDE DEF to
  <2>3. QED
    BY <2>1, <2>2, Starts
<1>2. ASSUME CallbackTakes(h) PROVE QuietInv'
  <2> DEFINE of == IF handler[h].flow \in DOMAIN oauth THEN oauth[handler[h].flow] ELSE NoTenant
             to == [handler[h] EXCEPT !.at = "exchange", !.tenant = of]
  <2>1. HandlerKeys(to) /\ to.at = "exchange" /\ to.instance = handler[h].instance
    BY DEF QuietInv, HandlerSound, HandlerKeys
  <2>2. Goes(h, to) /\ handler[h].at = "take" /\ UNCHANGED <<channel, removed>>
    BY <1>2 DEF CallbackTakes
  <2> HIDE DEF to
  <2>3. QED
    BY <2>1, <2>2, GoesOn
<1>3. ASSUME CallbackInserts(h) PROVE QuietInv'
  <2> DEFINE r == handler[h]
  <2>1. /\ r.at = "exchange" /\ Rests(h) /\ UNCHANGED removed
        /\ UNCHANGED channel \/ Inserts(Row(r.tenant, r.type, r.instance, r.flow))
    BY <1>3 DEF CallbackInserts, WixCallback, ShopifyCallback, UberEatsCallback, Connected
  <2>2. r.instance \notin removed
    BY <2>1 DEF QuietInv, HandlerSound
  <2> HIDE DEF r
  <2>3. ChannelsKeep /\ GoneApart' /\ ChannelsQuiet'
    BY <2>1, <2>2, NewRow, RowsStay
  <2>4. QED
    BY <2>1, <2>3, Ends
<1>4. ASSUME HandlerFails(h) PROVE QuietInv'
  BY <1>4, RowsStay, Ends DEF HandlerFails
<1>5. QED
  BY <1>1, <1>2, <1>3, <1>4

LEMMA WixKeepsQuiet ==
    ASSUME QuietInv, Retires, NEW h \in Handlers,
           \/ \E t \in tenants, i \in Instances : BasicAuthFinds(h, t, i)
           \/ \E i \in Instances : InstallFinds(h, i)
           \/ BasicAuthWrites(h) \/ InstallMakesChannel(h)
    PROVE  QuietInv'
<1>1. ASSUME NEW t, NEW i, BasicAuthFinds(h, t, i) PROVE QuietInv'
  <2> DEFINE new == [Resting EXCEPT !.at = "write", !.tenant = t, !.instance = i]
             old(x) == [Resting EXCEPT !.at = "write", !.tenant = t, !.instance = i, !.found = x]
  <2>1. HandlerKeys(new) /\ new.instance = i /\ new.found = NoChannel
    BY RestingKeys DEF HandlerKeys, Resting
  <2>2. ASSUME NEW x PROVE HandlerKeys(old(x)) /\ old(x).instance = i /\ old(x).found = x
    BY RestingKeys DEF HandlerKeys
  <2>3. /\ removed' = removed \ {i} /\ UNCHANGED channel
        /\ Goes(h, new) \/ \E x \in WixChannels(i) : Goes(h, old(x))
    BY <1>1 DEF BasicAuthFinds, Revives
  <2> HIDE DEF new, old
  <2>4. CASE Goes(h, new)
    BY <2>1, <2>3, <2>4, Starts
  <2>5. ASSUME NEW x \in WixChannels(i), Goes(h, old(x)) PROVE QuietInv'
    <3>1. x \in DOMAIN channel /\ channel[x].instance = i
      BY DEF WixChannels
    <3>2. QED
      BY <2>2, <2>3, <2>5, <3>1, Starts
  <2>6. QED
    BY <2>3, <2>4, <2>5
<1>2. ASSUME NEW i, InstallFinds(h, i) PROVE QuietInv'
  <2> DEFINE new == [Resting EXCEPT !.at = "site", !.instance = i]
             old(x) == [Resting EXCEPT !.at = "write", !.instance = i, !.found = x]
  <2>1. HandlerKeys(new) /\ new.instance = i /\ new.at = "site"
    BY RestingKeys DEF HandlerKeys
  <2>2. ASSUME NEW x PROVE HandlerKeys(old(x)) /\ old(x).instance = i /\ old(x).found = x
    BY RestingKeys DEF HandlerKeys
  <2>3. /\ removed' = removed \ {i} /\ UNCHANGED channel
        /\ Goes(h, new) \/ \E x \in WixChannels(i) : Goes(h, old(x))
    BY <1>2 DEF InstallFinds, Revives
  <2> HIDE DEF new, old
  <2>4. CASE Goes(h, new)
    BY <2>1, <2>3, <2>4, Starts
  <2>5. ASSUME NEW x \in WixChannels(i), Goes(h, old(x)) PROVE QuietInv'
    <3>1. x \in DOMAIN channel /\ channel[x].instance = i
      BY DEF WixChannels
    <3>2. QED
      BY <2>2, <2>3, <2>5, <3>1, Starts
  <2>6. QED
    BY <2>3, <2>4, <2>5
<1>3. ASSUME BasicAuthWrites(h) PROVE QuietInv'
  <2> DEFINE r == handler[h]
  <2>1. r.at = "write" /\ Rests(h) /\ UNCHANGED removed
    BY <1>3 DEF BasicAuthWrites
  <2>2. r.instance \notin removed
    BY <2>1 DEF QuietInv, HandlerSound
  <2>3. CASE r.found = NoChannel
    <3>1. Inserts(Row(r.tenant, "wix", r.instance, NoFlow))
      BY <1>3, <2>3 DEF BasicAuthWrites
    <3> HIDE DEF r
    <3>2. QED
      BY <2>1, <2>2, <3>1, NewRow, Ends
  <2>4. CASE r.found # NoChannel
    <3>1. channel' = [x \in DOMAIN channel |->
                        IF x = r.found THEN [channel[x] EXCEPT !.active = TRUE] ELSE channel[x]]
      BY <1>3, <2>4 DEF BasicAuthWrites
    <3>2. r.found \in DOMAIN channel => channel[r.found].instance = r.instance
      BY <2>1, <2>4 DEF QuietInv, HandlerSound
    <3> HIDE DEF r
    <3>3. /\ DOMAIN channel' = DOMAIN channel
          /\ \A y \in DOMAIN channel :
              /\ DOMAIN channel'[y] = DOMAIN channel[y] /\ channel'[y].type = channel[y].type
              /\ channel'[y].instance = channel[y].instance
              /\ channel'[y].active = channel[y].active \/ channel[y].instance \notin removed'
      BY <2>1, <2>2, <3>1, <3>2 DEF QuietInv, ChannelsQuiet
    <3>4. QED
      BY <2>1, <3>3, RowsSwitched, Ends
  <2>5. QED
    BY <2>3, <2>4
<1>4. ASSUME InstallMakesChannel(h) PROVE QuietInv'
  <2> DEFINE r == handler[h]
  <2>1. r.at = "insert" /\ Rests(h) /\ UNCHANGED removed /\ Inserts(Row(r.tenant, "wix", r.instance, NoFlow))
    BY <1>4 DEF InstallMakesChannel
  <2>2. r.instance \notin removed
    BY <2>1 DEF QuietInv, HandlerSound
  <2> HIDE DEF r
  <2>3. QED
    BY <2>1, <2>2, NewRow, Ends
<1>5. QED
  BY <1>1, <1>2, <1>3, <1>4

LEMMA ProvisionKeepsQuiet ==
    ASSUME QuietInv, Retires, ProvisionStep
    PROVE  QuietInv'
<1>1. ASSUME NEW h \in Handlers, NEW t, InstallMakesTenant(h, t) PROVE QuietInv'
  <2> DEFINE to == [handler[h] EXCEPT !.at = "owner", !.tenant = t]
  <2>1. HandlerKeys(to) /\ to.at = "owner" /\ to.instance = handler[h].instance
    BY DEF QuietInv, HandlerSound, HandlerKeys
  <2>2. Goes(h, to) /\ handler[h].at = "site" /\ UNCHANGED <<channel, removed>>
    BY <1>1 DEF InstallMakesTenant
  <2> HIDE DEF to
  <2>3. QED
    BY <2>1, <2>2, GoesOn
<1>2. ASSUME NEW h \in Handlers, NEW e, InstallMakesOwner(h, e) PROVE QuietInv'
  <2> DEFINE to == [handler[h] EXCEPT !.at = "insert"]
  <2>1. HandlerKeys(to) /\ to.at = "insert" /\ to.instance = handler[h].instance
    BY DEF QuietInv, HandlerSound, HandlerKeys
  <2>2. Goes(h, to) /\ handler[h].at = "owner" /\ UNCHANGED <<channel, removed>>
    BY <1>2 DEF InstallMakesOwner
  <2> HIDE DEF to
  <2>3. QED
    BY <2>1, <2>2, GoesOn
<1>3. ASSUME NEW c, NEW e, NEW p, EposFindsEmail(c, e, p) PROVE QuietInv'
  BY <1>3, RowsStay, UserStep DEF EposFindsEmail
<1>4. ASSUME NEW c, NEW t, EposMakesTenant(c, t) PROVE QuietInv'
  BY <1>4, RowsStay, UserStep DEF EposMakesTenant, shopVars
<1>5. ASSUME NEW c, EposMakesUser(c) PROVE QuietInv'
  BY <1>5, RowsStay, UserStep DEF EposMakesUser, shopVars
<1>6. ASSUME NEW c, NEW i, EposMakesChannel(c, i) PROVE QuietInv'
  <2>1. /\ UNCHANGED <<handler, removed>>
        /\ Inserts(Row(call[c].tenant, "eposnow", i, NoFlow))
    BY <1>6 DEF EposMakesChannel
  <2>2. QED
    BY <2>1, NewRow, UserStep
<1>7. QED
  BY <1>1, <1>2, <1>3, <1>4, <1>5, <1>6 DEF ProvisionStep

\* The removal itself: nobody may be under way for the site.
LEMMA UninstallKeepsQuiet ==
    ASSUME QuietInv, Retires, NEW i, Uninstall(i)
    PROVE  QuietInv'
<1>1. /\ DOMAIN channel' = DOMAIN channel
      /\ \A y \in DOMAIN channel :
          /\ DOMAIN channel'[y] = DOMAIN channel[y] /\ channel'[y].type = channel[y].type
          /\ channel'[y].instance = channel[y].instance
          /\ channel[y].type = "wix" /\ channel[y].instance = i => channel'[y].active = FALSE
          /\ channel'[y].active \in {channel[y].active, FALSE}
  BY DEF Uninstall, WixChannels, QuietInv, ChannelsQuiet
<1>2. UNCHANGED handler /\ removed' = IF Busy(i) THEN removed ELSE removed \cup {i}
  BY DEF Uninstall
<1>3. \A h \in Handlers : handler[h].at # "idle" => handler[h].instance \notin removed'
  BY <1>2 DEF Busy, QuietInv, HandlerSound
<1>4. ChannelsKeep /\ GoneApart'
  BY <1>1 DEF Retires, Lost, QuietInv, GoneApart, ChannelsKeep
<1>5. ChannelsQuiet'
  BY <1>1, <1>2 DEF QuietInv, ChannelsQuiet
<1>6. QED
  BY <1>2, <1>3, <1>4, <1>5, NoHandlerMoves

LEMMA NextKeepsQuiet ==
    ASSUME QuietInv, [Next]_vars
    PROVE  QuietInv'
<1>1. CASE UNCHANGED vars
  BY <1>1 DEF vars, shopVars, QuietInv, ChannelsQuiet, GoneApart, HandlerSound
<1>2. ASSUME UNCHANGED shopVars, Retires PROVE QuietInv'
  BY <1>2, RowsStay, UserStep DEF shopVars
<1>3. ASSUME ShopsNext, Retires PROVE QuietInv'
  <2>1. ASSUME NEW i, UninstallFails(i) PROVE QuietInv'
    BY <1>3, <2>1, RowsStay, UserStep DEF UninstallFails
  <2>2. QED
    BY <1>3, <2>1, ChannelRoutesKeepQuiet, OAuthKeepsQuiet, WixKeepsQuiet, ProvisionKeepsQuiet,
       UninstallKeepsQuiet DEF ShopsNext, ShopsStep
<1>4. QED
  BY <1>1, <1>2, <1>3 DEF Next

\* Once the app was removed from a Wix site, with nothing under way for the site
\* then and nothing begun for it since, no channel of the site is active and the
\* dashboard shows none: for any number of sites, handlers and tenants.
THEOREM RemovedAppStaysQuiet == Spec => []RemovedAppIsQuiet
<1>1. Init => QuietInv
  BY RestingKeys DEF Init, ShopsInit, QuietInv, ChannelsQuiet, GoneApart, HandlerSound
<1>2. QuietInv => RemovedAppIsQuiet
  BY DEF QuietInv, ChannelsQuiet, RemovedAppIsQuiet, DashboardShops, WixChannels
<1>3. QED
  BY <1>1, <1>2, NextKeepsQuiet, PTL DEF Spec

-----------------------------------------------------------------------------
(* OAuth flows.  A state that is still in Redis has made no channel, and    *)
(* of the callbacks that took it one alone holds the tenant's data.         *)

StatesUnspent ==
    \A f \in DOMAIN oauth : f \in DOMAIN starter /\ oauth[f] = starter[f] /\ made[f] = 0

Holds(h, f) == handler[h].at = "exchange" /\ handler[h].tenant # NoTenant /\ handler[h].flow = f

CallbackSound(h) ==
    /\ handler[h].at \in {"take", "exchange"} =>
          handler[h].flow \in DOMAIN starter /\ handler[h].flow \in Flows
    /\ handler[h].at = "exchange" /\ handler[h].tenant # NoTenant =>
          /\ handler[h].tenant = starter[handler[h].flow]
          /\ handler[h].flow \notin DOMAIN oauth /\ made[handler[h].flow] = 0

OneHolds == \A f \in Flows : \A g, h \in Handlers : Holds(g, f) /\ Holds(h, f) => g = h

ChannelsTrace ==
    \A x \in DOMAIN channel : \A f \in Flows : channel[x].flow = f =>
        f \in DOMAIN starter /\ channel[x].tenant = starter[f]

MadeOK ==
    /\ DOMAIN made = Flows
    /\ \A f \in Flows : made[f] \in {0, 1} /\ (f \notin DOMAIN starter => made[f] = 0)

FlowInv == MadeOK /\ StatesUnspent /\ OneHolds /\ ChannelsTrace /\ \A h \in Handlers : CallbackSound(h)

\* What every step but a flow's own does.
RowsTrace ==
    \A x \in DOMAIN channel' :
        \/ channel'[x].flow \notin Flows
        \/ /\ x \in DOMAIN channel /\ channel'[x].flow = channel[x].flow
           /\ channel'[x].tenant = channel[x].tenant

Elsewhere ==
    \A h \in Handlers : handler'[h] = handler[h] \/ handler'[h].at \notin {"take", "exchange"}

LEMMA OtherSteps ==
    ASSUME FlowInv, UNCHANGED <<oauth, starter, made>>, RowsTrace, Elsewhere
    PROVE  FlowInv'
<1>1. MadeOK' /\ StatesUnspent'
  BY DEF FlowInv, MadeOK, StatesUnspent
<1>2. ChannelsTrace'
  BY DEF FlowInv, ChannelsTrace, RowsTrace
<1>3. OneHolds'
  BY DEF FlowInv, OneHolds, Holds, Elsewhere
<1>4. \A h \in Handlers : CallbackSound(h)'
  BY DEF FlowInv, CallbackSound, Elsewhere
<1>5. QED
  BY <1>1, <1>2, <1>3, <1>4 DEF FlowInv

LEMMA InsertedTraces ==
    ASSUME QuietInv, NEW t, NEW type, NEW i, Inserts(Row(t, type, i, NoFlow))
    PROVE  RowsTrace
<1> DEFINE row == Row(t, type, i, NoFlow)
<1>1. PICK x \in Unused : channel' = WithRow(channel, x, row)
  BY DEF Inserts
<1>2. row.flow \notin Flows
  BY ShopAssumption DEF Row
<1> HIDE DEF row
<1>3. QED
  BY <1>1, <1>2 DEF WithRow, RowsTrace

LEMMA FewerTrace ==
    ASSUME NEW S \in SUBSET DOMAIN channel, channel' = Restrict(channel, S)
    PROVE  RowsTrace
BY DEF Restrict, RowsTrace

LEMMA MovedElsewhere ==
    ASSUME QuietInv, NEW h \in Handlers, NEW to, Goes(h, to), to.at \notin {"take", "exchange"}
    PROVE  Elsewhere
BY DEF Goes, QuietInv, Elsewhere

LEMMA StartKeepsFlows ==
    ASSUME FlowInv, NEW f \in Flows, NEW t, OAuthStart(f, t)
    PROVE  FlowInv'
<1>1. oauth' = WithRow(oauth, f, t) /\ f \notin DOMAIN starter /\ starter' = WithRow(starter, f, t)
  BY DEF OAuthStart, SetOAuthState
<1>2. UNCHANGED <<channel, handler, made>>
  BY DEF OAuthStart
<1>5. /\ DOMAIN oauth' = DOMAIN oauth \cup {f} /\ oauth'[f] = t
      /\ \A g \in DOMAIN oauth \ {f} : oauth'[g] = oauth[g]
      /\ DOMAIN starter' = DOMAIN starter \cup {f} /\ starter'[f] = t
      /\ \A g \in DOMAIN starter : starter'[g] = starter[g]
  BY <1>1 DEF WithRow
<1>6. MadeOK' /\ StatesUnspent'
  BY <1>1, <1>2, <1>5 DEF FlowInv, MadeOK, StatesUnspent
<1>7. OneHolds'
  BY <1>2 DEF FlowInv, OneHolds, Holds
<1>8. ChannelsTrace'
  BY <1>2, <1>5 DEF FlowInv, ChannelsTrace
<1>9. ASSUME NEW h \in Handlers PROVE CallbackSound(h)'
  BY <1>1, <1>2, <1>5 DEF FlowInv, CallbackSound
<1>10. QED
  BY <1>6, <1>7, <1>8, <1>9 DEF FlowInv

LEMMA ExpiryKeepsFlows ==
    ASSUME FlowInv, NEW f, StateExpires(f)
    PROVE  FlowInv'
<1>1. /\ DOMAIN oauth' = DOMAIN oauth \ {f} /\ \A g \in DOMAIN oauth' : oauth'[g] = oauth[g]
      /\ UNCHANGED <<channel, handler, starter, made>>
  BY DEF StateExpires, Restrict
<1>2. QED
  BY <1>1 DEF FlowInv, MadeOK, StatesUnspent, OneHolds, Holds, ChannelsTrace, CallbackSound

LEMMA CallbackKeepsFlows ==
    ASSUME QuietInv, FlowInv, NEW h \in Handlers,
           \/ \E f \in Flows, type \in Providers, i \in Instances \cup {NoInstance} :
                CallbackChecks(h, f, type, i)
           \/ CallbackTakes(h) \/ CallbackInserts(h)
    PROVE  FlowInv'
<1>0. DOMAIN handler = Handlers /\ HandlerKeys(handler[h])
  BY DEF QuietInv, HandlerSound
<1>1. ASSUME NEW f \in Flows, NEW type, NEW i, CallbackChecks(h, f, type, i) PROVE FlowInv'
  <2> DEFINE to == [Resting EXCEPT !.at = "take", !.flow = f, !.type = type, !.instance = i]
  <2>1. to.at = "take" /\ to.flow = f
    BY RestingKeys DEF HandlerKeys
  <2>2. Goes(h, to) /\ f \in DOMAIN oauth /\ UNCHANGED <<channel, oauth, starter, made>>
    BY <1>1 DEF CallbackChecks
  <2> HIDE DEF to
  <2>3. handler'[h] = to /\ \A g \in Handlers \ {h} : handler'[g] = handler[g]
    BY <2>2, <1>0 DEF Goes
  <2>4. MadeOK' /\ StatesUnspent' /\ ChannelsTrace'
    BY <2>2 DEF FlowInv, MadeOK, StatesUnspent, ChannelsTrace
  <2>5. OneHolds'
    BY <2>1, <2>3 DEF FlowInv, OneHolds, Holds
  <2>6. \A g \in Handlers : CallbackSound(g)'
    BY <2>1, <2>2, <2>3 DEF FlowInv, StatesUnspent, CallbackSound
  <2>7. QED
    BY <2>4, <2>5, <2>6 DEF FlowInv
<1>2. ASSUME CallbackTakes(h) PROVE FlowInv'
  <2> DEFINE f == handler[h].flow
             of == IF f \in DOMAIN oauth THEN oauth[f] ELSE NoTenant
             to == [handler[h] EXCEPT !.at = "exchange", !.tenant = of]
  <2>1. to.at = "exchange" /\ to.flow = f /\ to.tenant = of
    BY <1>0 DEF HandlerKeys
  <2>2. /\ Goes(h, to) /\ handler[h].at = "take" /\ UNCHANGED <<channel, starter, made>>
        /\ oauth' = Restrict(oauth, DOMAIN oauth \ {f})
    BY <1>2 DEF CallbackTakes
  <2>3. /\ DOMAIN oauth' = DOMAIN oauth \ {f}
        /\ \A g \in DOMAIN oauth' : oauth'[g] = oauth[g]
    BY <2>2 DEF Restrict
  <2> HIDE DEF to
  <2>4. handler'[h] = to /\ \A g \in Handlers \ {h} : handler'[g] = handler[g]
    BY <2>2, <1>0 DEF Goes
  <2>5. MadeOK' /\ StatesUnspent' /\ ChannelsTrace'
    BY <2>2, <2>3 DEF FlowInv, MadeOK, StatesUnspent, ChannelsTrace
  <2>6. ASSUME f \in DOMAIN oauth, NEW g \in Handlers PROVE ~Holds(g, f)
    BY <2>6 DEF FlowInv, CallbackSound, Holds
  <2>7. of # NoTenant => f \in DOMAIN oauth
    OBVIOUS
  <2>8. OneHolds'
    BY <2>1, <2>4, <2>6, <2>7 DEF FlowInv, OneHolds, Holds
  <2>9. CallbackSound(h)'
    BY <2>1, <2>2, <2>3, <2>4 DEF FlowInv, StatesUnspent, CallbackSound
  <2>10. ASSUME NEW g \in Handlers \ {h} PROVE CallbackSound(g)'
    BY <2>2, <2>3, <2>4 DEF FlowInv, CallbackSound
  <2>11. QED
    BY <2>5, <2>8, <2>9, <2>10 DEF FlowInv
<1>3. ASSUME CallbackInserts(h) PROVE FlowInv'
  <2> DEFINE r == handler[h]
  <2>1. r.at = "exchange" /\ Rests(h) /\ UNCHANGED <<oauth, starter>>
    BY <1>3 DEF CallbackInserts
  <2>2. Elsewhere
    BY <2>1, MovedElsewhere, RestingKeys DEF Rests
  <2>3. CASE UNCHANGED <<channel, made>>
    BY <2>1, <2>2, <2>3, OtherSteps DEF RowsTrace
  <2>4. CASE r.tenant # NoTenant
    <3> DEFINE f == r.flow
               row == Row(r.tenant, r.type, r.instance, f)
    <3>1. Inserts(row) /\ made' = [made EXCEPT ![f] = @ + 1]
      BY <1>3, <2>4 DEF CallbackInserts, WixCallback, ShopifyCallback, UberEatsCallback, Connected
    <3>2. /\ f \in DOMAIN starter /\ r.tenant = starter[f]
          /\ f \in Flows /\ f \notin DOMAIN oauth /\ made[f] = 0 /\ Holds(h, f)
      BY <2>1, <2>4 DEF FlowInv, CallbackSound, Holds
    <3>3. row.tenant = r.tenant /\ row.flow = f
      BY DEF Row
    <3>4. PICK x \in Unused : channel' = WithRow(channel, x, row)
      BY <3>1 DEF Inserts
    <3>9. handler'[h] = Resting /\ \A g \in Handlers \ {h} : handler'[g] = handler[g]
      BY <2>1, <1>0 DEF Rests, Goes
    <3> HIDE DEF row, f
    <3>5. MadeOK' /\ StatesUnspent'
      BY <2>1, <3>1, <3>2 DEF FlowInv, MadeOK, StatesUnspent
    <3>6. ChannelsTrace'
      BY <2>1, <3>2, <3>3, <3>4 DEF FlowInv, ChannelsTrace, WithRow
    <3>7. OneHolds'
      BY <2>2 DEF FlowInv, OneHolds, Holds, Elsewhere
    <3>10. CallbackSound(h)'
      BY <3>9, RestingKeys DEF CallbackSound
    <3>11. ASSUME NEW g \in Handlers \ {h} PROVE CallbackSound(g)'
      <4>1. ~Holds(g, f)
        BY <3>2 DEF FlowInv, OneHolds
      <4>2. made'[handler[g].flow] = made[handler[g].flow] \/ handler[g].flow = f
        BY <3>1, <3>2 DEF FlowInv, MadeOK
      <4>3. QED
        BY <2>1, <3>9, <4>1, <4>2 DEF FlowInv, CallbackSound, Holds
    <3>8. QED
      BY <3>5, <3>6, <3>7, <3>10, <3>11 DEF FlowInv
  <2>5. QED
    BY <1>3, <2>3, <2>4 DEF CallbackInserts, WixCallback, ShopifyCallback, UberEatsCallback, Connected
<1>4. QED
  BY <1>1, <1>2, <1>3

LEMMA OtherRoutesKeepFlows ==
    ASSUME QuietInv, FlowInv, NEW t,
           \/ \E type, i : CreateChannel(t, type, i)
           \/ \E x \in DOMAIN channel :
                \/ \E active : PatchChannel(t, x, active)
                \/ DeleteChannel(t, x)
           \/ \E i : EposConnect(t, i) \/ Uninstall(i) \/ UninstallFails(i)
    PROVE  FlowInv'
<1>1. UNCHANGED <<oauth, starter, made, handler>>
  BY DEF CreateChannel, PatchChannel, DeleteChannel, EposConnect, Uninstall, UninstallFails
<1>2. Elsewhere
  BY <1>1 DEF Elsewhere
<1>3. ASSUME NEW type, NEW i, CreateChannel(t, type, i) PROVE RowsTrace
  BY <1>3, InsertedTraces DEF CreateChannel
<1>4. ASSUME NEW i, EposConnect(t, i) PROVE RowsTrace
  BY <1>4, InsertedTraces DEF EposConnect
<1>5. ASSUME NEW x, DeleteChannel(t, x) PROVE RowsTrace
  BY <1>5, FewerTrace DEF DeleteChannel
<1>6. ASSUME NEW x \in DOMAIN channel, NEW active, PatchChannel(t, x, active) PROVE RowsTrace
  BY <1>6 DEF PatchChannel, RowsTrace, QuietInv, ChannelsQuiet
<1>7. ASSUME NEW i, Uninstall(i) PROVE RowsTrace
  BY <1>7 DEF Uninstall, WixChannels, RowsTrace, QuietInv, ChannelsQuiet
<1>8. ASSUME NEW i, UninstallFails(i) PROVE RowsTrace
  BY <1>8 DEF UninstallFails, RowsTrace
<1>9. QED
  BY <1>1, <1>2, <1>3, <1>4, <1>5, <1>6, <1>7, <1>8, OtherSteps

LEMMA InstallationsKeepFlows ==
    ASSUME QuietInv, FlowInv, NEW h \in Handlers,
           \/ \E t \in tenants, i \in Instances : BasicAuthFinds(h, t, i)
           \/ \E i \in Instances : InstallFinds(h, i)
           \/ \E t : InstallMakesTenant(h, t)
           \/ \E e : InstallMakesOwner(h, e)
           \/ BasicAuthWrites(h) \/ InstallMakesChannel(h) \/ HandlerFails(h)
    PROVE  FlowInv'
<1>0. HandlerKeys(handler[h])
  BY DEF QuietInv, HandlerSound
<1>1. ASSUME NEW t, NEW i, BasicAuthFinds(h, t, i) PROVE FlowInv'
  <2>1. PICK x : \/ Goes(h, [Resting EXCEPT !.at = "write", !.tenant = t, !.instance = i])
                 \/ Goes(h, [Resting EXCEPT !.at = "write", !.tenant = t, !.instance = i, !.found = x])
    BY <1>1 DEF BasicAuthFinds
  <2>2. /\ [Resting EXCEPT !.at = "write", !.tenant = t, !.instance = i].at = "write"
        /\ [Resting EXCEPT !.at = "write", !.tenant = t, !.instance = i, !.found = x].at = "write"
    BY RestingKeys DEF HandlerKeys
  <2>3. Elsewhere
    BY <2>1, <2>2, MovedElsewhere
  <2>4. UNCHANGED <<channel, oauth, starter, made>>
    BY <1>1 DEF BasicAuthFinds
  <2>5. QED
    BY <2>3, <2>4, OtherSteps DEF RowsTrace
<1>2. ASSUME NEW i, InstallFinds(h, i) PROVE FlowInv'
  <2>1. PICK x : \/ Goes(h, [Resting EXCEPT !.at = "site", !.instance = i])
                 \/ Goes(h, [Resting EXCEPT !.at = "write", !.instance = i, !.found = x])
    BY <1>2 DEF InstallFinds
  <2>2. /\ [Resting EXCEPT !.at = "site", !.instance = i].at = "site"
        /\ [Resting EXCEPT !.at = "write", !.instance = i, !.found = x].at = "write"
    BY RestingKeys DEF HandlerKeys
  <2>3. Elsewhere
    BY <2>1, <2>2, MovedElsewhere
  <2>4. UNCHANGED <<channel, oauth, starter, made>>
    BY <1>2 DEF InstallFinds
  <2>5. QED
    BY <2>3, <2>4, OtherSteps DEF RowsTrace
<1>3. ASSUME NEW t, InstallMakesTenant(h, t) PROVE FlowInv'
  <2>1. [handler[h] EXCEPT !.at = "owner", !.tenant = t].at = "owner"
    BY <1>0 DEF HandlerKeys
  <2>2. Elsewhere
    BY <1>3, <2>1, MovedElsewhere DEF InstallMakesTenant
  <2>3. QED
    BY <1>3, <2>2, OtherSteps DEF InstallMakesTenant, RowsTrace
<1>4. ASSUME NEW e, InstallMakesOwner(h, e) PROVE FlowInv'
  <2>1. [handler[h] EXCEPT !.at = "insert"].at = "insert"
    BY <1>0 DEF HandlerKeys
  <2>2. Elsewhere
    BY <1>4, <2>1, MovedElsewhere DEF InstallMakesOwner
  <2>3. QED
    BY <1>4, <2>2, OtherSteps DEF InstallMakesOwner, RowsTrace
<1>5. ASSUME Rests(h) PROVE Elsewhere
  BY <1>5, RestingKeys, MovedElsewhere DEF Rests
<1>6. ASSUME BasicAuthWrites(h) PROVE FlowInv'
  <2>1. Rests(h) /\ UNCHANGED <<oauth, starter, made>>
    BY <1>6 DEF BasicAuthWrites
  <2>2. CASE handler[h].found = NoChannel
    BY <1>5, <1>6, <2>1, <2>2, InsertedTraces, OtherSteps DEF BasicAuthWrites
  <2>3. CASE handler[h].found # NoChannel
    <3>1. RowsTrace
      BY <1>6, <2>3 DEF BasicAuthWrites, RowsTrace, QuietInv, ChannelsQuiet
    <3>2. QED
      BY <1>5, <2>1, <3>1, OtherSteps
  <2>4. QED
    BY <2>2, <2>3
<1>7. ASSUME InstallMakesChannel(h) PROVE FlowInv'
  BY <1>5, <1>7, InsertedTraces, OtherSteps DEF InstallMakesChannel
<1>8. ASSUME HandlerFails(h) PROVE FlowInv'
  BY <1>5, <1>8, OtherSteps DEF HandlerFails, RowsTrace
<1>9. QED
  BY <1>1, <1>2, <1>3, <1>4, <1>6, <1>7, <1>8

LEMMA NextKeepsFlows ==
    ASSUME QuietInv, FlowInv, [Next]_vars
    PROVE  FlowInv'
<1>1. ASSUME UNCHANGED shopVars PROVE FlowInv'
  <2>1. RowsTrace /\ Elsewhere /\ UNCHANGED <<oauth, starter, made>>
    BY <1>1 DEF shopVars, RowsTrace, Elsewhere
  <2>2. QED
    BY <2>1, OtherSteps
<1>2. ASSUME ShopsStep PROVE FlowInv'
  BY <1>2, StartKeepsFlows, ExpiryKeepsFlows, CallbackKeepsFlows, OtherRoutesKeepFlows,
     InstallationsKeepFlows DEF ShopsStep
<1>3. ASSUME NEW c, NEW e, NEW p, EposFindsEmail(c, e, p) PROVE FlowInv'
  BY <1>3, OtherSteps DEF EposFindsEmail, RowsTrace, Elsewhere
<1>4. ASSUME NEW c, NEW t, EposMakesTenant(c, t) PROVE FlowInv'
  BY <1>1, <1>4 DEF EposMakesTenant
<1>5. ASSUME NEW c, EposMakesUser(c) PROVE FlowInv'
  BY <1>1, <1>5 DEF EposMakesUser
<1>6. ASSUME NEW c, NEW i, EposMakesChannel(c, i) PROVE FlowInv'
  <2>1. RowsTrace
    BY <1>6, InsertedTraces DEF EposMakesChannel
  <2>2. Elsewhere /\ UNCHANGED <<oauth, starter, made>>
    BY <1>6 DEF EposMakesChannel, Elsewhere
  <2>3. QED
    BY <2>1, <2>2, OtherSteps
<1>7. ASSUME ProvisionStep PROVE FlowInv'
  BY <1>3, <1>4, <1>5, <1>6, <1>7, InstallationsKeepFlows DEF ProvisionStep
<1>8. QED
  BY <1>1, <1>2, <1>7 DEF Next, ShopsNext, vars

\* An OAuth state opens at most one shop, of the tenant that began the flow, at
\* whichever provider's callback it is shown: for any number of flows, tenants and
\* callbacks in flight.
THEOREM FlowsAlwaysApart == Spec => []FlowsStayApart
<1>1. Init => QuietInv /\ FlowInv
  BY RestingKeys DEF Init, ShopsInit, QuietInv, ChannelsQuiet, GoneApart, HandlerSound,
     FlowInv, MadeOK, StatesUnspent, OneHolds, Holds, ChannelsTrace, CallbackSound
<1>2. FlowInv => FlowsStayApart
  BY DEF FlowInv, MadeOK, ChannelsTrace, FlowsStayApart
<1>3. QED
  BY <1>1, <1>2, NextKeepsQuiet, NextKeepsFlows, PTL DEF Spec

-----------------------------------------------------------------------------
(* Types.  A row names a tenant that exists; what a request in flight       *)
(* carries from one await to the next is a tenant, an address or a link     *)
(* that is still there, for none of these is ever deleted.                  *)

UserRow(T) == [tenant : T, hash : Hashes, onboarded : BOOLEAN]
LinkRow(E) == [email : E, used : BOOLEAN, expired : BOOLEAN]

UsersTyped(U, T) == DOMAIN U \subseteq Emails /\ \A e \in DOMAIN U : U[e] \in UserRow(T)
LinksTyped(L, E) == DOMAIN L \subseteq Links /\ \A l \in DOMAIN L : L[l] \in LinkRow(E)

CallShape ==
    [at : {"idle", "email", "insert", "verify", "invalidate", "token", "hash", "eposTenant", "eposUser",
           "eposChannel"},
     tenant : Tenants \cup {NoTenant}, email : Emails, password : Hashes, hash : Hashes,
     link : Links \cup {NoLink}, known : SUBSET Links, late : BOOLEAN]

\* What a call at its place knows, given the tenants and the users' addresses.
Knows(r, T, E) ==
    /\ r.at \in {"verify", "invalidate", "token", "hash"} => r.email \in E
    /\ r.at \in {"email", "insert"} => r.tenant \in Tenants
    /\ r.at \in {"eposUser", "eposChannel"} => r.tenant \in T
    /\ r.at = "hash" => r.link \in Links

CallsTyped(C, T, E) == C \in [Calls -> CallShape] /\ \A c \in Calls : Knows(C[c], T, E)

AccountTypes ==
    /\ tenants \subseteq Tenants
    /\ UsersTyped(user, tenants) /\ LinksTyped(link, DOMAIN user)
    /\ CallsTyped(call, tenants, DOMAIN user)
    /\ dead \subseteq Links /\ sessions \subseteq tenants /\ begun \in Nat

LEMMA AccountsAreTyped ==
    ASSUME AccountTypes
    PROVE  AccountsTypeOK
BY DEF AccountTypes, AccountsTypeOK, UsersTyped, LinksTyped, CallsTyped, UserRow, LinkRow, CallShape

LEMMA IdleTyped == Idle \in CallShape /\ \A T, E : Knows(Idle, T, E)
<1>1. (CHOOSE e \in Emails : TRUE) \in Emails
  BY FirstAccountAssumption
<1>2. QED
  BY <1>1 DEF Idle, CallShape, Knows, Hashes

\* More tenants and more users do no harm.
LEMMA UsersMore ==
    ASSUME NEW U, NEW T, NEW T2, T \subseteq T2, UsersTyped(U, T)
    PROVE  UsersTyped(U, T2)
BY DEF UsersTyped, UserRow

LEMMA LinksMore ==
    ASSUME NEW L, NEW E, NEW E2, E \subseteq E2, LinksTyped(L, E)
    PROVE  LinksTyped(L, E2)
BY DEF LinksTyped, LinkRow

LEMMA CallsMore ==
    ASSUME NEW C, NEW T, NEW T2, NEW E, NEW E2, T \subseteq T2, E \subseteq E2, CallsTyped(C, T, E)
    PROVE  CallsTyped(C, T2, E2)
BY DEF CallsTyped, Knows

LEMMA CallMoved ==
    ASSUME AccountTypes, NEW T, NEW E, tenants \subseteq T, DOMAIN user \subseteq E,
           NEW c \in Calls, NEW to \in CallShape, Knows(to, T, E), Moves(c, to)
    PROVE  CallsTyped(call', T, E)
<1>1. CallsTyped(call, T, E)
  BY CallsMore DEF AccountTypes
<1>2. \A o \in Calls : call'[o] = IF o = c THEN to ELSE call[o]
  BY <1>1 DEF Moves, CallsTyped
<1>3. QED
  BY <1>1, <1>2 DEF Moves, CallsTyped

\* A user is added, of a tenant that is.
LEMMA UserAdded ==
    ASSUME NEW T, UsersTyped(user, T), NEW e \in Emails, NEW t \in T, NEW h \in Hashes,
           user' = WithRow(user, e, [tenant |-> t, hash |-> h, onboarded |-> FALSE])
    PROVE  UsersTyped(user', T) /\ DOMAIN user \subseteq DOMAIN user'
<1> DEFINE row == [tenant |-> t, hash |-> h, onboarded |-> FALSE]
<1>1. row \in UserRow(T)
  BY DEF UserRow
<1> HIDE DEF row
<1>2. DOMAIN user' = DOMAIN user \cup {e}
      /\ \A x \in DOMAIN user' : user'[x] = IF x = e THEN row ELSE user[x]
  BY DEF WithRow, row
<1>3. QED
  BY <1>1, <1>2 DEF UsersTyped

\* The users and their tenants are as they were.
LEMMA OnlyCalls ==
    ASSUME AccountTypes, UNCHANGED <<tenants, user>>, NEW c \in Calls, NEW to \in CallShape,
           Knows(to, tenants, DOMAIN user), Moves(c, to), LinksTyped(link', DOMAIN user),
           dead' \subseteq Links, sessions' \subseteq tenants, begun' \in Nat
    PROVE  AccountTypes'
<1>1. CallsTyped(call', tenants, DOMAIN user)
  BY CallMoved
<1>2. QED
  BY <1>1 DEF AccountTypes

LEMMA RegistrationTyped ==
    ASSUME AccountTypes, NEW c \in Calls,
           \/ \E t \in Tenants, e \in Emails, p \in Passwords : RegisterFindsSlug(c, t, e, p)
           \/ RegisterFindsEmail(c) \/ RegisterInserts(c)
    PROVE  AccountTypes'
<1>0. call[c] \in CallShape /\ Knows(call[c], tenants, DOMAIN user)
  BY DEF AccountTypes, CallsTyped
<1>1. ASSUME NEW t \in Tenants, NEW e \in Emails, NEW p \in Passwords, RegisterFindsSlug(c, t, e, p)
      PROVE  AccountTypes'
  <2> DEFINE to == [Idle EXCEPT !.at = "email", !.tenant = t, !.email = e, !.password = p]
  <2>1. to \in CallShape /\ Knows(to, tenants, DOMAIN user)
    BY IdleTyped DEF CallShape, Knows, Hashes
  <2>2. Moves(c, to) /\ UNCHANGED <<tenants, user, link, dead, sessions>> /\ begun' = begun + 1
    BY <1>1 DEF RegisterFindsSlug
  <2> HIDE DEF to
  <2>3. QED
    BY <2>1, <2>2, OnlyCalls DEF AccountTypes
<1>2. ASSUME RegisterFindsEmail(c) PROVE AccountTypes'
  <2> DEFINE to == [call[c] EXCEPT !.at = "insert"]
  <2>1. to \in CallShape /\ Knows(to, tenants, DOMAIN user)
    BY <1>0, <1>2 DEF RegisterFindsEmail, CallShape, Knows
  <2>2. (Moves(c, to) \/ Moves(c, Idle)) /\ UNCHANGED <<tenants, user, link, dead, sessions, begun>>
    BY <1>2 DEF RegisterFindsEmail, Answers
  <2> HIDE DEF to
  <2>3. QED
    BY <2>1, <2>2, IdleTyped, OnlyCalls DEF AccountTypes
<1>3. ASSUME RegisterInserts(c) PROVE AccountTypes'
  <2> DEFINE r == call[c]
             row == [tenant |-> r.tenant, hash |-> r.password, onboarded |-> FALSE]
  <2>1. r.tenant \in Tenants /\ r.email \in Emails /\ r.password \in Hashes
    BY <1>0, <1>3 DEF RegisterInserts, CallShape, Knows
  <2>2. /\ Moves(c, Idle) /\ UNCHANGED <<link, dead, begun>>
        /\ \/ UNCHANGED <<tenants, user, sessions>>
           \/ /\ tenants' = tenants \cup {r.tenant} /\ user' = WithRow(user, r.email, row)
              /\ sessions' = sessions \cup {r.tenant}
    BY <1>3 DEF RegisterInserts, Answers
  <2>3. CASE UNCHANGED <<tenants, user, sessions>>
    BY <2>2, <2>3, IdleTyped, OnlyCalls DEF AccountTypes
  <2>4. CASE /\ tenants' = tenants \cup {r.tenant} /\ user' = WithRow(user, r.email, row)
             /\ sessions' = sessions \cup {r.tenant}
    <3>1. UsersTyped(user, tenants') /\ tenants \subseteq tenants'
      BY <2>4, UsersMore DEF AccountTypes
    <3>2. UsersTyped(user', tenants') /\ DOMAIN user \subseteq DOMAIN user'
      BY <2>1, <2>4, <3>1, UserAdded
    <3>3. LinksTyped(link', DOMAIN user')
      BY <2>2, <3>2, LinksMore DEF AccountTypes
    <3>4. CallsTyped(call', tenants', DOMAIN user')
      BY <2>2, <3>1, <3>2, IdleTyped, CallMoved
    <3>5. QED
      BY <2>1, <2>2, <2>4, <3>2, <3>3, <3>4 DEF AccountTypes
  <2>5. QED
    BY <2>2, <2>3, <2>4
<1>4. QED
  BY <1>1, <1>2, <1>3

LEMMA SessionsTyped ==
    ASSUME AccountTypes,
           \/ \E c \in Calls : \/ \E e \in Emails, p \in Passwords : LoginReads(c, e, p)
                               \/ LoginVerifies(c) \/ CallFails(c)
           \/ \E e \in Emails : OnboardingComplete(e)
    PROVE  AccountTypes'
<1>1. ASSUME NEW c \in Calls, NEW e \in Emails, NEW p \in Passwords, LoginReads(c, e, p)
      PROVE  AccountTypes'
  <2> DEFINE to == [Idle EXCEPT !.at = "verify", !.email = e, !.password = p, !.hash = user[e].hash]
  <2>1. e \in DOMAIN user /\ user[e].hash \in Hashes
    BY <1>1 DEF LoginReads, AccountTypes, UsersTyped, UserRow
  <2>2. to \in CallShape /\ Knows(to, tenants, DOMAIN user)
    BY <2>1, IdleTyped DEF CallShape, Knows, Hashes
  <2>3. Moves(c, to) /\ UNCHANGED <<tenants, user, link, dead, sessions>> /\ begun' = begun + 1
    BY <1>1 DEF LoginReads
  <2> HIDE DEF to
  <2>4. QED
    BY <2>2, <2>3, OnlyCalls DEF AccountTypes
<1>2. ASSUME NEW c \in Calls, LoginVerifies(c) PROVE AccountTypes'
  <2>1. call[c].email \in DOMAIN user
    BY <1>2 DEF LoginVerifies, AccountTypes, CallsTyped, Knows
  <2>2. user[call[c].email].tenant \in tenants
    BY <2>1 DEF AccountTypes, UsersTyped, UserRow
  <2>3. Moves(c, Idle) /\ UNCHANGED <<tenants, user, link, dead, begun>> /\ sessions' \subseteq tenants
    BY <1>2, <2>2 DEF LoginVerifies, Answers, AccountTypes
  <2>4. QED
    BY <2>3, IdleTyped, OnlyCalls DEF AccountTypes
<1>3. ASSUME NEW c \in Calls, CallFails(c) PROVE AccountTypes'
  BY <1>3, IdleTyped, OnlyCalls DEF CallFails, Answers, AccountTypes
<1>4. ASSUME NEW e \in Emails, OnboardingComplete(e) PROVE AccountTypes'
  <2>1. e \in DOMAIN user /\ user' = [user EXCEPT ![e].onboarded = TRUE]
        /\ UNCHANGED <<tenants, link, call, dead, sessions>> /\ begun' = begun + 1
    BY <1>4 DEF OnboardingComplete
  <2>2. UsersTyped(user', tenants) /\ DOMAIN user' = DOMAIN user
    BY <2>1 DEF AccountTypes, UsersTyped, UserRow
  <2>3. QED
    BY <2>1, <2>2 DEF AccountTypes
<1>5. QED
  BY <1>1, <1>2, <1>3, <1>4

LEMMA ResetsTyped ==
    ASSUME AccountTypes,
           \/ \E c \in Calls : \/ \E e \in Emails : ForgotReads(c, e)
                               \/ ForgotInvalidates(c)
                               \/ \E l \in Links : ForgotInserts(c, l)
                               \/ \E l \in Links, p \in Passwords : ResetReads(c, l, p)
                               \/ ResetCommits(c)
           \/ \E l \in Links : LinkExpires(l)
    PROVE  AccountTypes'
<1>0. \A c \in Calls : call[c] \in CallShape /\ Knows(call[c], tenants, DOMAIN user)
  BY DEF AccountTypes, CallsTyped
<1>1. ASSUME NEW c \in Calls, NEW e \in Emails, ForgotReads(c, e) PROVE AccountTypes'
  <2> DEFINE to == [Idle EXCEPT !.at = "invalidate", !.email = Lower[e], !.known = Of(Lower[e])]
  <2>1. Lower[e] \in DOMAIN user /\ Lower[e] \in Emails /\ Of(Lower[e]) \subseteq Links
    BY <1>1, AccountAssumption DEF ForgotReads, Of, AccountTypes, LinksTyped
  <2>2. to \in CallShape /\ Knows(to, tenants, DOMAIN user)
    BY <2>1, IdleTyped DEF CallShape, Knows
  <2>3. Moves(c, to) /\ UNCHANGED <<tenants, user, link, dead, sessions>> /\ begun' = begun + 1
    BY <1>1 DEF ForgotReads
  <2> HIDE DEF to
  <2>4. QED
    BY <2>2, <2>3, OnlyCalls DEF AccountTypes
<1>2. ASSUME NEW c \in Calls, ForgotInvalidates(c) PROVE AccountTypes'
  <2> DEFINE to == [call[c] EXCEPT !.at = "token"]
  <2>1. to \in CallShape /\ Knows(to, tenants, DOMAIN user)
    BY <1>0, <1>2 DEF ForgotInvalidates, CallShape, Knows
  <2>2. /\ Moves(c, to) /\ UNCHANGED <<tenants, user, dead, sessions, begun>>
        /\ link' = [l \in DOMAIN link |-> [link[l] EXCEPT !.used = @ \/ link[l].email = call[c].email]]
    BY <1>2 DEF ForgotInvalidates
  <2>3. \A l \in DOMAIN link : (link[l].used \/ link[l].email = call[c].email) \in BOOLEAN
    OBVIOUS
  <2>4. LinksTyped(link', DOMAIN user)
    BY <2>2, <2>3 DEF AccountTypes, LinksTyped, LinkRow
  <2> HIDE DEF to
  <2>5. QED
    BY <2>1, <2>2, <2>4, OnlyCalls DEF AccountTypes
<1>3. ASSUME NEW c \in Calls, NEW l \in Links, ForgotInserts(c, l) PROVE AccountTypes'
  <2> DEFINE row == [email |-> call[c].email, used |-> FALSE, expired |-> FALSE]
  <2>1. call[c].email \in DOMAIN user /\ call[c].known \subseteq Links
    BY <1>0, <1>3 DEF ForgotInserts, Knows, CallShape
  <2>2. row \in LinkRow(DOMAIN user)
    BY <2>1 DEF LinkRow
  <2>3. /\ link' = WithRow(link, l, row) /\ dead' = dead \cup call[c].known /\ Moves(c, Idle)
        /\ UNCHANGED <<tenants, user, sessions, begun>>
    BY <1>3 DEF ForgotInserts, Answers
  <2> HIDE DEF row
  <2>4. LinksTyped(link', DOMAIN user)
    <3>1. DOMAIN link' = DOMAIN link \cup {l}
          /\ \A k \in DOMAIN link' : link'[k] = IF k = l THEN row ELSE link[k]
      BY <2>3 DEF WithRow
    <3>2. QED
      BY <2>2, <3>1 DEF AccountTypes, LinksTyped
  <2>5. QED
    BY <2>1, <2>3, <2>4, IdleTyped, OnlyCalls DEF AccountTypes
<1>4. ASSUME NEW c \in Calls, NEW l \in Links, NEW p \in Passwords, ResetReads(c, l, p)
      PROVE  AccountTypes'
  <2> DEFINE late == l \in dead
             to == [Idle EXCEPT !.at = "hash", !.email = link[l].email, !.link = l,
                                !.password = p, !.late = late]
  <2>1. l \in DOMAIN link /\ link[l].email \in DOMAIN user /\ DOMAIN user \subseteq Emails
    BY <1>4 DEF ResetReads, AccountTypes, LinksTyped, LinkRow, UsersTyped
  <2>2. late \in BOOLEAN
    OBVIOUS
  <2>3. Moves(c, to) /\ UNCHANGED <<tenants, user, link, dead, sessions>> /\ begun' = begun + 1
    BY <1>4 DEF ResetReads
  <2> HIDE DEF late
  <2>4. to \in CallShape /\ Knows(to, tenants, DOMAIN user)
    BY <2>1, <2>2, IdleTyped DEF CallShape, Knows, Hashes
  <2> HIDE DEF to
  <2>5. QED
    BY <2>3, <2>4, OnlyCalls DEF AccountTypes
<1>5. ASSUME NEW c \in Calls, ResetCommits(c) PROVE AccountTypes'
  <2> DEFINE r == call[c]
  <2>1. r.password \in Hashes /\ r.link \in Links
    BY <1>0, <1>5 DEF ResetCommits, Knows, CallShape
  <2>2. /\ user' = [user EXCEPT ![r.email].hash = r.password]
        /\ link' = [link EXCEPT ![r.link].used = TRUE] /\ dead' = dead \cup {r.link}
        /\ Moves(c, Idle) /\ UNCHANGED <<tenants, sessions, begun>>
    BY <1>5 DEF ResetCommits, Answers
  <2>3. UsersTyped(user', tenants) /\ DOMAIN user' = DOMAIN user
    BY <2>1, <2>2 DEF AccountTypes, UsersTyped, UserRow
  <2>4. LinksTyped(link', DOMAIN user)
    BY <2>2 DEF AccountTypes, LinksTyped, LinkRow
  <2>5. CallsTyped(call', tenants, DOMAIN user)
    BY <2>2, IdleTyped, CallMoved
  <2>6. QED
    BY <2>1, <2>2, <2>3, <2>4, <2>5 DEF AccountTypes
<1>6. ASSUME NEW l \in Links, LinkExpires(l) PROVE AccountTypes'
  <2>1. link' = [link EXCEPT ![l].expired = TRUE] /\ dead' = dead \cup {l} /\ begun' = begun + 1
        /\ UNCHANGED <<tenants, user, call, sessions>>
    BY <1>6 DEF LinkExpires
  <2>2. LinksTyped(link', DOMAIN user)
    BY <2>1 DEF AccountTypes, LinksTyped, LinkRow
  <2>3. QED
    BY <2>1, <2>2 DEF AccountTypes
<1>7. QED
  BY <1>1, <1>2, <1>3, <1>4, <1>5, <1>6

LEMMA AccountsNextTyped ==
    ASSUME AccountTypes, AccountsNext
    PROVE  AccountTypes'
BY RegistrationTyped, SessionsTyped, ResetsTyped DEF AccountsNext

\* The tenants and users that installations make.
LEMMA ProvisionTyped ==
    ASSUME AccountTypes, ProvisionStep,
           \A h \in Handlers : handler[h].at = "owner" => handler[h].tenant \in tenants
    PROVE  AccountTypes'
<1>0. \A c \in Calls : call[c] \in CallShape /\ Knows(call[c], tenants, DOMAIN user)
  BY DEF AccountTypes, CallsTyped
<1>1. ASSUME NEW t \in Tenants, tenants' = tenants \cup {t},
             UNCHANGED <<user, link, dead, sessions, begun>>,
             CallsTyped(call', tenants', DOMAIN user)
      PROVE  AccountTypes'
  <2>1. UsersTyped(user, tenants')
    BY <1>1, UsersMore DEF AccountTypes
  <2>2. QED
    BY <1>1, <2>1 DEF AccountTypes
<1>2. ASSUME NEW h \in Handlers, NEW t \in Tenants, InstallMakesTenant(h, t) PROVE AccountTypes'
  <2>1. tenants' = tenants \cup {t} /\ UNCHANGED <<user, link, call, dead, sessions, begun>>
    BY <1>2 DEF InstallMakesTenant
  <2>2. CallsTyped(call, tenants', DOMAIN user)
    BY <2>1, CallsMore DEF AccountTypes
  <2>3. QED
    BY <1>1, <2>1, <2>2
<1>3. ASSUME NEW h \in Handlers, NEW e \in Emails, InstallMakesOwner(h, e) PROVE AccountTypes'
  <2>1. /\ handler[h].tenant \in tenants /\ NoPassword \in Hashes
        /\ UNCHANGED <<tenants, link, call, dead, sessions, begun>>
    BY <1>3 DEF InstallMakesOwner, Hashes
  <2>2. CASE UNCHANGED user
    BY <2>1, <2>2 DEF AccountTypes
  <2>3. CASE e \notin DOMAIN user
    <3>1. user' = WithRow(user, e, [tenant |-> handler[h].tenant, hash |-> NoPassword, onboarded |-> FALSE])
      BY <1>3, <2>3 DEF InstallMakesOwner
    <3>2. UsersTyped(user', tenants) /\ DOMAIN user \subseteq DOMAIN user'
      BY <2>1, <3>1, UserAdded DEF AccountTypes
    <3>3. LinksTyped(link, DOMAIN user') /\ CallsTyped(call, tenants, DOMAIN user')
      BY <3>2, LinksMore, CallsMore DEF AccountTypes
    <3>4. QED
      BY <2>1, <3>2, <3>3 DEF AccountTypes
  <2>4. QED
    BY <1>3, <2>2, <2>3 DEF InstallMakesOwner
<1>4. ASSUME NEW c \in Calls, NEW e \in Emails, NEW p \in Passwords, EposFindsEmail(c, e, p)
      PROVE  AccountTypes'
  <2> DEFINE to == [Idle EXCEPT !.at = "eposTenant", !.email = e, !.password = p]
  <2>1. to \in CallShape /\ Knows(to, tenants, DOMAIN user)
    BY IdleTyped DEF CallShape, Knows, Hashes
  <2>2. Moves(c, to) /\ UNCHANGED <<tenants, user, link, dead, sessions, begun>>
    BY <1>4 DEF EposFindsEmail
  <2> HIDE DEF to
  <2>3. QED
    BY <2>1, <2>2, OnlyCalls DEF AccountTypes
<1>5. ASSUME NEW c \in Calls, NEW t \in Tenants, EposMakesTenant(c, t) PROVE AccountTypes'
  <2> DEFINE to == [call[c] EXCEPT !.at = "eposUser", !.tenant = t]
  <2>1. tenants' = tenants \cup {t} /\ Moves(c, to) /\ UNCHANGED <<user, link, dead, sessions, begun>>
    BY <1>5 DEF EposMakesTenant
  <2>2. to \in CallShape /\ Knows(to, tenants', DOMAIN user)
    BY <1>0, <2>1 DEF CallShape, Knows
  <2> HIDE DEF to
  <2>3. CallsTyped(call', tenants', DOMAIN user)
    BY <2>1, <2>2, CallMoved
  <2>4. QED
    BY <1>1, <2>1, <2>3
<1>6. ASSUME NEW c \in Calls, EposMakesUser(c) PROVE AccountTypes'
  <2> DEFINE r == call[c]
             row == [tenant |-> r.tenant, hash |-> r.password, onboarded |-> FALSE]
             to == [r EXCEPT !.at = "eposChannel"]
  <2>1. r.at = "eposUser" /\ UNCHANGED <<tenants, link, dead, sessions, begun>>
    BY <1>6 DEF EposMakesUser
  <2>2. r.tenant \in tenants /\ r.email \in Emails /\ r.password \in Hashes
    BY <1>0, <2>1 DEF Knows, CallShape
  <2>3. \/ Moves(c, Idle) /\ UNCHANGED user
        \/ user' = WithRow(user, r.email, row) /\ Moves(c, to)
    BY <1>6 DEF EposMakesUser, Answers
  <2>4. CASE Moves(c, Idle) /\ UNCHANGED user
    BY <2>1, <2>4, IdleTyped, OnlyCalls DEF AccountTypes
  <2>5. CASE user' = WithRow(user, r.email, row) /\ Moves(c, to)
    <3>1. to \in CallShape /\ Knows(to, tenants, DOMAIN user')
      BY <1>0, <2>2 DEF CallShape, Knows
    <3> HIDE DEF to
    <3>2. UsersTyped(user', tenants) /\ DOMAIN user \subseteq DOMAIN user'
      BY <2>2, <2>5, UserAdded DEF AccountTypes
    <3>3. LinksTyped(link, DOMAIN user') /\ CallsTyped(call', tenants, DOMAIN user')
      BY <2>5, <3>1, <3>2, LinksMore, CallMoved DEF AccountTypes
    <3>4. QED
      BY <2>1, <3>2, <3>3 DEF AccountTypes
  <2>6. QED
    BY <2>3, <2>4, <2>5
<1>7. ASSUME NEW c \in Calls, NEW i, EposMakesChannel(c, i) PROVE AccountTypes'
  <2>1. /\ call[c].at = "eposChannel" /\ Moves(c, Idle) /\ UNCHANGED <<tenants, user, link, dead, begun>>
        /\ sessions' = sessions \cup {call[c].tenant}
    BY <1>7 DEF EposMakesChannel, Answers
  <2>2. call[c].tenant \in tenants
    BY <1>0, <2>1 DEF Knows
  <2>3. CallsTyped(call', tenants, DOMAIN user)
    BY <2>1, IdleTyped, CallMoved DEF AccountTypes
  <2>4. QED
    BY <2>1, <2>2, <2>3 DEF AccountTypes
<1>8. QED
  BY <1>2, <1>3, <1>4, <1>5, <1>6, <1>7 DEF ProvisionStep

\* Shops: what a handler has put aside is a tenant that is, or a flow begun.
ChannelRow(T) == [tenant : T, type : Types, instance : Instances \cup {NoInstance},
                  active : BOOLEAN, flow : Flows \cup {NoFlow}]
ShopsTyped(X, T) == DOMAIN X \subseteq Channels /\ \A x \in DOMAIN X : X[x] \in ChannelRow(T)

StatesTyped(O, S, T) ==
    /\ DOMAIN O \subseteq Flows /\ \A f \in DOMAIN O : O[f] \in T
    /\ DOMAIN S \subseteq Flows /\ \A f \in DOMAIN S : S[f] \in T

HandlerShape ==
    [at : {"idle", "take", "exchange", "write", "site", "owner", "insert"},
     tenant : Tenants \cup {NoTenant}, instance : Instances \cup {NoInstance},
     flow : Flows \cup {NoFlow}, type : Types, found : Channels \cup {NoChannel}]

\* What a handler at its place has, given the tenants.
Has(r, T) ==
    /\ r.at \in {"owner", "insert"} => r.tenant \in T
    /\ r.at = "exchange" /\ r.tenant # NoTenant => r.tenant \in T
    /\ r.at = "write" /\ r.found = NoChannel => r.tenant \in T

HandlersTyped(H, T) == H \in [Handlers -> HandlerShape] /\ \A h \in Handlers : Has(H[h], T)

ShopTypes ==
    /\ ShopsTyped(channel, tenants) /\ StatesTyped(oauth, starter, tenants)
    /\ HandlersTyped(handler, tenants)
    /\ made \in [Flows -> Nat] /\ removed \subseteq Instances /\ asked \in Nat

LEMMA ShopsAreTyped ==
    ASSUME ShopTypes
    PROVE  ShopsTypeOK
BY DEF ShopTypes, ShopsTypeOK, ShopsTyped, StatesTyped, HandlersTyped, ChannelRow, HandlerShape

LEMMA RestingTyped == Resting \in HandlerShape /\ \A T : Has(Resting, T)
BY DEF Resting, HandlerShape, Has, Types, Providers

LEMMA ShopsMore ==
    ASSUME NEW X, NEW T, NEW T2, T \subseteq T2, ShopsTyped(X, T)
    PROVE  ShopsTyped(X, T2)
BY DEF ShopsTyped, ChannelRow

LEMMA HandlersMore ==
    ASSUME NEW H, NEW T, NEW T2, T \subseteq T2, HandlersTyped(H, T)
    PROVE  HandlersTyped(H, T2)
BY DEF HandlersTyped, Has

LEMMA StatesMore ==
    ASSUME NEW O, NEW S, NEW T, NEW T2, T \subseteq T2, StatesTyped(O, S, T)
    PROVE  StatesTyped(O, S, T2)
BY DEF StatesTyped

LEMMA HandlerMoved ==
    ASSUME ShopTypes, NEW T, tenants \subseteq T, NEW h \in Handlers, NEW to \in HandlerShape,
           Has(to, T), Goes(h, to)
    PROVE  HandlersTyped(handler', T)
<1>1. HandlersTyped(handler, T)
  BY HandlersMore DEF ShopTypes
<1>2. \A o \in Handlers : handler'[o] = IF o = h THEN to ELSE handler[o]
  BY <1>1 DEF Goes, HandlersTyped
<1>3. QED
  BY <1>1, <1>2 DEF Goes, HandlersTyped

LEMMA ShopInserted ==
    ASSUME NEW T, ShopsTyped(channel, T), NEW t \in T, NEW type \in Types,
           NEW i \in Instances \cup {NoInstance}, NEW f \in Flows \cup {NoFlow}, Inserts(Row(t, type, i, f))
    PROVE  ShopsTyped(channel', T)
<1> DEFINE row == Row(t, type, i, f)
<1>1. row \in ChannelRow(T)
  BY DEF Row, ChannelRow
<1> HIDE DEF row
<1>2. PICK x \in Unused : channel' = WithRow(channel, x, row)
  BY DEF Inserts, row
<1>3. x \in Channels /\ DOMAIN channel' = DOMAIN channel \cup {x}
      /\ \A y \in DOMAIN channel' : channel'[y] = IF y = x THEN row ELSE channel[y]
  BY <1>2 DEF WithRow, Unused
<1>4. QED
  BY <1>1, <1>3 DEF ShopsTyped

LEMMA ShopsFewer ==
    ASSUME NEW T, ShopsTyped(channel, T), NEW S \in SUBSET DOMAIN channel, channel' = Restrict(channel, S)
    PROVE  ShopsTyped(channel', T)
BY DEF Restrict, ShopsTyped

\* Rows are switched on or off where they are.
LEMMA ShopsSwitched ==
    ASSUME NEW T, ShopsTyped(channel, T), NEW S, NEW b \in BOOLEAN,
           channel' = [x \in DOMAIN channel |->
                        IF x \in S THEN [channel[x] EXCEPT !.active = b] ELSE channel[x]]
    PROVE  ShopsTyped(channel', T)
BY DEF ShopsTyped, ChannelRow

LEMMA UserRoutesTyped ==
    ASSUME ShopTypes, UNCHANGED tenants, NEW t \in tenants,
           \/ \E type \in Types, i \in Instances \cup {NoInstance} : CreateChannel(t, type, i)
           \/ \E x \in DOMAIN channel :
                \/ \E active \in BOOLEAN : PatchChannel(t, x, active)
                \/ DeleteChannel(t, x)
           \/ \E f \in Flows : OAuthStart(f, t) \/ StateExpires(f)
           \/ \E i \in Instances : EposConnect(t, i)
    PROVE  ShopTypes'
<1>1. ASSUME NEW type \in Types, NEW i \in Instances \cup {NoInstance}, CreateChannel(t, type, i)
      PROVE ShopTypes'
  <2>1. /\ Inserts(Row(t, type, i, NoFlow)) /\ removed' \subseteq removed /\ asked' = asked + 1
        /\ UNCHANGED <<oauth, handler, starter, made>>
    BY <1>1 DEF CreateChannel, Revives, Begins
  <2>2. ShopsTyped(channel', tenants)
    BY <2>1, ShopInserted DEF ShopTypes
  <2>3. QED
    BY <2>1, <2>2 DEF ShopTypes
<1>2. ASSUME NEW i \in Instances, EposConnect(t, i) PROVE ShopTypes'
  <2>1. /\ Inserts(Row(t, "eposnow", i, NoFlow)) /\ asked' = asked + 1
        /\ UNCHANGED <<oauth, handler, starter, made, removed>>
    BY <1>2 DEF EposConnect, Begins
  <2>2. ShopsTyped(channel', tenants)
    BY <2>1, ShopInserted DEF ShopTypes, Types
  <2>3. QED
    BY <2>1, <2>2 DEF ShopTypes
<1>3. ASSUME NEW x \in DOMAIN channel, NEW active \in BOOLEAN, PatchChannel(t, x, active) PROVE ShopTypes'
  <2>1. /\ channel' = [channel EXCEPT ![x].active = active] /\ removed' \subseteq removed
        /\ asked' = asked + 1 /\ UNCHANGED <<oauth, handler, starter, made>>
    BY <1>3 DEF PatchChannel, Revives, Begins
  <2>2. ShopsTyped(channel', tenants)
    BY <2>1 DEF ShopTypes, ShopsTyped, ChannelRow
  <2>3. QED
    BY <2>1, <2>2 DEF ShopTypes
<1>4. ASSUME NEW x, DeleteChannel(t, x) PROVE ShopTypes'
  <2>1. /\ channel' = Restrict(channel, DOMAIN channel \ {x}) /\ asked' = asked + 1
        /\ UNCHANGED <<oauth, handler, starter, made, removed>>
    BY <1>4 DEF DeleteChannel, Begins
  <2>2. ShopsTyped(channel', tenants)
    BY <2>1, ShopsFewer DEF ShopTypes
  <2>3. QED
    BY <2>1, <2>2 DEF ShopTypes
<1>5. ASSUME NEW f \in Flows, OAuthStart(f, t) PROVE ShopTypes'
  <2>1. oauth' = WithRow(oauth, f, t) /\ starter' = WithRow(starter, f, t)
    BY <1>5 DEF OAuthStart, SetOAuthState
  <2>2. asked' = asked + 1 /\ UNCHANGED <<channel, handler, made, removed>>
    BY <1>5 DEF OAuthStart, Begins
  <2>5. /\ DOMAIN oauth' = DOMAIN oauth \cup {f}
        /\ \A g \in DOMAIN oauth' : oauth'[g] = IF g = f THEN t ELSE oauth[g]
        /\ DOMAIN starter' = DOMAIN starter \cup {f}
        /\ \A g \in DOMAIN starter' : starter'[g] = IF g = f THEN t ELSE starter[g]
    BY <2>1 DEF WithRow
  <2>6. StatesTyped(oauth', starter', tenants)
    BY <2>5 DEF ShopTypes, StatesTyped
  <2>7. QED
    BY <2>2, <2>6 DEF ShopTypes
<1>6. ASSUME NEW f, StateExpires(f) PROVE ShopTypes'
  <2>1. /\ oauth' = Restrict(oauth, DOMAIN oauth \ {f}) /\ asked' = asked + 1
        /\ UNCHANGED <<channel, handler, starter, made, removed>>
    BY <1>6 DEF StateExpires, Begins
  <2>2. StatesTyped(oauth', starter', tenants)
    BY <2>1 DEF ShopTypes, StatesTyped, Restrict
  <2>3. QED
    BY <2>1, <2>2 DEF ShopTypes
<1>7. QED
  BY <1>1, <1>2, <1>3, <1>4, <1>5, <1>6

\* A handler that ends, the rows still rows.
LEMMA EndTyped ==
    ASSUME ShopTypes, NEW h \in Handlers, Rests(h), ShopsTyped(channel', tenants), made' \in [Flows -> Nat],
           UNCHANGED <<tenants, oauth, starter, removed, asked>>
    PROVE  ShopTypes'
<1>1. HandlersTyped(handler', tenants)
  BY RestingTyped, HandlerMoved DEF Rests
<1>2. QED
  BY <1>1 DEF ShopTypes

\* A handler that begins or goes on, the rows as they were.
LEMMA MoveTyped ==
    ASSUME ShopTypes, NEW h \in Handlers, NEW to \in HandlerShape, Has(to, tenants), Goes(h, to),
           removed' \subseteq Instances, asked' \in Nat, StatesTyped(oauth', starter, tenants),
           UNCHANGED <<tenants, channel, starter, made>>
    PROVE  ShopTypes'
<1>1. HandlersTyped(handler', tenants)
  BY HandlerMoved
<1>2. QED
  BY <1>1 DEF ShopTypes

LEMMA CallbacksTyped ==
    ASSUME ShopTypes, StatesUnspent, NEW h \in Handlers, CallbackSound(h), UNCHANGED tenants,
           tenants \subseteq Tenants,
           \/ \E f \in Flows, type \in Providers, i \in Instances \cup {NoInstance} :
                CallbackChecks(h, f, type, i)
           \/ CallbackTakes(h) \/ CallbackInserts(h) \/ HandlerFails(h)
    PROVE  ShopTypes'
<1>0. handler[h] \in HandlerShape /\ Has(handler[h], tenants)
  BY DEF ShopTypes, HandlersTyped
<1>1. ASSUME NEW f \in Flows, NEW type \in Providers, NEW i \in Instances \cup {NoInstance},
             CallbackChecks(h, f, type, i)
      PROVE  ShopTypes'
  <2> DEFINE to == [Resting EXCEPT !.at = "take", !.flow = f, !.type = type, !.instance = i]
  <2>1. Goes(h, to) /\ UNCHANGED <<channel, oauth, starter, made>>
    BY <1>1 DEF CallbackChecks
  <2>2. type \in Types
    BY DEF Types
  <2>3. to \in HandlerShape /\ Has(to, tenants)
    <3>1. to \in HandlerShape
      BY <2>2, RestingTyped DEF HandlerShape
    <3>2. to.at = "take"
      BY RestingKeys DEF HandlerKeys
    <3>3. QED
      BY <3>1, <3>2 DEF Has
  <2>4. removed' \subseteq removed /\ asked' = asked + 1
    BY <1>1 DEF CallbackChecks, Begins, Revives
  <2>5. StatesTyped(oauth', starter, tenants)
    BY <2>1 DEF ShopTypes
  <2> HIDE DEF to
  <2>6. QED
    BY <2>1, <2>3, <2>4, <2>5, MoveTyped DEF ShopTypes
<1>2. CASE CallbackTakes(h)
  <2> DEFINE r == handler[h]
             data == IF r.flow \in DOMAIN oauth THEN oauth[r.flow] ELSE NoTenant
             to == [r EXCEPT !.at = "exchange", !.tenant = data]
  <2>1. /\ Goes(h, to) /\ oauth' = Restrict(oauth, DOMAIN oauth \ {r.flow})
        /\ UNCHANGED <<channel, starter, made, removed, asked>>
    BY <1>2 DEF CallbackTakes
  <2>2. data \in tenants \cup {NoTenant}
    BY DEF ShopTypes, StatesTyped
  <2>3. StatesTyped(oauth', starter, tenants)
    BY <2>1 DEF ShopTypes, StatesTyped, Restrict
  <2> HIDE DEF data
  <2>4. to \in HandlerShape /\ Has(to, tenants)
    BY <1>0, <2>2 DEF HandlerShape, Has
  <2>5. removed' \subseteq Instances /\ asked' \in Nat
    BY <2>1 DEF ShopTypes
  <2> HIDE DEF to
  <2>6. QED
    BY <2>1, <2>3, <2>4, <2>5, MoveTyped
<1>3. CASE CallbackInserts(h)
  <2> DEFINE r == handler[h]
  <2>1. r.at = "exchange" /\ Rests(h) /\ UNCHANGED <<oauth, starter, removed, asked>> /\ Connected(h)
    BY <1>3 DEF CallbackInserts, WixCallback, ShopifyCallback, UberEatsCallback
  <2>2. /\ r.type \in Types /\ r.instance \in Instances \cup {NoInstance} /\ r.flow \in Flows
        /\ r.tenant # NoTenant => r.tenant \in tenants
    BY <1>0, <2>1 DEF HandlerShape, Has, CallbackSound
  <2>3. CASE r.tenant = NoTenant
    <3>1. UNCHANGED <<channel, made>>
      BY <2>1, <2>3 DEF Connected
    <3>2. QED
      BY <2>1, <3>1, EndTyped DEF ShopTypes
  <2>4. CASE r.tenant # NoTenant
    <3>1. Inserts(Row(r.tenant, r.type, r.instance, r.flow)) /\ made' = [made EXCEPT ![r.flow] = @ + 1]
      BY <2>1, <2>4 DEF Connected
    <3>2. ShopsTyped(channel', tenants)
      BY <2>2, <2>4, <3>1, ShopInserted DEF ShopTypes
    <3>3. made' \in [Flows -> Nat]
      BY <2>2, <3>1 DEF ShopTypes
    <3>4. QED
      BY <2>1, <3>2, <3>3, EndTyped
  <2>5. QED
    BY <2>3, <2>4
<1>4. CASE HandlerFails(h)
  BY <1>4, EndTyped DEF HandlerFails, ShopTypes
<1>5. QED
  BY <1>1, <1>2, <1>3, <1>4

LEMMA WixTyped ==
    ASSUME ShopTypes, NEW h \in Handlers, UNCHANGED tenants, tenants \subseteq Tenants,
           \/ \E t \in tenants, i \in Instances : BasicAuthFinds(h, t, i)
           \/ BasicAuthWrites(h)
           \/ \E i \in Instances : InstallFinds(h, i)
           \/ InstallMakesChannel(h)
    PROVE  ShopTypes'
<1>0. handler[h] \in HandlerShape /\ Has(handler[h], tenants)
  BY DEF ShopTypes, HandlersTyped
<1>1. ASSUME NEW t \in tenants, NEW i \in Instances, BasicAuthFinds(h, t, i) PROVE ShopTypes'
  <2>1. PICK to : /\ Goes(h, to)
                  /\ \/ to = [Resting EXCEPT !.at = "write", !.tenant = t, !.instance = i]
                     \/ \E x \in Channels :
                          to = [Resting EXCEPT !.at = "write", !.tenant = t, !.instance = i, !.found = x]
    BY <1>1 DEF BasicAuthFinds, WixChannels, ShopTypes, ShopsTyped
  <2>3. to \in HandlerShape /\ Has(to, tenants)
    <3>1. to \in HandlerShape
      BY <2>1, RestingTyped DEF HandlerShape
    <3>2. to.at = "write" /\ to.tenant = t
      BY <2>1, RestingKeys DEF HandlerKeys
    <3>3. QED
      BY <3>1, <3>2 DEF Has
  <2>4. removed' \subseteq removed /\ asked' = asked + 1 /\ UNCHANGED <<channel, oauth, starter, made>>
    BY <1>1 DEF BasicAuthFinds, Begins, Revives
  <2>5. StatesTyped(oauth', starter, tenants)
    BY <2>4 DEF ShopTypes
  <2>6. removed' \subseteq Instances /\ asked' \in Nat
    BY <2>4 DEF ShopTypes
  <2>7. QED
    BY <2>1, <2>3, <2>4, <2>5, <2>6, MoveTyped
<1>2. CASE BasicAuthWrites(h)
  <2> DEFINE r == handler[h]
  <2>1. r.at = "write" /\ Rests(h) /\ UNCHANGED <<oauth, starter, made, removed, asked>>
    BY <1>2 DEF BasicAuthWrites
  <2>2. ShopsTyped(channel', tenants)
    <3>1. CASE r.found = NoChannel
      <4>1. Inserts(Row(r.tenant, "wix", r.instance, NoFlow))
        BY <1>2, <3>1 DEF BasicAuthWrites
      <4>2. r.tenant \in tenants /\ r.instance \in Instances \cup {NoInstance} /\ "wix" \in Types
        BY <1>0, <2>1, <3>1 DEF Has, HandlerShape, Types, Providers
      <4>3. QED
        BY <4>1, <4>2, ShopInserted DEF ShopTypes
    <3>2. CASE r.found # NoChannel
      <4>1. channel' = [x \in DOMAIN channel |->
                          IF x \in {r.found} THEN [channel[x] EXCEPT !.active = TRUE] ELSE channel[x]]
        BY <1>2, <3>2 DEF BasicAuthWrites
      <4>2. QED
        BY <4>1, ShopsSwitched DEF ShopTypes
    <3>3. QED
      BY <3>1, <3>2
  <2>3. QED
    BY <2>1, <2>2, EndTyped DEF ShopTypes
<1>3. ASSUME NEW i \in Instances, InstallFinds(h, i) PROVE ShopTypes'
  <2>1. PICK to : /\ Goes(h, to)
                  /\ \/ to = [Resting EXCEPT !.at = "site", !.instance = i]
                     \/ \E x \in Channels : to = [Resting EXCEPT !.at = "write", !.instance = i, !.found = x]
    BY <1>3 DEF InstallFinds, WixChannels, ShopTypes, ShopsTyped
  <2>2. to \in HandlerShape /\ Has(to, tenants)
    <3>1. to \in HandlerShape
      BY <2>1, RestingTyped DEF HandlerShape
    <3>2. to.at = "site" \/ (to.at = "write" /\ to.found \in Channels)
      <4>1. CASE to = [Resting EXCEPT !.at = "site", !.instance = i]
        BY <4>1, RestingKeys DEF HandlerKeys
      <4>2. ASSUME NEW x \in Channels, to = [Resting EXCEPT !.at = "write", !.instance = i, !.found = x]
            PROVE  to.at = "write" /\ to.found \in Channels
        BY <4>2, RestingKeys DEF HandlerKeys
      <4>3. QED
        BY <2>1, <4>1, <4>2
    <3>3. QED
      BY <3>1, <3>2, ShopAssumption DEF Has
  <2>3. removed' \subseteq removed /\ asked' = asked + 1 /\ UNCHANGED <<channel, oauth, starter, made>>
    BY <1>3 DEF InstallFinds, Begins, Revives
  <2>4. StatesTyped(oauth', starter, tenants)
    BY <2>3 DEF ShopTypes
  <2>5. removed' \subseteq Instances /\ asked' \in Nat
    BY <2>3 DEF ShopTypes
  <2>6. QED
    BY <2>1, <2>2, <2>3, <2>4, <2>5, MoveTyped
<1>4. CASE InstallMakesChannel(h)
  <2>1. /\ Inserts(Row(handler[h].tenant, "wix", handler[h].instance, NoFlow)) /\ Rests(h)
        /\ handler[h].at = "insert" /\ UNCHANGED <<oauth, starter, made, removed, asked>>
    BY <1>4 DEF InstallMakesChannel
  <2>2. /\ handler[h].tenant \in tenants /\ handler[h].instance \in Instances \cup {NoInstance}
        /\ "wix" \in Types
    BY <1>0, <2>1 DEF Has, HandlerShape, Types, Providers
  <2>3. ShopsTyped(channel', tenants)
    BY <2>1, <2>2, ShopInserted DEF ShopTypes
  <2>4. QED
    BY <2>1, <2>3, EndTyped DEF ShopTypes
<1>5. QED
  BY <1>1, <1>2, <1>3, <1>4

LEMMA ShopsStepTyped ==
    ASSUME ShopTypes, FlowInv, ShopsStep, UNCHANGED tenants, tenants \subseteq Tenants
    PROVE  ShopTypes'
<1>1. ASSUME NEW i \in Instances, Uninstall(i) PROVE ShopTypes'
  <2>1. /\ channel' = [x \in DOMAIN channel |->
                        IF x \in WixChannels(i) THEN [channel[x] EXCEPT !.active = FALSE] ELSE channel[x]]
        /\ removed' \subseteq Instances /\ asked' \in Nat /\ UNCHANGED <<oauth, handler, starter, made>>
    BY <1>1 DEF Uninstall, ShopTypes, Begins
  <2>2. ShopsTyped(channel', tenants)
    BY <2>1, ShopsSwitched DEF ShopTypes
  <2>3. QED
    BY <2>1, <2>2 DEF ShopTypes
<1>2. StatesUnspent /\ \A h \in Handlers : CallbackSound(h)
  BY DEF FlowInv
<1>3. CASE \E h \in Handlers :
              \/ \E f \in Flows, type \in Providers, i \in Instances \cup {NoInstance} :
                CallbackChecks(h, f, type, i)
              \/ CallbackTakes(h) \/ CallbackInserts(h) \/ HandlerFails(h)
  BY <1>2, <1>3, CallbacksTyped
<1>4. CASE \E h \in Handlers :
              \/ \E t \in tenants, i \in Instances : BasicAuthFinds(h, t, i)
              \/ BasicAuthWrites(h)
              \/ \E i \in Instances : InstallFinds(h, i)
              \/ InstallMakesChannel(h)
  BY <1>4, WixTyped
<1>5. CASE \/ \E t \in tenants :
                \/ \E type \in Types, i \in Instances \cup {NoInstance} : CreateChannel(t, type, i)
                \/ \E x \in DOMAIN channel :
                    \/ \E active \in BOOLEAN : PatchChannel(t, x, active)
                    \/ DeleteChannel(t, x)
                \/ \E f \in Flows : OAuthStart(f, t)
                \/ \E i \in Instances : EposConnect(t, i)
  BY <1>5, UserRoutesTyped
<1>6. ASSUME NEW f \in Flows, StateExpires(f) PROVE ShopTypes'
  <2>1. /\ oauth' = Restrict(oauth, DOMAIN oauth \ {f}) /\ asked' = asked + 1
        /\ UNCHANGED <<channel, handler, starter, made, removed>>
    BY <1>6 DEF StateExpires, Begins
  <2>2. StatesTyped(oauth', starter', tenants)
    BY <2>1 DEF ShopTypes, StatesTyped, Restrict
  <2>3. QED
    BY <2>1, <2>2 DEF ShopTypes
<1>7. ASSUME NEW i \in Instances, UninstallFails(i) PROVE ShopTypes'
  BY <1>7 DEF UninstallFails, ShopTypes, Begins
<1>8. QED
  BY <1>1, <1>3, <1>4, <1>5, <1>6, <1>7 DEF ShopsStep

\* What an installation does to the shops.
LEMMA ProvisionShopsTyped ==
    ASSUME AccountTypes, ShopTypes, ProvisionStep
    PROVE  ShopTypes'
<1>1. ASSUME NEW h \in Handlers, NEW t \in Tenants, InstallMakesTenant(h, t) PROVE ShopTypes'
  <2> DEFINE to == [handler[h] EXCEPT !.at = "owner", !.tenant = t]
  <2>1. /\ tenants' = tenants \cup {t} /\ Goes(h, to) /\ UNCHANGED <<channel, oauth, starter, made, removed, asked>>
    BY <1>1 DEF InstallMakesTenant
  <2>2. to \in HandlerShape /\ Has(to, tenants')
    BY <2>1 DEF ShopTypes, HandlersTyped, HandlerShape, Has
  <2> HIDE DEF to
  <2>3. HandlersTyped(handler', tenants')
    BY <2>1, <2>2, HandlerMoved
  <2>4. ShopsTyped(channel, tenants') /\ StatesTyped(oauth, starter, tenants')
    BY <2>1, ShopsMore, StatesMore DEF ShopTypes
  <2>5. QED
    BY <2>1, <2>3, <2>4 DEF ShopTypes
<1>2. ASSUME NEW h \in Handlers, NEW e, InstallMakesOwner(h, e) PROVE ShopTypes'
  <2> DEFINE to == [handler[h] EXCEPT !.at = "insert"]
  <2>1. handler[h].at = "owner" /\ Goes(h, to) /\ UNCHANGED <<channel, oauth, starter, made, removed, asked, tenants>>
    BY <1>2 DEF InstallMakesOwner
  <2>2. to \in HandlerShape /\ Has(to, tenants)
    BY <2>1 DEF ShopTypes, HandlersTyped, HandlerShape, Has
  <2> HIDE DEF to
  <2>3. HandlersTyped(handler', tenants)
    BY <2>1, <2>2, HandlerMoved
  <2>4. QED
    BY <2>1, <2>3 DEF ShopTypes
<1>3. ASSUME NEW c, NEW e, NEW p, EposFindsEmail(c, e, p) PROVE ShopTypes'
  BY <1>3 DEF EposFindsEmail, ShopTypes, Begins
<1>4. ASSUME NEW c, NEW t, EposMakesTenant(c, t) PROVE ShopTypes'
  <2>1. tenants' = tenants \cup {t} /\ UNCHANGED shopVars
    BY <1>4 DEF EposMakesTenant
  <2>2. ShopsTyped(channel, tenants') /\ StatesTyped(oauth, starter, tenants') /\ HandlersTyped(handler, tenants')
    BY <2>1, ShopsMore, StatesMore, HandlersMore DEF ShopTypes
  <2>3. QED
    BY <2>1, <2>2 DEF ShopTypes, shopVars
<1>5. ASSUME NEW c \in Calls, NEW i \in Instances, EposMakesChannel(c, i) PROVE ShopTypes'
  <2>1. call[c].tenant \in tenants
    BY <1>5 DEF EposMakesChannel, AccountTypes, CallsTyped, Knows
  <2>2. /\ UNCHANGED <<tenants, oauth, handler, starter, made, removed, asked>>
        /\ Inserts(Row(call[c].tenant, "eposnow", i, NoFlow))
    BY <1>5 DEF EposMakesChannel
  <2>3. ShopsTyped(channel', tenants)
    BY <2>1, <2>2, ShopInserted DEF ShopTypes, Types
  <2>4. QED
    BY <2>2, <2>3 DEF ShopTypes
<1>6. ASSUME NEW c, EposMakesUser(c) PROVE ShopTypes'
  BY <1>6 DEF EposMakesUser, ShopTypes, shopVars
<1>7. QED
  BY <1>1, <1>2, <1>3, <1>4, <1>5, <1>6 DEF ProvisionStep

\* Products, their mappings and the requests about them.
ProductsTyped(P, T) == DOMAIN P \subseteq Products /\ \A p \in DOMAIN P : P[p] \in [tenant : T, sku : Skus]

MappingsTyped(M) ==
    DOMAIN M \subseteq Mappings
    /\ \A m \in DOMAIN M : M[m] \in [product : Products, channel : Channels, ext : ExternalIds]

\* A product is created for a tenant that is.
RequestTyped(r, T) == r \in RequestShape /\ (r.at = "create" => r.tenant \in T)
RequestsTyped(R, T) == R \in [Requests -> RequestShape] /\ \A q \in Requests : RequestTyped(R[q], T)

ProductTypes ==
    /\ ProductsTyped(product, tenants) /\ MappingsTyped(mapping) /\ RequestsTyped(request, tenants)
    /\ syncQueue \subseteq [tenant : Tenants, channel : Channels, operation : {"full_sync", "incremental_sync"}]
    /\ wanted \in Nat

LEMMA ProductsAreTyped ==
    ASSUME ProductTypes
    PROVE  ProductTypeOK
BY DEF ProductTypes, ProductTypeOK, ProductsTyped, MappingsTyped, RequestsTyped

\* Tenants are added, and nothing of the products changes.
LEMMA ProductsMore ==
    ASSUME ProductTypes, UNCHANGED productVars, tenants \subseteq tenants'
    PROVE  ProductTypes'
BY DEF ProductTypes, productVars, ProductsTyped, MappingsTyped, RequestsTyped, RequestTyped

LEMMA MappingsFewer ==
    ASSUME MappingsTyped(mapping), NEW S \in SUBSET DOMAIN mapping, mapping' = Restrict(mapping, S)
    PROVE  MappingsTyped(mapping')
BY DEF MappingsTyped, Restrict

LEMMA RequestMoved ==
    ASSUME RequestsTyped(request, tenants), NEW q \in Requests, NEW to, RequestTyped(to, tenants),
           request' = [request EXCEPT ![q] = to]
    PROVE  RequestsTyped(request', tenants)
<1>1. \A o \in Requests : request'[o] = IF o = q THEN to ELSE request[o]
  BY DEF RequestsTyped
<1>2. QED
  BY <1>1 DEF RequestsTyped, RequestTyped

LEMMA NoRequestTyped == RequestTyped(NoRequest, tenants)
BY DEF RequestTyped, RequestShape, NoRequest

\* A request begins, and nothing else changes.
LEMMA BegunTyped ==
    ASSUME ProductTypes, UNCHANGED <<tenants, product, mapping, syncQueue>>, NEW q \in Requests, NEW to,
           RequestTyped(to, tenants), Begun(q, to)
    PROVE  ProductTypes'
<1>1. RequestsTyped(request', tenants)
  BY RequestMoved DEF Begun, ProductTypes
<1>2. QED
  BY <1>1 DEF ProductTypes, Begun

\* A request is answered.
LEMMA ReplyTyped ==
    ASSUME ProductTypes, UNCHANGED tenants, NEW q \in Requests, Replies(q),
           ProductsTyped(product', tenants), MappingsTyped(mapping'),
           syncQueue' \subseteq [tenant : Tenants, channel : Channels,
                                 operation : {"full_sync", "incremental_sync"}]
    PROVE  ProductTypes'
<1>1. RequestsTyped(request', tenants)
  BY RequestMoved, NoRequestTyped DEF Replies, ProductTypes
<1>2. QED
  BY <1>1 DEF ProductTypes, Replies

\* The requests that begin.
LEMMA LooksTyped ==
    ASSUME ProductTypes, tenants \subseteq Tenants, ShopsTyped(channel, tenants), UNCHANGED tenants,
           NEW q \in Requests, NEW t \in tenants, ProductRequest(q, t)
    PROVE  ProductTypes'
<1>1. t \in Tenants /\ Own(t) \subseteq Products /\ DOMAIN mapping \subseteq Mappings
      /\ DOMAIN channel \subseteq Channels
  BY DEF ProductTypes, ProductsTyped, MappingsTyped, Own, ShopsTyped
<1>2. ASSUME NEW s \in Skus, CreateLooks(q, t, s) PROVE ProductTypes'
  <2> DEFINE to == [at |-> "create", tenant |-> t, sku |-> s]
  <2>1. RequestTyped(to, tenants)
    BY <1>1 DEF RequestTyped, RequestShape
  <2> HIDE DEF to
  <2>2. Begun(q, to) /\ UNCHANGED <<product, mapping, syncQueue>>
    BY <1>2 DEF CreateLooks, to
  <2>3. QED
    BY <2>1, <2>2, BegunTyped
<1>3. ASSUME NEW channels \in SUBSET Channels, NEW operation \in {"full_sync", "incremental_sync"},
             Begun(q, [at |-> "queue", tenant |-> t, channels |-> channels, operation |-> operation]),
             UNCHANGED <<product, mapping, syncQueue>>
      PROVE  ProductTypes'
  <2> DEFINE to == [at |-> "queue", tenant |-> t, channels |-> channels, operation |-> operation]
  <2>1. RequestTyped(to, tenants)
    BY <1>1 DEF RequestTyped, RequestShape
  <2> HIDE DEF to
  <2>2. Begun(q, to)
    BY <1>3 DEF to
  <2>3. QED
    BY <1>3, <2>1, <2>2, BegunTyped
<1>4. CASE FullSyncReads(q, t)
  <2>1. Active(t) \subseteq Channels
    BY <1>1 DEF Active
  <2>2. QED
    BY <1>3, <1>4, <2>1 DEF FullSyncReads
<1>5. ASSUME NEW x \in DOMAIN channel, NEW operation \in {"full_sync", "incremental_sync"},
             ChannelSyncReads(q, t, x, operation)
      PROVE  ProductTypes'
  BY <1>1, <1>3, <1>5 DEF ChannelSyncReads
<1>6. ASSUME NEW p \in Own(t), NEW s \in Skus \cup {NoSku}, PatchReads(q, t, p, s) PROVE ProductTypes'
  <2> DEFINE at == IF s \in {NoSku, product[p].sku} THEN "update" ELSE "conflict"
             to == [at |-> at, tenant |-> t, id |-> p, sku |-> s]
  <2>1. at \in {"conflict", "update"}
    OBVIOUS
  <2>2. Begun(q, to) /\ UNCHANGED <<product, mapping, syncQueue>>
    BY <1>6 DEF PatchReads
  <2> HIDE DEF at
  <2>3. RequestTyped(to, tenants)
    BY <1>1, <2>1 DEF RequestTyped, RequestShape
  <2> HIDE DEF to
  <2>4. QED
    BY <2>2, <2>3, BegunTyped
<1>7. ASSUME NEW p \in Own(t), NEW x \in DOMAIN channel, NEW e \in ExternalIds, MapFindsProduct(q, t, p, x, e)
      PROVE  ProductTypes'
  <2> DEFINE to == [at |-> "mapped", tenant |-> t, id |-> p, channel |-> x, ext |-> e]
  <2>1. RequestTyped(to, tenants)
    BY <1>1 DEF RequestTyped, RequestShape
  <2>2. Begun(q, to) /\ UNCHANGED <<product, mapping, syncQueue>>
    BY <1>7 DEF MapFindsProduct
  <2> HIDE DEF to
  <2>3. QED
    BY <2>1, <2>2, BegunTyped
<1>8. ASSUME NEW p \in Own(t), NEW m \in DOMAIN mapping, UnmapFinds(q, t, p, m) PROVE ProductTypes'
  <2> DEFINE to == [at |-> "unmap", id |-> p, mapping |-> m]
  <2>1. RequestTyped(to, tenants)
    BY <1>1 DEF RequestTyped, RequestShape
  <2>2. Begun(q, to) /\ UNCHANGED <<product, mapping, syncQueue>>
    BY <1>8 DEF UnmapFinds
  <2> HIDE DEF to
  <2>3. QED
    BY <2>1, <2>2, BegunTyped
<1>9. QED
  BY <1>2, <1>4, <1>5, <1>6, <1>7, <1>8 DEF ProductRequest

\* A request that goes on to another place, with what it has.
LEMMA ContinuesTyped ==
    ASSUME ProductTypes, UNCHANGED <<tenants, product, mapping, syncQueue>>, NEW q \in Requests, NEW to,
           Continues(q, to),
           \/ request[q].at = "conflict" /\ to = "update"
           \/ request[q].at = "mapped" /\ to = "map"
    PROVE  ProductTypes'
<1> DEFINE r == request[q]
           new == [r EXCEPT !.at = to]
<1>1. r \in RequestShape
  BY DEF ProductTypes, RequestsTyped
<1>2. RequestTyped(new, tenants)
  <2>1. CASE r.at = "conflict" /\ to = "update"
    <3>1. r \in [at : {"conflict", "update"}, tenant : Tenants, id : Products, sku : Skus \cup {NoSku}]
      BY <1>1, <2>1 DEF RequestShape, NoRequest
    <3>2. new \in [at : {"conflict", "update"}, tenant : Tenants, id : Products, sku : Skus \cup {NoSku}]
          /\ new.at = "update"
      BY <2>1, <3>1
    <3> HIDE DEF new
    <3>3. QED
      BY <3>2 DEF RequestTyped, RequestShape
  <2>2. CASE r.at = "mapped" /\ to = "map"
    <3>1. r \in [at : {"mapped", "map"}, tenant : Tenants, id : Products, channel : Channels, ext : ExternalIds]
      BY <1>1, <2>2 DEF RequestShape, NoRequest
    <3>2. new \in [at : {"mapped", "map"}, tenant : Tenants, id : Products, channel : Channels, ext : ExternalIds]
          /\ new.at = "map"
      BY <2>2, <3>1
    <3> HIDE DEF new
    <3>3. QED
      BY <3>2 DEF RequestTyped, RequestShape
  <2>3. QED
    BY <2>1, <2>2
<1>3. request' = [request EXCEPT ![q] = new]
  BY DEF Continues
<1> HIDE DEF new
<1>4. RequestsTyped(request', tenants)
  BY <1>2, <1>3, RequestMoved DEF ProductTypes
<1>5. QED
  BY <1>4 DEF ProductTypes, Continues

\* The requests that go on.
LEMMA WritesTyped ==
    ASSUME ProductTypes, UNCHANGED tenants, NEW q \in Requests,
           \/ CreateInserts(q) \/ PatchLooks(q) \/ PatchWrites(q) \/ MapLooks(q) \/ MapInserts(q)
           \/ UnmapDeletes(q) \/ SyncQueues(q) \/ RequestFails(q)
    PROVE  ProductTypes'
<1> DEFINE r == request[q]
<1>1. r \in RequestShape /\ (r.at = "create" => r.tenant \in tenants)
  BY DEF ProductTypes, RequestsTyped, RequestTyped
<1>2. /\ ProductsTyped(product, tenants) /\ MappingsTyped(mapping)
      /\ syncQueue \subseteq [tenant : Tenants, channel : Channels, operation : {"full_sync", "incremental_sync"}]
  BY DEF ProductTypes
<1>3. CASE CreateInserts(q)
  <2>1. r.at = "create" /\ Replies(q) /\ UNCHANGED <<mapping, syncQueue>>
    BY <1>3 DEF CreateInserts
  <2> DEFINE row == [tenant |-> r.tenant, sku |-> r.sku]
  <2>2. row \in [tenant : tenants, sku : Skus]
    BY <1>1, <2>1 DEF RequestShape, NoRequest
  <2>3. \/ UNCHANGED product
        \/ \E p \in Products : product' = WithRow(product, p, row)
    BY <1>3 DEF CreateInserts
  <2> HIDE DEF row
  <2>4. ProductsTyped(product', tenants)
    BY <1>2, <2>2, <2>3 DEF ProductsTyped, WithRow
  <2>5. QED
    BY <1>2, <2>1, <2>4, ReplyTyped
<1>4. CASE PatchLooks(q)
  BY <1>2, <1>4, ReplyTyped, ContinuesTyped DEF PatchLooks
<1>5. CASE PatchWrites(q)
  <2>1. r.at = "update" /\ Replies(q) /\ UNCHANGED <<mapping, syncQueue>>
    BY <1>5 DEF PatchWrites
  <2>2. r.sku \in Skus \cup {NoSku}
    BY <1>1, <2>1 DEF RequestShape, NoRequest
  <2>3. \/ UNCHANGED product
        \/ r.sku # NoSku /\ r.id \in DOMAIN product /\ product' = [product EXCEPT ![r.id].sku = r.sku]
    BY <1>5 DEF PatchWrites
  <2>4. ProductsTyped(product', tenants)
    BY <1>2, <2>2, <2>3 DEF ProductsTyped
  <2>5. QED
    BY <1>2, <2>1, <2>4, ReplyTyped
<1>6. CASE MapLooks(q)
  BY <1>2, <1>6, ReplyTyped, ContinuesTyped DEF MapLooks
<1>7. CASE MapInserts(q)
  <2>1. r.at = "map" /\ Replies(q) /\ UNCHANGED <<product, syncQueue>>
    BY <1>7 DEF MapInserts
  <2> DEFINE row == [product |-> r.id, channel |-> r.channel, ext |-> r.ext]
  <2>2. row \in [product : Products, channel : Channels, ext : ExternalIds]
    BY <1>1, <2>1 DEF RequestShape, NoRequest
  <2>3. \/ UNCHANGED mapping
        \/ \E m \in Mappings : mapping' = WithRow(mapping, m, row)
    BY <1>7 DEF MapInserts
  <2> HIDE DEF row
  <2>4. MappingsTyped(mapping')
    BY <1>2, <2>2, <2>3 DEF MappingsTyped, WithRow
  <2>5. QED
    BY <1>2, <2>1, <2>4, ReplyTyped
<1>8. CASE UnmapDeletes(q)
  <2>1. Replies(q) /\ UNCHANGED <<product, syncQueue>>
    BY <1>8 DEF UnmapDeletes
  <2>2. MappingsTyped(mapping')
    BY <1>2, <1>8, MappingsFewer DEF UnmapDeletes
  <2>3. QED
    BY <1>2, <2>1, <2>2, ReplyTyped
<1>9. CASE SyncQueues(q)
  <2>1. r.at = "queue" /\ Replies(q) /\ UNCHANGED <<product, mapping>>
    BY <1>9 DEF SyncQueues
  <2>2. /\ r.tenant \in Tenants /\ r.channels \subseteq Channels
        /\ r.operation \in {"full_sync", "incremental_sync"}
    BY <1>1, <2>1 DEF RequestShape, NoRequest
  <2>3. syncQueue' \subseteq [tenant : Tenants, channel : Channels, operation : {"full_sync", "incremental_sync"}]
    BY <1>2, <1>9, <2>2 DEF SyncQueues
  <2>4. QED
    BY <1>2, <2>1, <2>3, ReplyTyped
<1>10. CASE RequestFails(q)
  BY <1>2, <1>10, ReplyTyped DEF RequestFails
<1>11. QED
  BY <1>3, <1>4, <1>5, <1>6, <1>7, <1>8, <1>9, <1>10

LEMMA ProductNextTyped ==
    ASSUME ProductTypes, tenants \subseteq Tenants, ShopsTyped(channel, tenants), UNCHANGED tenants, ProductNext
    PROVE  ProductTypes'
<1>1. ASSUME NEW t \in tenants, NEW p \in Own(t), DeleteProduct(t, p) PROVE ProductTypes'
  <2>1. MappingsTyped(mapping')
    BY <1>1, MappingsFewer DEF DeleteProduct, ProductTypes
  <2>2. ProductsTyped(product', tenants)
    BY <1>1 DEF DeleteProduct, ProductTypes, ProductsTyped, Restrict
  <2>3. QED
    BY <1>1, <2>1, <2>2 DEF DeleteProduct, ProductTypes
<1>2. QED
  BY <1>1, LooksTyped, WritesTyped DEF ProductNext

\* Plans: the log is a sequence, and events name its places.
EventShape == [type : {"completed", "updated", "deleted", "payment_failed"},
               sub : Subscriptions, plan : Plans, status : Statuses]
CheckoutShape == [at : {"idle", "customer", "open"}, payer : Tenants, plan : Plans,
                  customer : Customers \cup {NoCustomer}]
SubscriptionShape == [payer : Tenants, customer : Customers \cup {NoCustomer},
                      plan : Plans, status : Statuses \cup {"none"}]

HooksTyped(H, L) == \A h \in H : h.event \in DOMAIN L /\ h.plan \in Plans

BillTypes ==
    /\ plan \in [Tenants -> Shown]
    /\ customer \in [Tenants -> Customers \cup {NoCustomer}]
    /\ checkout \in [Checkouts -> CheckoutShape]
    /\ subscription \in [Subscriptions -> SubscriptionShape]
    /\ log \in Seq(EventShape) /\ pending \subseteq DOMAIN log /\ HooksTyped(hook, log)
    /\ muddled \subseteq Tenants /\ dealings \in Nat

LEMMA BillsAreTyped ==
    ASSUME BillTypes
    PROVE  BillingTypeOK
<1>1. \A i \in DOMAIN log : log[i] \in EventShape
  BY DEF BillTypes
<1>2. QED
  BY <1>1 DEF BillTypes, BillingTypeOK, CheckoutShape, SubscriptionShape, EventShape, HooksTyped

LEMMA LimitsShown == \A p \in Plans : Limit[p] \in Range(Limit)
BY BillingAssumption DEF Range

LEMMA UnopenedTyped == Unopened \in CheckoutShape /\ NotSubscribed \in SubscriptionShape
<1>1. (CHOOSE t \in Tenants : TRUE) \in Tenants /\ (CHOOSE p \in Plans : TRUE) \in Plans
  BY FirstAccountAssumption, PlansAssumption
<1>2. QED
  BY <1>1 DEF Unopened, NotSubscribed, CheckoutShape, SubscriptionShape

\* Events are appended to the log, and to be delivered.
LEMMA SentTyped ==
    ASSUME BillTypes, NEW events \in Seq(EventShape), Sends(events)
    PROVE  /\ log' \in Seq(EventShape) /\ pending' \subseteq DOMAIN log' /\ DOMAIN log \subseteq DOMAIN log'
           /\ Len(log') = Len(log) + Len(events)
           /\ \A i \in DOMAIN log : log'[i] = log[i]
           /\ \A i \in 1..Len(events) : log'[Len(log) + i] = events[i]
BY DEF BillTypes, Sends

LEMMA CheckoutsTyped ==
    ASSUME BillTypes, NEW k \in Checkouts,
           \/ \E t \in Tenants, p \in Plans : CheckoutReads(k, t, p)
           \/ CustomerStored(k) \/ CheckoutEnds(k)
    PROVE  BillTypes'
<1>1. ASSUME NEW t \in Tenants, NEW p \in Plans, CheckoutReads(k, t, p) PROVE BillTypes'
  <2>1. /\ dealings' = dealings + 1
        /\ UNCHANGED <<plan, customer, subscription, log, pending, hook, muddled>>
    BY <1>1 DEF CheckoutReads
  <2>2. PICK at \in {"customer", "open"}, c \in Customers \cup {NoCustomer} :
            checkout' = [checkout EXCEPT ![k] = [at |-> at, payer |-> t, plan |-> p, customer |-> c]]
    BY <1>1 DEF CheckoutReads, BillTypes
  <2>3. [at |-> at, payer |-> t, plan |-> p, customer |-> c] \in CheckoutShape
    BY DEF CheckoutShape
  <2>4. QED
    BY <2>1, <2>2, <2>3 DEF BillTypes
<1>2. CASE CustomerStored(k)
  <2>1. checkout[k] \in CheckoutShape
    BY DEF BillTypes
  <2>2. checkout' \in [Checkouts -> CheckoutShape]
    BY <1>2, <2>1 DEF CustomerStored, BillTypes, CheckoutShape
  <2>3. customer' \in [Tenants -> Customers \cup {NoCustomer}]
    BY <1>2, <2>1 DEF CustomerStored, BillTypes, CheckoutShape
  <2>4. UNCHANGED <<plan, subscription, log, pending, hook, muddled, dealings>>
    BY <1>2 DEF CustomerStored
  <2>5. QED
    BY <2>2, <2>3, <2>4 DEF BillTypes
<1>3. CASE CheckoutEnds(k)
  BY <1>3, UnopenedTyped DEF CheckoutEnds, BillTypes
<1>4. QED
  BY <1>1, <1>2, <1>3

\* A subscription changes, and Stripe sends events of it.
LEMMA SubscriptionTyped ==
    ASSUME BillTypes, NEW s \in Subscriptions, NEW new \in SubscriptionShape, NEW events \in Seq(EventShape),
           subscription' = [subscription EXCEPT ![s] = new], Sends(events),
           checkout' \in [Checkouts -> CheckoutShape], dealings' \in Nat,
           UNCHANGED <<plan, customer, hook, muddled>>
    PROVE  BillTypes'
<1>1. /\ log' \in Seq(EventShape) /\ pending' \subseteq DOMAIN log' /\ DOMAIN log \subseteq DOMAIN log'
  BY SentTyped
<1>2. HooksTyped(hook', log')
  BY <1>1 DEF BillTypes, HooksTyped
<1>3. subscription' \in [Subscriptions -> SubscriptionShape]
  BY DEF BillTypes
<1>4. QED
  BY <1>1, <1>2, <1>3 DEF BillTypes

LEMMA EventTyped ==
    ASSUME NEW type \in {"completed", "updated", "deleted", "payment_failed"}, NEW s \in Subscriptions,
           NEW new \in SubscriptionShape, new.status # "none"
    PROVE  Event(type, s, new) \in EventShape
BY DEF Event, EventShape, SubscriptionShape

LEMMA StripeTyped ==
    ASSUME BillTypes, NEW s \in Subscriptions,
           \/ \E k \in Checkouts : Paid(k, s)
           \/ \E p \in Plans, st \in {"active", "canceled"} : PortalUsed(s, p, st)
           \/ RenewalFails(s)
    PROVE  BillTypes'
<1>0. subscription[s] \in SubscriptionShape
  BY DEF BillTypes
<1>1. ASSUME NEW k \in Checkouts, Paid(k, s) PROVE BillTypes'
  <2> DEFINE new == [payer |-> checkout[k].payer, customer |-> checkout[k].customer,
                     plan |-> checkout[k].plan, status |-> "active"]
             e == Event("completed", s, new)
  <2>1. checkout[k] \in CheckoutShape
    BY DEF BillTypes
  <2>2. new \in SubscriptionShape /\ new.status # "none"
    BY <2>1 DEF CheckoutShape, SubscriptionShape, Statuses
  <2>3. /\ subscription' = [subscription EXCEPT ![s] = new] /\ Sends(<<e>>)
        /\ checkout' = [checkout EXCEPT ![k] = Unopened] /\ UNCHANGED <<plan, customer, hook, muddled, dealings>>
    BY <1>1 DEF Paid
  <2> HIDE DEF new
  <2>4. e \in EventShape
    BY <2>2, EventTyped
  <2> HIDE DEF e
  <2>5. checkout' \in [Checkouts -> CheckoutShape] /\ dealings' \in Nat /\ <<e>> \in Seq(EventShape)
    BY <2>3, <2>4, UnopenedTyped DEF BillTypes
  <2>6. QED
    BY <2>2, <2>3, <2>5, SubscriptionTyped
<1>2. ASSUME NEW p \in Plans, NEW st \in {"active", "canceled"}, PortalUsed(s, p, st) PROVE BillTypes'
  <2> DEFINE new == [subscription[s] EXCEPT !.plan = p, !.status = st]
             e == Event(IF st = "canceled" THEN "deleted" ELSE "updated", s, new)
  <2>1. new \in SubscriptionShape /\ new.status # "none"
    BY <1>0 DEF SubscriptionShape, Statuses
  <2>2. /\ subscription' = [subscription EXCEPT ![s] = new] /\ Sends(<<e>>) /\ dealings' = dealings + 1
        /\ UNCHANGED <<plan, customer, checkout, hook, muddled>>
    BY <1>2 DEF PortalUsed
  <2> HIDE DEF new
  <2>3. e \in EventShape
    BY <2>1, EventTyped
  <2> HIDE DEF e
  <2>4. checkout' \in [Checkouts -> CheckoutShape] /\ dealings' \in Nat /\ <<e>> \in Seq(EventShape)
    BY <2>2, <2>3 DEF BillTypes
  <2>5. QED
    BY <2>1, <2>2, <2>4, SubscriptionTyped
<1>3. CASE RenewalFails(s)
  <2> DEFINE new == [subscription[s] EXCEPT !.status = "past_due"]
             d == Event("payment_failed", s, new)
             e == Event("updated", s, new)
  <2>1. new \in SubscriptionShape /\ new.status # "none"
    BY <1>0 DEF SubscriptionShape, Statuses
  <2>2. /\ subscription' = [subscription EXCEPT ![s] = new] /\ Sends(<<d, e>>) /\ dealings' = dealings + 1
        /\ UNCHANGED <<plan, customer, checkout, hook, muddled>>
    BY <1>3 DEF RenewalFails
  <2> HIDE DEF new
  <2>3. d \in EventShape /\ e \in EventShape
    BY <2>1, EventTyped
  <2> HIDE DEF d, e
  <2>4. checkout' \in [Checkouts -> CheckoutShape] /\ dealings' \in Nat /\ <<d, e>> \in Seq(EventShape)
    BY <2>2, <2>3 DEF BillTypes
  <2>5. QED
    BY <2>1, <2>2, <2>4, SubscriptionTyped
<1>4. QED
  BY <1>1, <1>2, <1>3

\* The tenant an event in the log is about.
LEMMA PayerTyped ==
    ASSUME BillTypes, NEW i \in DOMAIN log
    PROVE  log[i] \in EventShape /\ PayerOf(i) \in Tenants
<1>1. log[i] \in EventShape
  BY DEF BillTypes
<1>2. log[i].sub \in Subscriptions
  BY <1>1 DEF EventShape
<1>3. QED
  BY <1>1, <1>2 DEF BillTypes, PayerOf, SubscriptionShape

\* An event is taken off, and the tenant it is about may get another plan.
LEMMA HandledTyped ==
    ASSUME BillTypes, NEW i \in DOMAIN log, plan' \in [Tenants -> Shown], pending' \subseteq pending,
           HooksTyped(hook', log), muddled' \subseteq muddled \cup {PayerOf(i)},
           UNCHANGED <<customer, checkout, subscription, log, dealings>>
    PROVE  BillTypes'
BY PayerTyped DEF BillTypes

LEMMA EventsTyped ==
    ASSUME BillTypes, NEW i \in DOMAIN log,
           \/ Resent(i) \/ CompletedArrives(i) \/ EventUntagged(i) \/ EventLost(i)
    PROVE  BillTypes'
<1> DEFINE t == PayerOf(i)
<1>0. /\ log[i] \in EventShape /\ t \in Tenants /\ plan \in [Tenants -> Shown] /\ plan[t] \in Shown
      /\ HooksTyped(hook, log)
  BY PayerTyped DEF BillTypes
<1>1. CASE Resent(i)
  BY <1>1 DEF Resent, BillTypes
<1>2. CASE CompletedArrives(i)
  <2>1. subscription[log[i].sub].plan \in Plans
    BY <1>0 DEF BillTypes, EventShape, SubscriptionShape
  <2> DEFINE h == [event |-> i, plan |-> subscription[log[i].sub].plan]
  <2>2. h.event \in DOMAIN log /\ h.plan \in Plans
    BY <2>1
  <2>3. /\ hook' = hook \cup {h} /\ pending' \subseteq pending
        /\ UNCHANGED <<plan, customer, checkout, subscription, log, dealings>>
    BY <1>2 DEF CompletedArrives
  <2> HIDE DEF h
  <2>4. HooksTyped(hook', log)
    BY <1>0, <2>2, <2>3 DEF HooksTyped
  <2>5. muddled' \subseteq muddled \cup {t}
    BY <1>2 DEF CompletedArrives, Muddles
  <2>6. QED
    BY <1>0, <2>3, <2>4, <2>5, HandledTyped
<1>3. CASE EventUntagged(i)
  BY <1>3 DEF EventUntagged, BillTypes
<1>4. CASE EventLost(i)
  <2>1. HooksTyped(hook', log)
    BY <1>0, <1>4 DEF EventLost, HooksTyped
  <2>2. QED
    BY <1>0, <1>4, <2>1, HandledTyped DEF EventLost
<1>5. QED
  BY <1>1, <1>2, <1>3, <1>4

LEMMA BillingNextTyped ==
    ASSUME BillTypes, BillingNext
    PROVE  BillTypes'
<1>1. ASSUME NEW h \in hook, CompletedApplied(h) PROVE BillTypes'
  <2> DEFINE i == h.event
             new == [plan |-> h.plan, status |-> "active", limit |-> Limit[h.plan], sub |-> log[i].sub]
  <2>1. i \in DOMAIN log /\ h.plan \in Plans
    BY DEF BillTypes, HooksTyped
  <2>2. log[i].sub \in Subscriptions
    BY <2>1, PayerTyped DEF EventShape
  <2>3. new \in Shown
    BY <2>1, <2>2, LimitsShown DEF Shown, Statuses
  <2>4. /\ plan' = [plan EXCEPT ![PayerOf(i)] = new] /\ hook' \subseteq hook
        /\ UNCHANGED <<customer, checkout, subscription, log, pending, muddled, dealings>>
    BY <1>1 DEF CompletedApplied
  <2> HIDE DEF new
  <2>5. plan' \in [Tenants -> Shown] /\ HooksTyped(hook', log)
    BY <2>3, <2>4 DEF BillTypes, HooksTyped
  <2>6. QED
    BY <2>1, <2>4, <2>5, HandledTyped
<1>2. QED
  BY <1>1, CheckoutsTyped, StripeTyped, EventsTyped DEF BillingNext

\* The four parts together, and the ids given up.
GoneTyped == gone \in [channel : SUBSET Channels, product : SUBSET Products, mapping : SUBSET Mappings]

TypeInv == AccountTypes /\ ShopTypes /\ ProductTypes /\ BillTypes /\ GoneTyped /\ budget \in Budgets

LEMMA TypesHold ==
    ASSUME TypeInv
    PROVE  TypeOK
BY AccountsAreTyped, ShopsAreTyped, ProductsAreTyped, BillsAreTyped DEF TypeInv, TypeOK, GoneTyped

LEMMA InitTyped ==
    ASSUME Init
    PROVE  TypeInv
<1>1. AccountTypes
  <2> DEFINE t == CHOOSE t \in Tenants : TRUE
             e == CHOOSE e \in Emails : TRUE
             p == CHOOSE p \in Passwords : TRUE
             row == [tenant |-> t, hash |-> p, onboarded |-> FALSE]
  <2>1. t \in Tenants /\ e \in Emails /\ p \in Hashes
    BY FirstAccountAssumption DEF Hashes
  <2>2. /\ tenants = {t} /\ sessions = {t} /\ user = [x \in {e} |-> row]
        /\ link = <<>> /\ dead = {} /\ begun = 0 /\ call = [c \in Calls |-> Idle]
    BY DEF Init, AccountsInit
  <2>3. row \in UserRow({t})
    BY <2>1 DEF UserRow
  <2> HIDE DEF row, t, e, p
  <2>4. UsersTyped(user, tenants)
    BY <2>1, <2>2, <2>3 DEF UsersTyped
  <2>5. LinksTyped(link, DOMAIN user)
    BY <2>2 DEF LinksTyped
  <2>6. CallsTyped(call, tenants, DOMAIN user)
    BY <2>2, IdleTyped DEF CallsTyped
  <2>7. QED
    BY <2>1, <2>2, <2>4, <2>5, <2>6 DEF AccountTypes
<1>2. ShopTypes
  BY RestingTyped DEF Init, ShopsInit, ShopTypes, ShopsTyped, StatesTyped, HandlersTyped
<1>3. ProductTypes
  BY NoRequestTyped DEF Init, ProductInit, ProductTypes, ProductsTyped, MappingsTyped, RequestsTyped, RequestTyped
<1>4. BillTypes
  <2>1. [plan |-> "trial", status |-> "trialing", limit |-> 3, sub |-> NoSubscription] \in Shown
    BY DEF Shown, Statuses
  <2>2. log = <<>> /\ pending = {} /\ hook = {}
    BY DEF Init, BillingInit
  <2>3. QED
    BY <2>1, <2>2, UnopenedTyped DEF Init, BillingInit, BillTypes, HooksTyped
<1>5. GoneTyped /\ budget \in Budgets
  BY DEF Init, ShopsInit, GoneTyped
<1>6. QED
  BY <1>1, <1>2, <1>3, <1>4, <1>5 DEF TypeInv

LEMMA GoneStaysTyped ==
    ASSUME ShopTypes, ProductTypes, GoneTyped, Retires
    PROVE  GoneTyped'
<1>1. DOMAIN channel \subseteq Channels /\ DOMAIN product \subseteq Products /\ DOMAIN mapping \subseteq Mappings
  BY DEF ShopTypes, ShopsTyped, ProductTypes, ProductsTyped, MappingsTyped
<1>2. QED
  BY <1>1 DEF GoneTyped, Retires, Lost

\* A step that leaves the products and requests alone, but for the mappings of channels.
LEMMA CascadeTyped ==
    ASSUME ProductTypes, ChannelsCascade, UNCHANGED <<product, request, syncQueue, wanted>>, tenants \subseteq tenants'
    PROVE  ProductTypes'
<1>1. MappingsTyped(mapping')
  BY MappingsFewer DEF ChannelsCascade, ProductTypes
<1>2. QED
  BY <1>1 DEF ProductTypes, ProductsTyped, RequestsTyped, RequestTyped

LEMMA TenantsStay ==
    ASSUME AccountsNext \/ ProvisionStep
    PROVE  tenants \subseteq tenants'
<1>1. CASE AccountsNext
  BY <1>1 DEF AccountsNext, RegisterFindsSlug, RegisterFindsEmail, RegisterInserts, LoginReads, LoginVerifies,
     OnboardingComplete, ForgotReads, ForgotInvalidates, ForgotInserts, LinkExpires, ResetReads, ResetCommits,
     CallFails
<1>2. CASE ProvisionStep
  BY <1>2 DEF ProvisionStep, InstallMakesTenant, InstallMakesOwner, EposFindsEmail, EposMakesTenant, EposMakesUser,
     EposMakesChannel
<1>3. QED
  BY <1>1, <1>2

LEMMA NextTyped ==
    ASSUME TypeInv, FlowInv, [Next]_vars
    PROVE  TypeInv'
<1>1. CASE UNCHANGED vars
  BY <1>1 DEF vars, accountVars, shopVars, productVars, billVars, TypeInv, AccountTypes, ShopTypes, ProductTypes,
     BillTypes, GoneTyped
<1>2. CASE Next
  <2>1. GoneTyped' /\ budget' \in Budgets
    BY <1>2, GoneStaysTyped DEF Next, WithinBudget, TypeInv
  <2>2. tenants \subseteq Tenants /\ ShopsTyped(channel, tenants)
    BY DEF TypeInv, AccountTypes, ShopTypes
  <2>3. CASE AccountsNext /\ UNCHANGED <<shopVars, productVars, billVars>>
    <3>1. AccountTypes'
      BY <2>3, AccountsNextTyped DEF TypeInv
    <3>2. tenants \subseteq tenants' /\ UNCHANGED productVars /\ UNCHANGED billVars /\ UNCHANGED shopVars
      BY <2>3, TenantsStay
    <3>3. ShopTypes'
      <4>1. /\ ShopsTyped(channel, tenants') /\ StatesTyped(oauth, starter, tenants')
            /\ HandlersTyped(handler, tenants')
        BY <3>2, ShopsMore, StatesMore, HandlersMore DEF TypeInv, ShopTypes
      <4>2. QED
        BY <3>2, <4>1 DEF TypeInv, ShopTypes, shopVars
    <3>4. ProductTypes'
      BY <3>2, ProductsMore DEF TypeInv
    <3>5. BillTypes'
      BY <3>2 DEF TypeInv, BillTypes, billVars
    <3>6. QED
      BY <2>1, <3>1, <3>3, <3>4, <3>5 DEF TypeInv
  <2>4. CASE ShopsNext /\ ChannelsCascade /\ UNCHANGED <<product, request, syncQueue, wanted, billVars>>
    <3>1. BillTypes'
      BY <2>4 DEF TypeInv, BillTypes, billVars
    <3>2. CASE ShopsStep /\ UNCHANGED accountVars
      <4>1. AccountTypes' /\ UNCHANGED tenants
        BY <3>2 DEF TypeInv, AccountTypes, accountVars
      <4>2. ShopTypes'
        BY <2>2, <3>2, <4>1, ShopsStepTyped DEF TypeInv
      <4>3. ProductTypes'
        BY <2>4, <4>1, CascadeTyped DEF TypeInv
      <4>4. QED
        BY <2>1, <3>1, <4>1, <4>2, <4>3 DEF TypeInv
    <3>3. CASE ProvisionStep
      <4>1. \A h \in Handlers : handler[h].at = "owner" => handler[h].tenant \in tenants
        BY DEF TypeInv, ShopTypes, HandlersTyped, Has
      <4>2. AccountTypes'
        BY <3>3, <4>1, ProvisionTyped DEF TypeInv
      <4>3. ShopTypes'
        BY <3>3, ProvisionShopsTyped DEF TypeInv
      <4>4. ProductTypes'
        BY <2>4, <3>3, TenantsStay, CascadeTyped DEF TypeInv
      <4>5. QED
        BY <2>1, <3>1, <4>2, <4>3, <4>4 DEF TypeInv
    <3>4. QED
      BY <2>4, <3>2, <3>3 DEF ShopsNext
  <2>5. CASE ProductNext /\ UNCHANGED <<accountVars, shopVars, billVars>>
    <3>1. UNCHANGED tenants /\ UNCHANGED billVars /\ UNCHANGED shopVars /\ UNCHANGED accountVars
      BY <2>5 DEF accountVars
    <3>2. ProductTypes'
      BY <2>2, <2>5, <3>1, ProductNextTyped DEF TypeInv
    <3>3. AccountTypes' /\ ShopTypes' /\ BillTypes'
      BY <3>1 DEF TypeInv, AccountTypes, ShopTypes, BillTypes, accountVars, shopVars, billVars
    <3>4. QED
      BY <2>1, <3>2, <3>3 DEF TypeInv
  <2>6. CASE BillingNext /\ UNCHANGED <<accountVars, shopVars, productVars>>
    <3>1. UNCHANGED productVars /\ UNCHANGED shopVars /\ UNCHANGED accountVars
      BY <2>6
    <3>2. BillTypes'
      BY <2>6, BillingNextTyped DEF TypeInv
    <3>3. AccountTypes' /\ ShopTypes' /\ ProductTypes'
      BY <3>1 DEF TypeInv, AccountTypes, ShopTypes, ProductTypes, accountVars, shopVars, productVars
    <3>4. QED
      BY <2>1, <3>2, <3>3 DEF TypeInv
  <2>7. QED
    BY <1>2, <2>3, <2>4, <2>5, <2>6 DEF Next
<1>3. QED
  BY <1>1, <1>2

\* Every row, request and event has its type, and names tenants, addresses, links
\* and flows that exist: for any number of requests that overlap.
THEOREM TenancyTypeOK == Spec => []TypeOK
<1>1. Init => QuietInv /\ FlowInv
  BY RestingKeys DEF Init, ShopsInit, QuietInv, ChannelsQuiet, GoneApart, HandlerSound,
     FlowInv, MadeOK, StatesUnspent, OneHolds, Holds, ChannelsTrace, CallbackSound
<1>2. QED
  BY <1>1, InitTyped, NextTyped, NextKeepsQuiet, NextKeepsFlows, TypesHold, PTL DEF Spec

-----------------------------------------------------------------------------
(* Plans.  A subscription has been on no plan but those its events tell.    *)
(* While a later completed checkout of a tenant that is not muddled has     *)
(* been taken up, no earlier one is being applied: so whenever the newest   *)
(* is done with, it was the last to write.                                  *)

Told(s, p) == \E j \in DOMAIN log : log[j].sub = s /\ log[j].plan = p

LogInv ==
    /\ \A i \in DOMAIN log : subscription[log[i].sub].status # "none"
    /\ \A s \in Subscriptions : subscription[s].status # "none" => Told(s, subscription[s].plan)
    /\ \A h \in hook : log[h.event].type = "completed" /\ Told(log[h.event].sub, h.plan)

HooksFirst(t) ==
    \A i, j \in Completions(t) : i < j /\ TakenUp(j) => \A h \in hook : h.event # i

Newest(t, j) == j \in Completions(t) /\ \A i \in Completions(t) : i <= j

NewestServed(t) == \A j \in DOMAIN log : Newest(t, j) /\ j \notin Unapplied => Serves(t, j)

OrderInv == \A t \in Tenants \ muddled : HooksFirst(t) /\ NewestServed(t)

LEMMA UnappliedIs ==
    /\ \A i : i \in Unapplied <=> i \in pending \/ \E h \in hook : h.event = i
    /\ \A i : i \in Unapplied' <=> i \in pending' \/ \E h \in hook' : h.event = i
BY DEF Unapplied

LEMMA OrderGives ==
    ASSUME OrderInv
    PROVE  PaidIsServed
BY DEF OrderInv, NewestServed, Newest, PaidIsServed, Completions

\* An event that was there is of the tenant it was of.
LEMMA PayersStay ==
    ASSUME BillTypes, LogInv, NEW s \in Subscriptions, NEW new \in SubscriptionShape,
           subscription' = [subscription EXCEPT ![s] = new],
           subscription[s].status # "none" => new.payer = subscription[s].payer, new.status # "none",
           NEW i \in DOMAIN log
    PROVE  /\ log[i].sub \in Subscriptions
           /\ subscription'[log[i].sub].payer = subscription[log[i].sub].payer
           /\ subscription'[log[i].sub].status # "none"
<1>1. log[i].sub \in Subscriptions /\ subscription[log[i].sub].status # "none"
  BY PayerTyped DEF EventShape, LogInv
<1>2. subscription \in [Subscriptions -> SubscriptionShape]
  BY DEF BillTypes
<1>3. QED
  BY <1>1, <1>2

\* The subscription s changes, and Stripe sends events of it.
LEMMA SentKeepsOrder ==
    ASSUME BillTypes, LogInv, OrderInv, NEW s \in Subscriptions, NEW new \in SubscriptionShape,
           NEW events \in Seq(EventShape), Len(events) > 0, Sends(events),
           UNCHANGED <<plan, hook, muddled>>, subscription' = [subscription EXCEPT ![s] = new],
           subscription[s].status # "none" => new.payer = subscription[s].payer, new.status # "none",
           \A i \in 1..Len(events) : events[i].sub = s /\ events[i].plan = new.plan
    PROVE  LogInv' /\ OrderInv'
<1>1. /\ log' \in Seq(EventShape) /\ Len(log') = Len(log) + Len(events) /\ DOMAIN log \subseteq DOMAIN log'
      /\ \A i \in DOMAIN log : log'[i] = log[i]
      /\ \A i \in 1..Len(events) : log'[Len(log) + i] = events[i]
  BY SentTyped
<1>2. /\ log \in Seq(EventShape) /\ subscription \in [Subscriptions -> SubscriptionShape]
      /\ HooksTyped(hook, log) /\ pending \subseteq DOMAIN log
  BY DEF BillTypes
<1>3. /\ Len(log) \in Nat /\ Len(events) \in Nat /\ DOMAIN log = 1..Len(log) /\ DOMAIN log' = 1..Len(log')
  BY <1>1, <1>2
<1>4. subscription'[s] = new /\ \A r \in Subscriptions \ {s} : subscription'[r] = subscription[r]
  BY <1>2
<1>5. \A i \in DOMAIN log' \ DOMAIN log : i > Len(log) /\ log'[i].sub = s /\ log'[i].plan = new.plan
  <2> SUFFICES ASSUME NEW i \in DOMAIN log' \ DOMAIN log
               PROVE  i > Len(log) /\ log'[i].sub = s /\ log'[i].plan = new.plan
    OBVIOUS
  <2>1. i > Len(log) /\ i - Len(log) \in 1..Len(events) /\ i = Len(log) + (i - Len(log))
    BY <1>1, <1>3
  <2>2. log'[i] = events[i - Len(log)]
    BY <1>1, <2>1
  <2>3. QED
    BY <2>1, <2>2
<1>6. \A i \in DOMAIN log : /\ log[i].sub \in Subscriptions /\ PayerOf(i)' = PayerOf(i)
                            /\ subscription'[log[i].sub].status # "none"
  BY <1>1, PayersStay DEF PayerOf
<1>7. \A r, p : Told(r, p) => Told(r, p)'
  BY <1>1 DEF Told
<1>8. Told(s, new.plan)'
  <2>1. Len(log) + 1 \in DOMAIN log' /\ Len(log) + 1 \notin DOMAIN log
    BY <1>1, <1>3
  <2>2. QED
    BY <1>5, <2>1 DEF Told
<1>9. LogInv'
  <2>1. \A i \in DOMAIN log' : subscription'[log'[i].sub].status # "none"
    BY <1>1, <1>4, <1>5, <1>6
  <2>2. ASSUME NEW r \in Subscriptions, subscription'[r].status # "none"
        PROVE  \E j \in DOMAIN log' : log'[j].sub = r /\ log'[j].plan = subscription'[r].plan
    <3>1. CASE r # s
      <4>1. Told(r, subscription[r].plan) /\ subscription'[r] = subscription[r]
        BY <1>4, <2>2, <3>1 DEF LogInv
      <4>2. QED
        BY <1>1, <4>1 DEF Told
    <3>2. CASE r = s
      BY <1>4, <1>8, <3>2 DEF Told
    <3>3. QED
      BY <3>1, <3>2
  <2>3. ASSUME NEW h \in hook
        PROVE  log'[h.event].type = "completed" /\ Told(log[h.event].sub, h.plan)'
    <3>1. h.event \in DOMAIN log /\ log'[h.event] = log[h.event]
      BY <1>1, <1>2 DEF HooksTyped
    <3>2. log[h.event].type = "completed" /\ Told(log[h.event].sub, h.plan)
      BY DEF LogInv
    <3>3. QED
      BY <1>1, <3>1, <3>2 DEF Told
  <2>4. QED
    BY <2>1, <2>2, <2>3 DEF LogInv, Told
<1>10. ASSUME NEW t, NEW i \in Completions(t)'
       PROVE  i \in Nat /\ (i \in Completions(t) \/ (i > Len(log) /\ i \notin DOMAIN log /\ i \in pending'))
  <2>1. i \in DOMAIN log' /\ i \in Nat
    BY <1>3 DEF Completions
  <2>2. CASE i \in DOMAIN log
    BY <1>1, <1>6, <2>1, <2>2 DEF Completions
  <2>3. CASE i \notin DOMAIN log
    <3>1. i \in pending'
      BY <1>3, <1>1, <2>1, <2>3 DEF Sends
    <3>2. QED
      BY <1>5, <2>1, <2>3, <3>1
  <2>4. QED
    BY <2>2, <2>3
<1>11. ASSUME NEW t, NEW i \in Completions(t)
       PROVE  i \in Completions(t)' /\ i <= Len(log) /\ (TakenUp(i)' <=> TakenUp(i)) /\ (i \in Unapplied' <=> i \in Unapplied)
  <2>1. i \in DOMAIN log
    BY DEF Completions
  <2>2. i \in Completions(t)'
    BY <1>1, <1>6, <2>1 DEF Completions
  <2>3. i <= Len(log) /\ (i \in pending' <=> i \in pending)
    BY <1>3, <2>1 DEF Sends
  <2>4. QED
    BY <2>2, <2>3, UnappliedIs DEF TakenUp
<1>12. ASSUME NEW t, NEW i \in Completions(t)', i \notin DOMAIN log PROVE ~TakenUp(i)' /\ i \in Unapplied'
  BY <1>2, <1>10, <1>12, UnappliedIs DEF TakenUp, Completions, HooksTyped
<1> SUFFICES ASSUME NEW t \in Tenants \ muddled
             PROVE  HooksFirst(t)' /\ NewestServed(t)'
  BY <1>9 DEF OrderInv
<1>13. HooksFirst(t) /\ NewestServed(t)
  BY DEF OrderInv
<1>14. HooksFirst(t)'
  <2> SUFFICES ASSUME NEW i \in Completions(t)', NEW j \in Completions(t)', i < j, TakenUp(j)',
                      NEW h \in hook
               PROVE  h.event # i
    BY DEF HooksFirst
  <2>1. j \in Completions(t)
    BY <1>10, <1>12 DEF Completions
  <2>2. i \in Completions(t) /\ TakenUp(j)
    BY <1>3, <1>10, <1>11, <2>1
  <2>3. QED
    BY <1>13, <2>1, <2>2 DEF HooksFirst
<1>15. NewestServed(t)'
  <2> SUFFICES ASSUME NEW j \in DOMAIN log', Newest(t, j)', j \notin Unapplied'
               PROVE  Serves(t, j)'
    BY DEF NewestServed
  <2>1. j \in Completions(t)
    BY <1>10, <1>12 DEF Newest, Completions
  <2>2. Newest(t, j) /\ j \notin Unapplied /\ j \in DOMAIN log
    BY <1>11, <2>1 DEF Newest, Completions
  <2>3. Serves(t, j)
    BY <1>13, <2>2 DEF NewestServed
  <2>4. QED
    BY <1>1, <2>2, <2>3 DEF Serves
<1>16. QED
  BY <1>14, <1>15

\* What Stripe does.
LEMMA StripeKeepsOrder ==
    ASSUME BillTypes, LogInv, OrderInv, NEW s \in Subscriptions,
           \/ \E k \in Checkouts : Paid(k, s)
           \/ \E p \in Plans, st \in {"active", "canceled"} : PortalUsed(s, p, st)
           \/ RenewalFails(s)
    PROVE  LogInv' /\ OrderInv'
<1>0. subscription[s] \in SubscriptionShape
  BY DEF BillTypes
<1>1. ASSUME NEW k \in Checkouts, Paid(k, s) PROVE LogInv' /\ OrderInv'
  <2> DEFINE new == [payer |-> checkout[k].payer, customer |-> checkout[k].customer,
                     plan |-> checkout[k].plan, status |-> "active"]
             e == Event("completed", s, new)
  <2>1. checkout[k] \in CheckoutShape
    BY DEF BillTypes
  <2>2. new \in SubscriptionShape /\ new.status = "active"
    BY <2>1 DEF CheckoutShape, SubscriptionShape, Statuses
  <2>3. /\ subscription' = [subscription EXCEPT ![s] = new] /\ Sends(<<e>>) /\ subscription[s].status = "none"
        /\ UNCHANGED <<plan, hook, muddled>>
    BY <1>1 DEF Paid
  <2> HIDE DEF new
  <2>4. e \in EventShape /\ e.sub = s /\ e.plan = new.plan
    BY <2>2, EventTyped DEF Event
  <2> HIDE DEF e
  <2> DEFINE events == <<e>>
  <2>5. /\ events \in Seq(EventShape) /\ Len(events) > 0 /\ Sends(events)
        /\ \A i \in 1..Len(events) : events[i].sub = s /\ events[i].plan = new.plan
    BY <2>3, <2>4
  <2> HIDE DEF events
  <2>6. QED
    BY <2>2, <2>3, <2>5, SentKeepsOrder
<1>2. ASSUME NEW p \in Plans, NEW st \in {"active", "canceled"}, PortalUsed(s, p, st) PROVE LogInv' /\ OrderInv'
  <2> DEFINE new == [subscription[s] EXCEPT !.plan = p, !.status = st]
             e == Event(IF st = "canceled" THEN "deleted" ELSE "updated", s, new)
  <2>1. new \in SubscriptionShape /\ new.status # "none" /\ new.payer = subscription[s].payer
    BY <1>0 DEF SubscriptionShape, Statuses
  <2>2. /\ subscription' = [subscription EXCEPT ![s] = new] /\ Sends(<<e>>)
        /\ UNCHANGED <<plan, hook, muddled>>
    BY <1>2 DEF PortalUsed
  <2> HIDE DEF new
  <2>3. e \in EventShape /\ e.sub = s /\ e.plan = new.plan
    BY <2>1, EventTyped DEF Event
  <2> HIDE DEF e
  <2> DEFINE events == <<e>>
  <2>4. /\ events \in Seq(EventShape) /\ Len(events) > 0 /\ Sends(events)
        /\ \A i \in 1..Len(events) : events[i].sub = s /\ events[i].plan = new.plan
    BY <2>2, <2>3
  <2> HIDE DEF events
  <2>5. QED
    BY <2>1, <2>2, <2>4, SentKeepsOrder
<1>3. CASE RenewalFails(s)
  <2> DEFINE new == [subscription[s] EXCEPT !.status = "past_due"]
             d == Event("payment_failed", s, new)
             e == Event("updated", s, new)
  <2>1. new \in SubscriptionShape /\ new.status # "none" /\ new.payer = subscription[s].payer
    BY <1>0 DEF SubscriptionShape, Statuses
  <2>2. /\ subscription' = [subscription EXCEPT ![s] = new] /\ Sends(<<d, e>>)
        /\ UNCHANGED <<plan, hook, muddled>>
    BY <1>3 DEF RenewalFails
  <2> HIDE DEF new
  <2>3. /\ d \in EventShape /\ d.sub = s /\ d.plan = new.plan
        /\ e \in EventShape /\ e.sub = s /\ e.plan = new.plan
    BY <2>1, EventTyped DEF Event
  <2> HIDE DEF d, e
  <2> DEFINE events == <<d, e>>
  <2>4. /\ events \in Seq(EventShape) /\ Len(events) > 0 /\ Sends(events)
        /\ \A i \in 1..Len(events) : events[i].sub = s /\ events[i].plan = new.plan
    BY <2>2, <2>3
  <2> HIDE DEF events
  <2>5. QED
    BY <2>1, <2>2, <2>4, SentKeepsOrder
<1>4. QED
  BY <1>1, <1>2, <1>3

\* The events stay what they are, and whose they are.
LogStays == UNCHANGED <<log, subscription>>

LEMMA SameEvents ==
    ASSUME LogStays
    PROVE  /\ \A i : PayerOf(i)' = PayerOf(i)
           /\ \A t : Completions(t)' = Completions(t)
           /\ \A t, j : Newest(t, j)' <=> Newest(t, j)
           /\ \A s, p : Told(s, p)' <=> Told(s, p)
BY DEF LogStays, PayerOf, Completions, Newest, Told

\* Tenants whose plan is left alone, of whose completed checkouts none is taken up,
\* and none done with.
LEMMA OthersServed ==
    ASSUME LogStays, NEW t, HooksFirst(t), NewestServed(t), plan'[t] = plan[t],
           \A i \in Completions(t) :
              /\ TakenUp(i)' => TakenUp(i)
              /\ i \in Unapplied => i \in Unapplied'
              /\ \A h \in hook' : h.event = i => h \in hook
    PROVE  HooksFirst(t)' /\ NewestServed(t)'
<1>1. HooksFirst(t)'
  BY SameEvents DEF HooksFirst
<1>2. NewestServed(t)'
  BY SameEvents DEF NewestServed, Newest, Serves, LogStays
<1>3. QED
  BY <1>1, <1>2

\* Stripe sends again; an event that names no tenant is read; no event is handled.
LEMMA RestKeepsOrder ==
    ASSUME BillTypes, LogInv, OrderInv, LogStays, UNCHANGED <<plan, hook, muddled>>,
           \A i \in DOMAIN log : i \in pending /\ i \notin pending' => log[i].type # "completed"
    PROVE  LogInv' /\ OrderInv'
<1>1. LogInv'
  BY SameEvents DEF LogInv, LogStays
<1>2. ASSUME NEW t, NEW i \in Completions(t)
      PROVE  (TakenUp(i)' => TakenUp(i)) /\ (i \in Unapplied => i \in Unapplied')
  BY UnappliedIs DEF Completions, TakenUp
<1>3. QED
  BY <1>1, <1>2, OthersServed DEF OrderInv

LEMMA ArrivalKeepsOrder ==
    ASSUME BillTypes, LogInv, OrderInv, NEW e \in DOMAIN log, CompletedArrives(e)
    PROVE  LogInv' /\ OrderInv'
<1> DEFINE now == subscription[log[e].sub].plan
           new == [event |-> e, plan |-> now]
<1>1. /\ e \in pending /\ log[e].type = "completed" /\ hook' = hook \cup {new} /\ pending' = pending \ {e}
      /\ LogStays /\ UNCHANGED plan /\ Muddles(e)
  BY DEF CompletedArrives, LogStays
<1>2. new.event = e /\ new.plan = now /\ log[e].sub \in Subscriptions
  BY PayerTyped DEF EventShape
<1>3. Told(log[e].sub, now)
  BY <1>2 DEF LogInv
<1> HIDE DEF new, now
<1>4. LogInv'
  <2>1. \A h \in hook' : log[h.event].type = "completed" /\ Told(log[h.event].sub, h.plan)
    BY <1>1, <1>2, <1>3 DEF LogInv
  <2>2. QED
    BY <1>1, <2>1, SameEvents DEF LogInv, LogStays
<1>5. \A i : i \in Unapplied' <=> i \in Unapplied
  BY <1>1, <1>2, UnappliedIs
<1>6. \A i : i # e => (TakenUp(i)' <=> TakenUp(i))
  BY <1>1, <1>2 DEF TakenUp
<1> SUFFICES ASSUME NEW t \in Tenants \ muddled'
             PROVE  HooksFirst(t)' /\ NewestServed(t)'
  BY <1>4 DEF OrderInv
<1>7. t \notin muddled /\ HooksFirst(t) /\ NewestServed(t)
  BY <1>1 DEF Muddles, OrderInv
<1>8. CASE t # PayerOf(e)
  <2>1. ASSUME NEW i \in Completions(t)
        PROVE  /\ TakenUp(i)' => TakenUp(i)
               /\ i \in Unapplied => i \in Unapplied'
               /\ \A h \in hook' : h.event = i => h \in hook
    <3>1. i # e
      BY <1>8 DEF Completions
    <3>2. QED
      BY <1>1, <1>2, <1>5, <1>6, <3>1
  <2>2. QED
    BY <1>1, <1>7, <2>1, OthersServed
<1>9. CASE t = PayerOf(e)
  <2>1. \A j \in Completions(t) : (j < e => j \notin Unapplied) /\ (j > e => ~TakenUp(j))
    BY <1>1, <1>9 DEF Muddles
  <2>2. HooksFirst(t)'
    <3> SUFFICES ASSUME NEW i \in Completions(t), NEW j \in Completions(t), i < j, TakenUp(j)', NEW h \in hook'
                 PROVE  h.event # i
      BY <1>1, SameEvents DEF HooksFirst
    <3>1. CASE j = e
      <4>1. i \notin Unapplied /\ i # e
        BY <2>1, <3>1 DEF Completions, BillTypes
      <4>2. QED
        BY <1>5, <4>1, UnappliedIs
    <3>2. CASE j # e
      <4>1. TakenUp(j)
        BY <1>6, <3>2
      <4>2. i # e
        BY <2>1, <4>1 DEF Completions
      <4>3. QED
        BY <1>1, <1>2, <1>7, <4>1, <4>2 DEF HooksFirst
    <3>3. QED
      BY <3>1, <3>2
  <2>3. NewestServed(t)'
    BY <1>1, <1>5, <1>7, SameEvents DEF NewestServed, Serves, LogStays
  <2>4. QED
    BY <2>2, <2>3
<1>10. QED
  BY <1>8, <1>9

LEMMA AppliedKeepsOrder ==
    ASSUME BillTypes, LogInv, OrderInv, NEW g \in hook, CompletedApplied(g)
    PROVE  LogInv' /\ OrderInv'
<1> DEFINE e == g.event
           new == [plan |-> g.plan, status |-> "active", limit |-> Limit[g.plan], sub |-> log[e].sub]
<1>1. /\ hook' = hook \ {g} /\ plan' = [plan EXCEPT ![PayerOf(e)] = new]
      /\ LogStays /\ UNCHANGED <<pending, muddled>>
  BY DEF CompletedApplied, LogStays
<1>2. /\ new.plan = g.plan /\ new.status = "active" /\ new.limit = Limit[g.plan] /\ new.sub = log[e].sub
  OBVIOUS
<1>3. e \in DOMAIN log /\ Told(log[e].sub, g.plan) /\ log[e].type = "completed" /\ plan \in [Tenants -> Shown]
  BY DEF LogInv, BillTypes, HooksTyped
<1> HIDE DEF new
<1>4. LogInv'
  BY <1>1, SameEvents DEF LogInv, LogStays
<1>5. \A i : TakenUp(i)' => TakenUp(i)
  BY <1>1 DEF TakenUp
<1>6. \A i : i \in Unapplied => i \in Unapplied' \/ i = e
  BY <1>1, UnappliedIs
<1> SUFFICES ASSUME NEW t \in Tenants \ muddled
             PROVE  HooksFirst(t)' /\ NewestServed(t)'
  BY <1>1, <1>4 DEF OrderInv
<1>7. HooksFirst(t) /\ NewestServed(t)
  BY DEF OrderInv
<1>8. CASE t # PayerOf(e)
  <2>1. ASSUME NEW i \in Completions(t)
        PROVE  /\ TakenUp(i)' => TakenUp(i)
               /\ i \in Unapplied => i \in Unapplied'
               /\ \A h \in hook' : h.event = i => h \in hook
    BY <1>1, <1>5, <1>6, <1>8 DEF Completions
  <2>2. plan'[t] = plan[t]
    BY <1>1, <1>3, <1>8
  <2>3. QED
    BY <1>1, <1>7, <2>1, <2>2, OthersServed
<1>9. CASE t = PayerOf(e)
  <2>1. HooksFirst(t)'
    BY <1>1, <1>5, <1>7, SameEvents DEF HooksFirst
  <2>2. NewestServed(t)'
    <3> SUFFICES ASSUME NEW j \in DOMAIN log, Newest(t, j), j \notin Unapplied'
                 PROVE  Serves(t, j)'
      BY <1>1, SameEvents DEF NewestServed, LogStays
    <3>1. e \in Completions(t) /\ e <= j /\ e \in Nat /\ j \in Nat
      BY <1>3, <1>9 DEF Newest, Completions, BillTypes
    <3>2. j = e
      <4>1. CASE e < j
        <5>1. TakenUp(j)
          BY <1>1, UnappliedIs DEF TakenUp
        <5>2. QED
          BY <1>7, <3>1, <4>1, <5>1 DEF HooksFirst, Newest
      <4>2. QED
        BY <3>1, <4>1
    <3>3. plan'[t] = new
      BY <1>1, <1>3, <1>9
    <3>4. QED
      BY <1>1, <1>2, <1>3, <3>2, <3>3 DEF Serves, Told, LogStays
  <2>3. QED
    BY <2>1, <2>2
<1>10. QED
  BY <1>8, <1>9

LEMMA LostKeepsOrder ==
    ASSUME BillTypes, LogInv, OrderInv, NEW e, EventLost(e)
    PROVE  LogInv' /\ OrderInv'
<1>1. /\ pending' = pending \ {e} /\ hook' = {h \in hook : h.event # e} /\ muddled' = muddled \cup {PayerOf(e)}
      /\ UNCHANGED plan /\ LogStays
  BY DEF EventLost, LogStays
<1>2. LogInv'
  BY <1>1, SameEvents DEF LogInv, LogStays
<1> SUFFICES ASSUME NEW t \in Tenants \ muddled'
             PROVE  HooksFirst(t)' /\ NewestServed(t)'
  BY <1>2 DEF OrderInv
<1>3. t # PayerOf(e) /\ t \notin muddled
  BY <1>1
<1>4. ASSUME NEW i \in Completions(t)
      PROVE  /\ TakenUp(i)' => TakenUp(i)
             /\ i \in Unapplied => i \in Unapplied'
             /\ \A h \in hook' : h.event = i => h \in hook
  <2>1. i # e
    BY <1>3 DEF Completions
  <2>2. QED
    BY <1>1, <2>1, UnappliedIs DEF TakenUp
<1>5. QED
  BY <1>1, <1>3, <1>4, OthersServed DEF OrderInv

LEMMA NextKeepsOrder ==
    ASSUME BillTypes, LogInv, OrderInv, [Next]_vars
    PROVE  LogInv' /\ OrderInv'
<1>1. CASE UNCHANGED billVars
  BY <1>1, RestKeepsOrder DEF billVars, LogStays
<1>2. ASSUME NEW k, CustomerStored(k) \/ CheckoutEnds(k) \/ (\E t, p : CheckoutReads(k, t, p))
      PROVE LogInv' /\ OrderInv'
  <2>1. LogStays /\ UNCHANGED <<plan, hook, muddled, pending>>
    BY <1>2 DEF CustomerStored, CheckoutEnds, CheckoutReads, LogStays
  <2>2. QED
    BY <2>1, RestKeepsOrder
<1>3. ASSUME NEW i, Resent(i) \/ EventUntagged(i) PROVE LogInv' /\ OrderInv'
  <2>1. /\ LogStays /\ UNCHANGED <<plan, hook, muddled>>
        /\ \A j \in DOMAIN log : j \in pending /\ j \notin pending' => log[j].type # "completed"
    BY <1>3 DEF Resent, EventUntagged, LogStays
  <2>2. QED
    BY <2>1, RestKeepsOrder
<1>4. CASE BillingNext
  BY <1>2, <1>3, <1>4, StripeKeepsOrder, ArrivalKeepsOrder, AppliedKeepsOrder, LostKeepsOrder DEF BillingNext
<1>5. QED
  BY <1>1, <1>4 DEF Next, vars

\* A tenant none of whose completed checkouts was lost or taken out of turn is
\* served what the newest of them paid for, once that is done with: for any number
\* of tenants, checkouts, subscriptions and events, resent and overlapping in any way.
THEOREM PaidAlwaysServed == Spec => []PaidIsServed
<1>1. Init => QuietInv /\ FlowInv
  BY RestingKeys DEF Init, ShopsInit, QuietInv, ChannelsQuiet, GoneApart, HandlerSound,
     FlowInv, MadeOK, StatesUnspent, OneHolds, Holds, ChannelsTrace, CallbackSound
<1>2. Init => LogInv /\ OrderInv
  <2> SUFFICES ASSUME Init PROVE LogInv /\ OrderInv
    OBVIOUS
  <2>1. log = <<>> /\ hook = {} /\ \A s \in Subscriptions : subscription[s].status = "none"
    BY DEF Init, BillingInit, NotSubscribed
  <2>2. DOMAIN log = {}
    BY <2>1
  <2>3. LogInv
    BY <2>1, <2>2 DEF LogInv
  <2>4. OrderInv
    BY <2>2 DEF OrderInv, HooksFirst, NewestServed, Completions
  <2>5. QED
    BY <2>3, <2>4
<1>3. TypeInv => BillTypes
  BY DEF TypeInv
<1>4. QED
  BY <1>1, <1>2, <1>3, InitTyped, NextTyped, NextKeepsQuiet, NextKeepsFlows, NextKeepsOrder, OrderGives,
     PTL DEF Spec
=============================================================================
