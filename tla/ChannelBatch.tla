------------------------------ MODULE ChannelBatch ------------------------------
(***************************************************************************)
(* Setting stock levels at a shop through a provider: updateStock for one  *)
(* item, batchUpdateStock for several.  Every HTTP request of a client     *)
(* goes through rateLimitedRequest: a PQueue admits so many at a time and  *)
(* so many per interval, and inside its slot withRetry repeats a failed    *)
(* attempt.  The shop may take a level whose answer is lost.  Eposnow and  *)
(* Uber Eats look at their token once, before the queue; Wix looks at it   *)
(* at every attempt, inside the slot.                                      *)
(***************************************************************************)
EXTENDS ChannelSession, Naturals, FiniteSets

CONSTANTS
    Items,        \* what the operation may be asked to set
    ShopIds, NoId,  \* the products an externalId may name; or none (empty, no number)
    Namings,      \* what the externalIds of an operation's items may name
    Whole,        \* the one request of a bulk update
    Retries,      \* retryAttempts
    Concurrency,  \* the PQueue's concurrency
    Cap           \* its intervalCap (RATE_LIMIT_REQUESTS)

ASSUME WholeIsNoItem == Whole \notin Items
ASSUME NamingsName == Namings \subseteq [Items -> ShopIds \cup {NoId}]
ASSUME LimitsAreNumbers == Retries \in Nat /\ Concurrency \in Nat /\ Cap \in Nat

Requests == Items \cup {Whole}

VARIABLES
    asked,     \* the items of the operation; {} before it
    names,     \* the product each item names
    apart,     \* the items are set each by a call of its own
    call,      \* each request: "unsent", "renewing" (the token), "queued", "running" (in a
               \* slot), "sent", "ended", or "dropped": never made, or never answered for
    step,      \* which of its requests an item is at: "find", "set" or "avail"
    tried,     \* failed attempts at the present request
    underway,  \* items whose level has left for the shop, answered or not
    taken,     \* items whose level the shop has
    good,      \* productsUpdated, per item
    bad,       \* entries of errors, per item
    started    \* requests admitted in the present interval

batchVars == <<asked, names, apart, call, step, tried, underway, taken, good, bad, started>>

BatchTypeOK ==
    /\ asked \subseteq Items /\ underway \subseteq Items /\ taken \subseteq Items
    /\ names \in [Items -> ShopIds \cup {NoId}]
    /\ apart \in BOOLEAN
    /\ call \in [Requests -> {"unsent", "renewing", "queued", "running", "sent", "ended", "dropped"}]
    /\ step \in [Items -> {"find", "set", "avail"}]
    /\ tried \in [Requests -> 0 .. Retries]
    /\ good \in [Items -> Nat] /\ bad \in [Items -> Nat]
    /\ started \in 0 .. Cap

BatchInit ==
    /\ asked = {} /\ underway = {} /\ taken = {}
    /\ names = [i \in Items |-> NoId]
    /\ apart = FALSE
    /\ call = [r \in Requests |-> "unsent"]
    /\ step = [i \in Items |-> "set"]
    /\ tried = [r \in Requests |-> 0]
    /\ good = [i \in Items |-> 0] /\ bad = [i \in Items |-> 0]
    /\ started = 0

-----------------------------------------------------------------------------
\* The platforms whose clients look at what an item names.
Parsed == {"wix", "shopify", "woocommerce"}

\* The operations.  A provider that is not connected throws before anything happens.
Asks(k, S) ==
    /\ kind = k /\ session = "ready" /\ asked = {} /\ S # {}
    /\ asked' = S
    /\ names' \in IF k \in Parsed THEN Namings ELSE {names}
    /\ UNCHANGED <<sessionVars, tried, underway, taken, good, bad, started>>

\* ensureAuthenticated, ensureValidToken: a client asks for a new token before it queues.
RenewsFirst == kind \in {"eposnow", "uber_eats"} /\ token \in {"none", "expired"}

Entry == IF RenewsFirst THEN "renewing" ELSE "queued"

\* One call for each item ...
Each(first) == apart' = TRUE /\ step' = [i \in Items |-> first]

\* ... or one for all.
AtOnce == call' = [call EXCEPT ![Whole] = Entry] /\ UNCHANGED <<apart, step>>

\* The clients.
EposnowUpdateStock == Each("set") /\ UNCHANGED call

\* The batch wants a live token before it looks at its items.
EposnowUpdateStockBatch == IF RenewsFirst THEN AtOnce ELSE Each("set") /\ UNCHANGED call

\* The inventory item is looked up by the product, then set.
UpdateInventoryByProductId == Each("find") /\ UNCHANGED call

\* Updates that name no product are passed over.
BulkUpdateInventory(S) ==
    /\ Each("find")
    /\ call' = [r \in Requests |-> IF r \in S /\ names'[r] = NoId THEN "dropped" ELSE call[r]]

\* One item is read first; a batch is one bulk request.
OtterUpdateStock == Each("find") /\ UNCHANGED call
OtterBulkUpdateStock == AtOnce
SetInventoryLevels == Each("set") /\ UNCHANGED call
UpdateItemAvailability == Each("set") /\ UNCHANGED call
BatchUpdateAvailability == AtOnce

\* The providers.
EposnowUpdate(i) == Asks("eposnow", {i}) /\ EposnowUpdateStock
EposnowBatch(S) == Asks("eposnow", S) /\ EposnowUpdateStockBatch
WixUpdate(i) == Asks("wix", {i}) /\ UpdateInventoryByProductId
WixBatch(S) == Asks("wix", S) /\ BulkUpdateInventory(S)
OtterUpdate(i) == Asks("deliveroo", {i}) /\ OtterUpdateStock
OtterBatch(S) == Asks("deliveroo", S) /\ OtterBulkUpdateStock
ShopifyUpdate(i) == located /\ Asks("shopify", {i}) /\ SetInventoryLevels
ShopifyBatch(S) == located /\ Asks("shopify", S) /\ SetInventoryLevels
WooCommerceUpdate(i) == Asks("woocommerce", {i}) /\ Each("set") /\ UNCHANGED call
WooCommerceBatch(S) == Asks("woocommerce", S) /\ Each("set") /\ UNCHANGED call
UberEatsUpdate(i) == Asks("uber_eats", {i}) /\ UpdateItemAvailability
UberEatsBatch(S) == Asks("uber_eats", S) /\ BatchUpdateAvailability

Begins ==
    \/ \E i \in Items : \/ EposnowUpdate(i) \/ WixUpdate(i) \/ OtterUpdate(i)
                        \/ ShopifyUpdate(i) \/ WooCommerceUpdate(i) \/ UberEatsUpdate(i)
    \/ \E S \in SUBSET Items : \/ EposnowBatch(S) \/ WixBatch(S) \/ OtterBatch(S)
                               \/ ShopifyBatch(S) \/ WooCommerceBatch(S) \/ UberEatsBatch(S)

-----------------------------------------------------------------------------
\* The items that wait for each other: at Wix those of one product, none at Eposnow and
\* Shopify (Promise.all), all in the loops of the others.
Behind(i) ==
    CASE kind = "wix" -> {j \in asked : names[j] = names[i]}
      [] kind \in {"eposnow", "shopify"} -> {i}
      [] OTHER -> asked

\* An item's failure is an entry of errors.  At Wix the product's updates share one try:
\* those behind the failed one are not made.
ItemFails(i) ==
    /\ call' = [r \in Requests |->
                  IF r = i THEN "ended"
                  ELSE IF kind = "wix" /\ r \in Behind(i) /\ call[r] = "unsent" THEN "dropped"
                  ELSE call[r]]
    /\ bad' = [bad EXCEPT ![i] = @ + 1]

\* What throws before anything is sent: a provider or client that is disconnected, an
\* externalId that is no number.
Refused(i) ==
    \/ kind \in {"deliveroo", "woocommerce", "uber_eats"} /\ session # "ready"
    \/ kind \in {"shopify", "woocommerce"} /\ names[i] = NoId

Calls(i) ==
    /\ apart /\ i \in asked /\ call[i] = "unsent"
    /\ \A j \in Behind(i) : call[j] \in {"unsent", "ended", "dropped"}
    /\ IF Refused(i) THEN ItemFails(i) ELSE call' = [call EXCEPT ![i] = Entry] /\ UNCHANGED bad
    /\ UNCHANGED <<sessionVars, asked, names, apart, step, tried, underway, taken, good, started>>

\* The limiter.  Wix renews its token inside the slot.
InSlot == {r \in Requests : \/ call[r] \in {"running", "sent"}
                            \/ kind = "wix" /\ call[r] = "renewing"}

Admits(r) ==
    /\ call[r] = "queued"
    /\ Cardinality(InSlot) < Concurrency /\ started < Cap
    /\ call' = [call EXCEPT ![r] = "running"]
    /\ started' = started + 1
    /\ UNCHANGED <<sessionVars, asked, names, apart, step, tried, underway, taken, good, bad>>

NewInterval ==
    /\ started > 0
    /\ started' = 0
    /\ UNCHANGED <<sessionVars, asked, names, apart, call, step, tried, underway, taken, good, bad>>

-----------------------------------------------------------------------------
\* withRetry: every error is worth another attempt, in the same slot, Retries times.
TriesAgain(r) ==
    /\ tried[r] < Retries
    /\ tried' = [tried EXCEPT ![r] = @ + 1]
    /\ call' = [call EXCEPT ![r] = "running"]
    /\ UNCHANGED <<apart, bad>>

\* Mutant of GivesUp: a bulk request that failed is reported for its items before they are tried one by one.
MutGivesUp(r) ==
    /\ tried[r] = Retries
    /\ UNCHANGED tried
    /\ IF r = Whole
       THEN /\ call' = [call EXCEPT ![r] = "ended"]
            /\ apart' = TRUE
            /\ bad' = [i \in Items |-> IF i \in asked THEN bad[i] + 1 ELSE bad[i]]
       ELSE ItemFails(r) /\ UNCHANGED apart

\* A bulk request that failed for good leads to one call for each item.
GivesUp(r) ==
    /\ tried[r] = Retries
    /\ UNCHANGED tried
    /\ IF r = Whole
       THEN call' = [call EXCEPT ![r] = "ended"] /\ apart' = TRUE /\ UNCHANGED bad
       ELSE ItemFails(r) /\ UNCHANGED apart

AttemptFails(r) ==
    /\ TriesAgain(r) \/ GivesUp(r)
    /\ UNCHANGED <<asked, names, step, underway, taken, good, started>>

Leaves(r) ==
    /\ call' = [call EXCEPT ![r] = "sent"]
    /\ underway' = CASE r = Whole -> asked
                     [] r # Whole /\ step[r] # "find" -> underway \cup {r}
                     [] OTHER -> underway
    /\ UNCHANGED <<asked, names, apart, step, tried, taken, good, bad, started>>

\* A token that Eposnow's or Uber Eats' client holds for expired may still do.
Sends(r) ==
    /\ call[r] = "running"
    /\ token = "live" \/ (token = "expired" /\ kind # "wix")
    /\ Leaves(r)
    /\ UNCHANGED sessionVars

\* No token or key, one that the shop refuses, or one that has run out on the way.
SendFails(r) ==
    /\ call[r] = "running"
    /\ token \in {"none", "dead"} \/ (token = "expired" /\ kind # "wix")
    /\ AttemptFails(r)
    /\ UNCHANGED sessionVars

\* An error status, a timeout, or an answer that is lost.
AnswerFails(r) ==
    /\ call[r] = "sent"
    /\ AttemptFails(r)
    /\ UNCHANGED sessionVars

\* The shop takes a level on its way, before or after the client stops waiting for it.
ShopTakes(i) ==
    /\ i \in underway \ taken
    /\ taken' = taken \cup {i}
    /\ UNCHANGED <<sessionVars, asked, names, apart, call, step, tried, underway, good, bad, started>>

-----------------------------------------------------------------------------
\* Wix's request interceptor finds the token expired.
WixRenews(i) ==
    /\ kind = "wix" /\ call[i] = "running" /\ token = "expired"
    /\ call' = [call EXCEPT ![i] = "renewing"]
    /\ UNCHANGED <<sessionVars, asked, names, apart, step, tried, underway, taken, good, bad, started>>

\* A new token comes; a client that was disconnected meanwhile has one again.
TokenComes(r) ==
    /\ call[r] = "renewing"
    /\ token' = "live"
    /\ UNCHANGED <<kind, session, located>>

WixRenewed(i) == kind = "wix" /\ TokenComes(i) /\ Leaves(i)

\* Eposnow's batch goes on to its items, any other call to the queue.
Renewed(r) ==
    /\ kind # "wix" /\ TokenComes(r)
    /\ IF kind = "eposnow" /\ r = Whole
       THEN call' = [call EXCEPT ![r] = "ended"] /\ apart' = TRUE
       ELSE call' = [call EXCEPT ![r] = "queued"] /\ UNCHANGED apart
    /\ UNCHANGED <<asked, names, step, tried, underway, taken, good, bad, started>>

WixRenewalFails(i) == kind = "wix" /\ call[i] = "renewing" /\ AttemptFails(i) /\ UNCHANGED sessionVars

\* Outside withRetry: an item's error at once; Uber Eats' batch is tried item by item;
\* Eposnow's batch rejects, and nothing is said of any of its items.
RenewalFails(r) ==
    /\ kind # "wix" /\ call[r] = "renewing"
    /\ CASE r # Whole -> ItemFails(r) /\ UNCHANGED apart
         [] r = Whole /\ kind # "eposnow" ->
              call' = [call EXCEPT ![r] = "ended"] /\ apart' = TRUE /\ UNCHANGED bad
         [] OTHER ->
              /\ call' = [q \in Requests |-> IF q \in asked THEN "dropped" ELSE IF q = r THEN "ended" ELSE call[q]]
              /\ UNCHANGED <<apart, bad>>
    /\ UNCHANGED <<sessionVars, asked, names, step, tried, underway, taken, good, started>>

-----------------------------------------------------------------------------
\* The item's next request; Otter's provider makes it, and has no client once disconnected.
Moves(i, to) ==
    /\ IF kind = "deliveroo" /\ session # "ready"
       THEN ItemFails(i) /\ UNCHANGED <<step, tried>>
       ELSE /\ call' = [call EXCEPT ![i] = "queued"]
            /\ step' = [step EXCEPT ![i] = to]
            /\ tried' = [tried EXCEPT ![i] = 0]
            /\ UNCHANGED bad
    /\ UNCHANGED <<sessionVars, asked, names, apart, underway, taken, good, started>>

\* Wix knows the product's inventory item; Otter knows whether the item counts its stock.
Found(i) ==
    /\ call[i] = "sent" /\ step[i] = "find"
    /\ \E to \in IF kind = "deliveroo" THEN {"set", "avail"} ELSE {"set"} : Moves(i, to)

\* Otter answered 404 to every attempt: getProduct is null, the availability is set all the same.
OtterUnknown(i) ==
    /\ kind = "deliveroo" /\ call[i] = "sent" /\ step[i] = "find" /\ tried[i] = Retries
    /\ Moves(i, "avail")

\* Wix has no inventory item for the product: an error that is not retried.
NotFound(i) ==
    /\ kind = "wix" /\ call[i] = "sent" /\ step[i] = "find"
    /\ ItemFails(i)
    /\ UNCHANGED <<sessionVars, asked, names, apart, step, tried, underway, taken, good, started>>

\* Otter's updateStock sets the level of one item and then its availability.
SetsAvailability == kind = "deliveroo" /\ call[Whole] = "unsent"

StockSet(i) ==
    /\ call[i] = "sent" /\ step[i] = "set" /\ i \in taken
    /\ SetsAvailability
    /\ Moves(i, "avail")

Succeeds(i) ==
    /\ call[i] = "sent" /\ i \in taken
    /\ step[i] = "avail" \/ (step[i] = "set" /\ ~SetsAvailability)
    /\ call' = [call EXCEPT ![i] = "ended"]
    /\ good' = [good EXCEPT ![i] = @ + 1]
    /\ UNCHANGED <<sessionVars, asked, names, apart, step, tried, underway, taken, bad, started>>

\* The answer to a bulk request ends the operation, whatever it says.
Ends(ok, failed) ==
    /\ call' = [r \in Requests |-> CASE r \in ok \cup failed \cup {Whole} -> "ended"
                                     [] r \in asked \ (ok \cup failed) -> "dropped"
                                     [] OTHER -> call[r]]
    /\ good' = [i \in Items |-> IF i \in ok THEN good[i] + 1 ELSE good[i]]
    /\ bad' = [i \in Items |-> IF i \in failed THEN bad[i] + 1 ELSE bad[i]]
    /\ UNCHANGED <<sessionVars, asked, names, apart, step, tried, underway, taken, started>>

\* Otter answers for each item on its own; what its answer leaves out is not counted.
OtterBulkAnswer ==
    /\ kind = "deliveroo" /\ call[Whole] = "sent"
    /\ \E ok \in SUBSET (asked \cap taken) : \E failed \in SUBSET (asked \ ok) : Ends(ok, failed)

\* Uber Eats answers for all: every item counts as updated.
UberEatsBulkAnswer ==
    /\ kind = "uber_eats" /\ call[Whole] = "sent" /\ asked \subseteq taken
    /\ Ends(asked, {})

-----------------------------------------------------------------------------
ClientStep ==
    \/ NewInterval \/ OtterBulkAnswer \/ UberEatsBulkAnswer
    \/ \E r \in Requests : \/ Admits(r) \/ Sends(r) \/ SendFails(r) \/ AnswerFails(r)
                           \/ Renewed(r) \/ RenewalFails(r)
    \/ \E i \in Items : \/ Calls(i) \/ WixRenews(i) \/ WixRenewed(i) \/ WixRenewalFails(i)
                        \/ Found(i) \/ OtterUnknown(i) \/ NotFound(i)
                        \/ StockSet(i) \/ Succeeds(i)

BatchNext ==
    \/ SessionNext /\ UNCHANGED batchVars
    \/ Begins
    \/ ClientStep
    \/ \E i \in Items : ShopTakes(i)

BatchSafe == SessionInit /\ BatchInit /\ [][BatchNext]_<<sessionVars, batchVars>>

BatchSpec == BatchSafe /\ WF_<<sessionVars, batchVars>>(ClientStep)

-----------------------------------------------------------------------------
\* What the caller has been told of an item, by the counts of the SyncResult.
Told(i) ==
    CASE good[i] = 0 /\ bad[i] = 0 -> IF call[i] = "dropped" THEN "never" ELSE "nothing"
      [] good[i] = 1 /\ bad[i] = 0 -> "success"
      [] good[i] = 0 /\ bad[i] = 1 -> "error"
      [] OTHER -> "more than once"

Contract == INSTANCE UpdateContract WITH told <- [i \in Items |-> Told(i)]

(***************************************************************************)
(* Providers keep the contract of an update, in parallel, one by one, in   *)
(* bulk and one by one after the bulk failed, although answers are lost,   *)
(* attempts repeated, tokens renewed and the provider disconnected         *)
(* meanwhile: each item is told of at most once, a success only when the   *)
(* shop has taken the level, and every item in the end but for the ones    *)
(* the contract excuses - a batch of Eposnow's that rejects as a whole,    *)
(* the updates of a Wix product behind one that failed or without a        *)
(* product, and what Otter's answer to a batch leaves out.                 *)
(***************************************************************************)
AnswersKept == Contract!Spec
=============================================================================
