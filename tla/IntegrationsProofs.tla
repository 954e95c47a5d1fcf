--------------------------- MODULE IntegrationsProofs ---------------------------
(***************************************************************************)
(* Proofs about Integrations: for any provider, shop, notice and job the   *)
(* type invariants of its parts, that a catalog read to its end has what   *)
(* was there all the while, that notices go to the tenant a channel        *)
(* belongs to, and that a provider implements the safety part of           *)
(* UpdateContract.  That every item is told of in the end is liveness and  *)
(* stays with TLC.                                                         *)
(***************************************************************************)
EXTENDS Integrations, FiniteSetTheorems, WellFoundedInduction, TLAPS

allVars == <<sessionVars, batchVars>>


-----------------------------------------------------------------------------
(* Updates: the inductive invariant *)

\* The counts of an item follow its request: nothing before it has ended, one after.
Counted ==
    \A i \in Items :
        /\ call[i] # "ended" => good[i] = 0 /\ bad[i] = 0
        /\ call[i] = "ended" => \/ good[i] = 1 /\ bad[i] = 0
                                \/ good[i] = 0 /\ bad[i] = 1

\* A request under way: it will be answered for.
Active == {"renewing", "queued", "running", "sent"}

\* While the one request of a bulk update is out, no item has a request of its own.
BulkAlone ==
    call[Whole] \in Active => asked # {} /\ ~apart /\ \A i \in Items : call[i] = "unsent"

\* Levels leave, and are taken, only of items that were asked for.
Bounded ==
    /\ taken \subseteq underway /\ underway \subseteq asked
    /\ \A i \in Items \ asked : call[i] = "unsent"
    /\ asked = {} => call[Whole] = "unsent" /\ ~apart

BatchInv == BatchTypeOK /\ Counted /\ BulkAlone /\ Bounded

-----------------------------------------------------------------------------
(* The steps, gathered by what they do to the caller's view *)

\* Where an operation begins: with one request for all, or with a call for each item,
\* some of which Wix passes over.
AsksFor(S) ==
    /\ asked = {} /\ S # {} /\ asked' = S
    /\ names' \in [Items -> ShopIds \cup {NoId}]
    /\ UNCHANGED <<kind, tried, underway, taken, good, bad, started>>
    /\ \/ UNCHANGED <<apart, step>> /\ \E e \in {"renewing", "queued"} : call' = [call EXCEPT ![Whole] = e]
       \/ /\ apart' = TRUE /\ step' \in [Items -> {"find", "set", "avail"}]
          /\ \/ UNCHANGED call
             \/ kind = "wix" /\ call' = [r \in Requests |-> IF r \in S /\ names'[r] = NoId
                                                            THEN "dropped" ELSE call[r]]

LEMMA BeginsAsks ==
    ASSUME BatchTypeOK, Begins
    PROVE  \E S \in SUBSET Items : AsksFor(S)
<1>1. ASSUME NEW k, NEW S, Asks(k, S)
      PROVE  /\ asked = {} /\ S # {} /\ asked' = S /\ kind = k
             /\ names' \in [Items -> ShopIds \cup {NoId}]
             /\ UNCHANGED <<kind, tried, underway, taken, good, bad, started>>
  BY <1>1, NamingsName DEF Asks, BatchTypeOK, sessionVars
<1>2. /\ AtOnce => /\ UNCHANGED <<apart, step>>
                   /\ \E e \in {"renewing", "queued"} : call' = [call EXCEPT ![Whole] = e]
      /\ \A first \in {"find", "set"} :
           Each(first) => apart' = TRUE /\ step' \in [Items -> {"find", "set", "avail"}]
  BY DEF AtOnce, Entry, Each
<1>3. ASSUME NEW i \in Items, EposnowUpdate(i) \/ ShopifyUpdate(i) \/ WooCommerceUpdate(i)
                              \/ UberEatsUpdate(i) \/ WixUpdate(i) \/ OtterUpdate(i)
      PROVE  AsksFor({i})
  <2>1. \E k : Asks(k, {i}) /\ UNCHANGED call /\ \E first \in {"find", "set"} : Each(first)
    BY <1>3 DEF EposnowUpdate, ShopifyUpdate, WooCommerceUpdate, UberEatsUpdate, WixUpdate,
                OtterUpdate, EposnowUpdateStock, UpdateInventoryByProductId,
                OtterUpdateStock, SetInventoryLevels, UpdateItemAvailability
  <2>2. QED
    BY <1>1, <1>2, <2>1 DEF AsksFor
<1>4. ASSUME NEW S \in SUBSET Items, EposnowBatch(S) \/ OtterBatch(S) \/ ShopifyBatch(S)
                                     \/ WooCommerceBatch(S) \/ UberEatsBatch(S)
      PROVE  AsksFor(S)
  <2>1. \E k : Asks(k, S) /\ (AtOnce \/ (UNCHANGED call /\ Each("set")))
    BY <1>4 DEF EposnowBatch, ShopifyBatch, WooCommerceBatch, UberEatsBatch, OtterBatch,
                EposnowUpdateStockBatch, OtterBulkUpdateStock, SetInventoryLevels,
                BatchUpdateAvailability
  <2>2. QED
    BY <1>1, <1>2, <2>1 DEF AsksFor
<1>5. ASSUME NEW S \in SUBSET Items, WixBatch(S)
      PROVE  AsksFor(S)
  BY <1>1, <1>2, <1>5 DEF WixBatch, BulkUpdateInventory, AsksFor
<1>6. \A i \in Items : {i} \in SUBSET Items
  OBVIOUS
<1>7. QED
  BY <1>3, <1>4, <1>5, <1>6 DEF Begins

\* A failed attempt either changes nothing the caller sees, or ends the request.
LEMMA AttemptFailsCases ==
    ASSUME BatchTypeOK, NEW r \in Requests, AttemptFails(r)
    PROVE  /\ UNCHANGED <<asked, names, step, underway, taken, good, started>>
           /\ tried' \in [Requests -> 0 .. Retries]
           /\ \/ call' = [call EXCEPT ![r] = "running"] /\ UNCHANGED <<apart, bad>>
              \/ r = Whole /\ call' = [call EXCEPT ![r] = "ended"] /\ apart' = TRUE
                 /\ UNCHANGED bad
              \/ r \in Items /\ ItemFails(r) /\ UNCHANGED apart
<1>1. CASE TriesAgain(r)
  <2>1. tried[r] + 1 \in 0 .. Retries
    BY <1>1, LimitsAreNumbers DEF TriesAgain, BatchTypeOK
  <2>2. QED
    BY <1>1, <2>1 DEF TriesAgain, AttemptFails, BatchTypeOK
<1>2. CASE GivesUp(r)
  BY <1>2 DEF GivesUp, AttemptFails, BatchTypeOK, Requests
<1>3. QED
  BY <1>1, <1>2 DEF AttemptFails
-----------------------------------------------------------------------------
(* Each step keeps the invariant *)

LEMMA BeginsInv ==
    ASSUME BatchInv, Begins
    PROVE  BatchInv'
<1>1. PICK S \in SUBSET Items : AsksFor(S)
  BY BeginsAsks DEF BatchInv
<1>2. /\ \A i \in Items : call[i] = "unsent" /\ good[i] = 0 /\ bad[i] = 0
      /\ call[Whole] = "unsent" /\ ~apart
  BY <1>1 DEF AsksFor, BatchInv, Bounded, Counted
<1>3. /\ taken = {} /\ underway = {} /\ asked' = S /\ S # {}
      /\ UNCHANGED <<tried, underway, taken, good, bad, started>>
      /\ names' \in [Items -> ShopIds \cup {NoId}]
  BY <1>1 DEF AsksFor, BatchInv, Bounded
<1>4. CASE UNCHANGED <<apart, step>> /\ \E e \in {"renewing", "queued"} : call' = [call EXCEPT ![Whole] = e]
  <2>1. PICK e \in {"renewing", "queued"} : call' = [call EXCEPT ![Whole] = e]
    BY <1>4
  <2>2. \A i \in Items : call'[i] = "unsent"
    BY <1>2, <2>1, WholeIsNoItem DEF BatchInv, BatchTypeOK, Requests
  <2>3. BatchTypeOK'
    BY <1>3, <1>4, <2>1 DEF BatchInv, BatchTypeOK
  <2>4. QED
    BY <1>2, <1>3, <1>4, <2>2, <2>3 DEF BatchInv, Counted, BulkAlone, Bounded
<1>5. CASE /\ apart' = TRUE /\ step' \in [Items -> {"find", "set", "avail"}]
           /\ \/ UNCHANGED call
              \/ kind = "wix" /\ call' = [r \in Requests |-> IF r \in S /\ names'[r] = NoId
                                                             THEN "dropped" ELSE call[r]]
  <2>1. /\ \A i \in Items : call'[i] \in {"unsent", "dropped"}
        /\ \A i \in Items \ S : call'[i] = "unsent"
        /\ call'[Whole] = "unsent"
        /\ call' \in [Requests -> {"unsent", "renewing", "queued", "running", "sent", "ended", "dropped"}]
    BY <1>2, <1>5, WholeIsNoItem DEF BatchInv, BatchTypeOK, Requests
  <2>2. BatchTypeOK'
    BY <1>3, <1>5, <2>1 DEF BatchInv, BatchTypeOK
  <2>3. Counted'
    BY <1>2, <1>3, <2>1 DEF Counted
  <2>4. BulkAlone' /\ Bounded'
    BY <1>3, <2>1 DEF BulkAlone, Bounded, Active
  <2>5. QED
    BY <2>2, <2>3, <2>4 DEF BatchInv
<1>6. QED
  BY <1>1, <1>4, <1>5 DEF AsksFor

\* An item whose call fails, and with it at Wix what stands behind it.
LEMMA ItemFailsInv ==
    ASSUME BatchInv, NEW i \in Items, call[i] \notin {"ended", "dropped"}, i \in asked,
           call[Whole] \notin Active, ItemFails(i),
           UNCHANGED <<asked, names, apart, step, underway, taken, good, started>>,
           tried' \in [Requests -> 0 .. Retries]
    PROVE  BatchInv'
<1>1. /\ call' \in [Requests -> {"unsent", "renewing", "queued", "running", "sent", "ended", "dropped"}]
      /\ call'[i] = "ended"
      /\ \A r \in Requests \ {i} : call'[r] = call[r] \/ (call[r] = "unsent" /\ call'[r] = "dropped")
      /\ \A r \in Requests \ asked : call'[r] = call[r]
  BY DEF ItemFails, BatchInv, BatchTypeOK, Requests, Behind
<1>2. bad' = [bad EXCEPT ![i] = @ + 1] /\ bad[i] = 0 /\ good[i] = 0
  BY DEF ItemFails, BatchInv, Counted
<1>3. BatchTypeOK'
  BY <1>1, <1>2 DEF BatchInv, BatchTypeOK
<1>4. Counted'
  <2>1. \A j \in Items : bad'[j] = IF j = i THEN 1 ELSE bad[j]
    BY <1>2 DEF BatchInv, BatchTypeOK
  <2>2. \A j \in Items : j \in Requests
    BY DEF Requests
  <2>3. QED
    BY <1>1, <1>2, <2>1, <2>2 DEF BatchInv, Counted
<1>5. BulkAlone' /\ Bounded'
  <2>1. call'[Whole] = call[Whole]
    BY <1>1, WholeIsNoItem DEF BatchInv, BatchTypeOK, Requests
  <2>2. QED
    BY <1>1, <2>1 DEF BatchInv, BulkAlone, Bounded, Requests
<1>6. QED
  BY <1>3, <1>4, <1>5 DEF BatchInv

LEMMA AttemptFailsInv ==
    ASSUME BatchInv, NEW r \in Requests, call[r] \in Active, AttemptFails(r)
    PROVE  BatchInv'
<1>1. /\ UNCHANGED <<asked, names, step, underway, taken, good, started>>
      /\ tried' \in [Requests -> 0 .. Retries]
      /\ \/ call' = [call EXCEPT ![r] = "running"] /\ UNCHANGED <<apart, bad>>
         \/ r = Whole /\ call' = [call EXCEPT ![r] = "ended"] /\ apart' = TRUE
            /\ UNCHANGED bad
         \/ r \in Items /\ ItemFails(r) /\ UNCHANGED apart
  BY AttemptFailsCases DEF BatchInv
<1>2. CASE call' = [call EXCEPT ![r] = "running"] /\ UNCHANGED <<apart, bad>>
  BY <1>1, <1>2, WholeIsNoItem DEF BatchInv, BatchTypeOK, Counted, BulkAlone, Bounded, Requests, Active
<1>3. CASE r = Whole /\ call' = [call EXCEPT ![r] = "ended"] /\ apart' = TRUE /\ UNCHANGED bad
  BY <1>1, <1>3, WholeIsNoItem DEF BatchInv, BatchTypeOK, Counted, BulkAlone, Bounded, Requests, Active
<1>4. CASE r \in Items /\ ItemFails(r) /\ UNCHANGED apart
  <2>1. call[Whole] \notin Active /\ call[r] \notin {"ended", "dropped"} /\ r \in asked
    BY <1>4 DEF BatchInv, BulkAlone, Bounded, Active
  <2>2. QED
    BY <1>1, <1>4, <2>1, ItemFailsInv
<1>5. QED
  BY <1>1, <1>2, <1>3, <1>4

\* A request that moves on from one state short of the end to another.
LEMMA MovesInv ==
    ASSUME BatchInv, NEW r \in Requests, NEW to \in Active,
           call[r] \in Active, call' = [call EXCEPT ![r] = to],
           UNCHANGED <<asked, apart, taken, good, bad>>, BatchTypeOK',
           underway \subseteq underway', underway' \subseteq asked
    PROVE  BatchInv'
BY WholeIsNoItem DEF BatchInv, BatchTypeOK, Counted, BulkAlone, Bounded, Requests, Active

\* The request of all hands over to the items.
LEMMA HandsOverInv ==
    ASSUME BatchInv, call[Whole] \in Active, call' = [call EXCEPT ![Whole] = "ended"], apart' = TRUE,
           UNCHANGED <<asked, names, step, tried, underway, taken, good, bad, started>>
    PROVE  BatchInv'
BY WholeIsNoItem DEF BatchInv, BatchTypeOK, Counted, BulkAlone, Bounded, Requests, Active

\* The answer to a bulk request.
LEMMA BulkAnswerInv ==
    ASSUME BatchInv, call[Whole] = "sent", NEW ok \in SUBSET asked, NEW failed \in SUBSET (asked \ ok),
           Ends(ok, failed)
    PROVE  BatchInv'
<1>1. \A i \in Items : call[i] = "unsent" /\ good[i] = 0 /\ bad[i] = 0
  BY DEF BatchInv, BulkAlone, Counted, Active
<1>2. /\ \A i \in Items : call'[i] = IF i \in ok \cup failed THEN "ended"
                                     ELSE IF i \in asked THEN "dropped" ELSE "unsent"
      /\ call'[Whole] = "ended"
  <2>1. Whole \notin asked /\ asked \subseteq Items
    BY WholeIsNoItem DEF BatchInv, BatchTypeOK
  <2>2. \A i \in Items : i \in Requests /\ i # Whole
    BY WholeIsNoItem DEF Requests
  <2>3. QED
    BY <1>1, <2>1, <2>2 DEF Ends, Requests
<1>3. BatchTypeOK'
  <2>1. call' \in [Requests -> {"unsent", "renewing", "queued", "running", "sent", "ended", "dropped"}]
    <3>1. \A r \in Requests : call'[r] \in {"ended", "dropped", "unsent"}
      BY <1>2 DEF Requests
    <3>2. DOMAIN call' = Requests /\ call' = [r \in Requests |-> call'[r]]
      BY DEF Ends
    <3>3. QED
      BY <3>1, <3>2
  <2>2. QED
    BY <2>1 DEF BatchInv, BatchTypeOK, Ends
<1>4. \A i \in Items : /\ good'[i] = (IF i \in ok THEN 1 ELSE 0)
                       /\ bad'[i] = (IF i \in failed THEN 1 ELSE 0)
  BY <1>1 DEF Ends
<1>5. Counted'
  BY <1>2, <1>4 DEF Counted
<1>6. BulkAlone' /\ Bounded'
  BY <1>2 DEF BatchInv, BatchTypeOK, BulkAlone, Bounded, Ends, Active
<1>7. QED
  BY <1>3, <1>5, <1>6 DEF BatchInv

\* Eposnow's batch rejects.
LEMMA RejectsInv ==
    ASSUME BatchInv, call[Whole] = "renewing",
           call' = [q \in Requests |-> IF q \in asked THEN "dropped" ELSE IF q = Whole THEN "ended" ELSE call[q]],
           UNCHANGED <<asked, names, apart, step, tried, underway, taken, good, bad, started>>
    PROVE  BatchInv'
<1>1. Whole \notin asked /\ asked # {}
  BY WholeIsNoItem DEF BatchInv, BatchTypeOK, BulkAlone, Active
<1>2. BatchTypeOK' /\ Counted'
  BY DEF BatchInv, BatchTypeOK, Counted, BulkAlone, Active, Requests
<1>3. BulkAlone' /\ Bounded'
  BY <1>1, WholeIsNoItem DEF BatchInv, BatchTypeOK, BulkAlone, Bounded, Active, Requests
<1>4. QED
  BY <1>2, <1>3 DEF BatchInv

LEMMA SentInv ==
    ASSUME BatchInv, NEW i \in Items, call[i] \in Active
    PROVE  i \in asked /\ call[Whole] \notin Active /\ Told(i) = "nothing" /\ good[i] = 0 /\ bad[i] = 0
BY DEF BatchInv, BulkAlone, Bounded, Counted, Told, Active

LEMMA MovesOnInv ==
    ASSUME BatchInv, NEW i \in Items, call[i] = "sent", NEW to \in {"find", "set", "avail"}, Moves(i, to)
    PROVE  BatchInv'
<1>1. CASE kind = "deliveroo" /\ session # "ready"
  <2>1. tried' \in [Requests -> 0 .. Retries]
    BY <1>1 DEF Moves, BatchInv, BatchTypeOK
  <2>2. call[Whole] \notin Active /\ i \in asked
    BY SentInv DEF Active
  <2>3. ItemFails(i) /\ UNCHANGED <<asked, names, apart, step, underway, taken, good, started>>
    BY <1>1 DEF Moves
  <2>4. QED
    BY <2>1, <2>2, <2>3, ItemFailsInv
<1>2. CASE ~(kind = "deliveroo" /\ session # "ready")
  <2>1. i \in Requests /\ 0 \in 0 .. Retries
    BY LimitsAreNumbers DEF Requests
  <2>2. BatchTypeOK'
    BY <1>2, <2>1 DEF Moves, BatchInv, BatchTypeOK
  <2>3. QED
    BY <1>2, <2>1, <2>2, MovesInv DEF Moves, BatchInv, Bounded, Active
<1>3. QED
  BY <1>1, <1>2

LEMMA LeavesInv ==
    ASSUME BatchInv, NEW r \in Requests, call[r] \in Active, Leaves(r)
    PROVE  BatchInv'
<1>1. underway \subseteq underway' /\ underway' \subseteq asked
  <2>1. CASE r = Whole
    BY <2>1 DEF Leaves, BatchInv, Bounded
  <2>2. CASE r # Whole
    <3>1. r \in Items /\ r \in asked
      BY <2>2 DEF BatchInv, Bounded, Requests, Active
    <3>2. QED
      BY <2>2, <3>1 DEF Leaves, BatchInv, Bounded
  <2>3. QED
    BY <2>1, <2>2
<1>2. BatchTypeOK'
  BY <1>1 DEF Leaves, BatchInv, BatchTypeOK
<1>3. QED
  BY <1>1, <1>2, MovesInv DEF Leaves, Active

LEMMA ClientStepInv ==
    ASSUME BatchInv, ClientStep
    PROVE  BatchInv'
<1>1. CASE NewInterval
  <2>1. 0 \in 0 .. Cap
    BY LimitsAreNumbers
  <2>2. QED
    BY <1>1, <2>1 DEF NewInterval, BatchInv, BatchTypeOK, Counted, BulkAlone, Bounded
<1>2. CASE OtterBulkAnswer
  <2>1. PICK ok \in SUBSET (asked \cap taken) : \E failed \in SUBSET (asked \ ok) : Ends(ok, failed)
    BY <1>2 DEF OtterBulkAnswer
  <2>2. QED
    BY <1>2, <2>1, BulkAnswerInv DEF OtterBulkAnswer
<1>3. CASE UberEatsBulkAnswer
  <2>1. {} \in SUBSET (asked \ asked)
    OBVIOUS
  <2>2. QED
    BY <1>3, <2>1, BulkAnswerInv DEF UberEatsBulkAnswer
<1>4. ASSUME NEW r \in Requests, Admits(r)
      PROVE  BatchInv'
  <2>1. started + 1 \in 0 .. Cap
    BY <1>4, LimitsAreNumbers DEF Admits, BatchInv, BatchTypeOK
  <2>2. BatchTypeOK'
    BY <1>4, <2>1 DEF Admits, BatchInv, BatchTypeOK
  <2>3. QED
    BY <1>4, <2>2, MovesInv DEF Admits, BatchInv, Bounded, Active
<1>5. ASSUME NEW r \in Requests, Sends(r)
      PROVE  BatchInv'
  BY <1>5, LeavesInv DEF Sends, Active
<1>6. ASSUME NEW r \in Requests, SendFails(r) \/ AnswerFails(r)
      PROVE  BatchInv'
  BY <1>6, AttemptFailsInv DEF SendFails, AnswerFails, Active
<1>7. ASSUME NEW r \in Requests, Renewed(r)
      PROVE  BatchInv'
  <2>1. CASE kind = "eposnow" /\ r = Whole
    BY <1>7, <2>1, HandsOverInv DEF Renewed, TokenComes, Active
  <2>2. CASE ~(kind = "eposnow" /\ r = Whole)
    <3>1. BatchTypeOK'
      BY <1>7, <2>2 DEF Renewed, BatchInv, BatchTypeOK
    <3>2. QED
      BY <1>7, <2>2, <3>1, MovesInv DEF Renewed, TokenComes, BatchInv, Bounded, Active
  <2>3. QED
    BY <2>1, <2>2
<1>8. ASSUME NEW r \in Requests, RenewalFails(r)
      PROVE  BatchInv'
  <2>1. CASE r # Whole
    <3>1. r \in Items /\ r \in asked /\ call[Whole] \notin Active
      BY <1>8, <2>1, SentInv DEF RenewalFails, Requests, Active
    <3>2. tried' \in [Requests -> 0 .. Retries]
      BY <1>8 DEF RenewalFails, BatchInv, BatchTypeOK
    <3>3. QED
      BY <1>8, <2>1, <3>1, <3>2, ItemFailsInv DEF RenewalFails
  <2>2. CASE r = Whole /\ kind # "eposnow"
    BY <1>8, <2>2, HandsOverInv DEF RenewalFails, Active
  <2>3. CASE r = Whole /\ kind = "eposnow"
    BY <1>8, <2>3, RejectsInv DEF RenewalFails
  <2>4. QED
    BY <2>1, <2>2, <2>3
<1>9. ASSUME NEW i \in Items, Calls(i)
      PROVE  BatchInv'
  <2>1. call[Whole] \notin Active /\ good[i] = 0 /\ bad[i] = 0 /\ i \in asked /\ call[i] = "unsent"
    BY <1>9 DEF Calls, BatchInv, BulkAlone, Counted
  <2>2. CASE Refused(i)
    <3>1. tried' \in [Requests -> 0 .. Retries]
      BY <1>9 DEF Calls, BatchInv, BatchTypeOK
    <3>2. QED
      BY <1>9, <2>1, <2>2, <3>1, ItemFailsInv DEF Calls
  <2>3. CASE ~Refused(i)
    <3>1. PICK e \in {"renewing", "queued"} : call' = [call EXCEPT ![i] = e]
      BY <1>9, <2>3 DEF Calls, Entry
    <3>2. UNCHANGED <<asked, names, apart, step, tried, underway, taken, good, bad, started>>
      BY <1>9, <2>3 DEF Calls
    <3>3. QED
      BY <2>1, <3>1, <3>2, WholeIsNoItem
      DEF BatchInv, BatchTypeOK, Counted, BulkAlone, Bounded, Requests, Active
  <2>4. QED
    BY <2>2, <2>3
<1>10. ASSUME NEW i \in Items, WixRenews(i)
       PROVE  BatchInv'
  <2>1. BatchTypeOK'
    BY <1>10 DEF WixRenews, BatchInv, BatchTypeOK
  <2>2. QED
    BY <1>10, <2>1, MovesInv DEF WixRenews, BatchInv, Bounded, Active, Requests
<1>11. ASSUME NEW i \in Items, WixRenewed(i) \/ WixRenewalFails(i)
       PROVE  BatchInv'
  BY <1>11, LeavesInv, AttemptFailsInv DEF WixRenewed, WixRenewalFails, TokenComes, Active, Requests
<1>12. ASSUME NEW i \in Items, Found(i) \/ OtterUnknown(i) \/ StockSet(i)
       PROVE  BatchInv'
  BY <1>12, MovesOnInv DEF Found, OtterUnknown, StockSet
<1>13. ASSUME NEW i \in Items, NotFound(i)
       PROVE  BatchInv'
  <2>1. tried' \in [Requests -> 0 .. Retries]
    BY <1>13 DEF NotFound, BatchInv, BatchTypeOK
  <2>2. QED
    BY <1>13, <2>1, SentInv, ItemFailsInv DEF NotFound, Active
<1>14. ASSUME NEW i \in Items, Succeeds(i)
       PROVE  BatchInv'
  <2>1. i \in asked /\ call[Whole] \notin Active /\ good[i] = 0 /\ bad[i] = 0
    BY <1>14, SentInv DEF Succeeds, Active
  <2>2. BatchTypeOK'
    <3>1. good[i] + 1 \in Nat
      BY DEF BatchInv, BatchTypeOK
    <3>2. good' \in [Items -> Nat]
      BY <1>14, <3>1 DEF Succeeds, BatchInv, BatchTypeOK
    <3>3. call' \in [Requests -> {"unsent", "renewing", "queued", "running", "sent", "ended", "dropped"}]
      BY <1>14 DEF Succeeds, BatchInv, BatchTypeOK
    <3>4. QED
      BY <1>14, <3>2, <3>3 DEF Succeeds, BatchInv, BatchTypeOK
  <2>3. Counted'
    BY <1>14, <2>1 DEF Succeeds, BatchInv, BatchTypeOK, Counted, Requests
  <2>4. BulkAlone' /\ Bounded'
    BY <1>14, <2>1, WholeIsNoItem
    DEF Succeeds, BatchInv, BatchTypeOK, BulkAlone, Bounded, Requests, Active
  <2>5. QED
    BY <2>2, <2>3, <2>4 DEF BatchInv
<1>15. QED
  BY <1>1, <1>2, <1>3, <1>4, <1>5, <1>6, <1>7, <1>8, <1>9, <1>10, <1>11, <1>12, <1>13, <1>14
  DEF ClientStep

LEMMA BatchNextInv ==
    ASSUME BatchInv, [BatchNext]_allVars
    PROVE  BatchInv'
<1>1. CASE UNCHANGED batchVars
  BY <1>1 DEF batchVars, BatchInv, BatchTypeOK, Counted, BulkAlone, Bounded
<1>2. ASSUME NEW i \in Items, ShopTakes(i)
      PROVE  BatchInv'
  BY <1>2 DEF ShopTakes, BatchInv, BatchTypeOK, Counted, BulkAlone, Bounded
<1>3. QED
  BY <1>1, <1>2, BeginsInv, ClientStepInv DEF BatchNext, allVars

LEMMA BatchInitInv == BatchInit => BatchInv
<1> SUFFICES ASSUME BatchInit PROVE BatchInv
  OBVIOUS
<1>1. 0 \in Nat /\ 0 \in 0 .. Cap /\ 0 \in 0 .. Retries
  BY LimitsAreNumbers
<1>2. BatchTypeOK
  BY <1>1 DEF BatchInit, BatchTypeOK
<1>3. \A r \in Requests : call[r] = "unsent"
  BY DEF BatchInit
<1>4. Counted /\ BulkAlone /\ Bounded
  BY <1>3 DEF BatchInit, Counted, BulkAlone, Bounded, Requests, Active
<1>5. QED
  BY <1>2, <1>4 DEF BatchInv

\* A batch keeps its invariant, and with it its type: no more attempts than Retries
\* allows, no more requests in an interval than the limiter's Cap.
THEOREM BatchInvariant == BatchSafe => [](BatchTypeOK /\ BatchInv)
<1>1. BatchInv => BatchTypeOK
  BY DEF BatchInv
<1>2. BatchInv /\ [BatchNext]_<<sessionVars, batchVars>> => BatchInv'
  BY BatchNextInv DEF allVars
<1>3. QED
  BY <1>1, <1>2, BatchInitInv, PTL DEF BatchSafe
-----------------------------------------------------------------------------
(* Each step is a step of the contract, or none of it *)

\* Whatever changes what the caller is told of, as the contract has it.
LEMMA TellIsNext ==
    ASSUME NEW ok \in SUBSET (Contract!Untold \cap taken), NEW failed \in SUBSET (Contract!Untold \ ok),
           NEW never \in SUBSET (Contract!Untold \ (ok \cup failed)), Contract!Tell(ok, failed, never)
    PROVE  Contract!Next
BY DEF Contract!Next

\* What is told of an item, before a step and after it.
LEMMA ToldOf ==
    ASSUME NEW i \in Items
    PROVE  /\ good[i] = 0 /\ bad[i] = 0 /\ call[i] = "dropped" => Told(i) = "never"
           /\ good[i] = 0 /\ bad[i] = 0 /\ call[i] # "dropped" => Told(i) = "nothing"
<1>1. CASE call[i] = "dropped"
  BY <1>1 DEF Told
<1>2. CASE call[i] # "dropped"
  BY <1>2 DEF Told
<1>3. QED
  BY <1>1, <1>2

LEMMA ToldNext ==
    ASSUME NEW i \in Items
    PROVE  /\ good'[i] = 0 /\ bad'[i] = 0 /\ call'[i] = "dropped" => Told(i)' = "never"
           /\ good'[i] = 0 /\ bad'[i] = 0 /\ call'[i] # "dropped" => Told(i)' = "nothing"
           /\ good'[i] = 0 /\ bad'[i] = 1 => Told(i)' = "error"
           /\ good'[i] = 1 /\ bad'[i] = 0 => Told(i)' = "success"
           /\ good'[i] = good[i] /\ bad'[i] = bad[i] /\ call'[i] = call[i] => Told(i)' = Told(i)
<1>1. ASSUME good'[i] = 0, bad'[i] = 0, call'[i] = "dropped" PROVE Told(i)' = "never"
  BY <1>1 DEF Told
<1>2. ASSUME good'[i] = 0, bad'[i] = 0, call'[i] # "dropped" PROVE Told(i)' = "nothing"
  BY <1>2 DEF Told
<1>3. ASSUME good'[i] = 0, bad'[i] = 1 PROVE Told(i)' = "error"
  BY <1>3 DEF Told
<1>4. ASSUME good'[i] = 1, bad'[i] = 0 PROVE Told(i)' = "success"
  BY <1>4 DEF Told
<1>5. ASSUME good'[i] = good[i], bad'[i] = bad[i], call'[i] = call[i] PROVE Told(i)' = Told(i)
  BY <1>5 DEF Told
<1>6. QED
  BY <1>1, <1>2, <1>3, <1>4, <1>5

LEMMA UntoldIs ==
    ASSUME BatchTypeOK
    PROVE  Contract!Untold = {i \in asked : Told(i) = "nothing"}
<1>1. \A i \in asked : [j \in Items |-> Told(j)][i] = Told(i)
  BY DEF BatchTypeOK
<1>2. QED
  BY <1>1 DEF Contract!Untold

\* An item that fails is told of; at Wix nothing is ever told of those behind it.
LEMMA FailureTells ==
    ASSUME BatchInv, NEW i \in Items, i \in asked, call[i] \notin {"ended", "dropped"},
           ItemFails(i), UNCHANGED <<kind, asked, names, taken, good>>
    PROVE  Contract!Next
<1> DEFINE behind == {j \in asked \ {i} : kind = "wix" /\ names[j] = names[i] /\ call[j] = "unsent"}
<1>1. \A j \in Items : /\ good'[j] = good[j]
                       /\ bad'[j] = (IF j = i THEN 1 ELSE bad[j])
                       /\ call'[j] = IF j = i THEN "ended" ELSE IF j \in behind THEN "dropped" ELSE call[j]
  BY DEF ItemFails, Behind, BatchInv, BatchTypeOK, Counted, Requests
<1>2. good[i] = 0 /\ bad[i] = 0 /\ \A j \in behind : good[j] = 0 /\ bad[j] = 0 /\ call[j] = "unsent"
  BY DEF BatchInv, BatchTypeOK, Counted
<1>3. i \in Contract!Untold /\ behind \subseteq Contract!Untold
  BY <1>2, ToldOf, UntoldIs DEF BatchInv, BatchTypeOK
<1>4. \A j \in Items : Told(j)' = IF j \in {} THEN "success" ELSE IF j \in {i} THEN "error"
                                  ELSE IF j \in behind THEN "never" ELSE Told(j)
  <2> TAKE j \in Items
  <2>1. CASE j = i
    BY <1>1, <1>2, <2>1, ToldNext
  <2>2. CASE j \in behind
    BY <1>1, <1>2, <2>2, ToldNext
  <2>3. CASE j # i /\ j \notin behind
    BY <1>1, <2>3, ToldNext
  <2>4. QED
    BY <2>1, <2>2, <2>3
<1>5. Contract!Excused({}, {i}, behind)
  BY DEF Contract!Excused
<1> HIDE DEF behind
<1>6. Contract!Tell({}, {i}, behind)
  BY <1>4, <1>5 DEF Contract!Tell
<1>7. i \notin behind
  BY DEF behind
<1>8. QED
  BY <1>3, <1>6, <1>7, TellIsNext

LEMMA SuccessTells ==
    ASSUME BatchInv, NEW i \in Items, i \in asked, i \in taken, good[i] = 0, bad[i] = 0,
           call[i] # "dropped", call' = [call EXCEPT ![i] = "ended"],
           good' = [good EXCEPT ![i] = @ + 1], UNCHANGED <<kind, bad, asked, names, taken>>
    PROVE  Contract!Next
<1>1. \A j \in Items : /\ bad'[j] = bad[j]
                       /\ good'[j] = (IF j = i THEN 1 ELSE good[j])
                       /\ j # i => call'[j] = call[j]
  BY DEF BatchInv, BatchTypeOK, Requests
<1>2. \A j \in Items : Told(j)' = IF j \in {i} THEN "success" ELSE IF j \in {} THEN "error"
                                  ELSE IF j \in {} THEN "never" ELSE Told(j)
  <2> TAKE j \in Items
  <2>1. CASE j = i
    BY <1>1, <2>1 DEF Told
  <2>2. CASE j # i
    BY <1>1, <2>2 DEF Told
  <2>3. QED
    BY <2>1, <2>2
<1>3. i \in Contract!Untold
  BY ToldOf, UntoldIs DEF BatchInv
<1>4. Contract!Tell({i}, {}, {})
  BY <1>2 DEF Contract!Tell, Contract!Excused
<1>5. QED
  BY <1>3, <1>4, TellIsNext

LEMMA BulkAnswerTells ==
    ASSUME BatchInv, call[Whole] = "sent", UNCHANGED kind,
           NEW ok \in SUBSET (asked \cap taken), NEW failed \in SUBSET (asked \ ok),
           Ends(ok, failed), kind = "deliveroo" \/ ok = asked
    PROVE  Contract!Next
<1> DEFINE never == asked \ (ok \cup failed)
<1>1. /\ asked \subseteq Items /\ Whole \notin asked
      /\ \A i \in Items : call[i] = "unsent" /\ good[i] = 0 /\ bad[i] = 0
  BY WholeIsNoItem DEF BatchInv, BatchTypeOK, BulkAlone, Counted, Active
<1>2. Contract!Untold = asked /\ \A i \in Items : Told(i) = "nothing"
  BY <1>1, ToldOf, UntoldIs DEF BatchInv
<1>3. UNCHANGED <<asked, names, taken>>
  BY DEF Ends
<1>4. \A i \in Items : /\ good'[i] = (IF i \in ok THEN 1 ELSE 0)
                       /\ bad'[i] = (IF i \in failed THEN 1 ELSE 0)
                       /\ i \in never => call'[i] = "dropped"
                       /\ i \notin asked => call'[i] = "unsent"
  <2>1. \A i \in Items : i \in Requests /\ i # Whole
    BY WholeIsNoItem DEF Requests
  <2>2. QED
    BY <1>1, <2>1 DEF Ends
<1>5. \A i \in Items : Told(i)' = IF i \in ok THEN "success" ELSE IF i \in failed THEN "error"
                                  ELSE IF i \in never THEN "never" ELSE Told(i)
  <2> TAKE i \in Items
  <2>1. CASE i \in ok
    BY <1>4, <2>1, ToldNext
  <2>2. CASE i \in failed
    BY <1>4, <2>2, ToldNext
  <2>3. CASE i \in never
    BY <1>4, <2>3, ToldNext
  <2>4. CASE i \notin asked
    <3>1. good'[i] = 0 /\ bad'[i] = 0 /\ call'[i] = "unsent"
      BY <1>4, <2>4
    <3>2. Told(i)' = "nothing"
      BY <3>1, ToldNext
    <3>3. QED
      BY <1>2, <2>4, <3>2
  <2>5. QED
    BY <2>1, <2>2, <2>3, <2>4
<1>6. Contract!Excused(ok, failed, never)
  BY DEF Contract!Excused
<1> HIDE DEF never
<1>7. Contract!Tell(ok, failed, never)
  BY <1>3, <1>5, <1>6 DEF Contract!Tell
<1>8. never \in SUBSET (asked \ (ok \cup failed))
  BY DEF never
<1>9. QED
  BY <1>2, <1>7, <1>8, TellIsNext

\* Eposnow's batch rejects: nothing is told of any item.
LEMMA RejectionTells ==
    ASSUME BatchInv, kind = "eposnow", call[Whole] = "renewing",
           call' = [q \in Requests |-> IF q \in asked THEN "dropped" ELSE IF q = Whole THEN "ended" ELSE call[q]],
           UNCHANGED <<kind, asked, names, taken, good, bad>>
    PROVE  Contract!Next
<1>1. \A i \in Items : call[i] = "unsent" /\ good[i] = 0 /\ bad[i] = 0
  BY DEF BatchInv, BulkAlone, Counted, Active
<1>2. asked \subseteq Items /\ Contract!Untold = asked
  BY <1>1, ToldOf, UntoldIs DEF BatchInv, BatchTypeOK
<1>3. \A i \in Items : call'[i] = IF i \in asked THEN "dropped" ELSE call[i]
  BY WholeIsNoItem DEF Requests
<1>4. \A i \in Items : Told(i)' = IF i \in {} THEN "success" ELSE IF i \in {} THEN "error"
                                  ELSE IF i \in asked THEN "never" ELSE Told(i)
  <2> TAKE i \in Items
  <2>1. good'[i] = 0 /\ bad'[i] = 0 /\ good'[i] = good[i] /\ bad'[i] = bad[i]
    BY <1>1
  <2>2. CASE i \in asked
    BY <1>3, <2>1, <2>2, ToldNext
  <2>3. CASE i \notin asked
    BY <1>3, <2>1, <2>3, ToldNext
  <2>4. QED
    BY <2>2, <2>3
<1>5. Contract!Tell({}, {}, asked)
  BY <1>4 DEF Contract!Tell, Contract!Excused
<1>6. QED
  BY <1>2, <1>5, TellIsNext

\* Steps the caller does not see: no item is counted, and none dropped.
LEMMA Unseen ==
    ASSUME UNCHANGED <<kind, asked, names, taken, good, bad>>,
           \A i \in Items : (call'[i] = "dropped") <=> (call[i] = "dropped")
    PROVE  UNCHANGED Contract!vars
<1>1. \A i \in Items : Told(i)' = Told(i)
  BY DEF Told
<1>2. QED
  BY <1>1 DEF Contract!vars

\* A request that moves on.
LEMMA MovedUnseen ==
    ASSUME BatchInv, NEW r \in Requests, call[r] # "dropped", NEW to \in Active \cup {"ended"},
           call' = [call EXCEPT ![r] = to], UNCHANGED <<kind, asked, names, taken, good, bad>>
    PROVE  UNCHANGED Contract!vars
<1>1. \A i \in Items : (call'[i] = "dropped") <=> (call[i] = "dropped")
  BY DEF BatchInv, BatchTypeOK, Requests, Active
<1>2. QED
  BY <1>1, Unseen

LEMMA AttemptFailsRefines ==
    ASSUME BatchInv, NEW r \in Requests, call[r] \in Active, AttemptFails(r), UNCHANGED sessionVars
    PROVE  [Contract!Next]_Contract!vars
<1>1. /\ UNCHANGED <<kind, asked, names, taken, good>>
      /\ \/ call' = [call EXCEPT ![r] = "running"] /\ UNCHANGED bad
         \/ r = Whole /\ call' = [call EXCEPT ![r] = "ended"] /\ UNCHANGED bad
         \/ r \in Items /\ ItemFails(r)
  BY AttemptFailsCases DEF BatchInv, sessionVars
<1>2. CASE r \in Items /\ ItemFails(r)
  BY <1>1, <1>2, SentInv, FailureTells DEF Active
<1>3. CASE \E to \in {"running", "ended"} : call' = [call EXCEPT ![r] = to] /\ UNCHANGED bad
  BY <1>1, <1>3, MovedUnseen DEF Active
<1>4. QED
  BY <1>1, <1>2, <1>3

\* A step of a client leaves the connection as it is, but for the token it may bring.
LEMMA ClientStepSession ==
    ASSUME ClientStep
    PROVE  UNCHANGED <<kind, session, located>> /\ (UNCHANGED token \/ token' = "live")
<1>1. ASSUME UNCHANGED sessionVars
      PROVE  UNCHANGED <<kind, session, located>> /\ (UNCHANGED token \/ token' = "live")
  BY <1>1 DEF sessionVars
<1>2. NewInterval \/ OtterBulkAnswer \/ UberEatsBulkAnswer => UNCHANGED sessionVars
  BY DEF NewInterval, OtterBulkAnswer, UberEatsBulkAnswer, Ends
<1>3. ASSUME NEW r \in Requests, Admits(r) \/ Sends(r) \/ SendFails(r) \/ AnswerFails(r) \/ RenewalFails(r)
      PROVE  UNCHANGED sessionVars
  BY <1>3 DEF Admits, Sends, SendFails, AnswerFails, RenewalFails
<1>4. ASSUME NEW i \in Items, Calls(i) \/ WixRenews(i) \/ WixRenewalFails(i) \/ Found(i) \/ OtterUnknown(i)
                              \/ NotFound(i) \/ StockSet(i) \/ Succeeds(i)
      PROVE  UNCHANGED sessionVars
  BY <1>4 DEF Calls, WixRenews, WixRenewalFails, Found, OtterUnknown, NotFound, StockSet, Succeeds, Moves
<1>5. ASSUME NEW r \in Requests, TokenComes(r)
      PROVE  UNCHANGED <<kind, session, located>> /\ token' = "live"
  BY <1>5 DEF TokenComes
<1>6. (\E r \in Requests : Renewed(r)) \/ (\E i \in Items : WixRenewed(i)) => \E r \in Requests : TokenComes(r)
  BY DEF Renewed, WixRenewed, Requests
<1>7. QED
  BY <1>1, <1>2, <1>3, <1>4, <1>5, <1>6 DEF ClientStep

LEMMA SessionNextKind ==
    ASSUME SessionNext
    PROVE  UNCHANGED kind
BY DEF SessionNext, EposnowConnect, WixConnect, OtterConnect, ShopifyConnect, WooCommerceConnect,
       UberEatsConnect, Connecting, TokenExpires, TokenDies, Disconnect

LEMMA MovesRefines ==
    ASSUME BatchInv, NEW i \in Items, call[i] = "sent", NEW to, Moves(i, to)
    PROVE  [Contract!Next]_Contract!vars
<1>1. UNCHANGED <<kind, asked, names, taken, good>>
  BY DEF Moves, sessionVars
<1>2. CASE kind = "deliveroo" /\ session # "ready"
  BY <1>1, <1>2, SentInv, FailureTells DEF Moves, Active
<1>3. CASE ~(kind = "deliveroo" /\ session # "ready")
  BY <1>1, <1>3, MovedUnseen DEF Moves, Active, Requests
<1>4. QED
  BY <1>2, <1>3

LEMMA ClientStepRefines ==
    ASSUME BatchInv, ClientStep
    PROVE  [Contract!Next]_Contract!vars
<1>0. UNCHANGED kind
  BY ClientStepSession
<1>1. CASE NewInterval
  BY <1>1, Unseen DEF NewInterval, sessionVars
<1>2. CASE OtterBulkAnswer
  <2>1. PICK ok \in SUBSET (asked \cap taken) : \E failed \in SUBSET (asked \ ok) : Ends(ok, failed)
    BY <1>2 DEF OtterBulkAnswer
  <2>2. QED
    BY <1>0, <1>2, <2>1, BulkAnswerTells DEF OtterBulkAnswer
<1>3. CASE UberEatsBulkAnswer
  <2>1. {} \in SUBSET (asked \ asked) /\ asked \in SUBSET (asked \cap taken)
    BY <1>3 DEF UberEatsBulkAnswer
  <2>2. QED
    BY <1>0, <1>3, <2>1, BulkAnswerTells DEF UberEatsBulkAnswer
<1>4. ASSUME NEW r \in Requests, Admits(r) \/ Sends(r)
      PROVE  UNCHANGED Contract!vars
  BY <1>0, <1>4, MovedUnseen DEF Admits, Sends, Leaves, Active
<1>5. ASSUME NEW r \in Requests, SendFails(r) \/ AnswerFails(r)
      PROVE  [Contract!Next]_Contract!vars
  BY <1>5, AttemptFailsRefines DEF SendFails, AnswerFails, Active
<1>6. ASSUME NEW r \in Requests, Renewed(r)
      PROVE  UNCHANGED Contract!vars
  <2>1. \E to \in {"queued", "ended"} : call' = [call EXCEPT ![r] = to]
    BY <1>6 DEF Renewed
  <2>2. QED
    BY <1>0, <1>6, <2>1, MovedUnseen DEF Renewed, TokenComes, Active
<1>7. ASSUME NEW r \in Requests, RenewalFails(r)
      PROVE  [Contract!Next]_Contract!vars
  <2>1. UNCHANGED <<kind, asked, names, taken, good>> /\ call[r] = "renewing"
    BY <1>7 DEF RenewalFails, sessionVars
  <2>2. CASE r # Whole
    BY <1>7, <2>1, <2>2, SentInv, FailureTells DEF RenewalFails, Requests, Active
  <2>3. CASE r = Whole /\ kind # "eposnow"
    BY <1>7, <2>1, <2>3, MovedUnseen DEF RenewalFails, Active
  <2>4. CASE r = Whole /\ kind = "eposnow"
    BY <1>7, <2>1, <2>4, RejectionTells DEF RenewalFails
  <2>5. QED
    BY <2>2, <2>3, <2>4
<1>8. ASSUME NEW i \in Items, Calls(i)
      PROVE  [Contract!Next]_Contract!vars
  <2>1. i \in asked /\ call[i] = "unsent" /\ UNCHANGED <<asked, names, taken, good>>
    BY <1>8 DEF Calls
  <2>2. CASE Refused(i)
    BY <1>0, <1>8, <2>1, <2>2, FailureTells DEF Calls
  <2>3. CASE ~Refused(i)
    <3>1. PICK e \in {"renewing", "queued"} : call' = [call EXCEPT ![i] = e]
      BY <1>8, <2>3 DEF Calls, Entry
    <3>2. UNCHANGED bad
      BY <1>8, <2>3 DEF Calls
    <3>3. QED
      BY <1>0, <2>1, <3>1, <3>2, MovedUnseen DEF Active, Requests
  <2>4. QED
    BY <2>2, <2>3
<1>9. ASSUME NEW i \in Items, WixRenews(i) \/ WixRenewed(i)
      PROVE  UNCHANGED Contract!vars
  BY <1>0, <1>9, MovedUnseen DEF WixRenews, WixRenewed, TokenComes, Leaves, Active, Requests
<1>10. ASSUME NEW i \in Items, WixRenewalFails(i)
       PROVE  [Contract!Next]_Contract!vars
  BY <1>10, AttemptFailsRefines DEF WixRenewalFails, Active, Requests
<1>11. ASSUME NEW i \in Items, Found(i) \/ OtterUnknown(i) \/ StockSet(i)
       PROVE  [Contract!Next]_Contract!vars
  BY <1>11, MovesRefines DEF Found, OtterUnknown, StockSet
<1>12. ASSUME NEW i \in Items, NotFound(i)
       PROVE  [Contract!Next]_Contract!vars
  BY <1>0, <1>12, SentInv, FailureTells DEF NotFound, Active
<1>13. ASSUME NEW i \in Items, Succeeds(i)
       PROVE  [Contract!Next]_Contract!vars
  BY <1>0, <1>13, SentInv, SuccessTells DEF Succeeds, Active
<1>14. QED
  BY <1>1, <1>2, <1>3, <1>4, <1>5, <1>6, <1>7, <1>8, <1>9, <1>10, <1>11, <1>12, <1>13 DEF ClientStep

\* What an operation skips from the start is Wix's, and names no product.
LEMMA BeginsRefines ==
    ASSUME BatchInv, Begins
    PROVE  Contract!Next
<1>1. PICK S \in SUBSET Items : AsksFor(S)
  BY BeginsAsks DEF BatchInv
<1>2. \A i \in Items : call[i] = "unsent" /\ good[i] = 0 /\ bad[i] = 0 /\ Told(i) = "nothing"
  BY <1>1, ToldOf DEF AsksFor, BatchInv, Bounded, Counted
<1>3. asked = {} /\ S # {} /\ asked' = S /\ names' \in [Items -> ShopIds \cup {NoId}]
      /\ UNCHANGED <<kind, taken, good, bad>>
  BY <1>1 DEF AsksFor
<1>4. \A skipped \in SUBSET S :
         (/\ skipped # {} => kind = "wix" /\ \A i \in skipped : names'[i] = NoId
          /\ \A i \in Items : (call'[i] = "dropped") <=> i \in skipped)
         => Contract!Next
  <2> SUFFICES ASSUME NEW skipped \in SUBSET S,
                      skipped # {} => kind = "wix" /\ \A i \in skipped : names'[i] = NoId,
                      \A i \in Items : (call'[i] = "dropped") <=> i \in skipped
               PROVE  Contract!Next
    OBVIOUS
  <2>1. \A i \in Items : Told(i)' = IF i \in skipped THEN "never" ELSE Told(i)
    <3> TAKE i \in Items
    <3>1. good'[i] = 0 /\ bad'[i] = 0
      BY <1>2, <1>3
    <3>2. CASE i \in skipped
      BY <3>1, <3>2, ToldNext
    <3>3. CASE i \notin skipped
      BY <1>2, <3>1, <3>3, ToldNext
    <3>4. QED
      BY <3>2, <3>3
  <2>2. Contract!Ask(S, skipped)
    BY <1>3, <2>1 DEF Contract!Ask
  <2>3. QED
    BY <2>2 DEF Contract!Next
<1>5. CASE \E e \in {"renewing", "queued"} : call' = [call EXCEPT ![Whole] = e]
  <2>1. \A i \in Items : call'[i] # "dropped"
    BY <1>2, <1>5, WholeIsNoItem DEF BatchInv, BatchTypeOK, Requests
  <2>2. {} \in SUBSET S
    OBVIOUS
  <2>3. QED
    BY <1>4, <2>1, <2>2
<1>6. CASE UNCHANGED call
  <2>1. {} \in SUBSET S
    OBVIOUS
  <2>2. QED
    BY <1>2, <1>4, <1>6, <2>1
<1>7. CASE kind = "wix" /\ call' = [r \in Requests |-> IF r \in S /\ names'[r] = NoId
                                                       THEN "dropped" ELSE call[r]]
  <2> DEFINE skipped == {i \in S : names'[i] = NoId}
  <2>1. \A i \in Items : (call'[i] = "dropped") <=> i \in skipped
    BY <1>2, <1>7 DEF Requests
  <2>2. skipped \in SUBSET S /\ \A i \in skipped : names'[i] = NoId
    OBVIOUS
  <2> HIDE DEF skipped
  <2>3. QED
    BY <1>4, <1>7, <2>1, <2>2
<1>8. QED
  BY <1>1, <1>5, <1>6, <1>7 DEF AsksFor

LEMMA BatchRefines ==
    ASSUME BatchInv, [BatchNext]_allVars
    PROVE  [Contract!Next]_Contract!vars
<1>1. ASSUME UNCHANGED kind, UNCHANGED batchVars
      PROVE  UNCHANGED Contract!vars
  BY <1>1, Unseen DEF batchVars
<1>2. CASE SessionNext /\ UNCHANGED batchVars
  BY <1>1, <1>2, SessionNextKind
<1>3. CASE UNCHANGED allVars
  BY <1>1, <1>3 DEF allVars, sessionVars
<1>4. ASSUME NEW i \in Items, ShopTakes(i)
      PROVE  Contract!Next
  <2>1. /\ i \in asked \ taken /\ taken' = taken \cup {i}
        /\ UNCHANGED <<kind, asked, names, call, good, bad>>
    BY <1>4 DEF ShopTakes, sessionVars, BatchInv, Bounded
  <2>2. \A j \in Items : Told(j)' = Told(j)
    BY <2>1 DEF Told
  <2>3. Contract!Take(i)
    BY <2>1, <2>2 DEF Contract!Take
  <2>4. QED
    BY <2>3 DEF Contract!Next
<1>5. QED
  BY <1>2, <1>3, <1>4, BeginsRefines, ClientStepRefines DEF BatchNext

LEMMA BatchInitRefines == BatchInit => Contract!Init
<1> SUFFICES ASSUME BatchInit PROVE Contract!Init
  OBVIOUS
<1>1. \A i \in Items : Told(i) = "nothing"
  BY ToldOf DEF BatchInit, Requests
<1>2. QED
  BY <1>1 DEF BatchInit, Contract!Init

\* Providers keep the safety part of UpdateContract: an item is told of at most once, a
\* success only when the shop has taken the level, and none is lost but for the excuses
\* the contract names.
THEOREM BatchImplementsContract == BatchSafe => Contract!Safe
<1>1. BatchInv /\ [BatchNext]_allVars => [Contract!Next]_Contract!vars
  BY BatchRefines
<1>2. BatchInv /\ [BatchNext]_allVars => BatchInv'
  BY BatchNextInv
<1>3. SessionInit /\ BatchInit => BatchInv /\ Contract!Init
  BY BatchInitInv, BatchInitRefines
<1>4. QED
  BY <1>1, <1>2, <1>3, PTL DEF BatchSafe, Contract!Safe, allVars
-----------------------------------------------------------------------------
(* Catalogs: places in a list *)

LEMMA SetsAreFinite ==
    ASSUME NEW S \in SUBSET Products
    PROVE  IsFiniteSet(S) /\ Cardinality(S) \in Nat /\ S \subseteq Nat
BY FS_Subset, FS_CardinalityType, ProductsAreNumbers

LEMMA PlaceIsBelow ==
    ASSUME NEW S \in SUBSET Products, NEW p \in S
    PROVE  Place(p, S) \in 1 .. Cardinality(S)
<1> DEFINE L == {q \in S : q <= p}
<1>1. L \in SUBSET S /\ L \in SUBSET Products /\ p \in L
  BY SetsAreFinite
<1>2. IsFiniteSet(L) /\ Cardinality(L) \in Nat /\ Cardinality(L) # 0
  BY <1>1, SetsAreFinite, FS_EmptySet
<1>3. Cardinality(L) <= Cardinality(S)
  BY <1>1, SetsAreFinite, FS_Subset
<1>4. Place(p, S) = Cardinality(L)
  BY DEF Place
<1>5. QED
  BY <1>2, <1>3, <1>4, SetsAreFinite

\* A later product has a later place.
LEMMA PlacesGrow ==
    ASSUME NEW S \in SUBSET Products, NEW p \in S, NEW q \in S, p < q
    PROVE  Place(p, S) < Place(q, S)
<1> DEFINE L == {x \in S : x <= p}
           M == {x \in S : x <= q}
<1>1. L \in SUBSET M /\ M \in SUBSET Products /\ q \in M /\ q \notin L
  BY SetsAreFinite
<1>2. IsFiniteSet(M) /\ Cardinality(M) \in Nat /\ Cardinality(L) \in Nat
  BY <1>1, SetsAreFinite
<1>3. Cardinality(L) <= Cardinality(M) /\ (Cardinality(M) = Cardinality(L) => M = L)
  BY <1>1, <1>2, FS_Subset
<1>4. Place(p, S) = Cardinality(L) /\ Place(q, S) = Cardinality(M)
  BY DEF Place
<1> HIDE DEF L, M
<1>5. QED
  BY <1>1, <1>2, <1>3, <1>4

\* Every place up to the number of products is taken by one of them.
LEMMA PlacesAreTaken ==
    ASSUME NEW S \in SUBSET Products
    PROVE  [p \in S |-> Place(p, S)] \in Bijection(S, 1 .. Cardinality(S))
<1> DEFINE f == [p \in S |-> Place(p, S)]
           n == Cardinality(S)
<1>1. f \in [S -> 1 .. n]
  BY PlaceIsBelow
<1>2. \A p, q \in S : f[p] = f[q] => p = q
  <2> SUFFICES ASSUME NEW p \in S, NEW q \in S, f[p] = f[q], p # q PROVE FALSE
    OBVIOUS
  <2>1. p < q \/ q < p
    BY SetsAreFinite
  <2>2. f[p] \in Nat /\ f[q] \in Nat
    BY <1>1, SetsAreFinite
  <2>3. QED
    BY <2>1, <2>2, PlacesGrow
<1>3. f \in Injection(S, 1 .. n)
  BY <1>1, <1>2 DEF Injection, IsInjective
<1>4. IsFiniteSet(1 .. n) /\ Cardinality(1 .. n) = n
  <2>1. n \in Nat
    BY SetsAreFinite
  <2>2. Cardinality(1 .. n) = IF 1 > n THEN 0 ELSE n - 1 + 1
    BY <2>1, FS_Interval
  <2>3. QED
    BY <2>1, <2>2, FS_Interval
<1>5. f \in Surjection(S, 1 .. n)
  BY <1>3, <1>4, FS_Injection
<1>6. QED
  BY <1>3, <1>5 DEF Bijection

\* A page is full when there are products beyond it.
LEMMA PageIsFull ==
    ASSUME NEW S \in SUBSET Products, NEW offset \in Nat, NEW p \in S,
           Place(p, S) > offset + PageSize
    PROVE  Cardinality(Slice(S, offset)) = PageSize
<1> DEFINE f == [q \in S |-> Place(q, S)]
           P == Slice(S, offset)
           I == (offset + 1) .. (offset + PageSize)
           g == [q \in I |-> CHOOSE x \in S : f[x] = q]
<1>1. /\ Cardinality(S) \in Nat /\ Place(p, S) \in 1 .. Cardinality(S) /\ PageSize \in Nat \ {0}
  BY SetsAreFinite, PlaceIsBelow, PagesHoldSome
<1>2. I \subseteq 1 .. Cardinality(S)
  BY <1>1
<1>3. /\ \A q \in 1 .. Cardinality(S) : \E x \in S : f[x] = q
      /\ \A x, y \in S : f[x] = f[y] => x = y
  <2>1. f \in Bijection(S, 1 .. Cardinality(S))
    BY PlacesAreTaken
  <2> HIDE DEF f
  <2>2. /\ f \in [S -> 1 .. Cardinality(S)]
        /\ \A a, b \in S : f[a] = f[b] => a = b
        /\ \A t \in 1 .. Cardinality(S) : \E s \in S : f[s] = t
    BY <2>1 DEF Bijection, Surjection, Injection, IsInjective
  <2>3. QED
    BY <2>2
<1>4. \A q \in I : g[q] \in S /\ f[g[q]] = q
  BY <1>2, <1>3
<1>5. \A q \in I : g[q] \in P
  BY <1>4 DEF Slice
<1>6. \A x \in P : x \in S /\ f[x] \in I
  BY DEF Slice
<1>7. g \in [I -> P]
  BY <1>5
<1>8. \A q, r \in I : g[q] = g[r] => q = r
  BY <1>4
<1>9. \A x \in P : \E q \in I : g[q] = x
  <2> SUFFICES ASSUME NEW x \in P PROVE g[f[x]] = x /\ f[x] \in I
    OBVIOUS
  <2>1. f[x] \in I /\ x \in S
    BY <1>6
  <2>2. g[f[x]] \in S /\ f[g[f[x]]] = f[x]
    BY <1>4, <2>1
  <2> HIDE DEF f, g
  <2>3. QED
    BY <1>3, <2>1, <2>2
<1>10. g \in Bijection(I, P)
  <2> HIDE DEF g, I, P
  <2>1. QED
    BY <1>7, <1>8, <1>9 DEF Bijection, Injection, Surjection, IsInjective
<1>11. IsFiniteSet(I) /\ Cardinality(I) = PageSize
  <2>1. offset + 1 \in Int /\ offset + PageSize \in Int
    BY <1>1
  <2>2. /\ IsFiniteSet(I)
        /\ Cardinality(I) = IF offset + 1 > offset + PageSize THEN 0
                            ELSE (offset + PageSize) - (offset + 1) + 1
    BY <2>1, FS_Interval
  <2>3. QED
    BY <1>1, <2>2
<1>12. QED
  <2> HIDE DEF g, I, P
  <2>1. ExistsBijection(I, P)
    BY <1>10 DEF ExistsBijection
  <2>2. Cardinality(P) = Cardinality(I)
    BY <1>11, <2>1, FS_Bijection
  <2>3. QED
    BY <1>11, <2>2 DEF P

-----------------------------------------------------------------------------
(* Catalogs: reading *)

ReadProducts == {g.product : g \in got}

\* What a reading has come to: a loop that counts positions has the products before its
\* position, as long as none left; Shopify's has those up to the last id.
ReadSoFar ==
    /\ reading = "no" => position = 0
    /\ reading = "yes" => \A p \in steady :
          /\ CountsPositions /\ ~dropped /\ Place(p, catalog) <= position => p \in ReadProducts
          /\ reader = "shopify" /\ p <= position => p \in ReadProducts

CatalogInv == CatalogTypeOK /\ ReadSoFar /\ SteadyProductsRead

\* What a page has to do with the position, and its end with the catalog.
Advances(page, next, more) ==
    /\ CountsPositions =>
          /\ next = position + PageSize /\ page = Page(position)
          /\ ~more => \A p \in catalog : Place(p, catalog) <= next
    /\ reader = "shopify" =>
          /\ \A p \in catalog : p > position /\ p <= next => p \in page
          /\ ~more => \A p \in catalog : p > position => p \in page
    /\ reader = "uber_eats" => page = catalog /\ ~more

LEMMA QuantityIsTyped ==
    ASSUME reader \in Readers, NEW p \in Products
    PROVE  Quantity(p) \in Quantities
BY ShelfOfEach
DEF Readers, Quantities, Quantity, EposnowQuantity, WixQuantity, OtterQuantity, ShopifyQuantity,
    WooCommerceQuantity, VariationQuantity, UberEatsQuantity

\* A set of products that is not empty has a greatest one.
LEMMA MaxOfProducts ==
    ASSUME NEW S \in SUBSET Products, S # {}
    PROVE  Max(S) \in S /\ \A p \in S : p <= Max(S)
<1> DEFINE f == [p \in S |-> Place(p, S)]
           n == Cardinality(S)
<1>1. n \in Nat /\ n # 0 /\ S \subseteq Nat
  BY SetsAreFinite, FS_EmptySet
<1>2. PICK x \in S : f[x] = n
  <2>1. f \in Bijection(S, 1 .. n)
    BY PlacesAreTaken
  <2> HIDE DEF f
  <2>2. \A t \in 1 .. n : \E s \in S : f[s] = t
    BY <2>1 DEF Bijection, Surjection
  <2>3. n \in 1 .. n
    BY <1>1
  <2>4. QED
    BY <2>2, <2>3
<1>3. ASSUME NEW y \in S PROVE y <= x
  <2>1. CASE x < y
    <3>1. Place(x, S) < Place(y, S) /\ Place(y, S) \in 1 .. n /\ Place(x, S) = n
      BY <1>2, <2>1, PlacesGrow, PlaceIsBelow
    <3>2. QED
      BY <1>1, <3>1
  <2>2. QED
    BY <1>1, <2>1
<1>4. \E z \in S : \A y \in S : z >= y
  BY <1>1, <1>3
<1>5. QED
  BY <1>1, <1>4 DEF Max

LEMMA CountedPage ==
    ASSUME CatalogInv, NEW more \in BOOLEAN,
           more = HasNext \/ more = (Cardinality(Page(position)) = PageSize)
    PROVE  ~more => \A p \in catalog : Place(p, catalog) <= position + PageSize
<1> SUFFICES ASSUME ~more, NEW p \in catalog, Place(p, catalog) > position + PageSize
             PROVE  FALSE
  <2>1. \A p \in catalog : Place(p, catalog) \in 1 .. Cardinality(catalog)
    BY PlaceIsBelow DEF CatalogInv, CatalogTypeOK
  <2>2. Cardinality(catalog) \in Nat /\ position \in Nat /\ PageSize \in Nat
    BY SetsAreFinite, PagesHoldSome DEF CatalogInv, CatalogTypeOK
  <2>3. QED
    BY <2>1, <2>2
<1>1. /\ Cardinality(catalog) \in Nat /\ position \in Nat /\ PageSize \in Nat
      /\ Place(p, catalog) \in 1 .. Cardinality(catalog)
  BY SetsAreFinite, PlaceIsBelow, PagesHoldSome DEF CatalogInv, CatalogTypeOK
<1>2. Cardinality(Page(position)) = PageSize
  BY <1>1, PageIsFull DEF Page, CatalogInv, CatalogTypeOK
<1>3. HasNext
  BY <1>1 DEF HasNext
<1>4. QED
  BY <1>2, <1>3

LEMMA ShopifyAdvances ==
    ASSUME CatalogInv, NEW page, NEW next, NEW more, ShopifyPage,
           page = Slice({p \in catalog : p > position}, 0),
           next = (IF page = {} THEN position ELSE Max(page)),
           more = (Cardinality(page) = PageSize)
    PROVE  next \in Nat /\ Advances(page, next, more)
<1> DEFINE rest == {p \in catalog : p > position}
<1>1. rest \in SUBSET Products /\ page \in SUBSET rest /\ page \in SUBSET Products
  BY DEF Slice, CatalogInv, CatalogTypeOK
<1>2. /\ PageSize \in Nat \ {0} /\ position \in Nat /\ rest \subseteq Nat
      /\ \A p \in rest : Place(p, rest) \in Nat \ {0}
  <2>1. \A p \in rest : Place(p, rest) \in 1 .. Cardinality(rest)
    BY <1>1, PlaceIsBelow
  <2>2. Cardinality(rest) \in Nat /\ rest \subseteq Nat
    BY <1>1, SetsAreFinite
  <2>3. QED
    BY <2>1, <2>2, PagesHoldSome DEF CatalogInv, CatalogTypeOK
<1>3. \A p \in rest : p \in page <=> Place(p, rest) <= PageSize
  <2>1. \A p \in rest : p \in page <=> Place(p, rest) \in (0 + 1) .. (0 + PageSize)
    BY DEF Slice
  <2>2. QED
    BY <1>2, <2>1
<1>4. ASSUME ~more, NEW p \in rest
      PROVE  p \in page
  <2>1. CASE Place(p, rest) > PageSize
    <3>1. Place(p, rest) > 0 + PageSize /\ 0 \in Nat
      BY <1>2, <2>1
    <3>2. Cardinality(Slice(rest, 0)) = PageSize
      BY <1>1, <3>1, PageIsFull
    <3>3. QED
      BY <1>4, <3>2
  <2>2. QED
    BY <1>2, <1>3, <2>1
<1>5. CASE page = {}
  <2>1. \A p \in catalog : ~(p > position /\ p <= next)
    BY <1>2, <1>5
  <2>2. QED
    BY <1>2, <1>4, <1>5, <2>1 DEF Advances, CountsPositions, ShopifyPage
<1>6. CASE page # {}
  <2>1. Max(page) \in page /\ next = Max(page) /\ next \in rest
    BY <1>1, <1>6, MaxOfProducts
  <2>2. ASSUME NEW p \in rest, p <= next
        PROVE  p \in page
    <3>1. CASE p = next
      BY <2>1, <3>1
    <3>2. CASE p < next
      <4>1. Place(p, rest) < Place(next, rest) /\ Place(next, rest) <= PageSize
        BY <1>1, <1>3, <2>1, <3>2, PlacesGrow
      <4>2. QED
        BY <1>2, <1>3, <2>1, <4>1
    <3>3. QED
      BY <1>2, <2>1, <2>2, <3>1, <3>2
  <2>3. QED
    BY <1>2, <1>4, <2>1, <2>2 DEF Advances, CountsPositions, ShopifyPage
<1>7. QED
  BY <1>5, <1>6

\* Each step of a loop appends a page and advances.
PageStep ==
    \/ EposnowPage \/ WixPage \/ WixInventoryPage \/ OtterPage \/ ShopifyPage
    \/ WooCommercePage \/ VariationsPage \/ UberEatsMenu

LEMMA PagesAdvance ==
    ASSUME CatalogInv, PageStep
    PROVE  \E page \in SUBSET catalog, next \in Nat, more \in BOOLEAN :
              Appends(page, next, more) /\ Advances(page, next, more)
<1> DEFINE Goal == \E page \in SUBSET catalog, next \in Nat, more \in BOOLEAN :
                       Appends(page, next, more) /\ Advances(page, next, more)
<1>1. /\ position + PageSize \in Nat /\ Page(position) \in SUBSET catalog
      /\ HasNext \in BOOLEAN /\ (Cardinality(Page(position)) = PageSize) \in BOOLEAN
  BY PagesHoldSome DEF CatalogInv, CatalogTypeOK, Page, Slice, HasNext
<1>2. ASSUME NEW more \in BOOLEAN, Appends(Page(position), position + PageSize, more),
             reader # "shopify", reader # "uber_eats",
             more = HasNext \/ more = (Cardinality(Page(position)) = PageSize)
      PROVE  Goal
  <2>1. Advances(Page(position), position + PageSize, more)
    BY <1>2, CountedPage DEF Advances
  <2>2. QED
    BY <1>1, <1>2, <2>1
<1>3. CASE EposnowPage
  BY <1>1, <1>2, <1>3 DEF EposnowPage, HasNext
<1>4. CASE WixPage \/ WixInventoryPage \/ OtterPage \/ VariationsPage
  BY <1>1, <1>2, <1>4 DEF WixPage, WixInventoryPage, OtterPage, VariationsPage
<1>5. CASE WooCommercePage
  <2>1. Appends(Page(position), position + PageSize, FALSE)
    BY <1>5 DEF WooCommercePage
  <2>2. Advances(Page(position), position + PageSize, FALSE)
    BY <1>5 DEF WooCommercePage, Advances, CountsPositions
  <2>3. QED
    BY <1>1, <2>1, <2>2
<1>6. CASE ShopifyPage
  <2> DEFINE page == Slice({p \in catalog : p > position}, 0)
             next == IF page = {} THEN position ELSE Max(page)
             more == Cardinality(page) = PageSize
  <2>1. Appends(page, next, more)
    BY <1>6 DEF ShopifyPage
  <2>2. next \in Nat /\ Advances(page, next, more)
    BY <1>6, ShopifyAdvances
  <2>3. page \in SUBSET catalog /\ more \in BOOLEAN
    BY DEF Slice
  <2>4. QED
    BY <2>1, <2>2, <2>3
<1>7. CASE UberEatsMenu
  <2>1. Appends(catalog, 0, FALSE)
    BY <1>7 DEF UberEatsMenu
  <2>2. Advances(catalog, 0, FALSE)
    BY <1>7 DEF UberEatsMenu, Advances, CountsPositions
  <2>3. QED
    BY <2>1, <2>2
<1>8. QED
  BY <1>3, <1>4, <1>5, <1>6, <1>7 DEF PageStep

LEMMA PageKeeps ==
    ASSUME CatalogInv, PageStep
    PROVE  CatalogInv'
<1>1. PICK page \in SUBSET catalog, next \in Nat, more \in BOOLEAN :
           Appends(page, next, more) /\ Advances(page, next, more)
  BY PagesAdvance
<1>2. /\ reading = "yes" /\ position' = next /\ reading' = (IF more THEN "yes" ELSE "done")
      /\ got' = got \cup {[product |-> p, quantity |-> Quantity(p)] : p \in page}
      /\ UNCHANGED <<catalog, reader, steady, dropped>>
  BY <1>1 DEF Appends
<1>3. page \subseteq ReadProducts' /\ ReadProducts \subseteq ReadProducts'
  <2>1. ASSUME NEW p \in page PROVE \E g \in got' : g.product = p
    <3>1. [product |-> p, quantity |-> Quantity(p)] \in got'
      BY <1>2
    <3>2. QED
      BY <3>1
  <2>2. got \subseteq got'
    BY <1>2
  <2>3. QED
    BY <2>1, <2>2 DEF ReadProducts
<1>4. CatalogTypeOK'
  <2>1. \A p \in page : Quantity(p) \in Quantities /\ p \in Products
    BY QuantityIsTyped DEF CatalogInv, CatalogTypeOK
  <2>2. QED
    BY <1>1, <1>2, <2>1 DEF CatalogInv, CatalogTypeOK
<1>5. \A p \in steady :
         /\ CountsPositions /\ ~dropped /\ Place(p, catalog) <= next => p \in ReadProducts'
         /\ reader = "shopify" /\ p <= next => p \in ReadProducts'
  <2> SUFFICES ASSUME NEW p \in steady
               PROVE  /\ CountsPositions /\ ~dropped /\ Place(p, catalog) <= next => p \in ReadProducts'
                      /\ reader = "shopify" /\ p <= next => p \in ReadProducts'
    OBVIOUS
  <2>1. p \in catalog /\ p \in Nat /\ position \in Nat /\ PageSize \in Nat
    BY PagesHoldSome, ProductsAreNumbers DEF CatalogInv, CatalogTypeOK
  <2>2. Place(p, catalog) \in Nat
    <3>1. Place(p, catalog) \in 1 .. Cardinality(catalog)
      BY <2>1, PlaceIsBelow DEF CatalogInv, CatalogTypeOK
    <3>2. QED
      BY <3>1
  <2>3. CASE CountsPositions
    <3>1. next = position + PageSize /\ page = Page(position) /\ reader # "shopify"
      BY <1>1, <2>3 DEF Advances, CountsPositions
    <3>2. CASE Place(p, catalog) <= position
      BY <1>2, <1>3, <2>3, <3>1, <3>2 DEF CatalogInv, ReadSoFar
    <3>3. CASE ~(Place(p, catalog) <= position) /\ Place(p, catalog) <= next
      <4>1. Place(p, catalog) \in (position + 1) .. (position + PageSize)
        BY <2>1, <2>2, <3>1, <3>3
      <4>2. p \in page
        BY <2>1, <3>1, <4>1 DEF Page, Slice
      <4>3. QED
        BY <1>3, <3>1, <4>2
    <3>4. QED
      BY <3>1, <3>2, <3>3
  <2>4. CASE reader = "shopify"
    <3>1. p <= position => p \in ReadProducts'
      BY <1>2, <1>3, <2>4 DEF CatalogInv, ReadSoFar
    <3>2. p > position /\ p <= next => p \in ReadProducts'
      BY <1>1, <1>3, <2>1, <2>4 DEF Advances
    <3>3. QED
      BY <2>1, <2>4, <3>1, <3>2 DEF CountsPositions
  <2>5. QED
    BY <2>3, <2>4
<1>6. ReadSoFar'
  BY <1>2, <1>5 DEF ReadSoFar, CountsPositions
<1>7. SteadyProductsRead'
  <2> SUFFICES ASSUME ~more, reader # "woocommerce", CountsPositions => ~dropped,
                      NEW p \in steady
               PROVE  p \in ReadProducts'
    BY <1>2 DEF SteadyProductsRead, ReadProducts, CountsPositions
  <2>1. p \in catalog /\ p \in Nat /\ position \in Nat
    BY ProductsAreNumbers DEF CatalogInv, CatalogTypeOK
  <2>2. CASE CountsPositions
    BY <1>1, <1>5, <2>1, <2>2 DEF Advances
  <2>3. CASE reader = "shopify"
    <3>1. p <= position => p \in ReadProducts'
      BY <1>2, <1>3, <2>3 DEF CatalogInv, ReadSoFar
    <3>2. p > position => p \in ReadProducts'
      BY <1>1, <1>3, <2>1, <2>3 DEF Advances
    <3>3. QED
      BY <2>1, <3>1, <3>2
  <2>4. CASE reader = "uber_eats"
    BY <1>1, <1>3, <2>1, <2>4 DEF Advances
  <2>5. reader \in Readers
    BY DEF CatalogInv, CatalogTypeOK
  <2>6. QED
    BY <2>2, <2>3, <2>4, <2>5 DEF Readers, CountsPositions
<1>8. QED
  BY <1>4, <1>6, <1>7 DEF CatalogInv

\* A product that comes moves the ones after it away from the beginning.
LEMMA ShopAddsKeeps ==
    ASSUME CatalogInv, NEW q \in Products, ShopAdds(q)
    PROVE  CatalogInv'
<1>1. /\ reading = "yes" /\ catalog' = catalog \cup {q} /\ catalog \subseteq Products
      /\ UNCHANGED <<reader, reading, position, got, steady, dropped>>
  BY DEF ShopAdds, CatalogInv, CatalogTypeOK
<1>2. CatalogTypeOK'
  BY <1>1 DEF CatalogInv, CatalogTypeOK
<1>3. ASSUME NEW p \in steady
      PROVE  Place(p, catalog') <= position => Place(p, catalog) <= position
  <2> DEFINE L == {x \in catalog : x <= p}
             M == {x \in catalog' : x <= p}
  <2>1. L \in SUBSET M /\ L \in SUBSET Products /\ M \in SUBSET Products
    BY <1>1
  <2>2. Cardinality(L) <= Cardinality(M) /\ Cardinality(L) \in Nat /\ Cardinality(M) \in Nat
    BY <2>1, SetsAreFinite, FS_Subset
  <2>3. Place(p, catalog) = Cardinality(L) /\ Place(p, catalog') = Cardinality(M)
    BY DEF Place
  <2>4. position \in Nat
    BY DEF CatalogInv, CatalogTypeOK
  <2> HIDE DEF L, M
  <2>5. QED
    BY <2>2, <2>3, <2>4
<1>4. ReadSoFar'
  BY <1>1, <1>3 DEF CatalogInv, ReadSoFar, ReadProducts, CountsPositions, Place
<1>5. SteadyProductsRead'
  BY <1>1 DEF SteadyProductsRead
<1>6. QED
  BY <1>2, <1>4, <1>5 DEF CatalogInv

LEMMA CatalogNextKeeps ==
    ASSUME CatalogInv, CatalogNext
    PROVE  CatalogInv'
<1>1. CASE StartsReading
  <2>1. /\ reading = "no" /\ reading' = "yes" /\ steady' = catalog /\ position = 0
        /\ UNCHANGED <<catalog, reader, position, got, dropped>>
    BY <1>1 DEF StartsReading, CatalogInv, ReadSoFar
  <2>2. \A p \in catalog : ~(Place(p, catalog) <= 0) /\ ~(p <= 0)
    <3>1. ASSUME NEW p \in catalog PROVE ~(Place(p, catalog) <= 0) /\ ~(p <= 0)
      <4>1. Place(p, catalog) \in 1 .. Cardinality(catalog) /\ p \in Nat \ {0}
        BY PlaceIsBelow, ProductsAreNumbers DEF CatalogInv, CatalogTypeOK
      <4>2. QED
        BY <4>1
    <3>2. QED
      BY <3>1
  <2>3. CatalogTypeOK'
    BY <2>1 DEF CatalogInv, CatalogTypeOK
  <2>4. ReadSoFar' /\ SteadyProductsRead'
    BY <2>1, <2>2 DEF ReadSoFar, SteadyProductsRead, Place
  <2>5. QED
    BY <2>3, <2>4 DEF CatalogInv
<1>2. CASE PageStep
  BY <1>2, PageKeeps
<1>3. CASE PageFails
  BY <1>3 DEF PageFails, CatalogInv, CatalogTypeOK, ReadSoFar, SteadyProductsRead
<1>4. ASSUME NEW p \in Products, ShopAdds(p)
      PROVE  CatalogInv'
  BY <1>4, ShopAddsKeeps
<1>5. ASSUME NEW q \in Products, ShopDrops(q)
      PROVE  CatalogInv'
  <2>1. /\ reading = "yes" /\ catalog' = catalog \ {q} /\ steady' = steady \ {q} /\ dropped' = TRUE
        /\ UNCHANGED <<reader, reading, position, got>>
    BY <1>5 DEF ShopDrops
  <2>2. CatalogTypeOK'
    BY <2>1 DEF CatalogInv, CatalogTypeOK
  <2>3. ReadSoFar' /\ SteadyProductsRead'
    BY <2>1 DEF CatalogInv, ReadSoFar, ReadProducts, SteadyProductsRead
  <2>4. QED
    BY <2>2, <2>3 DEF CatalogInv
<1>6. QED
  BY <1>1, <1>2, <1>3, <1>4, <1>5 DEF CatalogNext, PageStep

LEMMA CatalogInitInv == CatalogInit => CatalogInv
<1> SUFFICES ASSUME CatalogInit PROVE CatalogInv
  OBVIOUS
<1>1. catalog \in SUBSET Products /\ reader \in Readers /\ reading = "no" /\ position = 0
      /\ got = {} /\ steady = {} /\ dropped = FALSE
  BY DEF CatalogInit
<1>2. CatalogTypeOK
  BY <1>1 DEF CatalogTypeOK
<1>3. ReadSoFar /\ SteadyProductsRead
  BY <1>1 DEF ReadSoFar, SteadyProductsRead
<1>4. QED
  BY <1>2, <1>3 DEF CatalogInv

LEMMA CatalogRests == CatalogInv /\ UNCHANGED catalogVars => CatalogInv'
BY DEF catalogVars, CatalogInv, CatalogTypeOK, ReadSoFar, ReadProducts, CountsPositions, Place,
       SteadyProductsRead

-----------------------------------------------------------------------------
(* Webhooks *)

\* Who has been found for a notice that goes on, and what became of its job.
NoticesOK ==
    /\ \A d \in Deliveries :
          reached[d] \in {"found", "answered", "queued"} => owner[d] # Nobody
    /\ \A d \in Deliveries : reached[d] # "queued" => attempts[d] = 0
    /\ \A d \in jobs : attempts[d] < WebhookTries

IntakeInv == IntakeTypeOK /\ NoticesOK

\* Steps of a receiver that leave the tables alone.
LEMMA IntakeInitInv == IntakeInit => IntakeInv
<1> SUFFICES ASSUME IntakeInit PROVE IntakeInv
  OBVIOUS
<1>1. /\ rows = Empty /\ gone = {} /\ cache = Empty /\ jobs = {}
      /\ reached = [d \in Deliveries |-> "away"] /\ owner = [d \in Deliveries |-> Nobody]
      /\ attempts = [d \in Deliveries |-> 0]
  BY DEF IntakeInit
<1>2. DOMAIN Empty = {}
  BY DEF Empty
<1>3. 0 \in 0 .. WebhookTries
  BY JobsAreTried
<1>4. IntakeTypeOK
  BY <1>1, <1>2, <1>3 DEF IntakeTypeOK
<1>5. QED
  BY <1>1, <1>4 DEF IntakeInv, NoticesOK

LEMMA TablesKeep ==
    ASSUME IntakeInv, NEW r \in RowIds,
           RowGoes(r) \/ RowSwitches(r) \/ \E t \in Tenants, k \in Keys : RowAppears(r, t, k)
    PROVE  IntakeInv'
<1>1. UNCHANGED <<cache, notice, reached, owner, row, jobs, attempts, events>>
  BY DEF RowGoes, RowSwitches, RowAppears
<1>2. Keys' = Keys
  BY <1>1 DEF Keys
<1> DEFINE RowsOK(t, g) ==
        /\ g \subseteq RowIds /\ DOMAIN t \subseteq RowIds \ g
        /\ \A x \in DOMAIN t : t[x].tenant \in Tenants /\ [type |-> t[x].type, ext |-> t[x].ext] \in Keys
<1>3. RowsOK(rows, gone)
  BY DEF IntakeInv, IntakeTypeOK
<1>4. CASE RowGoes(r)
  <2>1. RowsOK(rows', gone')
    BY <1>3, <1>4 DEF RowGoes
  <2>2. QED
    BY <1>1, <1>2, <2>1 DEF IntakeInv, IntakeTypeOK, NoticesOK
<1>5. CASE RowSwitches(r)
  <2>1. /\ DOMAIN rows' = DOMAIN rows /\ gone' = gone
        /\ \A x \in DOMAIN rows : /\ rows'[x].tenant = rows[x].tenant
                                  /\ rows'[x].type = rows[x].type /\ rows'[x].ext = rows[x].ext
    BY <1>5 DEF RowSwitches
  <2>2. RowsOK(rows', gone')
    BY <1>3, <2>1
  <2>3. QED
    BY <1>1, <1>2, <2>2 DEF IntakeInv, IntakeTypeOK, NoticesOK
<1>6. ASSUME NEW t \in Tenants, NEW k \in Keys, RowAppears(r, t, k)
      PROVE  IntakeInv'
  <2>1. [type |-> k.type, ext |-> k.ext] = k
    BY DEF Keys
  <2>2. RowsOK(rows', gone')
    BY <1>3, <1>6, <2>1 DEF RowAppears
  <2>3. QED
    BY <1>1, <1>2, <2>2 DEF IntakeInv, IntakeTypeOK, NoticesOK
<1>7. QED
  BY <1>4, <1>5, <1>6

LEMMA ReceiverKeeps ==
    ASSUME IntakeInv, NEW d \in Deliveries, NEW platform, Route(d, platform)
    PROVE  IntakeInv'
<1> DEFINE Stage == {"away", "received", "asked", "again", "found", "answered",
                     "queued", "lost", "unmatched", "unreadable"}
<1>1. /\ UNCHANGED <<rows, gone, notice, attempts, events>> /\ Keys' = Keys
      /\ Key(d) \in Keys
  BY DEF Route, Arrives, LooksUp, CachedLookup, Lookup, LookupThrows, Answers, Queues, QueueFails,
         Keys, Key
<1>2. /\ reached \in [Deliveries -> Stage] /\ owner \in [Deliveries -> Tenants \cup {Nobody}]
      /\ DOMAIN cache \subseteq Keys /\ \A k \in DOMAIN cache : cache[k] \in Tenants
      /\ jobs \subseteq Deliveries /\ \A e \in jobs : reached[e] = "queued" /\ owner[e] # Nobody
      /\ attempts \in [Deliveries -> 0 .. WebhookTries]
  BY DEF IntakeInv, IntakeTypeOK
\* Steps after which the delivery has no job and no more is known of its tenant.
<1>3. ASSUME NEW to \in Stage \ {"queued"}, reached[d] # "queued",
             reached' = [reached EXCEPT ![d] = to],
             UNCHANGED <<cache, jobs>>,
             \/ UNCHANGED owner /\ (to \in {"found", "answered"} => owner[d] # Nobody)
             \/ \E t \in Tenants : owner' = [owner EXCEPT ![d] = t]
      PROVE  IntakeInv'
  <2>1. /\ owner' \in [Deliveries -> Tenants \cup {Nobody}]
        /\ \A e \in Deliveries : e # d => owner'[e] = owner[e]
        /\ to \in {"found", "answered"} => owner'[d] # Nobody
    BY <1>2, <1>3, NobodyIsNoTenant
  <2>2. d \notin jobs
    BY <1>2, <1>3
  <2>3. IntakeTypeOK'
    BY <1>1, <1>2, <1>3, <2>1, <2>2 DEF IntakeInv, IntakeTypeOK
  <2>4. NoticesOK'
    BY <1>1, <1>2, <1>3, <2>1, <2>2 DEF IntakeInv, NoticesOK
  <2>5. QED
    BY <2>3, <2>4 DEF IntakeInv
<1>4. CASE Arrives(d) \/ LooksUp(d) \/ LookupThrows(d) \/ Answers(d) \/ QueueFails(d)
  <2>1. /\ reached[d] # "queued" /\ UNCHANGED <<cache, jobs, owner>>
        /\ \E to \in Stage \ {"queued"} :
              /\ reached' = [reached EXCEPT ![d] = to]
              /\ to \in {"found", "answered"} => reached[d] = "found"
    <3>1. CASE Arrives(d)
      <4> DEFINE to == IF notice[d].valid THEN "received" ELSE "unreadable"
      <4>1. /\ reached[d] = "away" /\ UNCHANGED <<cache, jobs, owner>>
            /\ reached' = [reached EXCEPT ![d] = to]
        BY <3>1 DEF Arrives, Step
      <4>2. to \in Stage \ {"queued"} /\ to \notin {"found", "answered"}
        OBVIOUS
      <4> HIDE DEF to, Stage
      <4>3. QED
        BY <4>1, <4>2
    <3>2. CASE LooksUp(d)
      <4> DEFINE to == IF notice[d].ext = "" THEN "unmatched"
                       ELSE IF Key(d) \in DOMAIN cache THEN "asked" ELSE "again"
      <4>1. /\ reached[d] = "received" /\ UNCHANGED <<cache, jobs, owner>>
            /\ reached' = [reached EXCEPT ![d] = to]
        BY <3>2 DEF LooksUp, Step
      <4>2. to \in Stage \ {"queued"} /\ to \notin {"found", "answered"}
        OBVIOUS
      <4> HIDE DEF to, Stage
      <4>3. QED
        BY <4>1, <4>2
    <3>3. CASE LookupThrows(d)
      <4>1. /\ reached[d] # "queued" /\ UNCHANGED <<cache, jobs, owner>>
            /\ reached' = [reached EXCEPT ![d] = "lost"]
        BY <3>3 DEF LookupThrows, Step
      <4>2. "lost" \in Stage \ {"queued"} /\ "lost" \notin {"found", "answered"}
        OBVIOUS
      <4> HIDE DEF Stage
      <4>3. QED
        BY <4>1, <4>2
    <3>4. CASE Answers(d) \/ QueueFails(d)
      BY <3>4 DEF Answers, QueueFails, Step
    <3>5. QED
      BY <1>4, <3>1, <3>2, <3>3, <3>4
  <2>2. reached[d] = "found" => owner[d] # Nobody
    BY DEF IntakeInv, NoticesOK
  <2>3. QED
    BY <1>3, <2>1, <2>2
<1>5. CASE CachedLookup(d)
  <2>1. /\ reached[d] # "queued" /\ UNCHANGED <<cache, jobs>>
        /\ \/ /\ reached' = [reached EXCEPT ![d] = "found"]
              /\ \E r \in DOMAIN rows : owner' = [owner EXCEPT ![d] = rows[r].tenant]
           \/ reached' = [reached EXCEPT ![d] = "again"] /\ UNCHANGED owner
    BY <1>5 DEF CachedLookup, Step, Finds, Matches
  <2>2. \A r \in DOMAIN rows : rows[r].tenant \in Tenants
    BY DEF IntakeInv, IntakeTypeOK
  <2>3. QED
    BY <1>3, <2>1, <2>2
<1>6. CASE Lookup(d)
  <2>1. CASE reached' = [reached EXCEPT ![d] = "unmatched"] /\ UNCHANGED <<owner, cache, jobs>>
    <3>1. reached[d] # "queued" /\ "unmatched" \in Stage \ {"queued"}
      BY <1>6 DEF Lookup
    <3> HIDE DEF Stage
    <3>2. QED
      BY <1>3, <2>1, <3>1
  <2>2. CASE /\ reached' = [reached EXCEPT ![d] = "found"] /\ UNCHANGED jobs
             /\ \E t \in Tenants :
                   /\ owner' = [owner EXCEPT ![d] = t]
                   /\ cache' = [k \in DOMAIN cache \cup {Key(d)} |->
                                  IF k = Key(d) THEN t ELSE cache[k]]
    <3>1. PICK t \in Tenants :
             /\ owner' = [owner EXCEPT ![d] = t]
             /\ cache' = [k \in DOMAIN cache \cup {Key(d)} |-> IF k = Key(d) THEN t ELSE cache[k]]
      BY <2>2
    <3>2. DOMAIN cache' \subseteq Keys /\ \A k \in DOMAIN cache' : cache'[k] \in Tenants
      BY <1>1, <1>2, <3>1
    <3>3. /\ owner' \in [Deliveries -> Tenants \cup {Nobody}]
          /\ \A e \in Deliveries : e # d => owner'[e] = owner[e]
          /\ owner'[d] # Nobody /\ reached[d] = "again" /\ d \notin jobs
      BY <1>2, <1>6, <3>1, NobodyIsNoTenant DEF Lookup
    <3>4. IntakeTypeOK'
      BY <1>1, <1>2, <2>2, <3>2, <3>3 DEF IntakeInv, IntakeTypeOK
    <3>5. NoticesOK'
      BY <1>1, <1>2, <2>2, <3>3 DEF IntakeInv, NoticesOK
    <3>6. QED
      BY <3>4, <3>5 DEF IntakeInv
  <2>3. \A r \in DOMAIN rows : rows[r].tenant \in Tenants
    BY DEF IntakeInv, IntakeTypeOK
  <2>4. QED
    BY <1>6, <2>1, <2>2, <2>3 DEF Lookup, Step, Finds, Matches
<1>7. CASE Queues(d)
  <2>1. /\ reached[d] = "answered" /\ reached' = [reached EXCEPT ![d] = "queued"]
        /\ jobs' = jobs \cup {d} /\ UNCHANGED <<cache, owner>>
    BY <1>7 DEF Queues, Step
  <2>2. owner[d] # Nobody /\ attempts[d] = 0 /\ 0 < WebhookTries
    BY <2>1, JobsAreTried DEF IntakeInv, NoticesOK
  <2>3. IntakeTypeOK'
    BY <1>1, <1>2, <2>1, <2>2 DEF IntakeInv, IntakeTypeOK
  <2>4. NoticesOK'
    BY <1>1, <1>2, <2>1, <2>2 DEF IntakeInv, NoticesOK
  <2>5. QED
    BY <2>3, <2>4 DEF IntakeInv
<1>8. QED
  BY <1>4, <1>5, <1>6, <1>7 DEF Route

LEMMA WorkerKeeps ==
    ASSUME IntakeInv, NEW d \in Deliveries, Handles(d) \/ HandlerThrows(d)
    PROVE  IntakeInv'
<1>1. /\ d \in jobs /\ reached[d] = "queued" /\ attempts[d] < WebhookTries
      /\ attempts \in [Deliveries -> 0 .. WebhookTries] /\ WebhookTries \in Nat
  BY JobsAreTried DEF Handles, HandlerThrows, IntakeInv, IntakeTypeOK, NoticesOK
<1>2. /\ attempts' = [attempts EXCEPT ![d] = @ + 1]
      /\ jobs' \subseteq jobs /\ (d \in jobs' => attempts[d] + 1 < WebhookTries)
      /\ UNCHANGED <<rows, gone, cache, notice, reached, owner, row>> /\ Keys' = Keys
  BY DEF Handles, HandlerThrows, Keys
<1>3. attempts[d] + 1 \in 0 .. WebhookTries
  BY <1>1
<1>4. /\ attempts' \in [Deliveries -> 0 .. WebhookTries] /\ attempts'[d] = attempts[d] + 1
      /\ \A e \in Deliveries : e # d => attempts'[e] = attempts[e]
  BY <1>1, <1>2, <1>3
<1>5. IntakeTypeOK'
  BY <1>2, <1>4 DEF IntakeInv, IntakeTypeOK
<1>6. NoticesOK'
  <2>1. \A e \in jobs' : attempts'[e] < WebhookTries
    BY <1>2, <1>4 DEF IntakeInv, IntakeTypeOK, NoticesOK
  <2>2. QED
    BY <1>1, <1>2, <1>4, <2>1 DEF IntakeInv, NoticesOK
<1>7. QED
  BY <1>5, <1>6 DEF IntakeInv

LEMMA IntakeNextKeeps ==
    ASSUME IntakeInv, IntakeNext
    PROVE  IntakeInv'
<1>1. ASSUME NEW d \in Deliveries,
             \/ EposnowRoute(d) \/ WixRoute(d) \/ OtterRoute(d)
             \/ ShopifyRoute(d) \/ WooCommerceRoute(d) \/ UberEatsRoute(d)
      PROVE  IntakeInv'
  BY <1>1, ReceiverKeeps
  DEF EposnowRoute, WixRoute, OtterRoute, ShopifyRoute, WooCommerceRoute, UberEatsRoute
<1>2. QED
  BY <1>1, TablesKeep, WorkerKeeps DEF IntakeNext

LEMMA IntakeRests == IntakeInv /\ UNCHANGED intakeVars => IntakeInv'
BY DEF intakeVars, IntakeInv, IntakeTypeOK, NoticesOK, Keys

\* The tenant of a notice only ever changes to that of an active channel of its identifier.
LEMMA StepsFollowChannels ==
    ASSUME IntakeInv, IntakeNext, NEW d \in Deliveries, owner'[d] # owner[d]
    PROVE  \E r \in DOMAIN rows : /\ rows[r].tenant = owner'[d] /\ rows[r].active
                                  /\ rows[r].type = notice[d].from /\ rows[r].ext = notice[d].ext
<1>1. owner \in [Deliveries -> Tenants \cup {Nobody}]
  BY DEF IntakeInv, IntakeTypeOK
<1>2. ASSUME NEW e \in Deliveries, NEW platform, Route(e, platform)
      PROVE  \E r \in Matches(e) : owner' = [owner EXCEPT ![e] = rows[r].tenant]
  <2>1. owner' # owner
    OBVIOUS
  <2>2. QED
    BY <1>2, <2>1 DEF Route, Arrives, LooksUp, CachedLookup, Lookup, LookupThrows, Answers, Queues,
                      QueueFails, Finds
<1>3. \E e \in Deliveries, platform \in {"eposnow", "wix", "deliveroo", "shopify", "woocommerce",
                                         "uber_eats"} : Route(e, platform)
  BY DEF IntakeNext, RowAppears, RowGoes, RowSwitches, Handles, HandlerThrows,
         EposnowRoute, WixRoute, OtterRoute, ShopifyRoute, WooCommerceRoute, UberEatsRoute
<1>4. PICK e \in Deliveries : \E r \in Matches(e) : owner' = [owner EXCEPT ![e] = rows[r].tenant]
  BY <1>2, <1>3
<1>5. QED
  BY <1>1, <1>4 DEF Matches

-----------------------------------------------------------------------------
(* The connection of a provider *)

LEMMA SessionKeeps ==
    ASSUME SessionTypeOK, BatchNext
    PROVE  SessionTypeOK'
<1>1. CASE SessionNext
  BY <1>1
  DEF SessionTypeOK, SessionNext, EposnowConnect, WixConnect, OtterConnect, ShopifyConnect,
      WooCommerceConnect, UberEatsConnect, EposnowAuthenticates, WixClientConnects,
      OtterClientConnects, ShopifyClientConnects, WooCommerceClientConnects, UberEatsAuthenticates,
      Connecting, Connected, Throws, TokenExpires, TokenDies, Disconnect,
      KeepsExpiry
<1>2. CASE UNCHANGED sessionVars
  BY <1>2 DEF SessionTypeOK, sessionVars
<1>3. CASE Begins
  <2>1. \E k, S : Asks(k, S)
    BY <1>3 DEF Begins, EposnowUpdate, WixUpdate, OtterUpdate, ShopifyUpdate, WooCommerceUpdate,
                UberEatsUpdate, EposnowBatch, WixBatch, OtterBatch, ShopifyBatch, WooCommerceBatch,
                UberEatsBatch
  <2>2. QED
    BY <1>2, <2>1 DEF Asks
<1>4. CASE ClientStep
  BY <1>4, ClientStepSession DEF SessionTypeOK
<1>5. ASSUME NEW i \in Items, ShopTakes(i)
      PROVE  SessionTypeOK'
  BY <1>2, <1>5 DEF ShopTakes
<1>6. QED
  BY <1>1, <1>3, <1>4, <1>5 DEF BatchNext

LEMMA SessionRests == SessionTypeOK /\ UNCHANGED sessionVars => SessionTypeOK'
BY DEF SessionTypeOK, sessionVars

-----------------------------------------------------------------------------
(* The manager of providers *)

\* Whoever is being connected is to be registered under a key.
ManagerInv ==
    /\ ManagerTypeOK
    /\ \A p \in Providers : link[p] = "connecting" => goal[p] \in RegistryKeys

LEMMA ManagerInitInv == ManagerInit => ManagerInv
<1> SUFFICES ASSUME ManagerInit PROVE ManagerInv
  OBVIOUS
<1>1. DOMAIN registry = {} /\ DOMAIN sent = {}
  BY DEF ManagerInit
<1>2. QED
  BY <1>1 DEF ManagerInit, ManagerInv, ManagerTypeOK, NoRemoval

LEMMA ManagerNextKeeps ==
    ASSUME ManagerInv, ManagerNext
    PROVE  ManagerInv'
<1> DEFINE RegistryOK(r, l) ==
        /\ DOMAIN r \subseteq RegistryKeys
        /\ \A k \in DOMAIN r : r[k] \in Providers /\ l[r[k]] # "unused"
<1>1. /\ RegistryOK(registry, link)
      /\ link \in [Providers -> {"unused", "connecting", "connected", "closed"}]
      /\ goal \in [Providers -> RegistryKeys \cup {NoKey}]
      /\ DOMAIN sent \subseteq RegistryKeys
      /\ \A k \in DOMAIN sent : sent[k] \in {"pending", "success", "failed"}
      /\ removal \in [Removals -> [key : RegistryKeys \cup {NoKey},
                                   of : Providers \cup {NoProvider}]]
      /\ clearing \in [on : BOOLEAN, of : SUBSET Providers]
  BY DEF ManagerInv, ManagerTypeOK
<1>2. ASSUME NEW p \in Providers, NEW k \in RegistryKeys, AddProvider(k, p)
      PROVE  ManagerInv'
  <2>1. RegistryOK(registry', link')
    BY <1>1, <1>2 DEF AddProvider
  <2>2. QED
    BY <1>1, <1>2, <2>1 DEF AddProvider, ManagerInv, ManagerTypeOK
<1>3. ASSUME NEW p \in Providers, Registers(p)
      PROVE  ManagerInv'
  <2>1. goal[p] \in RegistryKeys
    BY <1>3 DEF Registers, ManagerInv
  <2>2. \A q \in Providers : link'[q] # "unused" <=> link[q] # "unused"
    BY <1>1, <1>3 DEF Registers
  <2>3. /\ link' = [link EXCEPT ![p] = "connected"] /\ goal' = [goal EXCEPT ![p] = NoKey]
        /\ UNCHANGED <<removal, clearing, sent>>
    BY <1>3 DEF Registers
  <2>4. RegistryOK(registry', link')
    <3>1. registry' = [k \in DOMAIN registry \cup {goal[p]} |->
                         IF k \in DOMAIN registry THEN registry[k] ELSE p]
      BY <1>3 DEF Registers
    <3>2. link'[p] # "unused"
      BY <1>1, <2>3
    <3>3. QED
      BY <1>1, <2>1, <2>2, <3>1, <3>2
  <2>5. QED
    BY <1>1, <2>3, <2>4 DEF ManagerInv, ManagerTypeOK
<1>4. ASSUME NEW p \in Providers, ConnectThrows(p)
      PROVE  ManagerInv'
  <2>1. RegistryOK(registry', link')
    BY <1>1, <1>4 DEF ConnectThrows
  <2>2. QED
    BY <1>1, <1>4, <2>1 DEF ConnectThrows, ManagerInv, ManagerTypeOK
<1>5. ASSUME NEW r \in Removals, NEW k \in RegistryKeys, RemoveProvider(r, k)
      PROVE  ManagerInv'
  <2>1. registry[k] \in Providers
    BY <1>1, <1>5 DEF RemoveProvider
  <2>2. QED
    BY <1>1, <1>5, <2>1 DEF RemoveProvider, ManagerInv, ManagerTypeOK
<1>6. ASSUME NEW r \in Removals, Removes(r)
      PROVE  ManagerInv'
  <2>1. /\ link' = [link EXCEPT ![removal[r].of] = "closed"]
        /\ registry' = Restrict(registry, DOMAIN registry \ {removal[r].key})
        /\ removal' = [removal EXCEPT ![r] = NoRemoval]
        /\ UNCHANGED <<goal, clearing, sent>>
    BY <1>6 DEF Removes
  <2>2. RegistryOK(registry', link')
    BY <1>1, <2>1 DEF Restrict
  <2>3. NoRemoval \in [key : RegistryKeys \cup {NoKey}, of : Providers \cup {NoProvider}]
    BY DEF NoRemoval
  <2>4. QED
    BY <1>1, <2>1, <2>2, <2>3 DEF ManagerInv, ManagerTypeOK
<1>7. CASE Shutdown
  <2>1. Range(registry) \subseteq Providers
    BY <1>1 DEF Range
  <2>2. QED
    BY <1>1, <1>7, <2>1 DEF Shutdown, ManagerInv, ManagerTypeOK
<1>8. CASE Clears
  <2>1. DOMAIN registry' = {}
    BY <1>8 DEF Clears
  <2>2. QED
    BY <1>1, <1>8, <2>1 DEF Clears, ManagerInv, ManagerTypeOK
<1>9. ASSUME NEW ks \in SUBSET RegistryKeys, BroadcastStockUpdate(ks)
      PROVE  ManagerInv'
  BY <1>1, <1>9 DEF BroadcastStockUpdate, ManagerInv, ManagerTypeOK
<1>10. ASSUME NEW k \in RegistryKeys, NEW a \in {"success", "failed"}, UpdateAnswers(k, a)
       PROVE  ManagerInv'
  BY <1>1, <1>10 DEF UpdateAnswers, ManagerInv, ManagerTypeOK
<1>11. CASE BroadcastReturns
  <2>1. DOMAIN sent' = {}
    BY <1>11 DEF BroadcastReturns
  <2>2. QED
    BY <1>1, <1>11, <2>1 DEF BroadcastReturns, ManagerInv, ManagerTypeOK
<1>12. QED
  BY <1>2, <1>3, <1>4, <1>5, <1>6, <1>7, <1>8, <1>9, <1>10, <1>11 DEF ManagerNext

LEMMA ManagerRests == ManagerInv /\ UNCHANGED managerVars => ManagerInv'
BY DEF managerVars, ManagerInv, ManagerTypeOK

-----------------------------------------------------------------------------
(* The pages that connect a shop *)

LEMMA OnboardInitTyped == OnboardInit => OnboardTypeOK
<1> SUFFICES ASSUME OnboardInit PROVE OnboardTypeOK
  OBVIOUS
<1>1. 0 \in 0 .. 1 /\ 0 \in 0 .. MaxShops
  BY ShopsAssumption
<1>2. epos \in EposShape
  BY <1>1 DEF OnboardInit, EposShape
<1>3. shops \in 0 .. MaxShops /\ timers \in 0 .. 1
  BY <1>1 DEF OnboardInit
<1>4. {shop, importing, imported, triggering, banner} \subseteq BOOLEAN
  BY DEF OnboardInit
<1>5. QED
  BY <1>2, <1>3, <1>4 DEF OnboardInit, OnboardTypeOK

LEMMA WizardKeeps ==
    ASSUME OnboardTypeOK, WizardNext, UNCHANGED epos
    PROVE  OnboardTypeOK'
<1>0. 0 \in 0 .. 1 /\ 1 \in 0 .. 1
  OBVIOUS
<1> USE ShopsAssumption DEF OnboardTypeOK
<1>1. CASE HandleNext
  BY <1>1 DEF HandleNext
<1>2. CASE HandleBack
  BY <1>2 DEF HandleBack
<1>3. CASE FillForm
  BY <1>3 DEF FillForm, Fields
<1>4. CASE HandleConnectChannel
  BY <1>4 DEF HandleConnectChannel
<1>5. CASE HandleSubmitCredentials
  BY <1>5 DEF HandleSubmitCredentials
<1>6. CASE ValidateAnswers
  BY <1>6 DEF ValidateAnswers
<1>7. CASE CreateAnswers
  BY <1>7 DEF CreateAnswers
<1>8. CASE ConnectFails
  BY <1>8 DEF ConnectFails
<1>9. CASE GoesToShop
  <2>1. timers' \in 0 .. 1
    BY <1>0, <1>9 DEF GoesToShop
  <2>2. {shop, importing, imported, triggering, banner}' \subseteq BOOLEAN
    BY <1>9 DEF GoesToShop
  <2>3. QED
    BY <1>9, <2>1, <2>2 DEF GoesToShop
<1>10. CASE HandleImportProducts
  BY <1>10 DEF HandleImportProducts
<1>11. CASE TriggerAnswers
  <2>1. timers' \in 0 .. 1
    BY <1>0, <1>11 DEF TriggerAnswers
  <2>2. {shop, importing, imported, triggering, banner}' \subseteq BOOLEAN
    BY <1>11 DEF TriggerAnswers
  <2>3. QED
    BY <1>11, <2>1, <2>2 DEF TriggerAnswers
<1>12. CASE TriggerFails
  BY <1>12 DEF TriggerFails, ImportOver
<1>13. CASE TimerFires
  <2>1. timers' \in 0 .. 1
    BY <1>0, <1>13 DEF TimerFires, ImportOver
  <2>2. {shop, importing, imported, triggering, banner}' \subseteq BOOLEAN
    BY <1>13 DEF TimerFires, ImportOver
  <2>3. QED
    BY <1>13, <2>1, <2>2 DEF TimerFires, ImportOver
<1>14. CASE SyncCompleted
  BY <1>14 DEF SyncCompleted, ImportOver
<1>15. CASE OnSkip
  BY <1>15 DEF OnSkip
<1>16. CASE HandleComplete
  BY <1>16 DEF HandleComplete
<1>17. ASSUME NEW c \in Redirected \cup Keyed, HandleSelectChannel(c)
       PROVE  OnboardTypeOK'
  BY <1>17 DEF HandleSelectChannel
<1>18. ASSUME NEW c \in Redirected, ComesBack(c)
       PROVE  OnboardTypeOK'
  <2>1. ~importing /\ UNCHANGED <<filled, connecting, importing, imported, triggering, timers, epos>>
    BY <1>18 DEF ComesBack
  <2>2. CASE shops' = shops + 1
    <3>1. /\ shops < MaxShops /\ currentStep' = "import" /\ shop' = TRUE /\ chosen' = c
          /\ UNCHANGED banner
      BY <1>18, <2>2 DEF ComesBack
    <3>2. shops' \in 0 .. MaxShops /\ shops' > 0
      BY <2>2, <3>1
    <3>3. QED
      BY <2>1, <3>1, <3>2
  <2>3. CASE currentStep' = "channel" /\ banner' = TRUE /\ UNCHANGED <<shops, shop, chosen>>
    BY <2>1, <2>3
  <2>4. QED
    BY <1>18, <2>2, <2>3 DEF ComesBack
<1>19. QED
  BY <1>1, <1>2, <1>3, <1>4, <1>5, <1>6, <1>7, <1>8, <1>9, <1>10, <1>11, <1>12, <1>13, <1>14,
     <1>15, <1>16, <1>17, <1>18 DEF WizardNext

LEMMA EposKeeps ==
    ASSUME OnboardTypeOK, EposNext
    PROVE  OnboardTypeOK'
<1>1. epos \in EposShape /\ MaxShops \in Nat
  BY ShopsAssumption DEF OnboardTypeOK
<1>2. CASE CreateEposnowChannel
  <2>1. epos.made + 1 \in 0 .. MaxShops
    BY <1>1, <1>2 DEF CreateEposnowChannel, EposShape
  <2>2. epos' = [epos EXCEPT !.busy = "leaving", !.made = epos.made + 1]
    BY <1>2 DEF CreateEposnowChannel
  <2>3. QED
    BY <1>1, <1>2, <2>1, <2>2 DEF CreateEposnowChannel, EposShape, wizardVars, OnboardTypeOK
<1>3. CASE EposFails
  <2>1. epos' \in EposShape
    BY <1>1, <1>3 DEF EposFails, EposShape
  <2>2. QED
    BY <1>3, <2>1 DEF EposFails, wizardVars, OnboardTypeOK
<1>4. CASE EposSubmits \/ HandleLogin \/ HandleRegister
  <2>1. epos' \in EposShape
    BY <1>1, <1>4 DEF EposSubmits, HandleLogin, HandleRegister, EposShape
  <2>2. QED
    BY <1>4, <2>1 DEF EposSubmits, HandleLogin, HandleRegister, wizardVars, OnboardTypeOK
<1>5. ASSUME NEW m \in {"choice", "login", "register"}, SwitchMode(m)
      PROVE  OnboardTypeOK'
  <2>1. epos' \in EposShape
    BY <1>1, <1>5 DEF SwitchMode, EposShape
  <2>2. QED
    BY <1>5, <2>1 DEF SwitchMode, wizardVars, OnboardTypeOK
<1>6. QED
  BY <1>2, <1>3, <1>4, <1>5 DEF EposNext

LEMMA OnboardRests == OnboardTypeOK /\ UNCHANGED onboardVars => OnboardTypeOK'
BY DEF OnboardTypeOK, onboardVars, wizardVars

-----------------------------------------------------------------------------
(* The mapper of products *)

\* A call under way has the lists it is to compare.
MapperInv ==
    /\ MapperTypeOK
    /\ pending = NoCall \/ pending.on

LEMMA LeastIsIn ==
    ASSUME NEW S \in SUBSET Nat, S # {}
    PROVE  Least(S) \in S
<1>1. \E x \in S : \A y \in S : x <= y
  <2> DEFINE R == {ss \in Nat \X Nat : ss[1] < ss[2]}
  <2>1. IsWellFoundedOn(R, Nat)
    BY NatLessThanWellFounded DEF OpToRel
  <2> HIDE DEF R
  <2>2. PICK x \in S : \A y \in S : ~ (<<y, x>> \in R)
    BY <2>1, WFMin
  <2>3. \A y \in S : ~ (y < x) /\ x \in Nat /\ y \in Nat
    BY <2>2 DEF R
  <2>4. QED
    BY <2>3
<1>2. QED
  BY <1>1 DEF Least

LEMMA IdsOfListings ==
    ASSUME NEW list \in Listings, NEW n \in DOMAIN list
    PROVE  list[n].id \in Ids
<1>1. list[n] \in {list[m] : m \in DOMAIN list}
  OBVIOUS
<1>2. list[n] \in UNION {{l[m] : m \in DOMAIN l} : l \in Listings}
  BY <1>1
<1>3. QED
  BY <1>2 DEF Ids

\* Of the lines of a list that pass a test, the least is a product of it.
LEMMA FirstIsListed ==
    ASSUME NEW list \in Listings, NEW hits \in SUBSET DOMAIN list, hits # {}
    PROVE  list[Least(hits)].id \in Ids
<1>1. hits \in SUBSET Nat
  BY ListingsAreLists
<1>2. Least(hits) \in hits
  BY <1>1, LeastIsIn
<1>3. QED
  BY <1>2, IdsOfListings

LEMMA MatchesAreListed ==
    ASSUME NEW p, NEW list \in Listings
    PROVE  /\ MatchBySku(p, list) \in Ids \cup {Nothing}
           /\ MatchByBarcode(p, list) \in Ids \cup {Nothing}
           /\ MatchByFuzzyName(p, list) \in Ids \cup {Nothing}
<1>1. MatchBySku(p, list) \in Ids \cup {Nothing}
  <2> DEFINE hits == {n \in DOMAIN list : list[n].sku = p.sku}
  <2>1. MatchBySku(p, list) = IF p.sku = Nothing THEN Nothing
                              ELSE IF hits = {} THEN Nothing ELSE list[Least(hits)].id
    BY DEF MatchBySku, FirstOf
  <2> HIDE DEF hits
  <2>2. hits \in SUBSET DOMAIN list
    BY DEF hits
  <2>3. QED
    BY <2>1, <2>2, FirstIsListed
<1>2. MatchByBarcode(p, list) \in Ids \cup {Nothing}
  <2> DEFINE hits == {n \in DOMAIN list : list[n].barcode = p.barcode}
  <2>1. MatchByBarcode(p, list) = IF p.barcode = Nothing THEN Nothing
                                  ELSE IF hits = {} THEN Nothing ELSE list[Least(hits)].id
    BY DEF MatchByBarcode, FirstOf
  <2>2. hits \in SUBSET DOMAIN list
    OBVIOUS
  <2> HIDE DEF hits
  <2>3. QED
    BY <2>1, <2>2, FirstIsListed
<1>3. MatchByFuzzyName(p, list) \in Ids \cup {Nothing}
  <2> DEFINE named == {list[n] : n \in {m \in DOMAIN list : list[m].name # <<>>}}
             like(q) == Similarity(p.name, q.name)
             hits == {n \in DOMAIN list : /\ list[n] \in named /\ Reaches(like(list[n]))
                                          /\ \A r \in named : ~Above(like(r), like(list[n]))}
  <2>1. MatchByFuzzyName(p, list) = IF p.name = <<>> THEN Nothing
                                    ELSE IF hits = {} THEN Nothing ELSE list[Least(hits)].id
    BY DEF MatchByFuzzyName, FirstOf
  <2>2. hits \in SUBSET DOMAIN list
    OBVIOUS
  <2> HIDE DEF hits
  <2>3. QED
    BY <2>1, <2>2, FirstIsListed
<1>4. QED
  BY <1>1, <1>2, <1>3

Answer == [source : Ids, target : Ids, strategy : {"manual", "sku", "barcode", "name_fuzzy"}]

LEMMA MappingsAreTyped ==
    ASSUME MapperTypeOK, NEW source \in Listings, NEW list \in Listings, NEW pair
    PROVE  MapProducts(source, list, pair) \subseteq Answer
<1>1. ASSUME NEW n \in DOMAIN source, NEW m \in MapProduct(source[n], list, pair)
      PROVE  m \in Answer
  <2> DEFINE p == source[n]
  <2>1. p.id \in Ids
    BY IdsOfListings
  <2>2. \A to \in Ids, s \in {"manual", "sku", "barcode", "name_fuzzy"} : Mapping(p, to, s) \in Answer
    BY <2>1 DEF Mapping, Answer
  <2>3. /\ MatchBySku(p, list) \in Ids \cup {Nothing}
        /\ MatchByBarcode(p, list) \in Ids \cup {Nothing}
        /\ MatchByFuzzyName(p, list) \in Ids \cup {Nothing}
    BY MatchesAreListed
  <2>4. \A o \in ByHand(p, pair) : o.target \in Ids
    BY DEF ByHand, MapperTypeOK
  <2> HIDE DEF p
  <2>5. m \in MapProduct(p, list, pair)
    BY DEF p
  <2>6. \/ \E o \in ByHand(p, pair) : m = Mapping(p, o.target, "manual")
        \/ MatchBySku(p, list) # Nothing /\ m = Mapping(p, MatchBySku(p, list), "sku")
        \/ MatchByBarcode(p, list) # Nothing /\ m = Mapping(p, MatchByBarcode(p, list), "barcode")
        \/ MatchByFuzzyName(p, list) # Nothing /\ m = Mapping(p, MatchByFuzzyName(p, list), "name_fuzzy")
    BY <2>5 DEF MapProduct
  <2>7. QED
    BY <2>2, <2>3, <2>4, <2>6
<1>2. QED
  BY <1>1 DEF MapProducts

LEMMA MapperInitInv == MapperInit => MapperInv
BY DEF MapperInit, MapperInv, MapperTypeOK, NoCall

LEMMA MapperNextKeeps ==
    ASSUME MapperInv, MapperNext
    PROVE  MapperInv'
<1>1. ASSUME NEW p \in Ids, NEW q \in Ids, NEW pair \in ChannelPairs, AddManualMapping(p, q, pair)
      PROVE  MapperInv'
  <2>1. [source |-> p, pair |-> pair, target |-> q] \in [source : Ids, pair : ChannelPairs, target : Ids]
    OBVIOUS
  <2>2. override' \subseteq [source : Ids, pair : ChannelPairs, target : Ids]
    BY <1>1, <2>1 DEF AddManualMapping, MapperInv, MapperTypeOK
  <2>3. \A o, r \in override' : o.source = r.source /\ o.pair = r.pair => o = r
    BY <1>1 DEF AddManualMapping, MapperInv, MapperTypeOK
  <2>4. QED
    BY <1>1, <2>2, <2>3 DEF AddManualMapping, MapperInv, MapperTypeOK
<1>2. ASSUME NEW p \in Ids, NEW pair \in ChannelPairs, RemoveManualMapping(p, pair)
      PROVE  MapperInv'
  BY <1>2 DEF RemoveManualMapping, MapperInv, MapperTypeOK
<1>3. ASSUME NEW source \in Listings, NEW list \in Listings, NEW pair \in ChannelPairs,
             MapProductsBetweenChannels(source, list, pair)
      PROVE  MapperInv'
  <2>1. pending'.source = source /\ pending'.list = list /\ pending'.on = TRUE
    BY <1>3 DEF MapProductsBetweenChannels
  <2>2. QED
    BY <1>3, <2>1 DEF MapProductsBetweenChannels, MapperInv, MapperTypeOK
<1>4. CASE ClearManualMappings
  BY <1>4 DEF ClearManualMappings, MapperInv, MapperTypeOK
<1>5. CASE Mapped
  <2>1. pending.source \in Listings /\ pending.list \in Listings
    BY <1>5 DEF Mapped, MapperInv, MapperTypeOK
  <2>2. MapProducts(pending.source, pending.list, pending.pair) \subseteq Answer
    BY <2>1, MappingsAreTyped DEF MapperInv
  <2>3. QED
    BY <1>5, <2>2 DEF Mapped, MapperInv, MapperTypeOK, Answer
<1>6. CASE MappingThrows
  BY <1>6 DEF MappingThrows, MapperInv, MapperTypeOK
<1>7. QED
  BY <1>1, <1>2, <1>3, <1>4, <1>5, <1>6 DEF MapperNext

LEMMA MapperRests == MapperInv /\ UNCHANGED mapperVars => MapperInv'
BY DEF mapperVars, MapperInv, MapperTypeOK

-----------------------------------------------------------------------------
(* The Watcher *)

LEMMA LinesAreShaped ==
    ASSUME NEW w \in Webhooks, NEW n \in DOMAIN Lines(w)
    PROVE  /\ w.form \in {"level", "product", "sale", "availability"}
           /\ w.hint \in {"sale", "order", "return", "restock", "none"}
           /\ Lines(w)[n].item \in Mappings /\ Lines(w)[n].quantity \in Int
<1>1. w \in WebhookShape
  BY WebhooksAreShaped
<1>2. /\ w.lines \in Seq([item : Mappings, quantity : Int, tracked : BOOLEAN])
      /\ w.form \in {"level", "product", "sale", "availability", "none"}
      /\ w.hint \in {"sale", "order", "return", "restock", "none"}
  BY <1>1 DEF WebhookShape
<1>3. Lines(w) = w.lines /\ w.form # "none"
  BY DEF Lines, EposnowReads, WixReads, OtterReads
<1>4. w.lines[n] \in [item : Mappings, quantity : Int, tracked : BOOLEAN]
  <2> DEFINE L == [item : Mappings, quantity : Int, tracked : BOOLEAN]
  <2>1. w.lines \in Seq(L) /\ n \in DOMAIN w.lines
    BY <1>2, <1>3
  <2> HIDE DEF L
  <2>2. w.lines[n] \in L
    BY <2>1
  <2>3. QED
    BY <2>2 DEF L
<1>5. QED
  BY <1>2, <1>3, <1>4

ChangeShape ==
    [item : Mappings, previous : Nat \cup {Unmapped}, level : Int, class : Classes]

LEMMA ChangesAreTyped ==
    ASSUME NEW w \in Webhooks, NEW n \in DOMAIN Lines(w), NEW previous \in Stocks \cup {Unmapped}
    PROVE  Change(w, Lines(w)[n], previous) \in ChangeShape
<1>1. /\ w.form \in {"level", "product", "sale", "availability"}
      /\ w.hint \in {"sale", "order", "return", "restock", "none"}
      /\ Lines(w)[n].item \in Mappings /\ Lines(w)[n].quantity \in Int
      /\ previous \in Nat \cup {Unmapped}
  BY LinesAreShaped, StocksAreNumbers
<1> DEFINE line == Lines(w)[n]
<1> HIDE DEF line
<1>2. line.item \in Mappings /\ line.quantity \in Int
  BY <1>1 DEF line
<1>3. CASE w.form \in {"level", "product"}
  <2>1. Change(w, line, previous) = LevelChange(line, previous, w.hint)
    BY <1>3 DEF Change
  <2>2. Classify(previous, line.quantity, w.hint) \in Classes
    BY <1>1, <1>2 DEF Classify, Classes
  <2>3. QED
    BY <1>1, <1>2, <2>1, <2>2 DEF LevelChange, ChangeShape, line
<1>4. CASE w.form = "sale"
  <2>1. Change(w, line, previous) = SaleChange(w, line, previous)
    BY <1>4 DEF Change
  <2>2. LeftAfter(previous, line.quantity) \in Int
    BY <1>1, <1>2 DEF LeftAfter, Unmapped
  <2>3. QED
    BY <1>1, <1>2, <2>1, <2>2 DEF SaleChange, ChangeShape, Classes, line
<1>5. CASE w.form = "availability"
  <2>1. Change(w, line, previous) = AvailabilityChange(line, previous)
    BY <1>5 DEF Change
  <2>2. QED
    BY <1>1, <1>2, <2>1 DEF AvailabilityChange, ChangeShape, Classes, line
<1>6. QED
  BY <1>1, <1>3, <1>4, <1>5

\* Changes come in sequences, and a job that goes on has an attempt left.
WatchInv ==
    /\ WatchTypeOK
    /\ webhook \in [WatchJobs -> Webhooks]
    /\ parsed \in [WatchJobs -> Seq(ChangeShape)]
    /\ emitted \in [WatchJobs -> Seq(ChangeShape)]
    /\ \A j \in WatchJobs : job[j] \in {"unqueued", "waiting", "reading"} => failures[j] < WatchTries

\* The invariant, by what is not about the form of a change.
LEMMA WatchInvFrom ==
    ASSUME webhook \in [WatchJobs -> Webhooks],
           job \in [WatchJobs -> {"unqueued", "waiting", "reading", "done", "failed"}],
           failures \in [WatchJobs -> 0 .. WatchTries],
           stock \in [Mappings -> Stocks \cup {Unmapped}],
           parsed \in [WatchJobs -> Seq(ChangeShape)],
           emitted \in [WatchJobs -> Seq(ChangeShape)],
           \A j \in WatchJobs : emitted[j] # <<>> => job[j] = "done",
           \A j \in WatchJobs : job[j] \in {"unqueued", "waiting", "reading"} => failures[j] < WatchTries
    PROVE  WatchInv
<1>1. ASSUME NEW s \in Seq(ChangeShape), NEW n \in DOMAIN s
      PROVE  IsChange(s[n])
  <2>1. s[n] \in ChangeShape
    <3> DEFINE C == ChangeShape
    <3> HIDE DEF C
    <3>1. s \in Seq(C)
      BY DEF C
    <3>2. s[n] \in C
      BY <3>1
    <3>3. QED
      BY <3>2 DEF C
  <2>2. QED
    BY <2>1 DEF ChangeShape, IsChange
<1>2. QED
  BY <1>1 DEF WatchInv, WatchTypeOK

LEMMA WatchInitInv == WatchInit => WatchInv
<1> SUFFICES ASSUME WatchInit PROVE WatchInv
  OBVIOUS
<1>1. /\ webhook \in [WatchJobs -> Webhooks] /\ job = [j \in WatchJobs |-> "unqueued"]
      /\ failures = [j \in WatchJobs |-> 0] /\ stock \in [Mappings -> Stocks \cup {Unmapped}]
      /\ parsed = [j \in WatchJobs |-> <<>>] /\ emitted = [j \in WatchJobs |-> <<>>]
  BY DEF WatchInit
<1>2. 0 \in 0 .. WatchTries /\ 0 < WatchTries /\ <<>> \in Seq(ChangeShape)
  BY JobsAreRetried
<1>3. QED
  BY <1>1, <1>2, WatchInvFrom

LEMMA WatchNextKeeps ==
    ASSUME WatchInv, WatchNext
    PROVE  WatchInv'
<1>1. /\ webhook \in [WatchJobs -> Webhooks]
      /\ job \in [WatchJobs -> {"unqueued", "waiting", "reading", "done", "failed"}]
      /\ failures \in [WatchJobs -> 0 .. WatchTries]
      /\ stock \in [Mappings -> Stocks \cup {Unmapped}]
      /\ parsed \in [WatchJobs -> Seq(ChangeShape)] /\ emitted \in [WatchJobs -> Seq(ChangeShape)]
      /\ \A j \in WatchJobs : emitted[j] # <<>> => job[j] = "done"
      /\ \A j \in WatchJobs : job[j] \in {"unqueued", "waiting", "reading"} => failures[j] < WatchTries
      /\ WatchTries \in Nat
  BY JobsAreRetried DEF WatchInv, WatchTypeOK
<1> DEFINE New ==
        /\ webhook' \in [WatchJobs -> Webhooks]
        /\ job' \in [WatchJobs -> {"unqueued", "waiting", "reading", "done", "failed"}]
        /\ failures' \in [WatchJobs -> 0 .. WatchTries]
        /\ stock' \in [Mappings -> Stocks \cup {Unmapped}]
        /\ parsed' \in [WatchJobs -> Seq(ChangeShape)] /\ emitted' \in [WatchJobs -> Seq(ChangeShape)]
        /\ \A j \in WatchJobs : emitted'[j] # <<>> => job'[j] = "done"
        /\ \A j \in WatchJobs :
              job'[j] \in {"unqueued", "waiting", "reading"} => failures'[j] < WatchTries
<1>2. ASSUME New PROVE WatchInv'
  <2>1. ASSUME NEW s \in Seq(ChangeShape), NEW n \in DOMAIN s
        PROVE  IsChange(s[n])
    <3> DEFINE C == ChangeShape
    <3> HIDE DEF C
    <3>1. s \in Seq(C)
      BY DEF C
    <3>2. s[n] \in C
      BY <3>1
    <3>3. QED
      BY <3>2 DEF C, ChangeShape, IsChange
  <2>2. \A j \in WatchJobs : parsed'[j] \in Seq(ChangeShape) /\ emitted'[j] \in Seq(ChangeShape)
    BY <1>2
  <2>3. \A j \in WatchJobs :
           /\ \A n \in DOMAIN parsed'[j] : IsChange(parsed'[j][n])
           /\ \A n \in DOMAIN emitted'[j] : IsChange(emitted'[j][n])
    BY <2>1, <2>2
  <2>4. QED
    BY <1>2, <2>3 DEF WatchInv, WatchTypeOK, IsChange
<1>3. <<>> \in Seq(ChangeShape)
  OBVIOUS
<1>4. ASSUME NEW j \in WatchJobs, AddWebhookJob(j)
      PROVE  New
  BY <1>1, <1>4 DEF AddWebhookJob
<1>5. ASSUME NEW j \in WatchJobs, Takes(j)
      PROVE  New
  <2>1. parsed' \in [WatchJobs -> Seq(ChangeShape)]
    BY <1>1, <1>3, <1>5 DEF Takes
  <2>2. QED
    BY <1>1, <1>5, <2>1 DEF Takes
<1>6. ASSUME NEW j \in WatchJobs, ReadLine(j)
      PROVE  New
  <2>1. PICK n \in DOMAIN Lines(webhook[j]) :
           parsed' = [parsed EXCEPT ![j] = Append(@, Change(webhook[j], Lines(webhook[j])[n],
                                                            stock[Lines(webhook[j])[n].item]))]
    BY <1>6 DEF ReadLine
  <2> DEFINE c == Change(webhook[j], Lines(webhook[j])[n], stock[Lines(webhook[j])[n].item])
  <2>2. c \in ChangeShape
    <3>1. webhook[j] \in Webhooks
      BY <1>1
    <3>2. stock[Lines(webhook[j])[n].item] \in Stocks \cup {Unmapped}
      BY <1>1, <3>1, LinesAreShaped
    <3>3. QED
      BY <3>1, <3>2, ChangesAreTyped
  <2> HIDE DEF c
  <2>3. parsed' = [parsed EXCEPT ![j] = Append(parsed[j], c)]
    BY <2>1 DEF c
  <2>4. Append(parsed[j], c) \in Seq(ChangeShape)
    BY <1>1, <2>2
  <2>5. parsed' \in [WatchJobs -> Seq(ChangeShape)]
    BY <1>1, <2>3, <2>4
  <2>6. QED
    BY <1>1, <1>6, <2>5 DEF ReadLine
<1>7. ASSUME NEW j \in WatchJobs, Emits(j)
      PROVE  New
  <2>1. /\ emitted' = [emitted EXCEPT ![j] = emitted[j] \o parsed[j]]
        /\ job' = [job EXCEPT ![j] = "done"] /\ UNCHANGED <<webhook, failures, stock, parsed>>
    BY <1>7 DEF Emits
  <2>2. emitted[j] \o parsed[j] \in Seq(ChangeShape)
    BY <1>1
  <2>3. emitted' \in [WatchJobs -> Seq(ChangeShape)]
    BY <1>1, <2>1, <2>2
  <2>4. \A k \in WatchJobs : emitted'[k] # <<>> => job'[k] = "done"
    BY <1>1, <2>1
  <2>5. QED
    BY <1>1, <2>1, <2>3, <2>4
<1>8. ASSUME NEW j \in WatchJobs, LookupFails(j)
      PROVE  New
  <2>1. /\ job[j] = "reading" /\ failures' = [failures EXCEPT ![j] = failures[j] + 1]
        /\ job' = [job EXCEPT ![j] = IF failures[j] + 1 < WatchTries THEN "waiting" ELSE "failed"]
        /\ parsed' = [parsed EXCEPT ![j] = <<>>] /\ UNCHANGED <<webhook, stock, emitted>>
    BY <1>8 DEF LookupFails
  <2>2. failures[j] + 1 \in 0 .. WatchTries
    BY <1>1, <2>1
  <2>3. failures' \in [WatchJobs -> 0 .. WatchTries] /\ parsed' \in [WatchJobs -> Seq(ChangeShape)]
    BY <1>1, <1>3, <2>1, <2>2
  <2>4. \A k \in WatchJobs :
           job'[k] \in {"unqueued", "waiting", "reading"} => failures'[k] < WatchTries
    BY <1>1, <2>1
  <2>5. QED
    BY <1>1, <2>1, <2>3, <2>4
<1>9. ASSUME NEW i \in Mappings, NEW level \in Stocks \cup {Unmapped}, StockMoves(i, level)
      PROVE  New
  BY <1>1, <1>9 DEF StockMoves
<1>10. QED
  <2> HIDE DEF New
  <2>1. QED
    BY <1>2, <1>4, <1>5, <1>6, <1>7, <1>8, <1>9 DEF WatchNext

LEMMA WatchRests == WatchInv /\ UNCHANGED watchVars => WatchInv'
BY DEF watchVars, WatchInv, WatchTypeOK, IsChange

-----------------------------------------------------------------------------
(* The jobs of a tenant *)

Orders == [what : {"init", "reconcile", "shutdown"}] \cup [what : {"job"}, job : Jobs]
Reports == [what : {"ready", "running", "reconciliation", "error"}]
               \cup [what : {"sync_started", "sync_completed", "stock_updated"}, job : Jobs]

Holds(box, m) == \E n \in DOMAIN box : box[n] = m

\* No job is in the mail twice.
Once(box) == \A m, n \in DOMAIN box : box[m] = box[n] /\ box[m].what = "job" => m = n

MailOK(box, where) ==
    /\ box \in Seq(Orders) /\ Once(box)
    /\ \A j \in Jobs : where[j] = "mailed" <=> Holds(box, JobOrder(j))

\* The end of a job is reported after the job is done.
IsEnd(r) == r.what \in {"sync_completed", "stock_updated"}
ReportsOK(box, where) ==
    /\ box \in Seq(Reports)
    /\ \A n \in DOMAIN box : IsEnd(box[n]) => where[box[n].job] = "done"

Places == {"outside", "mailed", "tenant", "shared", "done", "lost"}

QueueInv ==
    /\ kindOf \in Mixes
    /\ entry \in {"none", "spawning", "running", "stopping"}
    /\ child \in {"none", "new", "up", "closing", "dead"}
    /\ place \in [Jobs -> Places]
    /\ shown \in {"unknown", "active", "error"}
    /\ health \in {"none", "running"}
    /\ heard \subseteq Jobs /\ \A j \in heard : place[j] = "done"
    /\ MailOK(mailbox, place) /\ ReportsOK(reports, place)
    /\ child \in {"none", "dead"} => mailbox = <<>>
    /\ entry = "running" => shown = "active"

LEMMA QueueInvTyped == QueueInv => QueueTypeOK
<1> SUFFICES ASSUME QueueInv PROVE QueueTypeOK
  OBVIOUS
<1>1. ASSUME NEW n \in DOMAIN mailbox PROVE IsOrder(mailbox[n])
  <2> DEFINE O == Orders
  <2>1. mailbox \in Seq(O)
    BY DEF QueueInv, MailOK
  <2> HIDE DEF O
  <2>2. mailbox[n] \in O
    BY <1>1, <2>1
  <2>3. QED
    BY <2>2 DEF O, Orders, IsOrder
<1>2. ASSUME NEW n \in DOMAIN reports PROVE IsReport(reports[n])
  <2> DEFINE R == Reports
  <2>1. reports \in Seq(R)
    BY DEF QueueInv, ReportsOK
  <2> HIDE DEF R
  <2>2. reports[n] \in R
    BY <1>2, <2>1
  <2>3. QED
    BY <2>2 DEF R, Reports, IsReport
<1>3. \A j \in Jobs : place[j] = "mailed" <=> \E n \in DOMAIN mailbox : mailbox[n] = JobOrder(j)
  BY DEF QueueInv, MailOK, Holds
<1>4. QED
  BY <1>1, <1>2, <1>3 DEF QueueInv, QueueTypeOK, Healthy, Places

LEMMA AppendHolds ==
    ASSUME NEW S, NEW box \in Seq(S), NEW m \in S
    PROVE  /\ Append(box, m) \in Seq(S)
           /\ \A x : Holds(Append(box, m), x) <=> Holds(box, x) \/ x = m
           /\ Once(box) /\ (m.what = "job" => ~Holds(box, m)) => Once(Append(box, m))
<1> DEFINE new == Append(box, m)
<1>1. /\ new \in Seq(S) /\ Len(new) = Len(box) + 1 /\ new[Len(box) + 1] = m
      /\ \A n \in 1 .. Len(box) : new[n] = box[n]
      /\ DOMAIN new = 1 .. (Len(box) + 1) /\ DOMAIN box = 1 .. Len(box) /\ Len(box) \in Nat
  OBVIOUS
<1> HIDE DEF new
<1>2. ASSUME NEW x PROVE Holds(new, x) <=> Holds(box, x) \/ x = m
  BY <1>1 DEF Holds
<1>3. ASSUME Once(box), m.what = "job" => ~Holds(box, m)
      PROVE  Once(new)
  <2> SUFFICES ASSUME NEW a \in 1 .. (Len(box) + 1), NEW b \in 1 .. (Len(box) + 1),
                      new[a] = new[b], new[a].what = "job"
               PROVE  a = b
    BY <1>1 DEF Once
  <2>1. CASE a \in 1 .. Len(box) /\ b \in 1 .. Len(box)
    BY <1>1, <1>3, <2>1 DEF Once
  <2>2. CASE a = Len(box) + 1 /\ b \in 1 .. Len(box)
    BY <1>1, <1>3, <2>2 DEF Holds
  <2>3. CASE b = Len(box) + 1 /\ a \in 1 .. Len(box)
    BY <1>1, <1>3, <2>3 DEF Holds
  <2>4. QED
    BY <1>1, <2>1, <2>2, <2>3
<1>4. QED
  BY <1>1, <1>2, <1>3 DEF new

LEMMA TailHolds ==
    ASSUME NEW S, NEW box \in Seq(S), box # <<>>
    PROVE  /\ Tail(box) \in Seq(S) /\ Head(box) \in S
           /\ \A x : Holds(box, x) <=> x = Head(box) \/ Holds(Tail(box), x)
           /\ Once(box) => /\ Once(Tail(box))
                           /\ Head(box).what = "job" => ~Holds(Tail(box), Head(box))
<1> DEFINE tail == Tail(box)
<1>1. /\ tail \in Seq(S) /\ Len(box) \in Nat \ {0} /\ Len(tail) = Len(box) - 1
      /\ \A n \in 1 .. (Len(box) - 1) : tail[n] = box[n + 1]
      /\ DOMAIN tail = 1 .. (Len(box) - 1) /\ DOMAIN box = 1 .. Len(box)
      /\ Head(box) = box[1] /\ Head(box) \in S
  OBVIOUS
<1> HIDE DEF tail
<1>2. ASSUME NEW x PROVE Holds(box, x) <=> x = Head(box) \/ Holds(tail, x)
  <2>1. ASSUME NEW n \in 1 .. Len(box), box[n] = x, n # 1 PROVE Holds(tail, x)
    <3>1. n - 1 \in 1 .. (Len(box) - 1) /\ (n - 1) + 1 = n
      BY <1>1, <2>1
    <3>2. QED
      BY <1>1, <2>1, <3>1 DEF Holds
  <2>2. ASSUME NEW n \in 1 .. (Len(box) - 1), tail[n] = x PROVE Holds(box, x)
    <3>1. n + 1 \in 1 .. Len(box) /\ box[n + 1] = x
      BY <1>1, <2>2
    <3>2. QED
      BY <1>1, <3>1 DEF Holds
  <2>3. 1 \in 1 .. Len(box)
    BY <1>1
  <2>4. QED
    BY <1>1, <2>1, <2>2, <2>3 DEF Holds
<1>3. ASSUME Once(box)
      PROVE  Once(tail) /\ (Head(box).what = "job" => ~Holds(tail, Head(box)))
  <2>1. ASSUME NEW a \in 1 .. (Len(box) - 1), NEW b \in 1 .. (Len(box) - 1),
               tail[a] = tail[b], tail[a].what = "job"
        PROVE  a = b
    <3>1. a + 1 \in 1 .. Len(box) /\ b + 1 \in 1 .. Len(box)
      BY <1>1
    <3>2. box[a + 1] = box[b + 1] /\ box[a + 1].what = "job"
      BY <1>1, <2>1
    <3>3. a + 1 = b + 1
      BY <1>1, <1>3, <3>1, <3>2 DEF Once
    <3>4. QED
      BY <3>3
  <2>2. ASSUME NEW a \in 1 .. (Len(box) - 1), tail[a] = Head(box), Head(box).what = "job"
        PROVE  FALSE
    <3>1. a + 1 \in 1 .. Len(box) /\ 1 \in 1 .. Len(box) /\ a + 1 # 1
      BY <1>1
    <3>2. a + 1 = 1
      BY <1>1, <1>3, <2>2, <3>1 DEF Once
    <3>3. QED
      BY <3>1, <3>2
  <2>3. QED
    BY <1>1, <2>1, <2>2 DEF Once, Holds
<1>4. QED
  BY <1>1, <1>2, <1>3 DEF tail

LEMMA ReportsAppend ==
    ASSUME NEW box, NEW where, ReportsOK(box, where), NEW r \in Reports,
           IsEnd(r) => where[r.job] = "done"
    PROVE  ReportsOK(Append(box, r), where)
<1> DEFINE R == Reports
           new == Append(box, r)
<1>1. box \in Seq(R) /\ r \in R
  BY DEF ReportsOK
<1> HIDE DEF R
<1>2. /\ new \in Seq(R) /\ new[Len(box) + 1] = r /\ \A n \in 1 .. Len(box) : new[n] = box[n]
      /\ DOMAIN new = 1 .. (Len(box) + 1) /\ DOMAIN box = 1 .. Len(box) /\ Len(box) \in Nat
  BY <1>1
<1> HIDE DEF new
<1>3. \A n \in 1 .. (Len(box) + 1) : n \in 1 .. Len(box) \/ n = Len(box) + 1
  BY <1>2
<1>4. \A n \in DOMAIN new : IsEnd(new[n]) => where[new[n].job] = "done"
  BY <1>2, <1>3 DEF ReportsOK
<1>5. QED
  BY <1>2, <1>4 DEF ReportsOK, R, new

LEMMA ReportsTail ==
    ASSUME NEW box, NEW where, ReportsOK(box, where), box # <<>>
    PROVE  /\ ReportsOK(Tail(box), where)
           /\ Head(box) \in Reports /\ (IsEnd(Head(box)) => where[Head(box).job] = "done")
<1> DEFINE R == Reports
           tail == Tail(box)
<1>1. box \in Seq(R)
  BY DEF ReportsOK
<1> HIDE DEF R
<1>2. /\ tail \in Seq(R) /\ Len(box) \in Nat \ {0}
      /\ \A n \in 1 .. (Len(box) - 1) : tail[n] = box[n + 1]
      /\ DOMAIN tail = 1 .. (Len(box) - 1) /\ DOMAIN box = 1 .. Len(box)
      /\ Head(box) = box[1] /\ Head(box) \in R
  BY <1>1
<1> HIDE DEF tail
<1>3. \A n \in 1 .. (Len(box) - 1) : n + 1 \in 1 .. Len(box)
  BY <1>2
<1>4. 1 \in 1 .. Len(box)
  BY <1>2
<1>5. \A n \in DOMAIN tail : IsEnd(tail[n]) => where[tail[n].job] = "done"
  BY <1>2, <1>3 DEF ReportsOK
<1>6. IsEnd(Head(box)) => where[Head(box).job] = "done"
  BY <1>2, <1>4 DEF ReportsOK
<1>7. QED
  BY <1>2, <1>5, <1>6 DEF ReportsOK, R, tail

\* A job is done once and for all: reports of it stay true.
LEMMA ReportsStay ==
    ASSUME NEW box, NEW where, NEW where1, ReportsOK(box, where),
           \A j \in Jobs : where[j] = "done" => where1[j] = "done"
    PROVE  ReportsOK(box, where1)
<1> DEFINE R == Reports
<1>1. ASSUME NEW n \in DOMAIN box, IsEnd(box[n])
      PROVE  where1[box[n].job] = "done"
  <2>1. box \in Seq(R)
    BY DEF ReportsOK
  <2> HIDE DEF R
  <2>2. box[n] \in R
    BY <2>1
  <2>3. box[n].job \in Jobs
    BY <1>1, <2>2 DEF R, Reports, IsEnd
  <2>4. QED
    BY <1>1, <2>3 DEF ReportsOK
<1>2. QED
  BY <1>1 DEF ReportsOK

LEMMA NewReports ==
    /\ \A w \in {"ready", "running", "reconciliation", "error"} : Order(w) \in Reports /\ ~IsEnd(Order(w))
    /\ \A j \in Jobs, w \in {"sync_started", "sync_completed", "stock_updated"} :
          /\ EventOf(w, j) \in Reports /\ EventOf(w, j).job = j
          /\ IsEnd(EventOf(w, j)) <=> w # "sync_started"
BY DEF Order, Reports, EventOf, IsEnd

LEMMA NewOrders ==
    /\ \A w \in {"init", "reconcile", "shutdown"} :
          /\ Order(w) \in Orders /\ Order(w).what = w
          /\ \A j \in Jobs : Order(w) # JobOrder(j)
    /\ \A j \in Jobs : JobOrder(j) \in Orders /\ JobOrder(j).what = "job" /\ JobOrder(j).job = j
    /\ \A m \in Orders : m.what = "job" => m.job \in Jobs /\ m = JobOrder(m.job)
    /\ \A j, k \in Jobs : JobOrder(j) = JobOrder(k) => j = k
<1>1. \A w \in {"init", "reconcile", "shutdown"}, j \in Jobs : Order(w).what # JobOrder(j).what
  BY DEF Order, JobOrder
<1>2. \A j, k \in Jobs : JobOrder(j) = JobOrder(k) => j = k
  <2>1. \A j \in Jobs : JobOrder(j).job = j
    BY DEF JobOrder
  <2>2. QED
    BY <2>1
<1>3. \A m \in Orders : m.what = "job" => m.job \in Jobs /\ m = JobOrder(m.job)
  BY DEF Orders, JobOrder
<1>4. QED
  BY <1>1, <1>2, <1>3 DEF Order, Orders, JobOrder

\* An order that is no job's comes or goes.
LEMMA MailAppend ==
    ASSUME NEW box, NEW where, MailOK(box, where), NEW w \in {"init", "reconcile", "shutdown"}
    PROVE  MailOK(Append(box, Order(w)), where)
<1>1. box \in Seq(Orders) /\ Order(w) \in Orders /\ Order(w).what # "job"
  BY NewOrders DEF MailOK
<1>2. /\ Append(box, Order(w)) \in Seq(Orders)
      /\ \A x : Holds(Append(box, Order(w)), x) <=> Holds(box, x) \/ x = Order(w)
      /\ Once(box) => Once(Append(box, Order(w)))
  BY <1>1, AppendHolds
<1>3. \A j \in Jobs : JobOrder(j) # Order(w)
  BY NewOrders
<1>4. QED
  BY <1>2, <1>3 DEF MailOK

LEMMA MailTail ==
    ASSUME NEW box, NEW where, MailOK(box, where), box # <<>>
    PROVE  /\ Head(box) \in Orders
           /\ Head(box).what # "job" => MailOK(Tail(box), where)
           /\ Head(box).what = "job" =>
                 /\ Head(box).job \in Jobs /\ where[Head(box).job] = "mailed"
                 /\ \A to \in Places \ {"mailed"} : where \in [Jobs -> Places] =>
                       MailOK(Tail(box), [where EXCEPT ![Head(box).job] = to])
<1>1. /\ box \in Seq(Orders) /\ Once(box)
      /\ \A j \in Jobs : where[j] = "mailed" <=> Holds(box, JobOrder(j))
  BY DEF MailOK
<1>2. /\ Tail(box) \in Seq(Orders) /\ Head(box) \in Orders
      /\ \A x : Holds(box, x) <=> x = Head(box) \/ Holds(Tail(box), x)
      /\ Once(Tail(box))
      /\ Head(box).what = "job" => ~Holds(Tail(box), Head(box))
  BY <1>1, TailHolds
<1>3. ASSUME Head(box).what # "job" PROVE MailOK(Tail(box), where)
  <2>1. \A j \in Jobs : JobOrder(j) # Head(box)
    BY <1>3, NewOrders
  <2>2. QED
    BY <1>1, <1>2, <2>1 DEF MailOK
<1>4. ASSUME Head(box).what = "job"
      PROVE  /\ Head(box).job \in Jobs /\ where[Head(box).job] = "mailed"
             /\ \A to \in Places \ {"mailed"} : where \in [Jobs -> Places] =>
                   MailOK(Tail(box), [where EXCEPT ![Head(box).job] = to])
  <2> DEFINE h == Head(box).job
  <2>1. h \in Jobs /\ Head(box) = JobOrder(h)
    BY <1>2, <1>4, NewOrders
  <2>2. where[h] = "mailed"
    BY <1>1, <1>2, <2>1
  <2>3. ASSUME NEW to \in Places \ {"mailed"}, where \in [Jobs -> Places]
        PROVE  MailOK(Tail(box), [where EXCEPT ![h] = to])
    <3>1. \A j \in Jobs : [where EXCEPT ![h] = to][j] = IF j = h THEN to ELSE where[j]
      BY <2>3
    <3>2. \A j \in Jobs : j # h => JobOrder(j) # JobOrder(h)
      BY <2>1, NewOrders
    <3> HIDE DEF h
    <3>3. \A j \in Jobs : [where EXCEPT ![h] = to][j] = "mailed" <=> Holds(Tail(box), JobOrder(j))
      BY <1>1, <1>2, <1>4, <2>1, <2>3, <3>1, <3>2
    <3>4. QED
      BY <1>2, <3>3 DEF MailOK
  <2>4. QED
    BY <2>1, <2>2, <2>3
<1>5. QED
  BY <1>2, <1>3, <1>4

LEMMA QueueInitInv == QueueInit => QueueInv
<1> SUFFICES ASSUME QueueInit PROVE QueueInv
  OBVIOUS
<1>1. /\ kindOf \in Mixes /\ entry = "none" /\ child = "none" /\ mailbox = <<>> /\ reports = <<>>
      /\ place = [j \in Jobs |-> "outside"] /\ shown = "unknown" /\ heard = {} /\ health = "none"
  BY DEF QueueInit
<1>2. MailOK(mailbox, place)
  <2>1. DOMAIN mailbox = {} /\ mailbox \in Seq(Orders)
    BY <1>1
  <2>2. QED
    BY <1>1, <2>1 DEF MailOK, Once, Holds
<1>3. ReportsOK(reports, place)
  <2>1. DOMAIN reports = {} /\ reports \in Seq(Reports)
    BY <1>1
  <2>2. QED
    BY <2>1 DEF ReportsOK
<1>4. place \in [Jobs -> Places]
  BY <1>1 DEF Places
<1>5. QED
  BY <1>1, <1>2, <1>3, <1>4 DEF QueueInv

\* What a step that moves no job has to keep.
LEMMA JobsStay ==
    ASSUME QueueInv, UNCHANGED <<kindOf, place>>,
           entry' \in {"none", "spawning", "running", "stopping"},
           child' \in {"none", "new", "up", "closing", "dead"},
           shown' \in {"unknown", "active", "error"}, health' \in {"none", "running"},
           heard' \subseteq Jobs, \A j \in heard' : place[j] = "done",
           MailOK(mailbox', place), ReportsOK(reports', place),
           child' \in {"none", "dead"} => mailbox' = <<>>,
           entry' = "running" => shown' = "active"
    PROVE  QueueInv'
BY DEF QueueInv

\* What a step that moves jobs has to keep.
LEMMA JobsMove ==
    ASSUME QueueInv, UNCHANGED <<kindOf, entry, shown, heard, health>>,
           child' \in {"none", "new", "up", "closing", "dead"},
           NEW where \in [Jobs -> Places], place' = where,
           \A j \in Jobs : place[j] = "done" => where[j] = "done",
           MailOK(mailbox', where), ReportsOK(reports', where),
           child' \in {"none", "dead"} => mailbox' = <<>>
    PROVE  QueueInv'
BY DEF QueueInv

LEMMA RouteJobKeeps ==
    ASSUME QueueInv, UNCHANGED kindOf, NEW j \in Jobs, RouteJob(j) \/ AddTenantJob(j)
    PROVE  QueueInv'
<1>1. /\ place \in [Jobs -> Places] /\ place[j] = "outside" /\ UNCHANGED <<entry, child, reports, shown, heard, health>>
      /\ MailOK(mailbox, place) /\ ReportsOK(reports, place)
      /\ child \in {"none", "new", "up", "closing", "dead"}
      /\ child \in {"none", "dead"} => mailbox = <<>>
  BY DEF RouteJob, AddTenantJob, QueueInv
<1>2. mailbox \in Seq(Orders) /\ Once(mailbox) /\ ~Holds(mailbox, JobOrder(j))
  BY <1>1 DEF MailOK
<1> DEFINE W(to) == [place EXCEPT ![j] = to]
<1>3. ASSUME NEW to \in Places
      PROVE  /\ W(to) \in [Jobs -> Places]
             /\ \A k \in Jobs : W(to)[k] = IF k = j THEN to ELSE place[k]
             /\ \A k \in Jobs : place[k] = "done" => W(to)[k] = "done"
             /\ ReportsOK(reports, W(to))
  <2>1. /\ W(to) \in [Jobs -> Places]
        /\ \A k \in Jobs : W(to)[k] = IF k = j THEN to ELSE place[k]
    BY <1>1
  <2>2. \A k \in Jobs : place[k] = "done" => W(to)[k] = "done"
    BY <1>1, <2>1
  <2> HIDE DEF W
  <2>3. QED
    BY <1>1, <2>1, <2>2, ReportsStay
<1>4. CASE place' = W("mailed") /\ mailbox' = Append(mailbox, JobOrder(j)) /\ Reachable
  <2>1. "mailed" \in Places
    BY DEF Places
  <2>2. JobOrder(j) \in Orders /\ \A k \in Jobs : k # j => JobOrder(k) # JobOrder(j)
    BY NewOrders
  <2>3. /\ Append(mailbox, JobOrder(j)) \in Seq(Orders)
        /\ \A x : Holds(Append(mailbox, JobOrder(j)), x) <=> Holds(mailbox, x) \/ x = JobOrder(j)
        /\ Once(Append(mailbox, JobOrder(j)))
    BY <1>2, <2>2, AppendHolds
  <2>4. child \notin {"none", "dead"}
    BY <1>4 DEF Reachable
  <2>5. \A k \in Jobs : place[k] = "mailed" <=> Holds(mailbox, JobOrder(k))
    BY <1>1 DEF MailOK
  <2>6. /\ W("mailed") \in [Jobs -> Places] /\ ReportsOK(reports, W("mailed"))
        /\ \A k \in Jobs : W("mailed")[k] = IF k = j THEN "mailed" ELSE place[k]
        /\ \A k \in Jobs : place[k] = "done" => W("mailed")[k] = "done"
    BY <1>3, <2>1
  <2> HIDE DEF W
  <2>7. MailOK(mailbox', W("mailed"))
    BY <1>4, <2>2, <2>3, <2>5, <2>6 DEF MailOK
  <2>8. QED
    BY <1>1, <1>4, <2>4, <2>6, <2>7, JobsMove
<1>5. ASSUME NEW to \in {"shared", "lost", "tenant"}, place' = W(to), UNCHANGED mailbox
      PROVE  QueueInv'
  <2>1. to \in Places /\ to # "mailed"
    BY DEF Places
  <2>2. \A k \in Jobs : place[k] = "mailed" <=> Holds(mailbox, JobOrder(k))
    BY <1>1 DEF MailOK
  <2>3. /\ W(to) \in [Jobs -> Places] /\ ReportsOK(reports, W(to))
        /\ \A k \in Jobs : W(to)[k] = IF k = j THEN to ELSE place[k]
        /\ \A k \in Jobs : place[k] = "done" => W(to)[k] = "done"
    BY <1>3, <2>1
  <2> HIDE DEF W
  <2>4. MailOK(mailbox', W(to))
    BY <1>1, <1>2, <1>5, <2>1, <2>2, <2>3 DEF MailOK
  <2>5. QED
    BY <1>1, <1>5, <2>3, <2>4, JobsMove
<1>6. QED
  BY <1>4, <1>5 DEF RouteJob, AddTenantJob

LEMMA BackendKeeps ==
    ASSUME QueueInv, UNCHANGED kindOf,
           Forks \/ TriggerReconciliation \/ StopsWorker \/ Hears \/ SeesExit
    PROVE  QueueInv'
<1>1. /\ MailOK(mailbox, place) /\ ReportsOK(reports, place)
      /\ entry \in {"none", "spawning", "running", "stopping"}
      /\ child \in {"none", "new", "up", "closing", "dead"}
      /\ shown \in {"unknown", "active", "error"} /\ health \in {"none", "running"}
      /\ heard \subseteq Jobs /\ \A j \in heard : place[j] = "done"
      /\ child \in {"none", "dead"} => mailbox = <<>>
      /\ entry = "running" => shown = "active"
  BY DEF QueueInv
<1>2. CASE Forks
  <2>1. /\ child = "none" /\ entry' = "spawning" /\ child' = "new" /\ health' = "none"
        /\ mailbox' = <<Order("init")>> /\ UNCHANGED <<place, reports, shown, heard>>
    BY <1>2 DEF Forks
  <2>2. <<Order("init")>> = Append(mailbox, Order("init"))
    BY <1>1, <2>1
  <2>3. MailOK(mailbox', place)
    BY <1>1, <2>1, <2>2, MailAppend
  <2>4. QED
    BY <1>1, <2>1, <2>3, JobsStay
<1>3. CASE TriggerReconciliation
  <2>1. /\ child \notin {"none", "dead"} /\ mailbox' = Append(mailbox, Order("reconcile"))
        /\ UNCHANGED <<entry, child, place, reports, shown, heard, health>>
    BY <1>3 DEF TriggerReconciliation, Reachable
  <2>2. MailOK(mailbox', place)
    BY <1>1, <2>1, MailAppend
  <2>3. QED
    BY <1>1, <2>1, <2>2, JobsStay
<1>4. CASE StopsWorker
  <2>1. /\ entry' = "stopping" /\ UNCHANGED <<child, place, reports, shown, heard, health>>
        /\ \/ Reachable /\ mailbox' = Append(mailbox, Order("shutdown"))
           \/ mailbox' = mailbox
    BY <1>4 DEF StopsWorker
  <2>2. MailOK(mailbox', place)
    BY <1>1, <2>1, MailAppend
  <2>3. child' \in {"none", "dead"} => mailbox' = <<>>
    BY <1>1, <2>1 DEF Reachable
  <2>4. QED
    BY <1>1, <2>1, <2>2, <2>3, JobsStay
<1>5. CASE Hears
  <2>1. /\ reports # <<>> /\ reports' = Tail(reports) /\ UNCHANGED <<child, mailbox, place>>
        /\ \/ UNCHANGED <<entry, shown, heard, health>>
           \/ HearsReady \/ HearsHealth \/ HearsEvent
    BY <1>5 DEF Hears
  <2>2. /\ ReportsOK(reports', place) /\ Head(reports) \in Reports
        /\ IsEnd(Head(reports)) => place[Head(reports).job] = "done"
    BY <1>1, <2>1, ReportsTail
  <2>3. CASE UNCHANGED <<entry, shown, heard, health>>
    BY <1>1, <2>1, <2>2, <2>3, JobsStay
  <2>4. CASE HearsReady
    BY <1>1, <2>1, <2>2, <2>4, JobsStay DEF HearsReady
  <2>5. CASE HearsHealth
    BY <1>1, <2>1, <2>2, <2>5, JobsStay DEF HearsHealth
  <2>6. CASE HearsEvent
    <3>1. UNCHANGED <<entry, shown, health>>
      BY <2>6 DEF HearsEvent
    <3>2. heard' = heard \/ (IsEnd(Head(reports)) /\ heard' = heard \cup {Head(reports).job})
      BY <2>6 DEF HearsEvent, IsEnd
    <3>3. IsEnd(Head(reports)) => Head(reports).job \in Jobs
      BY <2>2 DEF IsEnd, Reports
    <3>4. heard' \subseteq Jobs /\ \A j \in heard' : place[j] = "done"
      BY <1>1, <2>2, <3>2, <3>3
    <3>5. QED
      BY <1>1, <2>1, <2>2, <3>1, <3>4, JobsStay
  <2>7. QED
    BY <2>1, <2>3, <2>4, <2>5, <2>6
<1>6. CASE SeesExit
  <2>1. /\ child = "dead" /\ child' = "none" /\ entry' = "none"
        /\ shown' \in {shown, "error"} /\ UNCHANGED <<mailbox, place, reports, heard, health>>
    BY <1>6 DEF SeesExit
  <2>2. QED
    BY <1>1, <2>1, JobsStay
<1>7. QED
  BY <1>2, <1>3, <1>4, <1>5, <1>6

LEMMA ProcessKeeps ==
    ASSUME QueueInv, UNCHANGED kindOf,
           Initializes \/ Reconciles \/ GuardianTick \/ ReportHealth \/ ShutsDown
    PROVE  QueueInv'
<1>1. /\ MailOK(mailbox, place) /\ ReportsOK(reports, place)
      /\ entry \in {"none", "spawning", "running", "stopping"}
      /\ child \in {"none", "new", "up", "closing", "dead"}
      /\ shown \in {"unknown", "active", "error"} /\ health \in {"none", "running"}
      /\ heard \subseteq Jobs /\ \A j \in heard : place[j] = "done"
      /\ child \in {"none", "dead"} => mailbox = <<>>
      /\ entry = "running" => shown = "active"
  BY DEF QueueInv
<1>2. ASSUME NEW w \in {"init", "reconcile", "shutdown"}, Reads(w)
      PROVE  MailOK(mailbox', place) /\ child \notin {"none", "dead"}
  <2>1. mailbox # <<>> /\ Head(mailbox).what # "job" /\ mailbox' = Tail(mailbox)
    BY <1>2 DEF Reads
  <2>2. QED
    BY <1>1, <1>2, <2>1, MailTail DEF Reads, Alive
<1>3. ASSUME NEW w \in {"ready", "running", "reconciliation", "error"},
             Says(Order(w)) \/ UNCHANGED reports
      PROVE  ReportsOK(reports', place)
  <2>1. Order(w) \in Reports /\ ~IsEnd(Order(w))
    BY NewReports
  <2>2. ReportsOK(Append(reports, Order(w)), place)
    BY <1>1, <2>1, ReportsAppend
  <2>3. reports' = Append(reports, Order(w)) \/ reports' = reports
    BY <1>3 DEF Says
  <2>4. QED
    BY <1>1, <2>2, <2>3
<1>4. CASE Initializes
  <2>1. /\ Reads("init") /\ child' = "up" /\ Says(Order("ready"))
        /\ UNCHANGED <<entry, place, shown, heard, health>>
    BY <1>4 DEF Initializes
  <2>2. MailOK(mailbox', place) /\ child \notin {"none", "dead"}
    BY <1>2, <2>1
  <2>3. ReportsOK(reports', place)
    BY <1>3, <2>1
  <2>4. QED
    BY <1>1, <2>1, <2>2, <2>3, JobsStay
<1>5. CASE Reconciles
  <2>1. /\ Reads("reconcile")
        /\ Says(Order("reconciliation")) \/ UNCHANGED reports
        /\ UNCHANGED <<entry, child, place, shown, heard, health>>
    BY <1>5 DEF Reconciles, RunGuardianReconciliation
  <2>2. MailOK(mailbox', place) /\ child \notin {"none", "dead"}
    BY <1>2, <2>1
  <2>3. ReportsOK(reports', place)
    BY <1>3, <2>1
  <2>4. QED
    BY <1>1, <2>1, <2>2, <2>3, JobsStay
<1>6. CASE GuardianTick
  <2>1. /\ child = "up"
        /\ Says(Order("reconciliation")) \/ UNCHANGED reports
        /\ UNCHANGED <<entry, child, place, shown, heard, health, mailbox>>
    BY <1>6 DEF GuardianTick, RunGuardianReconciliation
  <2>2. QED
    BY <1>1, <1>3, <2>1, JobsStay
<1>7. CASE ReportHealth
  <2>1. /\ health' \in {"none", "running"} /\ Says(Order("running"))
        /\ UNCHANGED <<entry, child, place, shown, heard, mailbox>>
    BY <1>1, <1>7 DEF ReportHealth
  <2>2. QED
    BY <1>1, <1>3, <2>1, JobsStay
<1>8. CASE ShutsDown
  <2>1. /\ Reads("shutdown") /\ child' = "closing"
        /\ UNCHANGED <<entry, place, reports, shown, heard, health>>
    BY <1>8 DEF ShutsDown
  <2>2. QED
    BY <1>1, <1>2, <2>1, JobsStay
<1>9. QED
  BY <1>4, <1>5, <1>6, <1>7, <1>8

LEMMA JobsKeep ==
    ASSUME QueueInv, UNCHANGED kindOf, QueuesJob \/ QueueRefuses \/ \E j \in Jobs : ProcessJob(j)
    PROVE  QueueInv'
<1>1. /\ MailOK(mailbox, place) /\ ReportsOK(reports, place) /\ place \in [Jobs -> Places]
      /\ child \in {"none", "new", "up", "closing", "dead"}
  BY DEF QueueInv
<1>2. ASSUME NEW to \in {"tenant", "lost"}, Reads("job"),
             place' = [place EXCEPT ![Head(mailbox).job] = to],
             reports' = reports \/ reports' = Append(reports, Order("error")),
             UNCHANGED <<entry, child, shown, heard, health>>
      PROVE  QueueInv'
  <2> DEFINE where == [place EXCEPT ![Head(mailbox).job] = to]
  <2>1. mailbox # <<>> /\ Head(mailbox).what = "job" /\ mailbox' = Tail(mailbox)
        /\ child \notin {"none", "dead"}
    BY <1>2 DEF Reads, Alive
  <2>2. to \in Places \ {"mailed"}
    BY DEF Places
  <2>3. /\ Head(mailbox).job \in Jobs /\ place[Head(mailbox).job] = "mailed"
        /\ MailOK(Tail(mailbox), where)
    BY <1>1, <2>1, <2>2, MailTail
  <2>4. where \in [Jobs -> Places] /\ \A k \in Jobs : place[k] = "done" => where[k] = "done"
    BY <1>1, <2>2, <2>3
  <2>5. ReportsOK(reports', place)
    BY <1>1, <1>2, NewReports, ReportsAppend
  <2>6. place' = where
    BY <1>2
  <2> HIDE DEF where
  <2>7. ReportsOK(reports', where)
    BY <2>4, <2>5, ReportsStay
  <2>8. QED
    BY <1>1, <1>2, <2>1, <2>3, <2>4, <2>6, <2>7, JobsMove
<1>3. CASE QueuesJob
  BY <1>2, <1>3 DEF QueuesJob
<1>4. CASE QueueRefuses
  BY <1>2, <1>4 DEF QueueRefuses, Says
<1>5. ASSUME NEW j \in Jobs, ProcessJob(j)
      PROVE  QueueInv'
  <2> DEFINE where == [place EXCEPT ![j] = "done"]
  <2>1. /\ child = "up" /\ place[j] = "tenant" /\ place' = where
        /\ UNCHANGED <<entry, child, mailbox, shown, heard, health>>
    BY <1>5 DEF ProcessJob
  <2>2. /\ where \in [Jobs -> Places] /\ where[j] = "done"
        /\ \A k \in Jobs : where[k] = "mailed" <=> place[k] = "mailed"
        /\ \A k \in Jobs : place[k] = "done" => where[k] = "done"
    BY <1>1, <2>1 DEF Places
  <2>3. MailOK(mailbox', where)
    <3> HIDE DEF where
    <3>1. QED
      BY <1>1, <2>1, <2>2 DEF MailOK
  <2> HIDE DEF where
  <2>4. ReportsOK(reports, where)
    BY <1>1, <2>2, ReportsStay
  <2>5. ReportsOK(reports', where)
    <3>1. CASE ProcessSyncJob(j)
      <4> DEFINE r1 == EventOf("sync_started", j)
                 r2 == EventOf("sync_completed", j)
      <4>1. r1 \in Reports /\ r2 \in Reports /\ ~IsEnd(r1) /\ r2.job = j
        BY NewReports
      <4>2. ReportsOK(Append(reports, r1), where)
        BY <2>4, <4>1, ReportsAppend
      <4>3. ReportsOK(Append(Append(reports, r1), r2), where)
        BY <2>2, <4>1, <4>2, ReportsAppend
      <4>4. reports' = reports \o <<r1, r2>>
        BY <3>1 DEF ProcessSyncJob
      <4>5. reports \in Seq(Reports)
        BY <1>1 DEF ReportsOK
      <4> HIDE DEF r1, r2
      <4>6. reports \o <<r1, r2>> = Append(Append(reports, r1), r2)
        BY <4>1, <4>5
      <4>7. QED
        BY <4>3, <4>4, <4>6
    <3>2. CASE ProcessWebhookJob(j)
      <4>1. EventOf("stock_updated", j) \in Reports /\ EventOf("stock_updated", j).job = j
        BY NewReports
      <4>2. reports' = Append(reports, EventOf("stock_updated", j))
        BY <3>2 DEF ProcessWebhookJob, Says
      <4>3. QED
        BY <2>2, <2>4, <4>1, <4>2, ReportsAppend
    <3>3. CASE ProcessOtherJob(j)
      BY <2>4, <3>3 DEF ProcessOtherJob
    <3>4. QED
      BY <1>5, <3>1, <3>2, <3>3 DEF ProcessJob
  <2>6. QED
    BY <1>1, <2>1, <2>2, <2>3, <2>5, JobsMove
<1>6. QED
  BY <1>3, <1>4, <1>5

LEMMA EndsKeep ==
    ASSUME QueueInv, UNCHANGED kindOf, Exits \/ Crashes
    PROVE  QueueInv'
<1> DEFINE where == [j \in Jobs |-> IF place[j] = "mailed" THEN "lost" ELSE place[j]]
<1>1. /\ MailOK(mailbox, place) /\ ReportsOK(reports, place) /\ place \in [Jobs -> Places]
  BY DEF QueueInv
<1>2. /\ child' = "dead" /\ mailbox' = <<>> /\ place' = where
      /\ reports' = reports \/ reports' = Append(reports, Order("error"))
      /\ UNCHANGED <<entry, shown, heard, health>>
  BY DEF Exits, Crashes, Gone, Says
<1>3. /\ where \in [Jobs -> Places] /\ \A j \in Jobs : where[j] # "mailed"
      /\ \A j \in Jobs : place[j] = "done" => where[j] = "done"
  BY <1>1 DEF Places
<1> HIDE DEF where
<1>4. MailOK(<<>>, where)
  <2>1. DOMAIN <<>> = {} /\ <<>> \in Seq(Orders)
    OBVIOUS
  <2>2. QED
    BY <1>3, <2>1 DEF MailOK, Once, Holds
<1>5. ReportsOK(reports', place)
  BY <1>1, <1>2, NewReports, ReportsAppend
<1>6. ReportsOK(reports', where)
  BY <1>3, <1>5, ReportsStay
<1>7. QED
  BY <1>2, <1>3, <1>4, <1>6, JobsMove

LEMMA QueueNextKeeps ==
    ASSUME QueueInv, QueueNext
    PROVE  QueueInv'
BY RouteJobKeeps, BackendKeeps, ProcessKeeps, JobsKeep, EndsKeep DEF QueueNext, QueueStep

LEMMA QueueRests == QueueInv /\ UNCHANGED queueVars => QueueInv'
BY DEF queueVars, QueueInv

-----------------------------------------------------------------------------
(* The whole *)

IInv ==
    /\ part \in Parts
    /\ SessionTypeOK /\ BatchInv /\ CatalogInv /\ IntakeInv /\ WatchInv
    /\ ManagerInv /\ MapperInv /\ QueueInv /\ OnboardTypeOK

LEMMA IInvTyped == IInv => TypeOK
BY QueueInvTyped
DEF IInv, TypeOK, BatchInv, CatalogInv, IntakeInv, WatchInv, ManagerInv, MapperInv

LEMMA InitHolds == Init => IInv
BY BatchInitInv, CatalogInitInv, IntakeInitInv, WatchInitInv, ManagerInitInv, MapperInitInv,
   QueueInitInv, OnboardInitTyped
DEF Init, IInv, SessionInit, SessionTypeOK

\* One part is at work, the others rest.
LEMMA NextKeeps == IInv /\ [Next]_vars => IInv'
<1> SUFFICES ASSUME IInv, [Next]_vars PROVE IInv'
  OBVIOUS
<1>1. part' = part
  BY DEF Next, vars
<1>2. BatchInv' /\ SessionTypeOK'
  <2>1. BatchNext \/ UNCHANGED <<sessionVars, batchVars>>
    BY DEF Next, vars
  <2>2. [BatchNext]_allVars
    BY <2>1 DEF allVars
  <2>3. QED
    BY <2>1, <2>2, BatchNextInv, SessionKeeps, SessionRests DEF IInv
<1>3. CatalogInv'
  <2>1. CatalogNext \/ UNCHANGED catalogVars
    BY DEF Next, vars
  <2>2. QED
    BY <2>1, CatalogNextKeeps, CatalogRests DEF IInv
<1>4. IntakeInv'
  <2>1. IntakeNext \/ UNCHANGED intakeVars
    BY DEF Next, vars
  <2>2. QED
    BY <2>1, IntakeNextKeeps, IntakeRests DEF IInv
<1>5. WatchInv'
  <2>1. WatchNext \/ UNCHANGED watchVars
    BY DEF Next, vars
  <2>2. QED
    BY <2>1, WatchNextKeeps, WatchRests DEF IInv
<1>6. ManagerInv'
  <2>1. ManagerNext \/ UNCHANGED managerVars
    BY DEF Next, vars
  <2>2. QED
    BY <2>1, ManagerNextKeeps, ManagerRests DEF IInv
<1>7. MapperInv'
  <2>1. MapperNext \/ UNCHANGED mapperVars
    BY DEF Next, vars
  <2>2. QED
    BY <2>1, MapperNextKeeps, MapperRests DEF IInv
<1>8. QueueInv'
  <2>1. QueueNext \/ UNCHANGED queueVars
    BY DEF Next, vars
  <2>2. QED
    BY <2>1, QueueNextKeeps, QueueRests DEF IInv
<1>9. OnboardTypeOK'
  <2>1. \/ WizardNext /\ UNCHANGED epos
        \/ EposNext
        \/ UNCHANGED onboardVars
    BY DEF Next, vars, onboardVars
  <2>2. QED
    BY <2>1, WizardKeeps, EposKeeps, OnboardRests DEF IInv
<1>10. QED
  BY <1>1, <1>2, <1>3, <1>4, <1>5, <1>6, <1>7, <1>8, <1>9 DEF IInv

\* Whatever part is at work, what it keeps has its type: attempts and slots stay within
\* their limits, a job is in the mail exactly when its order is, the end of a job is told
\* only once it is done, a tenant that counts as healthy is shown as active, an import is
\* under way only on its page.
THEOREM IntegrationsTypeOK == Spec => []TypeOK
<1>1. QED
  BY InitHolds, NextKeeps, IInvTyped, PTL DEF Spec

\* Every loop over a shop's pages, read to its end, has each product that was there from
\* the beginning: loops over positions if none left meanwhile, Shopify's and Uber Eats'
\* in any case - fetchAllProducts and its siblings.
THEOREM CatalogsAreRead == Spec => []SteadyProductsRead
<1>1. IInv => SteadyProductsRead
  BY DEF IInv, CatalogInv
<1>2. QED
  BY <1>1, InitHolds, NextKeeps, PTL DEF Spec

\* The cache of earlier matches never sends a notice to a tenant without an active
\* channel of its identifier - getChannelByExternalId.
THEOREM NoticesGoToOwners == Spec => NoticesFollowChannels
<1> DEFINE Follows == \A d \in Deliveries : owner'[d] # owner[d] =>
                         \E r \in DOMAIN rows : /\ rows[r].tenant = owner'[d] /\ rows[r].active
                                                /\ rows[r].type = notice[d].from
                                                /\ rows[r].ext = notice[d].ext
<1>1. IInv /\ [Next]_vars => [Follows]_intakeVars
  <2> SUFFICES ASSUME IInv, [Next]_vars, intakeVars' # intakeVars PROVE Follows
    OBVIOUS
  <2>1. IntakeNext
    BY DEF Next, vars
  <2>2. QED
    BY <2>1, StepsFollowChannels DEF IInv
<1>2. QED
  BY <1>1, InitHolds, NextKeeps, PTL DEF Spec, NoticesFollowChannels

\* What the part that sets stock levels does is what ChannelBatch's own specification
\* allows, and so within the contract of an update.
THEOREM ProvidersKeepContract == Spec => Contract!Safe
<1>1. IInv /\ [Next]_vars => [Contract!Next]_Contract!vars
  <2> SUFFICES ASSUME IInv, [Next]_vars PROVE [Contract!Next]_Contract!vars
    OBVIOUS
  <2>1. BatchNext \/ UNCHANGED <<sessionVars, batchVars>>
    BY DEF Next, vars
  <2>2. QED
    BY <2>1, BatchRefines DEF IInv, allVars
<1>2. Init => Contract!Init
  BY BatchInitRefines DEF Init
<1>3. QED
  BY <1>1, <1>2, InitHolds, NextKeeps, PTL DEF Spec, Contract!Safe
=============================================================================
