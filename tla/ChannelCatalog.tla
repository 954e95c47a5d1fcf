----------------------------- MODULE ChannelCatalog -----------------------------
(***************************************************************************)
(* Reading a shop's catalog: the clients' loops over pages, while the shop *)
(* adds products and drops them, and what a provider makes of the stock of *)
(* a product it read.                                                      *)
(***************************************************************************)
EXTENDS Integers, FiniteSets, FiniteSetsExt

CONSTANTS
    Products,   \* products by id, a set of numbers: shops list them in this order
    Shelf,      \* of each product: [tracked, level, available]
    PageSize

ASSUME ProductsAreNumbers == Products \subseteq Nat \ {0} /\ IsFiniteSet(Products)
ASSUME ShelfOfEach ==
    Shelf \in [Products -> [tracked : BOOLEAN, level : Nat, available : BOOLEAN]]
ASSUME PagesHoldSome == PageSize \in Nat \ {0}

\* The loops of the clients; Wix and WooCommerce have more than one.
Readers == {"eposnow", "wix", "wix_inventory", "deliveroo", "shopify", "woocommerce",
            "woocommerce_variations", "uber_eats"}

VARIABLES
    catalog,   \* the products the shop has
    reader,    \* which loop runs
    reading,   \* "no", "yes", "done" or "threw"
    position,        \* where the next page begins: an offset, or for Shopify the last id read
    got,       \* the products read, with the quantity made of each
    steady,    \* products that have been there since the reading began
    dropped    \* whether a product left while the reading went on

catalogVars == <<catalog, reader, reading, position, got, steady, dropped>>

Quantities == {-1} \cup Nat

CatalogTypeOK ==
    /\ catalog \subseteq Products /\ steady \subseteq catalog
    /\ reader \in Readers
    /\ reading \in {"no", "yes", "done", "threw"}
    /\ position \in Nat
    /\ \A g \in got : g.product \in Products /\ g.quantity \in Quantities
    /\ dropped \in BOOLEAN

CatalogInit ==
    /\ catalog \in SUBSET Products
    /\ reader \in Readers /\ reading = "no" /\ position = 0 /\ got = {} /\ steady = {}
    /\ dropped = FALSE

-----------------------------------------------------------------------------
\* What each channel's transformation makes of the stock of a product; -1 is "not tracked".
EposnowQuantity(p) == Shelf[p].level
WixQuantity(p) == IF Shelf[p].tracked THEN Shelf[p].level ELSE -1
OtterQuantity(p) ==
    CASE Shelf[p].tracked -> Shelf[p].level
      [] ~Shelf[p].tracked /\ Shelf[p].available -> -1
      [] OTHER -> 0
ShopifyQuantity(p) == Shelf[p].level
WooCommerceQuantity(p) == IF Shelf[p].tracked THEN Shelf[p].level ELSE 0
VariationQuantity(p) == IF Shelf[p].tracked THEN Shelf[p].level ELSE 0
UberEatsQuantity(p) == IF Shelf[p].available THEN 1 ELSE 0

Quantity(p) ==
    CASE reader = "eposnow" -> EposnowQuantity(p)
      [] reader \in {"wix", "wix_inventory"} -> WixQuantity(p)
      [] reader = "deliveroo" -> OtterQuantity(p)
      [] reader = "shopify" -> ShopifyQuantity(p)
      [] reader = "woocommerce" -> WooCommerceQuantity(p)
      [] reader = "woocommerce_variations" -> VariationQuantity(p)
      [] reader = "uber_eats" -> UberEatsQuantity(p)

-----------------------------------------------------------------------------
StartsReading ==
    /\ reading = "no"
    /\ reading' = "yes" /\ steady' = catalog
    /\ UNCHANGED <<catalog, reader, position, got, dropped>>

\* The place of a product in the shop's list of a set of them, from 1 on.
Place(p, S) == Cardinality({q \in S : q <= p})

\* The PageSize products of a set that follow its first offset ones.
Slice(S, offset) == {p \in S : Place(p, S) \in (offset + 1) .. (offset + PageSize)}

Page(offset) == Slice(catalog, offset)

\* One page is appended; the loop goes on from next, or ends.
Appends(page, next, hasMore) ==
    /\ reading = "yes"
    /\ got' = got \cup {[product |-> p, quantity |-> Quantity(p)] : p \in page}
    /\ position' = next
    /\ reading' = IF hasMore THEN "yes" ELSE "done"
    /\ UNCHANGED <<catalog, reader, steady, dropped>>

\* page and meta.total; without meta a full page means there is another.
EposnowPage ==
    /\ reader = "eposnow"
    /\ \E hasMore \in {position + PageSize < Cardinality(catalog),
                       Cardinality(Page(position)) = PageSize} :
          Appends(Page(position), position + PageSize, hasMore)

\* The shop says whether there is another page.
HasNext == position + PageSize < Cardinality(catalog)

WixPage == reader = "wix" /\ Appends(Page(position), position + PageSize, HasNext)

\* getInventory, and getInventoryV3 for shops on the new catalog.
WixInventoryPage == reader = "wix_inventory" /\ Appends(Page(position), position + PageSize, HasNext)

OtterPage == reader = "deliveroo" /\ Appends(Page(position), position + PageSize, HasNext)

\* Mutant of ShopifyPage: the next page is asked for from the id after the last one on.
MutShopifyPage ==
    /\ reader = "shopify"
    /\ LET page == Slice({p \in catalog : p > position}, 0)
       IN Appends(page, IF page = {} THEN position ELSE Max(page) + 1, Cardinality(page) = PageSize)

\* The next products after the last id read.
ShopifyPage ==
    /\ reader = "shopify"
    /\ LET page == Slice({p \in catalog : p > position}, 0)
       IN Appends(page, IF page = {} THEN position ELSE Max(page), Cardinality(page) = PageSize)

\* The number of pages is looked for in the request defaults, where no answer puts it:
\* the first page is the last.
WooCommercePage == reader = "woocommerce" /\ Appends(Page(position), position + PageSize, FALSE)

VariationsPage ==
    /\ reader = "woocommerce_variations"
    /\ Appends(Page(position), position + PageSize, Cardinality(Page(position)) = PageSize)

\* The whole menu in one answer.
UberEatsMenu == reader = "uber_eats" /\ Appends(catalog, 0, FALSE)

\* A page that fails Retries times over fails the reading.
PageFails ==
    /\ reading = "yes"
    /\ reading' = "threw"
    /\ UNCHANGED <<catalog, reader, position, got, steady, dropped>>

-----------------------------------------------------------------------------
\* The shop's own doings.
ShopAdds(p) ==
    /\ reading = "yes" /\ p \in Products \ catalog
    /\ catalog' = catalog \cup {p}
    /\ UNCHANGED <<reader, reading, position, got, steady, dropped>>

ShopDrops(p) ==
    /\ reading = "yes" /\ p \in catalog
    /\ catalog' = catalog \ {p} /\ steady' = steady \ {p} /\ dropped' = TRUE
    /\ UNCHANGED <<reader, reading, position, got>>

CatalogNext ==
    \/ StartsReading \/ EposnowPage \/ WixPage \/ WixInventoryPage \/ OtterPage
    \/ ShopifyPage \/ WooCommercePage \/ VariationsPage \/ UberEatsMenu \/ PageFails
    \/ \E p \in Products : ShopAdds(p) \/ ShopDrops(p)

-----------------------------------------------------------------------------
\* Loops a product can slip through when one before it leaves.
CountsPositions ==
    reader \in {"eposnow", "wix", "wix_inventory", "deliveroo", "woocommerce_variations"}

(***************************************************************************)
(* A catalog read to its end has every product that was in the shop all    *)
(* the while - fetchAllProducts and its siblings.  Loops that count        *)
(* positions promise it only while no product leaves the shop; Shopify's,  *)
(* which goes on from the last id, and Uber Eats' single answer promise it *)
(* regardless.  WooCommerce's reads the first page only and promises       *)
(* nothing beyond it.                                                      *)
(***************************************************************************)
SteadyProductsRead ==
    reading = "done" /\ reader # "woocommerce" /\ (CountsPositions => ~dropped)
        => steady \subseteq {g.product : g \in got}
=============================================================================
