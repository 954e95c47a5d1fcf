----------------------------- MODULE MCIntegrations -----------------------------
EXTENDS Integrations

CONSTANTS k1, k2, i1, i2, q1, q2

\* Of one product, of two, and one update that names none.
MCNamings == {[i \in Items |-> IF i = i1 THEN q1 ELSE p] : p \in {q1, q2, NoId}}

MCShelf == [p \in Products |-> [tracked |-> p # 2, level |-> p, available |-> p # 3]]

Line(i, n) == [item |-> i, quantity |-> n]

Note(from, ext, about, lines, valid) ==
    [from |-> from, ext |-> ext, about |-> about, lines |-> lines, valid |-> valid]

\* A notice of each platform; one that nobody can read and one that names no channel.
MCNotices ==
    {Note("wix", "site", "orders.created", <<Line("x", 1), Line("y", 2)>>, TRUE),
     Note("wix", "site", "inventory.updated", <<>>, FALSE),
     Note("eposnow", "", "stock.updated", <<Line("x", 1)>>, TRUE),
     Note("deliveroo", "store", "item.availability_changed", <<Line("x", 1)>>, TRUE),
     Note("shopify", "shop", "orders/create", <<Line("x", 1), Line("y", 1)>>, TRUE),
     Note("woocommerce", "url", "order.completed", <<Line("x", 1), Line("y", 1)>>, TRUE),
     Note("uber_eats", "store", "orders.notification", <<>>, TRUE)}

Heard(i, n) == [item |-> i, quantity |-> n, tracked |-> n # 2]

MCWebhooks ==
    {[channel |-> "eposnow", form |-> "sale", hint |-> "none", lines |-> <<Heard("x", 1), Heard("x", 1)>>],
     [channel |-> "eposnow", form |-> "level", hint |-> "restock", lines |-> <<Heard("y", 2)>>],
     [channel |-> "wix", form |-> "product", hint |-> "none", lines |-> <<Heard("x", 1), Heard("y", 2)>>],
     [channel |-> "deliveroo", form |-> "availability", hint |-> "none", lines |-> <<Heard("y", 0)>>],
     [channel |-> "other", form |-> "sale", hint |-> "none", lines |-> <<Heard("x", 1)>>]}

Item(id, sku, barcode, name) == [id |-> id, sku |-> sku, barcode |-> barcode, name |-> name]

\* Names that differ by one letter of three (like enough), by two, in length, or are missing.
MCListings ==
    {<<Item("p1", "s", Nothing, <<"t", "e", "a">>), Item("p2", Nothing, "b", <<>>)>>,
     <<Item("p1", Nothing, "b", <<"t", "e", "e">>), Item("p2", "s", Nothing, <<"t", "e", "a", "s">>)>>,
     <<Item("p1", Nothing, Nothing, <<"m", "u", "g">>), Item("p2", "r", "c", <<"a", "t", "e">>)>>}

MCMixes == {[j \in Jobs |-> IF j = k1 THEN "sync" ELSE kind2] : kind2 \in {"webhook", "alert"}}
=============================================================================
