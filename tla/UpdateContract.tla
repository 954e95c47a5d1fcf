----------------------------- MODULE UpdateContract -----------------------------
(***************************************************************************)
(* What an InventoryProvider owes to whoever asks it to set stock levels:  *)
(* an item is told of at most once, as a success or as an error; a success *)
(* is told only of an item whose new level the shop has taken; and what is *)
(* never told of has its excuse, which differs by platform.  An error      *)
(* promises nothing: the shop may have taken the level, or take it later.  *)
(***************************************************************************)
CONSTANTS Items, ShopIds, NoId

VARIABLES
    kind,    \* the platform
    asked,   \* the items of the operation, once it runs
    names,   \* the product each of them names
    taken,   \* the items whose new level the shop has
    told     \* what the caller has been told of each item: "nothing" yet, or "never" will be

vars == <<kind, asked, names, taken, told>>

Untold == {i \in asked : told[i] = "nothing"}

Init ==
    /\ asked = {} /\ taken = {}
    /\ names = [i \in Items |-> NoId]
    /\ told = [i \in Items |-> "nothing"]

\* Wix's batch passes over updates that name no product.
Ask(S, skipped) ==
    /\ asked = {} /\ S # {}
    /\ asked' = S
    /\ names' \in [Items -> ShopIds \cup {NoId}]
    /\ skipped # {} => kind = "wix" /\ \A i \in skipped : names'[i] = NoId
    /\ told' = [i \in Items |-> IF i \in skipped THEN "never" ELSE told[i]]
    /\ UNCHANGED <<kind, taken>>

Take(i) ==
    /\ i \in asked \ taken
    /\ taken' = taken \cup {i}
    /\ UNCHANGED <<kind, asked, names, told>>

\* Eposnow may refuse a batch as a whole, before anything was told of it; at Wix the
\* updates of a product end with the first that fails; Otter's answer to a batch, which
\* ends the operation, may leave items out; at the others there is no excuse.
Excused(good, failed, never) ==
    \/ never = {}
    \/ kind = "eposnow" /\ never = asked
    \/ kind = "wix" /\ \A i \in never : \E j \in failed : names[j] = names[i]
    \/ kind = "deliveroo" /\ good \cup failed \cup never = asked

\* Of good, failed and never, sets of untold items apart from each other.
Tell(good, failed, never) ==
    /\ Excused(good, failed, never)
    /\ told' = [i \in Items |-> IF i \in good THEN "success"
                                ELSE IF i \in failed THEN "error"
                                ELSE IF i \in never THEN "never" ELSE told[i]]
    /\ UNCHANGED <<kind, asked, names, taken>>

Next ==
    \/ \E S \in SUBSET Items : \E skipped \in SUBSET S : Ask(S, skipped)
    \/ \E i \in Items : Take(i)
    \/ \E good \in SUBSET (Untold \cap taken) : \E failed \in SUBSET (Untold \ good) :
         \E never \in SUBSET (Untold \ (good \cup failed)) : Tell(good, failed, never)

Safe == Init /\ [][Next]_vars

\* Of each item that is asked for the caller is told in the end, or never for one of the
\* excuses; then the operation is over.
Spec == Safe /\ []<>(Untold = {})
=============================================================================
