-------------------------------- MODULE Tenancy --------------------------------
(***************************************************************************)
(* Accounts, shops, products and plans together, as the backend serves     *)
(* them: shops, products and checkouts need a session, installations make  *)
(* tenants and users, a deleted channel takes its mappings with it.        *)
(***************************************************************************)
EXTENDS ProductRoutes, Billing

\* How much may happen in a run: requests of Accounts, of Shops, of
\* ProductRoutes, dealings of Billing.
CONSTANT Budgets

ASSUME BudgetAssumption == Budgets \subseteq [accounts : Nat, shops : Nat, products : Nat, billing : Nat]

VARIABLE budget

vars == <<accountVars, shopVars, productVars, billVars, gone, budget>>

TypeOK == AccountsTypeOK /\ ShopsTypeOK /\ ProductTypeOK /\ BillingTypeOK
          /\ gone \in [channel : SUBSET Channels, product : SUBSET Products, mapping : SUBSET Mappings] /\ budget \in Budgets

Init == AccountsInit /\ ShopsInit /\ ProductInit /\ BillingInit /\ budget \in Budgets

WithinBudget ==
    /\ begun' <= budget.accounts /\ asked' <= budget.shops /\ wanted' <= budget.products
    /\ dealings' <= budget.billing
    /\ UNCHANGED budget

\* An id whose row was deleted is given to no other row.
Lost(table) == DOMAIN table \ DOMAIN table'
Retires == gone' = [channel |-> gone.channel \cup Lost(channel),
                    product |-> gone.product \cup Lost(product),
                    mapping |-> gone.mapping \cup Lost(mapping)]

Next ==
    /\ \/ AccountsNext /\ UNCHANGED <<shopVars, productVars, billVars>>
       \/ ShopsNext /\ ChannelsCascade /\ UNCHANGED <<product, request, syncQueue, wanted, billVars>>
       \/ ProductNext /\ UNCHANGED <<accountVars, shopVars, billVars>>
       \/ BillingNext /\ UNCHANGED <<accountVars, shopVars, productVars>>
    /\ Retires
    /\ WithinBudget

Spec == Init /\ [][Next]_vars
=============================================================================
