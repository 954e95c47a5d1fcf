-------------------------------- MODULE Billing --------------------------------
(***************************************************************************)
(* Plans: backend/src/routes/billing.ts, the Checkout and portal sessions  *)
(* it opens at Stripe and the events Stripe answers with, which arrive     *)
(* late, twice and in any order, and which the handler acknowledges        *)
(* whether or not it could apply them.                                     *)
(***************************************************************************)
EXTENDS Accounts, Sequences

CONSTANTS
    Plans, Limit,   \* PLAN_CONFIG: Limit[p]
    Subscriptions,
    Customers, Checkouts,
    NoSubscription, NoCustomer

ASSUME BillingAssumption ==
    /\ Limit \in [Plans -> Nat] /\ "trial" \notin Plans
    /\ NoSubscription \notin Subscriptions /\ NoCustomer \notin Customers

ASSUME PlansAssumption == Plans # {}

VARIABLES
    plan,           \* of each tenant: plan, planStatus, planShopLimit, stripeSubscriptionId
    customer,       \* stripeCustomerId
    checkout,       \* create-checkout requests in flight, then the sessions they opened
    subscription,   \* Stripe: what each subscription is
    log, pending,   \* Stripe: the events it has sent, and those to be delivered
    hook,           \* the completed checkouts whose subscription has been retrieved
    muddled,        \* tenants with a completed checkout lost or taken out of turn
    dealings        \* what merchants and Stripe did

billVars == <<plan, customer, checkout, subscription, log, pending, hook, muddled, dealings>>

Statuses == {"trialing", "active", "past_due", "canceled"}
Shown == [plan : Plans \cup {"trial"}, status : Statuses, limit : Range(Limit) \cup {3},
          sub : Subscriptions \cup {NoSubscription}]

Unopened == [at |-> "idle", payer |-> CHOOSE t \in Tenants : TRUE,
             plan |-> CHOOSE p \in Plans : TRUE, customer |-> NoCustomer]
NotSubscribed == [payer |-> CHOOSE t \in Tenants : TRUE, customer |-> NoCustomer,
                  plan |-> CHOOSE p \in Plans : TRUE, status |-> "none"]

BillingTypeOK ==
    /\ plan \in [Tenants -> Shown]
    /\ customer \in [Tenants -> Customers \cup {NoCustomer}]
    /\ checkout \in [Checkouts -> [at : {"idle", "customer", "open"}, payer : Tenants, plan : Plans,
                                   customer : Customers \cup {NoCustomer}]]
    /\ subscription \in [Subscriptions -> [payer : Tenants, customer : Customers \cup {NoCustomer},
                                           plan : Plans, status : Statuses \cup {"none"}]]
    /\ \A i \in DOMAIN log :
            log[i] \in [type : {"completed", "updated", "deleted", "payment_failed"},
                        sub : Subscriptions, plan : Plans, status : Statuses]
    /\ pending \subseteq DOMAIN log
    /\ \A h \in hook : h.event \in DOMAIN log /\ h.plan \in Plans
    /\ muddled \subseteq Tenants /\ dealings \in Nat

BillingInit ==
    /\ plan = [t \in Tenants |-> [plan |-> "trial", status |-> "trialing", limit |-> 3, sub |-> NoSubscription]]
    /\ customer = [t \in Tenants |-> NoCustomer]
    /\ checkout = [k \in Checkouts |-> Unopened]
    /\ subscription = [s \in Subscriptions |-> NotSubscribed]
    /\ log = <<>> /\ pending = {} /\ hook = {} /\ muddled = {} /\ dealings = 0

-----------------------------------------------------------------------------
(* Checkout and portal *)

Owned == {customer[t] : t \in Tenants} \cup {checkout[k].customer : k \in Checkouts}
            \cup {subscription[s].customer : s \in Subscriptions}

\* POST /billing/create-checkout: a tenant without a customer gets one at Stripe,
\* in the name of its owner.
CheckoutReads(k, t, p) ==
    /\ checkout[k].at = "idle" /\ t \in sessions
    /\ \E e \in DOMAIN user : user[e].tenant = t
    /\ dealings' = dealings + 1
    /\ IF customer[t] # NoCustomer
       THEN checkout' = [checkout EXCEPT ![k] =
                [at |-> "open", payer |-> t, plan |-> p, customer |-> customer[t]]]
       ELSE \E c \in Customers \ Owned :
                checkout' = [checkout EXCEPT ![k] =
                    [at |-> "customer", payer |-> t, plan |-> p, customer |-> c]]
    /\ UNCHANGED <<plan, customer, subscription, log, pending, hook, muddled>>

\* Its id is stored and the session opened, with the tenant in the session's
\* metadata and not in the subscription's.
CustomerStored(k) ==
    /\ checkout[k].at = "customer"
    /\ customer' = [customer EXCEPT ![checkout[k].payer] = checkout[k].customer]
    /\ checkout' = [checkout EXCEPT ![k].at = "open"]
    /\ UNCHANGED <<plan, subscription, log, pending, hook, muddled, dealings>>

\* A call to Stripe or the database fails, or the merchant leaves the page.
CheckoutEnds(k) ==
    /\ checkout[k].at # "idle"
    /\ checkout' = [checkout EXCEPT ![k] = Unopened]
    /\ UNCHANGED <<plan, customer, subscription, log, pending, hook, muddled, dealings>>

Sends(events) ==
    /\ log' = log \o events
    /\ pending' = pending \cup (Len(log) + 1 .. Len(log) + Len(events))

Event(type, s, to) == [type |-> type, sub |-> s, plan |-> to.plan, status |-> to.status]

\* The merchant pays.
Paid(k, s) ==
    LET new == [payer |-> checkout[k].payer, customer |-> checkout[k].customer,
                plan |-> checkout[k].plan, status |-> "active"] IN
    /\ checkout[k].at = "open" /\ subscription[s].status = "none"
    /\ subscription' = [subscription EXCEPT ![s] = new]
    /\ checkout' = [checkout EXCEPT ![k] = Unopened]
    /\ Sends(<<Event("completed", s, new)>>)
    /\ UNCHANGED <<plan, customer, hook, muddled, dealings>>

Live(s) == subscription[s].status \in {"active", "past_due"}

\* POST /billing/portal: the merchant changes plan or cancels, on the customer
\* the tenant is known by.
PortalUsed(s, p, status) ==
    LET new == [subscription[s] EXCEPT !.plan = p, !.status = status] IN
    /\ Live(s) /\ new # subscription[s] /\ (status = "canceled" => p = subscription[s].plan)
    /\ customer[subscription[s].payer] = subscription[s].customer
    /\ dealings' = dealings + 1
    /\ subscription' = [subscription EXCEPT ![s] = new]
    /\ Sends(<<Event(IF status = "canceled" THEN "deleted" ELSE "updated", s, new)>>)
    /\ UNCHANGED <<plan, customer, checkout, hook, muddled>>

\* A renewal fails.
RenewalFails(s) ==
    LET new == [subscription[s] EXCEPT !.status = "past_due"] IN
    /\ subscription[s].status = "active"
    /\ dealings' = dealings + 1
    /\ subscription' = [subscription EXCEPT ![s] = new]
    /\ Sends(<<Event("payment_failed", s, new), Event("updated", s, new)>>)
    /\ UNCHANGED <<plan, customer, checkout, hook, muddled>>

\* Stripe sends an event again that it has no answer for.
Resent(i) ==
    /\ i \in DOMAIN log \ pending
    /\ dealings' = dealings + 1
    /\ pending' = pending \cup {i}
    /\ UNCHANGED <<plan, customer, checkout, subscription, log, hook, muddled>>

-----------------------------------------------------------------------------
(* POST /webhooks/stripe *)

PayerOf(i) == subscription[log[i].sub].payer
Unapplied == pending \cup {h.event : h \in hook}
Completions(t) == {i \in DOMAIN log : log[i].type = "completed" /\ PayerOf(i) = t}
TakenUp(i) == i \notin pending \/ \E h \in hook : h.event = i

\* A completed checkout taken up while an earlier one of its tenant is not done
\* with, or after a later one, leaves the tenant with whichever came last.
Muddles(i) ==
    muddled' = muddled \cup
        {t \in {PayerOf(i)} : \E j \in Completions(t) :
                                (j < i /\ j \in Unapplied) \/ (j > i /\ TakenUp(j))}

\* checkout.session.completed: the subscription is retrieved as it is now.
CompletedArrives(i) ==
    /\ i \in pending /\ log[i].type = "completed"
    /\ hook' = hook \cup {[event |-> i, plan |-> subscription[log[i].sub].plan]}
    /\ pending' = pending \ {i}
    /\ Muddles(i)
    /\ UNCHANGED <<plan, customer, checkout, subscription, log, dealings>>

\* Mutant of CompletedApplied: the number of shops is not written.
MutKeepsLimit(h) ==
    /\ hook' = hook \ {h}
    /\ plan' = [plan EXCEPT ![PayerOf(h.event)] =
                    [@ EXCEPT !.plan = h.plan, !.status = "active", !.sub = log[h.event].sub]]
    /\ UNCHANGED <<customer, checkout, subscription, log, pending, muddled, dealings>>

\* The tenant of the session's metadata is updated.
CompletedApplied(h) ==
    /\ hook' = hook \ {h}
    /\ plan' = [plan EXCEPT ![PayerOf(h.event)] =
                    [plan |-> h.plan, status |-> "active", limit |-> Limit[h.plan], sub |-> log[h.event].sub]]
    /\ UNCHANGED <<customer, checkout, subscription, log, pending, muddled, dealings>>

\* customer.subscription.updated, .deleted and invoice.payment_failed look for a
\* tenantId in the metadata of the subscription or the invoice, where
\* create-checkout puts none: each breaks off.
EventUntagged(i) ==
    /\ i \in pending /\ log[i].type # "completed"
    /\ pending' = pending \ {i}
    /\ UNCHANGED <<plan, customer, checkout, subscription, log, hook, muddled, dealings>>

\* The retrieval or the update fails, and the event is acknowledged all the same.
EventLost(i) ==
    /\ i \in Unapplied /\ log[i].type = "completed"
    /\ pending' = pending \ {i} /\ hook' = {h \in hook : h.event # i}
    /\ muddled' = muddled \cup {PayerOf(i)}
    /\ UNCHANGED <<plan, customer, checkout, subscription, log, dealings>>

BillingNext ==
    \/ \E k \in Checkouts :
        \/ \E t \in Tenants, p \in Plans : CheckoutReads(k, t, p)
        \/ CustomerStored(k) \/ CheckoutEnds(k)
        \/ \E s \in Subscriptions : Paid(k, s)
    \/ \E s \in Subscriptions :
        \/ \E p \in Plans, st \in {"active", "canceled"} : PortalUsed(s, p, st)
        \/ RenewalFails(s)
    \/ \E i \in DOMAIN log :
        \/ Resent(i) \/ CompletedArrives(i) \/ EventUntagged(i) \/ EventLost(i)
    \/ \E h \in hook : CompletedApplied(h)

-----------------------------------------------------------------------------

\* What the tenant shows is subscription log[i].sub, on a plan it had since it was paid.
Serves(t, i) ==
    /\ plan[t].sub = log[i].sub /\ plan[t].status = "active"
    /\ plan[t].limit = Limit[plan[t].plan]
    /\ \E j \in DOMAIN log : log[j].sub = log[i].sub /\ log[j].plan = plan[t].plan

\* A merchant has what the last checkout paid for, active and with the shops of its
\* plan, once that event has been handled: however many checkouts ran side by side,
\* whatever was sent twice or late, and whatever happened to the subscriptions
\* since, whose other events never reach the tenant.  Excepted are tenants of whom
\* a completed checkout was lost or handled out of turn.  (stripeWebhookRoutes)
PaidIsServed ==
    \A t \in Tenants \ muddled : \A i \in Completions(t) :
        (\A j \in Completions(t) : j <= i) /\ i \notin Unapplied => Serves(t, i)
=============================================================================
