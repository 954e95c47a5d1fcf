--------------------------------- MODULE Shops ---------------------------------
(***************************************************************************)
(* The shops of the tenants: backend/src/routes/channels.ts with its OAuth *)
(* flows, wix-marketplace.ts and eposnow-appstore.ts, which provision a    *)
(* tenant, its owner and a channel without a transaction.                  *)
(*                                                                         *)
(* A handler is a slot that advances by one action per await.  The channel *)
(* of an installation is found by external_instance_id, which no           *)
(* constraint makes unique.                                                *)
(***************************************************************************)
EXTENDS Accounts

CONSTANTS
    Channels,       \* ids of rows
    Instances,      \* Wix sites, Shopify shops, tills
    Flows,          \* state tokens of OAuth flows
    Handlers,
    NoInstance, NoFlow, NoChannel

ASSUME ShopAssumption ==
    /\ NoInstance \notin Instances /\ NoFlow \notin Flows /\ NoChannel \notin Channels

VARIABLES
    channel,        \* the channels table
    oauth,          \* oauth:state:* in Redis
    handler,        \* handlers in flight
    starter,        \* the tenant each flow was begun for
    made,           \* how many channels each flow has made
    removed,        \* instances whose app was removed with nothing begun since
    asked,          \* requests begun
    gone            \* ids of deleted rows, by table: none is given out twice

shopVars == <<channel, oauth, handler, starter, made, removed, asked>>

Providers == {"wix", "shopify", "uber_eats"}
Types == Providers \cup {"eposnow"}    \* deliveroo and woocommerce are made as eposnow is

Resting == [at |-> "idle", tenant |-> NoTenant, instance |-> NoInstance, flow |-> NoFlow,
            type |-> "wix", found |-> NoChannel]

ShopsTypeOK ==
    /\ DOMAIN channel \subseteq Channels
    /\ \A x \in DOMAIN channel :
            channel[x] \in [tenant : tenants, type : Types, instance : Instances \cup {NoInstance},
                            active : BOOLEAN, flow : Flows \cup {NoFlow}]
    /\ DOMAIN oauth \subseteq Flows /\ DOMAIN starter \subseteq Flows
    /\ \A f \in DOMAIN oauth : oauth[f] \in tenants
    /\ handler \in [Handlers -> [at : {"idle", "take", "exchange", "write", "site", "owner", "insert"},
                                 tenant : Tenants \cup {NoTenant}, instance : Instances \cup {NoInstance},
                                 flow : Flows \cup {NoFlow}, type : Types,
                                 found : Channels \cup {NoChannel}]]
    /\ \A f \in DOMAIN starter : starter[f] \in tenants
    /\ made \in [Flows -> Nat] /\ removed \subseteq Instances /\ asked \in Nat

ShopsInit ==
    /\ channel = <<>> /\ oauth = <<>> /\ starter = <<>>
    /\ handler = [h \in Handlers |-> Resting]
    /\ made = [f \in Flows |-> 0] /\ removed = {} /\ asked = 0 /\ gone = [channel |-> {}, product |-> {}, mapping |-> {}]

Signed == sessions      \* authenticateRequest: the tenants with a token

Goes(h, to) == handler' = [handler EXCEPT ![h] = to]
Rests(h) == Goes(h, Resting)
Begins == asked' = asked + 1

Row(t, type, i, f) == [tenant |-> t, type |-> type, instance |-> i, active |-> TRUE, flow |-> f]

Unused == Channels \ (DOMAIN channel \cup gone.channel)

\* db.insert(channels): the id is new, nothing else need be.
Inserts(row) ==
    Unused # {} /\ channel' = WithRow(channel, CHOOSE x \in Unused : TRUE, row)

\* Activity for an instance begins: what its removal promised no longer holds.
Revives(i) == removed' = removed \ {i}

-----------------------------------------------------------------------------
(* /channels *)

\* POST /channels looks neither for a channel that exists nor at the plan's limit.
CreateChannel(t, type, i) ==
    /\ t \in Signed
    /\ Begins
    /\ Inserts(Row(t, type, i, NoFlow))
    /\ Revives(i)
    /\ UNCHANGED <<oauth, handler, starter, made>>

\* POST /marketplace/eposnow/connect, once the till's credentials were accepted.
EposConnect(t, i) ==
    /\ t \in Signed
    /\ Begins
    /\ Inserts(Row(t, "eposnow", i, NoFlow))
    /\ UNCHANGED <<oauth, handler, starter, made, removed>>

\* PATCH /channels/:id, of the tenant's own.
PatchChannel(t, x, active) ==
    /\ t \in Signed /\ x \in DOMAIN channel /\ channel[x].tenant = t
    /\ Begins
    /\ channel' = [channel EXCEPT ![x].active = active]
    /\ Revives(channel[x].instance)
    /\ UNCHANGED <<oauth, handler, starter, made>>

\* DELETE /channels/:id
DeleteChannel(t, x) ==
    /\ t \in Signed /\ x \in DOMAIN channel /\ channel[x].tenant = t
    /\ Begins
    /\ channel' = Restrict(channel, DOMAIN channel \ {x})
    /\ UNCHANGED <<oauth, handler, starter, made, removed>>

-----------------------------------------------------------------------------
(* OAuth *)

\* setOAuthState: the tenant and the time, and not the provider.
SetOAuthState(f, t) ==
    /\ oauth' = WithRow(oauth, f, t)
    /\ starter' = WithRow(starter, f, t)

\* GET /channels/{wix,shopify,uber-eats}/oauth-start, which differ in the URL answered.
OAuthStart(f, t) ==
    /\ t \in Signed /\ f \notin DOMAIN starter
    /\ SetOAuthState(f, t)
    /\ Begins
    /\ UNCHANGED <<channel, handler, made, removed>>

\* Ten minutes later.
StateExpires(f) ==
    /\ f \in DOMAIN oauth
    /\ oauth' = Restrict(oauth, DOMAIN oauth \ {f})
    /\ Begins
    /\ UNCHANGED <<channel, handler, starter, made, removed>>

\* A provider sends the merchant back: hasOAuthState.  The browser may ask twice,
\* and no callback asks for which provider the state was made.  Uber Eats has no
\* instance; a Wix token may name none.
CallbackChecks(h, f, type, i) ==
    /\ handler[h].at = "idle" /\ f \in DOMAIN oauth
    /\ type = "uber_eats" => i = NoInstance
    /\ type = "shopify" => i # NoInstance
    /\ Begins
    /\ Goes(h, [Resting EXCEPT !.at = "take", !.flow = f, !.type = type, !.instance = i])
    /\ Revives(i)
    /\ UNCHANGED <<channel, oauth, starter, made>>

\* Mutant of CallbackTakes: the state is read and left.
MutStateStays(h) ==
    LET f == handler[h].flow IN
    /\ handler[h].at = "take"
    /\ UNCHANGED oauth
    /\ Goes(h, [handler[h] EXCEPT !.at = "exchange",
                                  !.tenant = IF f \in DOMAIN oauth THEN oauth[f] ELSE NoTenant])
    /\ UNCHANGED <<channel, starter, made, removed, asked>>

\* getOAuthState: GET and DEL on the one connection.  The state may be gone, and
\* the null is taken for the tenant's data.
CallbackTakes(h) ==
    LET f == handler[h].flow IN
    /\ handler[h].at = "take"
    /\ oauth' = Restrict(oauth, DOMAIN oauth \ {f})
    /\ Goes(h, [handler[h] EXCEPT !.at = "exchange",
                                  !.tenant = IF f \in DOMAIN oauth THEN oauth[f] ELSE NoTenant])
    /\ UNCHANGED <<channel, starter, made, removed, asked>>

\* The code has been exchanged and a channel is inserted for the tenant of the
\* state; without one this throws, after the exchange.
Connected(h) ==
    LET r == handler[h] IN
    IF r.tenant = NoTenant THEN UNCHANGED <<channel, made>>
    ELSE /\ Inserts(Row(r.tenant, r.type, r.instance, r.flow))
         /\ made' = [made EXCEPT ![r.flow] = @ + 1]

\* The public callbacks; the one inside channelRoutes is behind the JWT check.
WixCallback(h) == handler[h].type = "wix" /\ Connected(h)
ShopifyCallback(h) == handler[h].type = "shopify" /\ Connected(h)
UberEatsCallback(h) == handler[h].type = "uber_eats" /\ Connected(h)

CallbackInserts(h) ==
    /\ handler[h].at = "exchange"
    /\ WixCallback(h) \/ ShopifyCallback(h) \/ UberEatsCallback(h)
    /\ Rests(h)
    /\ UNCHANGED <<oauth, starter, removed, asked>>

-----------------------------------------------------------------------------
(* Wix installations *)

WixChannels(i) == {x \in DOMAIN channel : channel[x].type = "wix" /\ channel[x].instance = i}

\* POST /channels/wix/basic-auth: the tenant's channel for the instance is looked for.
BasicAuthFinds(h, t, i) ==
    /\ handler[h].at = "idle" /\ t \in Signed
    /\ Begins /\ Revives(i)
    /\ LET own == {x \in WixChannels(i) : channel[x].tenant = t} IN
       IF own = {} THEN Goes(h, [Resting EXCEPT !.at = "write", !.tenant = t, !.instance = i])
       ELSE \E x \in own : Goes(h, [Resting EXCEPT !.at = "write", !.tenant = t, !.instance = i, !.found = x])
    /\ UNCHANGED <<channel, oauth, starter, made>>

\* It is updated, unless it has gone meanwhile, or a new one inserted.
BasicAuthWrites(h) ==
    LET r == handler[h] IN
    /\ r.at = "write"
    /\ Rests(h)
    /\ IF r.found = NoChannel THEN Inserts(Row(r.tenant, "wix", r.instance, NoFlow))
       ELSE channel' = [x \in DOMAIN channel |->
                            IF x = r.found THEN [channel[x] EXCEPT !.active = TRUE] ELSE channel[x]]
    /\ UNCHANGED <<oauth, starter, made, removed, asked>>

\* POST /marketplace/wix/install: a channel of any tenant is reactivated.
InstallFinds(h, i) ==
    /\ handler[h].at = "idle"
    /\ Begins /\ Revives(i)
    /\ IF WixChannels(i) = {} THEN Goes(h, [Resting EXCEPT !.at = "site", !.instance = i])
       ELSE \E x \in WixChannels(i) : Goes(h, [Resting EXCEPT !.at = "write", !.instance = i, !.found = x])
    /\ UNCHANGED <<channel, oauth, starter, made>>

\* Otherwise a tenant is created, of a slug with the time in it.
InstallMakesTenant(h, t) ==
    /\ handler[h].at = "site" /\ t \notin tenants
    /\ tenants' = tenants \cup {t}
    /\ Goes(h, [handler[h] EXCEPT !.at = "owner", !.tenant = t])
    /\ UNCHANGED <<channel, oauth, starter, made, removed, asked, user, link, call, dead, sessions, begun>>

\* An owner without a password, if Wix names one and the address is not taken;
\* an insert that loses a race throws, and the tenant stays without an owner.
InstallMakesOwner(h, e) ==
    /\ handler[h].at = "owner"
    /\ IF e \in DOMAIN user THEN UNCHANGED user
       ELSE user' = WithRow(user, e, [tenant |-> handler[h].tenant, hash |-> NoPassword, onboarded |-> FALSE])
    /\ Goes(h, [handler[h] EXCEPT !.at = "insert"])
    /\ UNCHANGED <<channel, oauth, starter, made, removed, asked, tenants, link, call, dead, sessions, begun>>

\* The channel, whether or not Wix gave credentials.
InstallMakesChannel(h) ==
    /\ handler[h].at = "insert"
    /\ Inserts(Row(handler[h].tenant, "wix", handler[h].instance, NoFlow))
    /\ Rests(h)
    /\ UNCHANGED <<oauth, starter, made, removed, asked>>

\* GET /marketplace/wix/dashboard shows one of these; without one, the set-up page.
DashboardShops(i) == {x \in WixChannels(i) : channel[x].active}

Busy(i) == \E h \in Handlers : handler[h].at # "idle" /\ handler[h].instance = i

\* Mutant of Uninstall: the first channel of the instance is switched off.
MutFirstOnly(i) ==
    /\ Begins
    /\ channel' = [x \in DOMAIN channel |->
                    IF x \in WixChannels(i) /\ x = CHOOSE y \in WixChannels(i) : TRUE
                    THEN [channel[x] EXCEPT !.active = FALSE] ELSE channel[x]]
    /\ removed' = IF Busy(i) THEN removed ELSE removed \cup {i}
    /\ UNCHANGED <<oauth, handler, starter, made>>

\* POST /marketplace/wix/uninstall: every channel of the instance is switched off.
Uninstall(i) ==
    /\ Begins
    /\ channel' = [x \in DOMAIN channel |->
                    IF x \in WixChannels(i) THEN [channel[x] EXCEPT !.active = FALSE] ELSE channel[x]]
    /\ removed' = IF Busy(i) THEN removed ELSE removed \cup {i}
    /\ UNCHANGED <<oauth, handler, starter, made>>

\* The UPDATE fails: it is caught and answered with 200, so Wix does not ask again
\* and the channels stay as they are.
UninstallFails(i) ==
    /\ Begins
    /\ UNCHANGED <<channel, oauth, handler, starter, made, removed>>

-----------------------------------------------------------------------------
(* POST /marketplace/eposnow/register-and-connect *)

\* The address is looked up, and the password hashed.
EposFindsEmail(c, e, p) ==
    /\ call[c].at = "idle" /\ e \notin DOMAIN user
    /\ Begins
    /\ Moves(c, [Idle EXCEPT !.at = "eposTenant", !.email = e, !.password = p])
    /\ UNCHANGED <<tenants, user, link, dead, sessions, begun, channel, oauth, handler, starter, made, removed>>

\* Tenant, user and channel are inserted one after the other.
EposMakesTenant(c, t) ==
    /\ call[c].at = "eposTenant" /\ t \notin tenants
    /\ tenants' = tenants \cup {t}
    /\ Moves(c, [call[c] EXCEPT !.at = "eposUser", !.tenant = t])
    /\ UNCHANGED <<user, link, dead, sessions, begun, shopVars>>

\* An address taken meanwhile throws, and the tenant stays without an owner.
EposMakesUser(c) ==
    LET r == call[c] IN
    /\ r.at = "eposUser"
    /\ IF r.email \in DOMAIN user THEN Answers(c) /\ UNCHANGED user
       ELSE /\ user' = WithRow(user, r.email, [tenant |-> r.tenant, hash |-> r.password, onboarded |-> FALSE])
            /\ Moves(c, [r EXCEPT !.at = "eposChannel"])
    /\ UNCHANGED <<tenants, link, dead, sessions, begun, shopVars>>

\* The channel, and then the token.  Should it fail (CallFails), the owner stays
\* without a shop, and is told 409 at the next try.
EposMakesChannel(c, i) ==
    LET r == call[c] IN
    /\ r.at = "eposChannel"
    /\ Answers(c)
    /\ sessions' = sessions \cup {r.tenant}
    /\ Inserts(Row(r.tenant, "eposnow", i, NoFlow))
    /\ UNCHANGED <<tenants, user, link, dead, begun, oauth, handler, starter, made, removed, asked>>

\* A call to the provider or a query fails: what was written stays.
HandlerFails(h) ==
    /\ handler[h].at # "idle"
    /\ Rests(h)
    /\ UNCHANGED <<channel, oauth, starter, made, removed, asked>>

-----------------------------------------------------------------------------

\* Steps that change no variable of Accounts.
ShopsStep ==
    \/ \E t \in tenants :
        \/ \E type \in Types, i \in Instances \cup {NoInstance} : CreateChannel(t, type, i)
        \/ \E x \in DOMAIN channel :
            \/ \E active \in BOOLEAN : PatchChannel(t, x, active)
            \/ DeleteChannel(t, x)
        \/ \E f \in Flows : OAuthStart(f, t)
        \/ \E i \in Instances : EposConnect(t, i) \/ \E h \in Handlers : BasicAuthFinds(h, t, i)
    \/ \E f \in Flows : StateExpires(f)
    \/ \E h \in Handlers :
        \/ \E f \in Flows, type \in Providers, i \in Instances \cup {NoInstance} :
                CallbackChecks(h, f, type, i)
        \/ CallbackTakes(h) \/ CallbackInserts(h) \/ BasicAuthWrites(h) \/ HandlerFails(h)
        \/ \E i \in Instances : InstallFinds(h, i)
        \/ InstallMakesChannel(h)
    \/ \E i \in Instances : Uninstall(i) \/ UninstallFails(i)

\* Steps that write tenants and users.
ProvisionStep ==
    \/ \E h \in Handlers :
        \/ \E t \in Tenants : InstallMakesTenant(h, t)
        \/ \E e \in Emails : InstallMakesOwner(h, e)
    \/ \E c \in Calls :
        \/ \E e \in Emails, p \in Passwords : EposFindsEmail(c, e, p)
        \/ \E t \in Tenants : EposMakesTenant(c, t)
        \/ EposMakesUser(c)
        \/ \E i \in Instances : EposMakesChannel(c, i)

ShopsNext == (ShopsStep /\ UNCHANGED accountVars) \/ ProvisionStep

-----------------------------------------------------------------------------

\* An OAuth state opens one shop, of the tenant that began the flow: also when the
\* redirect arrives twice or at two providers' callbacks, which do not ask whose
\* state it is, the state expires between hasOAuthState and getOAuthState, or flows
\* of two tenants overlap.
FlowsStayApart ==
    \A f \in Flows :
        /\ made[f] <= 1
        /\ \A x \in DOMAIN channel : channel[x].flow = f => channel[x].tenant = starter[f]

\* Once an uninstall of the app from a Wix site was carried out (a failed one is
\* answered alike and never repeated) and nothing was begun for the site since, no
\* channel of the site is active and the dashboard shows none, however many of them
\* installs, sign-ins and flows that crossed each other have made.
RemovedAppIsQuiet == \A i \in removed : DashboardShops(i) = {}
=============================================================================
