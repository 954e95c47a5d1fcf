----------------------------- MODULE ChannelSession -----------------------------
(***************************************************************************)
(* One provider object of packages/integrations (createProvider) and the   *)
(* connection it keeps: connect() with the channel's credentials, the      *)
(* token or key its client then sends, disconnect().                       *)
(***************************************************************************)
Kinds == {"eposnow", "wix", "deliveroo", "shopify", "woocommerce", "uber_eats"}

VARIABLES
    kind,      \* channelType: which provider this is
    session,   \* "new", "ready" (_connected), "threw" (connect failed) or "closed"
    token,     \* what the client sends: "none", "live", "expired" (it knows), "dead" (it does not)
    located    \* primaryLocationId: whether Shopify's provider found an active location

sessionVars == <<kind, session, token, located>>

SessionTypeOK ==
    /\ kind \in Kinds
    /\ session \in {"new", "ready", "threw", "closed"}
    /\ token \in {"none", "live", "expired", "dead"}
    /\ located \in BOOLEAN

SessionInit ==
    /\ kind \in Kinds
    /\ session = "new" /\ token = "none" /\ located = FALSE

Connecting(k) == kind = k /\ session = "new" /\ UNCHANGED kind

\* Incomplete credentials, or the first request refused.
Throws == session' = "threw" /\ UNCHANGED <<token, located>>

Connected(tokens) ==
    /\ session' = "ready"
    /\ token' \in tokens

\* Key and secret are exchanged for a token that expires.
EposnowAuthenticates == Throws \/ (Connected({"live"}) /\ UNCHANGED located)
EposnowConnect == Connecting("eposnow") /\ EposnowAuthenticates

\* The stored token is tried with healthCheck, which answers FALSE and never throws: a
\* refused token is kept, the refresh in the catch branch is not reached.
WixClientConnects == Throws \/ (Connected({"live", "dead"}) /\ UNCHANGED located)
WixConnect == Connecting("wix") /\ WixClientConnects

\* Otter's connect does look at healthCheck's answer.
OtterClientConnects == Throws \/ (Connected({"live"}) /\ UNCHANGED located)
OtterConnect == Connecting("deliveroo") /\ OtterClientConnects

\* The locations must be readable; that one of them is active is not required.
ShopifyClientConnects == Throws \/ (Connected({"live"}) /\ located' \in BOOLEAN)
ShopifyConnect == Connecting("shopify") /\ ShopifyClientConnects

WooCommerceClientConnects == Throws \/ (Connected({"live"}) /\ UNCHANGED located)
WooCommerceConnect == Connecting("woocommerce") /\ WooCommerceClientConnects

\* The token, and then the store, must be had.
UberEatsAuthenticates == Throws \/ (Connected({"live"}) /\ UNCHANGED located)
UberEatsConnect == Connecting("uber_eats") /\ UberEatsAuthenticates

\* Clients that keep an expiry notice it five minutes ahead.
KeepsExpiry == kind \in {"eposnow", "wix", "uber_eats"}

TokenExpires ==
    /\ KeepsExpiry /\ token \in {"live", "dead"}
    /\ token' = "expired"
    /\ UNCHANGED <<kind, session, located>>

\* The shop withdraws the key or token; the client cannot know.
TokenDies ==
    /\ token = "live"
    /\ token' = "dead"
    /\ UNCHANGED <<kind, session, located>>

\* disconnect() does not wait for requests under way.  A client that keeps an expiry drops
\* its token; the others were built with their key and go on sending it.
Disconnect ==
    /\ session = "ready"
    /\ session' = "closed" /\ located' = FALSE
    /\ token' = IF KeepsExpiry THEN "none" ELSE token
    /\ UNCHANGED kind

SessionNext ==
    \/ EposnowConnect \/ WixConnect \/ OtterConnect
    \/ ShopifyConnect \/ WooCommerceConnect \/ UberEatsConnect
    \/ TokenExpires \/ TokenDies \/ Disconnect
=============================================================================
