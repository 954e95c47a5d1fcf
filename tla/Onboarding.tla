------------------------------- MODULE Onboarding -------------------------------
(***************************************************************************)
(* The pages on which a tenant connects its first shop:                    *)
(* frontend/src/pages/Onboarding, a wizard whose state a redirect to a     *)
(* shop's OAuth page throws away, and pages/Connect/EposnowConnect, which  *)
(* logs in or registers and then creates the channel.                      *)
(***************************************************************************)
EXTENDS Naturals

CONSTANTS
    MaxShops     \* channels the wizard, and the page, may have created

ASSUME ShopsAssumption == MaxShops \in Nat

VARIABLES
    currentStep,        \* currentStep, "away" at the shop, "left" once complete
    chosen,      \* selectedChannel
    filled,      \* the forms of which the fields are filled in
    connecting,  \* the call that isConnecting stands for
    shop,        \* whether there is a connectedChannelId
    shops,       \* channels created
    importing, imported,
    triggering,  \* the call of /sync/channel is under way
    timers,      \* timers of ten seconds
    banner,      \* whether an error is shown
    epos         \* the other page: see EposShape

wizardVars == <<currentStep, chosen, filled, connecting, shop, shops, importing, imported, triggering,
                timers, banner>>
onboardVars == <<wizardVars, epos>>

\* Eposnow and Deliveroo share the fields of their key and secret.
Fields(c) == IF c \in {"shopify", "woocommerce"} THEN c ELSE "keys"

Redirected == {"wix", "shopify", "uber_eats"}
Keyed == {"woocommerce", "eposnow", "deliveroo"}

EposShape ==
    [mode : {"choice", "login", "register"}, busy : {"no", "login", "register", "create", "leaving"},
     token : BOOLEAN, account : BOOLEAN, made : 0 .. MaxShops]

OnboardTypeOK ==
    /\ currentStep \in {"welcome", "channel", "credentials", "import", "buffer", "ready", "away", "left"}
    /\ chosen \in Redirected \cup Keyed \cup {"none"}
    /\ connecting \in {"no", "oauth", "validate", "create"}
    /\ filled \subseteq {"shopify", "woocommerce", "keys"}
    /\ {shop, importing, imported, triggering, banner} \subseteq BOOLEAN
    /\ shops \in 0 .. MaxShops /\ timers \in 0 .. 1
    /\ epos \in EposShape
    \* The wizard is not left in the middle of an import, nor shows one that is complete.
    /\ importing => currentStep = "import" /\ shop /\ ~imported
    /\ shop => shops > 0

OnboardInit ==
    /\ currentStep = "welcome" /\ chosen = "none" /\ connecting = "no" /\ shops = 0 /\ timers = 0
    /\ filled = {} /\ shop = FALSE /\ importing = FALSE /\ imported = FALSE
    /\ triggering = FALSE /\ banner = FALSE
    /\ epos \in [mode : {"choice"}, busy : {"no"}, token : {FALSE}, account : BOOLEAN, made : {0}]

-----------------------------------------------------------------------------
(* The wizard *)

Shown == currentStep \notin {"away", "left"}

HandleNext ==
    /\ \/ currentStep = "welcome" /\ currentStep' = "channel"
       \/ currentStep = "import" /\ imported /\ currentStep' = "buffer"
       \/ currentStep = "buffer" /\ currentStep' = "ready"
    /\ UNCHANGED <<chosen, filled, connecting, shop, shops, importing, imported, triggering, timers,
                   banner, epos>>

\* Back from the import to the credentials, whichever way the shop was connected.
HandleBack ==
    /\ \/ currentStep = "channel" /\ currentStep' = "welcome"
       \/ currentStep = "credentials" /\ currentStep' = "channel"
       \/ currentStep = "import" /\ ~importing /\ currentStep' = "credentials"
       \/ currentStep = "buffer" /\ currentStep' = "import"
    /\ UNCHANGED <<chosen, filled, connecting, shop, shops, importing, imported, triggering, timers,
                   banner, epos>>

HandleSelectChannel(c) ==
    /\ currentStep = "channel"
    /\ chosen' = c /\ banner' = FALSE
    /\ UNCHANGED <<currentStep, filled, connecting, shop, shops, importing, imported, triggering, timers, epos>>

\* The fields of the form, the Shopify domain among them.
FillForm ==
    /\ currentStep = "credentials" /\ Fields(chosen) \notin filled
    /\ filled' = filled \cup {Fields(chosen)}
    /\ UNCHANGED <<currentStep, chosen, connecting, shop, shops, importing, imported, triggering, timers,
                   banner, epos>>

\* Wix and Uber Eats go to the shop at once, Shopify as soon as its domain is known.
HandleConnectChannel ==
    /\ currentStep = "channel" /\ chosen # "none" /\ connecting = "no"
    /\ banner' = FALSE
    /\ IF chosen \in Redirected /\ (chosen = "shopify" => "shopify" \in filled)
       THEN connecting' = "oauth" /\ UNCHANGED currentStep
       ELSE currentStep' = "credentials" /\ UNCHANGED connecting
    /\ UNCHANGED <<chosen, filled, shop, shops, importing, imported, triggering, timers, epos>>

HandleSubmitCredentials ==
    /\ currentStep = "credentials" /\ Fields(chosen) \in filled /\ chosen # "none" /\ connecting = "no"
    /\ banner' = FALSE
    /\ connecting' = CASE chosen = "shopify" -> "oauth"
                       [] chosen = "woocommerce" -> "validate"
                       [] OTHER -> "create"
    /\ UNCHANGED <<currentStep, chosen, filled, shop, shops, importing, imported, triggering, timers, epos>>

\* WooCommerce's credentials are good: the channel is created.
ValidateAnswers ==
    /\ connecting = "validate"
    /\ connecting' = "create"
    /\ UNCHANGED <<currentStep, chosen, filled, shop, shops, importing, imported, triggering, timers, banner,
                   epos>>

\* The answer takes the visitor to the import, wherever they went meanwhile.
CreateAnswers ==
    /\ connecting = "create" /\ Shown /\ shops < MaxShops
    /\ connecting' = "no" /\ shops' = shops + 1
    /\ shop' = TRUE /\ currentStep' = "import"
    /\ UNCHANGED <<chosen, filled, importing, imported, triggering, timers, banner, epos>>

ConnectFails ==
    /\ connecting # "no"
    /\ connecting' = "no" /\ banner' = TRUE
    /\ UNCHANGED <<currentStep, chosen, filled, shop, shops, importing, imported, triggering, timers, epos>>

\* window.location: the page goes, and with it all it knew.
GoesToShop ==
    /\ connecting = "oauth"
    /\ currentStep' = "away" /\ chosen' = "none" /\ connecting' = "no" /\ timers' = 0
    /\ filled' = {} /\ shop' = FALSE /\ importing' = FALSE /\ imported' = FALSE
    /\ triggering' = FALSE /\ banner' = FALSE
    /\ UNCHANGED <<shops, epos>>

\* The shop sends the visitor back: the parameters of the URL say how it went.
ComesBack(c) ==
    /\ currentStep = "away"
    /\ \/ /\ shops < MaxShops /\ shops' = shops + 1
          /\ currentStep' = "import" /\ shop' = TRUE /\ chosen' = c
          /\ UNCHANGED banner
       \/ /\ currentStep' = "channel" /\ banner' = TRUE
          /\ UNCHANGED <<shops, shop, chosen>>
    /\ UNCHANGED <<filled, connecting, importing, imported, triggering, timers, epos>>

\* Without a shop there is nothing to import.
HandleImportProducts ==
    /\ currentStep = "import" /\ ~importing /\ ~imported
    /\ IF shop THEN importing' = TRUE /\ triggering' = TRUE /\ banner' = FALSE /\ UNCHANGED imported
       ELSE imported' = TRUE /\ UNCHANGED <<importing, triggering, banner>>
    /\ UNCHANGED <<currentStep, chosen, filled, connecting, shop, shops, timers, epos>>

ImportOver == importing' = FALSE /\ imported' = TRUE

\* The call answers: a timer is set, whether or not the end was heard of already.
TriggerAnswers ==
    /\ triggering
    /\ triggering' = FALSE /\ timers' = 1
    /\ UNCHANGED <<currentStep, chosen, filled, connecting, shop, shops, importing, imported, banner, epos>>

TriggerFails ==
    /\ triggering /\ ImportOver
    /\ triggering' = FALSE
    /\ UNCHANGED <<currentStep, chosen, filled, connecting, shop, shops, timers, banner, epos>>

\* The timer's closure saw an import that was not complete.
TimerFires ==
    /\ timers = 1 /\ ImportOver
    /\ timers' = 0
    /\ UNCHANGED <<currentStep, chosen, filled, connecting, shop, shops, triggering, banner, epos>>

\* The event sync_completed of any sync of the tenant.
SyncCompleted ==
    /\ importing /\ ImportOver
    /\ UNCHANGED <<currentStep, chosen, filled, connecting, shop, shops, triggering, timers, banner, epos>>

OnSkip ==
    /\ currentStep = "import" /\ ~imported /\ ~importing
    /\ imported' = TRUE
    /\ UNCHANGED <<currentStep, chosen, filled, connecting, shop, shops, importing, triggering, timers, banner,
                   epos>>

HandleComplete ==
    /\ currentStep = "ready"
    /\ currentStep' = "left"
    /\ UNCHANGED <<chosen, filled, connecting, shop, shops, importing, imported, triggering, timers,
                   banner, epos>>

-----------------------------------------------------------------------------
(* EposnowConnect *)

\* The buttons between the forms are never disabled.
SwitchMode(m) ==
    /\ epos.mode # m /\ epos' = [epos EXCEPT !.mode = m]
    /\ UNCHANGED wizardVars

\* handleLogin and handleRegister, once the fields are in order.
EposSubmits ==
    /\ epos.mode # "choice" /\ epos.busy = "no" /\ epos' = [epos EXCEPT !.busy = epos.mode]
    /\ UNCHANGED wizardVars

\* The token is stored and the channel asked for; a login needs an account, a
\* registration makes one.
HandleLogin ==
    /\ epos.busy = "login" /\ epos.account
    /\ epos' = [epos EXCEPT !.busy = "create", !.token = TRUE]
    /\ UNCHANGED wizardVars

HandleRegister ==
    /\ epos.busy = "register" /\ ~epos.account
    /\ epos' = [epos EXCEPT !.busy = "create", !.token = TRUE, !.account = TRUE]
    /\ UNCHANGED wizardVars

CreateEposnowChannel ==
    /\ epos.busy = "create" /\ epos.made < MaxShops
    /\ epos' = [epos EXCEPT !.busy = "leaving", !.made = @ + 1]
    /\ UNCHANGED wizardVars

\* Either call fails, the creation perhaps after its channel was inserted: the
\* visitor is logged in, and the form ready to be sent again.
EposFails ==
    /\ \/ epos.busy \in {"login", "register"} /\ epos' = [epos EXCEPT !.busy = "no"]
       \/ /\ epos.busy = "create"
          /\ \E n \in {epos.made, epos.made + 1} \cap 0 .. MaxShops :
                epos' = [epos EXCEPT !.busy = "no", !.made = n]
    /\ UNCHANGED wizardVars

WizardNext ==
    \/ HandleNext \/ HandleBack \/ FillForm \/ HandleConnectChannel \/ HandleSubmitCredentials
    \/ ValidateAnswers \/ CreateAnswers \/ ConnectFails \/ GoesToShop \/ HandleImportProducts
    \/ TriggerAnswers \/ TriggerFails \/ TimerFires \/ SyncCompleted \/ OnSkip \/ HandleComplete
    \/ \E c \in Redirected \cup Keyed : HandleSelectChannel(c)
    \/ \E c \in Redirected : ComesBack(c)

EposNext ==
    \/ EposSubmits \/ HandleLogin \/ HandleRegister \/ CreateEposnowChannel \/ EposFails
    \/ \E m \in {"choice", "login", "register"} : SwitchMode(m)
=============================================================================
