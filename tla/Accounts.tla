------------------------------- MODULE Accounts -------------------------------
(***************************************************************************)
(* Tenants, users, passwords and reset links: backend/src/routes/auth.ts   *)
(* over the tables of db/schema.ts.  A request is a slot of calls that     *)
(* advances by one action per await.  An answer that changes nothing       *)
(* (validation, a name already taken, an unknown user) is a request that   *)
(* never leaves the slot's idle state.                                     *)
(***************************************************************************)
EXTENDS Naturals, FiniteSets, Functions

CONSTANTS
    Tenants,        \* slugs
    Emails, Lower,  \* Lower[e]: toLowerCase().trim()
    Passwords,
    Links,          \* tokens of password_reset_tokens
    Calls,          \* requests in flight
    NoTenant, NoPassword, NoLink

ASSUME AccountAssumption == NoTenant \notin Tenants /\ NoPassword \notin Passwords /\ NoLink \notin Links
                            /\ Lower \in [Emails -> Emails]
ASSUME FirstAccountAssumption == Tenants # {} /\ Emails # {} /\ Passwords # {}

VARIABLES
    tenants,        \* slugs taken
    user,           \* the users table, by its unique e-mail
    link,           \* the reset links, by their unique token
    call,           \* requests in flight
    dead,           \* links that no later request may use: see DeadLinksStayDead
    sessions,       \* tenants for which a JWT was given out
    begun           \* requests begun

accountVars == <<tenants, user, link, call, dead, sessions, begun>>

Idle == [at |-> "idle", tenant |-> NoTenant, email |-> CHOOSE e \in Emails : TRUE,
         password |-> NoPassword, hash |-> NoPassword, link |-> NoLink, known |-> {}, late |-> FALSE]

Hashes == Passwords \cup {NoPassword}

AccountsTypeOK ==
    /\ tenants \subseteq Tenants
    /\ DOMAIN user \subseteq Emails
    /\ \A e \in DOMAIN user :
            user[e] \in [tenant : tenants, hash : Hashes, onboarded : BOOLEAN]
    /\ DOMAIN link \subseteq Links
    /\ \A l \in DOMAIN link :
            link[l] \in [email : DOMAIN user, used : BOOLEAN, expired : BOOLEAN]
    /\ call \in [Calls -> [at : {"idle", "email", "insert", "verify", "invalidate", "token", "hash",
                                 "eposTenant", "eposUser", "eposChannel"},
                           tenant : Tenants \cup {NoTenant}, email : Emails, password : Hashes, hash : Hashes,
                           link : Links \cup {NoLink}, known : SUBSET Links, late : BOOLEAN]]
    /\ dead \subseteq Links /\ sessions \subseteq tenants /\ begun \in Nat

\* A tenant that registered earlier, whose owner logged in.
AccountsInit ==
    LET t == CHOOSE t \in Tenants : TRUE
        e == CHOOSE e \in Emails : TRUE
        p == CHOOSE p \in Passwords : TRUE IN
        /\ tenants = {t} /\ sessions = {t}
        /\ user = [x \in {e} |-> [tenant |-> t, hash |-> p, onboarded |-> FALSE]]
        /\ link = <<>> /\ dead = {} /\ begun = 0
        /\ call = [c \in Calls |-> Idle]

\* A table with one row more.
WithRow(table, id, row) == [x \in DOMAIN table \cup {id} |-> IF x = id THEN row ELSE table[x]]

Moves(c, to) == call' = [call EXCEPT ![c] = to]
Answers(c) == Moves(c, Idle)

-----------------------------------------------------------------------------
(* Registration *)

\* POST /auth/register: the slug is looked up.
RegisterFindsSlug(c, t, e, p) ==
    /\ call[c].at = "idle" /\ t \notin tenants
    /\ begun' = begun + 1
    /\ Moves(c, [Idle EXCEPT !.at = "email", !.tenant = t, !.email = e, !.password = p])
    /\ UNCHANGED <<tenants, user, link, dead, sessions>>

\* The e-mail is, and the password hashed.
RegisterFindsEmail(c) ==
    /\ call[c].at = "email"
    /\ IF call[c].email \in DOMAIN user THEN Answers(c) ELSE Moves(c, [call[c] EXCEPT !.at = "insert"])
    /\ UNCHANGED <<tenants, user, link, dead, sessions, begun>>

\* Mutant of RegisterInserts: the user is inserted without the tenant.
MutUserOnly(c) ==
    LET r == call[c] IN
    /\ r.at = "insert"
    /\ Answers(c)
    /\ IF r.tenant \in tenants \/ r.email \in DOMAIN user THEN UNCHANGED <<tenants, user, sessions>>
       ELSE /\ user' = WithRow(user, r.email, [tenant |-> r.tenant, hash |-> r.password, onboarded |-> FALSE])
            /\ UNCHANGED <<tenants, sessions>>
    /\ UNCHANGED <<link, dead, begun>>

\* Both rows in one transaction, which either unique column may refuse.
RegisterInserts(c) ==
    LET r == call[c] IN
    /\ r.at = "insert"
    /\ Answers(c)
    /\ IF r.tenant \in tenants \/ r.email \in DOMAIN user THEN UNCHANGED <<tenants, user, sessions>>
       ELSE /\ tenants' = tenants \cup {r.tenant}
            /\ user' = WithRow(user, r.email, [tenant |-> r.tenant, hash |-> r.password, onboarded |-> FALSE])
            /\ sessions' = sessions \cup {r.tenant}
    /\ UNCHANGED <<link, dead, begun>>

-----------------------------------------------------------------------------
(* Sessions *)

\* POST /auth/login: the row is read.
LoginReads(c, e, p) ==
    /\ call[c].at = "idle" /\ e \in DOMAIN user /\ user[e].tenant \notin sessions
    /\ begun' = begun + 1
    /\ Moves(c, [Idle EXCEPT !.at = "verify", !.email = e, !.password = p,
                             !.hash = user[e].hash])
    /\ UNCHANGED <<tenants, user, link, dead, sessions>>

\* The password is compared with the hash that was read.
LoginVerifies(c) ==
    /\ call[c].at = "verify"
    /\ sessions' = IF call[c].password = call[c].hash
                   THEN sessions \cup {user[call[c].email].tenant} ELSE sessions
    /\ Answers(c)
    /\ UNCHANGED <<tenants, user, link, dead, begun>>

\* PATCH /auth/onboarding-complete
OnboardingComplete(e) ==
    /\ e \in DOMAIN user /\ user[e].tenant \in sessions /\ ~user[e].onboarded
    /\ user' = [user EXCEPT ![e].onboarded = TRUE]
    /\ begun' = begun + 1
    /\ UNCHANGED <<tenants, link, call, dead, sessions>>

-----------------------------------------------------------------------------
(* Reset links *)

Of(e) == {l \in DOMAIN link : link[l].email = e}

\* POST /auth/forgot-password: the user is looked up by the address in lower
\* case, although registration stores it as typed.
ForgotReads(c, e) ==
    /\ call[c].at = "idle" /\ Lower[e] \in DOMAIN user
    /\ begun' = begun + 1
    /\ Moves(c, [Idle EXCEPT !.at = "invalidate", !.email = Lower[e], !.known = Of(Lower[e])])
    /\ UNCHANGED <<tenants, user, link, dead, sessions>>

\* Mutant of ForgotInvalidates: the earlier links stay.
MutLeavesLinks(c) ==
    /\ call[c].at = "invalidate"
    /\ Moves(c, [call[c] EXCEPT !.at = "token"])
    /\ UNCHANGED <<tenants, user, link, dead, sessions, begun>>

\* Its links are marked used.
ForgotInvalidates(c) ==
    /\ call[c].at = "invalidate"
    /\ link' = [l \in DOMAIN link |-> [link[l] EXCEPT !.used = @ \/ link[l].email = call[c].email]]
    /\ Moves(c, [call[c] EXCEPT !.at = "token"])
    /\ UNCHANGED <<tenants, user, dead, sessions, begun>>

\* A new one is inserted and mailed: sendEmail never throws.
ForgotInserts(c, l) ==
    /\ call[c].at = "token" /\ l \notin DOMAIN link
    /\ link' = WithRow(link, l, [email |-> call[c].email, used |-> FALSE, expired |-> FALSE])
    /\ dead' = dead \cup call[c].known
    /\ Answers(c)
    /\ UNCHANGED <<tenants, user, sessions, begun>>

\* An hour later.
LinkExpires(l) ==
    /\ l \in DOMAIN link /\ ~link[l].expired
    /\ link' = [link EXCEPT ![l].expired = TRUE]
    /\ dead' = dead \cup {l}
    /\ begun' = begun + 1
    /\ UNCHANGED <<tenants, user, call, sessions>>

Usable(l) == ~link[l].used /\ ~link[l].expired

\* Mutant of ResetReads: used links are found too.
MutFindsUsed(c, l, p) ==
    /\ call[c].at = "idle" /\ l \in DOMAIN link /\ ~link[l].expired
    /\ begun' = begun + 1
    /\ Moves(c, [Idle EXCEPT !.at = "hash", !.email = link[l].email, !.link = l,
                             !.password = p, !.late = l \in dead])
    /\ UNCHANGED <<tenants, user, link, dead, sessions>>

\* POST /auth/reset-password: the link is selected, and the password hashed.
ResetReads(c, l, p) ==
    /\ call[c].at = "idle" /\ l \in DOMAIN link /\ Usable(l)
    /\ begun' = begun + 1
    /\ Moves(c, [Idle EXCEPT !.at = "hash", !.email = link[l].email, !.link = l,
                             !.password = p, !.late = l \in dead])
    /\ UNCHANGED <<tenants, user, link, dead, sessions>>

\* The transaction does not look at the link again.
ResetCommits(c) ==
    LET r == call[c] IN
    /\ r.at = "hash"
    /\ user' = [user EXCEPT ![r.email].hash = r.password]
    /\ link' = [link EXCEPT ![r.link].used = TRUE]
    /\ dead' = dead \cup {r.link}
    /\ Answers(c)
    /\ UNCHANGED <<tenants, sessions, begun>>

\* A query fails: 500, and what was written before it stays.
CallFails(c) ==
    /\ call[c].at # "idle"
    /\ Answers(c)
    /\ UNCHANGED <<tenants, user, link, dead, sessions, begun>>

AccountsNext ==
    \/ \E c \in Calls :
        \/ \E t \in Tenants, e \in Emails, p \in Passwords : RegisterFindsSlug(c, t, e, p)
        \/ RegisterFindsEmail(c) \/ RegisterInserts(c)
        \/ \E e \in Emails, p \in Passwords : LoginReads(c, e, p)
        \/ LoginVerifies(c)
        \/ \E e \in Emails : ForgotReads(c, e)
        \/ ForgotInvalidates(c)
        \/ \E l \in Links : ForgotInserts(c, l)
        \/ \E l \in Links, p \in Passwords : ResetReads(c, l, p)
        \/ ResetCommits(c) \/ CallFails(c)
    \/ \E e \in Emails : OnboardingComplete(e)
    \/ \E l \in Links : LinkExpires(l)

\* A link that was spent by an answered reset, that had expired, or that existed
\* when a request for a new one began which was answered, changes no password in a
\* request begun after that.  Requests that overlap may: the transaction of a reset
\* does not look at the link again, and the statements of two requests for links
\* interleave.  (auth.ts, the UPDATE of forgot-password and the SELECT of
\* reset-password)
DeadLinksStayDead == \A c \in Calls : call[c].at = "hash" => ~call[c].late
=============================================================================
