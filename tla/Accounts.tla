------------------------------- MODULE Accounts -------------------------------
(***************************************************************************)
(* Signing in to one email address from several tabs: routes/auth.py,      *)
(* services/auth.py and LoginPage.tsx.  A tab asks for a code, which is    *)
(* committed before it is mailed, and later types one it finds in the      *)
(* mailbox.  verify-code is one transaction over three statements: it      *)
(* marks the code used, finds or creates the account and commits; other    *)
(* transactions read what is committed and wait for rows it has locked.    *)
(***************************************************************************)
EXTENDS Naturals, Sequences, FiniteSets

CONSTANTS
    Tabs,
    MaxCodesPerHour, CodeLife, Hour,  \* MAX_CODES_PER_HOUR, CODE_TTL_MINUTES and the hour, in ticks
    MaxTime, MaxLogins                \* bounds: ticks, sign-ins

ASSUME AccountsAssumption ==
    {MaxCodesPerHour, CodeLife, Hour, MaxTime, MaxLogins} \subseteq Nat

VARIABLES
    now,
    codes,    \* verification_codes: when made, whether used
    mailbox,  \* the codes whose mail has arrived
    account,  \* the committed row of users: TRUE when there is one
    tab,      \* per tab: the page's step, what its request is doing, the code typed
    logins    \* history: the codes with which verify-code has answered ok

accountVars == <<now, codes, mailbox, account, tab, logins>>

Blank == [step |-> "email", doing |-> "nothing", code |-> 0]

AccountsInit ==
    /\ now = 0 /\ codes = <<>> /\ mailbox = {} /\ logins = <<>>
    /\ account \in BOOLEAN
    /\ tab = [t \in Tabs |-> Blank]

Idle(t)       == tab[t].doing = "nothing"
Doing(t, d)   == tab[t].doing = d
Put(t, s, d)  == tab' = [tab EXCEPT ![t].step = s, ![t].doing = d]
Locked(k)     == \E t \in Tabs : tab[t].code = k /\ tab[t].doing \in {"used", "create", "commit new", "commit old"}

\* Continue, the invite form and Resend all call request-code; the user knows the
\* invite code when asked for it.
Ask(t) ==
    /\ Idle(t) /\ tab[t].step # "in"
    /\ Put(t, tab[t].step, "ask")
    /\ UNCHANGED <<now, codes, mailbox, account, logins>>

RecentCodes == {k \in DOMAIN codes : codes[k].made + Hour > now}

\* request_code up to the INSERT: the page asks for the invite, or nothing comes
\* of it (429), or the code may be made.
CheckAsk(t) ==
    /\ Doing(t, "ask")
    /\ IF ~account /\ tab[t].step = "email" THEN Put(t, "invite", "nothing")
       ELSE IF Cardinality(RecentCodes) >= MaxCodesPerHour THEN Put(t, tab[t].step, "nothing")
       ELSE Put(t, tab[t].step, "make")
    /\ UNCHANGED <<now, codes, mailbox, account, logins>>

\* The mail may fail: that is only logged, and the page asks for the code.
MakeCode(t) ==
    /\ Doing(t, "make")
    /\ codes' = Append(codes, [made |-> now, used |-> FALSE])
    /\ mailbox' \in {mailbox, mailbox \cup {Len(codes')}}
    /\ Put(t, "code", "nothing")
    /\ UNCHANGED <<now, account, logins>>

-----------------------------------------------------------------------------
\* verify_code: a code that is unknown, used or too old is a 401.
TypeCode(t, k) ==
    /\ Idle(t) /\ tab[t].step = "code" /\ Len(logins) < MaxLogins
    /\ ~codes[k].used /\ now < codes[k].made + CodeLife
    /\ tab' = [tab EXCEPT ![t].doing = "found", ![t].code = k]
    /\ UNCHANGED <<now, codes, mailbox, account, logins>>

\* Mutant: the code is committed as used before the account is looked up.
MarkUsedAtOnce(t) ==
    /\ Doing(t, "found") /\ ~Locked(tab[t].code)
    /\ Put(t, "code", "used")
    /\ codes' = [codes EXCEPT ![tab[t].code].used = TRUE]
    /\ UNCHANGED <<now, mailbox, account, logins>>

\* The UPDATE waits for a transaction that holds the row; it has no condition on
\* used_at.
MarkUsed(t) ==
    /\ Doing(t, "found") /\ ~Locked(tab[t].code)
    /\ Put(t, "code", "used")
    /\ UNCHANGED <<now, codes, mailbox, account, logins>>

\* GET /auth/dev-login starts here, with no code.
DevLogin(t) ==
    /\ Idle(t) /\ tab[t].step = "email" /\ Len(logins) < MaxLogins
    /\ tab' = [tab EXCEPT ![t].doing = "used", ![t].code = 0]
    /\ UNCHANGED <<now, codes, mailbox, account, logins>>

FindAccount(t) ==
    /\ Doing(t, "used")
    /\ Put(t, tab[t].step, IF account THEN "commit old" ELSE "create")
    /\ UNCHANGED <<now, codes, mailbox, account, logins>>

\* uq_users_email: the INSERT waits for another one that has not committed, and
\* fails once there is an account.  The failure is a 500 and rolls all back.
CreateAccount(t) ==
    /\ Doing(t, "create") /\ ~\E u \in Tabs : Doing(u, "commit new")
    /\ Put(t, tab[t].step, IF account THEN "nothing" ELSE "commit new")
    /\ UNCHANGED <<now, codes, mailbox, account, logins>>

CommitLogin(t) ==
    /\ tab[t].doing \in {"commit new", "commit old"}
    /\ account' = TRUE
    /\ codes' = [k \in DOMAIN codes |-> IF k = tab[t].code THEN [codes[k] EXCEPT !.used = TRUE] ELSE codes[k]]
    /\ logins' = Append(logins, tab[t].code)
    /\ Put(t, "in", "nothing")
    /\ UNCHANGED <<now, mailbox>>

\* A statement or the commit of the sign-in fails, for whatever reason: a 500, and
\* all is rolled back.
SignInFails(t) ==
    /\ tab[t].doing \in {"found", "used", "create", "commit new", "commit old"}
    /\ Put(t, tab[t].step, "nothing")
    /\ UNCHANGED <<now, codes, mailbox, account, logins>>

Logout(t) ==
    /\ Idle(t) /\ tab[t].step = "in"
    /\ tab' = [tab EXCEPT ![t] = Blank]
    /\ UNCHANGED <<now, codes, mailbox, account, logins>>

Tick ==
    /\ now < MaxTime /\ now' = now + 1
    /\ UNCHANGED <<codes, mailbox, account, tab, logins>>

SignIn(t) ==
    \/ CheckAsk(t) \/ MakeCode(t) \/ MarkUsed(t) \/ FindAccount(t) \/ CreateAccount(t)
    \/ CommitLogin(t)

AccountsNext ==
    \/ Tick
    \/ \E t \in Tabs : Ask(t) \/ SignIn(t) \/ SignInFails(t) \/ DevLogin(t) \/ Logout(t)
                       \/ \E k \in mailbox : TypeCode(t, k)
=============================================================================
