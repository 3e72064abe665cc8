----------------------------- MODULE Accounts -----------------------------
(***************************************************************************)
(* Who gets in, and the first-run wizard: the administrator is created     *)
(* once (setup.py, db/users.py), signs in under two limits on failures     *)
(* (auth.py, throttle.py), and sets where ads are collected from           *)
(* (setup.py, routes/admin.py, db/admin.py).                               *)
(*                                                                         *)
(* Requests run in a pool of threads and interleave between their          *)
(* statements; the web app may be restarted at any moment, which drops     *)
(* them and the counters.  The clock is kept as the age of each failure.   *)
(***************************************************************************)
EXTENDS Integers, FiniteSets, Sequences, SequencesExt, Lists

CONSTANTS
    Addresses,          \* client addresses, one browser each
    Threads,            \* threads of the web app
    MaxFailures,        \* MAX_FAILURES, per address
    AccountMaxFailures, \* ACCOUNT_MAX_FAILURES, per account
    Window,             \* WINDOW_SECONDS
    TicksPerSecond,     \* ticks of the clock in a second
    MaxRequests         \* bound: forms sent, in all

None == "none"
Account == "account"    \* the id of the only user
Sources == {"self_hosted", "apify"}
Tokens == {"accepted", "refused"}

ASSUME AccountsAssumption ==
    /\ Addresses # {} /\ IsFiniteSet(Threads) /\ Account \notin Addresses /\ None \notin Addresses
    /\ MaxFailures \in Nat \ {0} /\ AccountMaxFailures \in Nat \ {0}
    /\ Window \in Nat \ {0} /\ TicksPerSecond \in Nat \ {0} /\ MaxRequests \in Nat

VARIABLES
    users,     \* rows of users: the browser each was created from
    session,   \* cookie of each browser: "none", "created" by the wizard or "login"
    settings,  \* row of app_settings: setup completed, source, token
    failures,  \* LoginThrottle._failures of addresses and of the account: ages, oldest first
    guesses,   \* all failures since the last reset, within the window (history)
    thread,    \* the request each thread is at
    requests   \* forms sent so far (bound)

vars == <<users, session, settings, failures, guesses, thread, requests>>
wizard == <<users, settings>>
throttles == <<failures, guesses>>

Keys == Addresses \cup {Account}
Idle == [step |-> "idle", from |-> None, account |-> None, source |-> None, token |-> None]

---------------------------------------------------------------------------
(* throttle.py *)

Limit(key) == IF key = Account THEN AccountMaxFailures ELSE MaxFailures
WindowTicks == Window * TicksPerSecond
Recent(ages) == Where(ages, {i \in DOMAIN ages : ages[i] < WindowTicks})

\* Mutation: a wait is rounded down.
MutRetryAfter(ages, limit) ==
    LET recent == Recent(ages)
        left == (WindowTicks - recent[1]) \div TicksPerSecond
    IN IF Len(recent) < limit THEN 0 ELSE IF left > 1 THEN left ELSE 1

\* retry_after: the seconds until the oldest failure kept leaves the window, rounded up
\* (at least one is: that failure is within the window).
RetryAfter(ages, limit) ==
    LET recent == Recent(ages) IN
    IF Len(recent) < limit THEN 0
    ELSE (WindowTicks - recent[1] + TicksPerSecond - 1) \div TicksPerSecond

Wait(key) == RetryAfter(failures[key], Limit(key))

Trimmed(ages, n) == IF Len(ages) <= n THEN ages ELSE SubSeq(ages, Len(ages) - n + 1, Len(ages))

\* Mutation: one failure too few is kept.
MutFailuresAfter(key) ==
    [k \in Keys |->
        IF k = key THEN Trimmed(Append(failures[k], 0), Limit(k) - 1) ELSE failures[k]]

\* record_failure: keys of the same throttle whose last failure has aged out are
\* forgotten, and the last ones of this key are kept.
FailuresAfter(key) ==
    LET Forgotten(k) == /\ (k = Account) = (key = Account)
                        /\ failures[k] # <<>> /\ Last(failures[k]) >= WindowTicks
        kept == [k \in Keys |-> IF Forgotten(k) THEN <<>> ELSE failures[k]]
    IN [kept EXCEPT ![key] = Trimmed(Append(@, 0), Limit(key))]

RecordFailure(key) ==
    /\ failures' = FailuresAfter(key)
    /\ guesses' = [guesses EXCEPT ![key] = Append(@, 0)]

Reset(key) ==
    /\ failures' = [failures EXCEPT ![key] = <<>>]
    /\ guesses' = [guesses EXCEPT ![key] = <<>>]

---------------------------------------------------------------------------
(* auth.py: a sign-in, checked before the password is. *)

Init ==
    /\ users = {} /\ session = [a \in Addresses |-> None]
    /\ settings = [completed |-> FALSE, source |-> "self_hosted", token |-> None]
    /\ failures = [k \in Keys |-> <<>>] /\ guesses = [k \in Keys |-> <<>>]
    /\ thread = [t \in Threads |-> Idle] /\ requests = 0

At(t, step) == thread[t].step = step
Goto(t, step) == thread' = [thread EXCEPT ![t].step = step]
Done(t) == thread' = [thread EXCEPT ![t] = Idle]

\* A sign-in arrives, with the administrator's name or another one, and is refused
\* while its address or its account must wait.
LoginSubmit(t, address) ==
    /\ At(t, "idle") /\ requests < MaxRequests /\ requests' = requests + 1
    /\ \E account \in {None} \cup (IF users = {} THEN {} ELSE {Account}) :
        /\ Wait(address) = 0
        /\ account # None => Wait(account) = 0
        /\ thread' = [thread EXCEPT ![t] = [Idle EXCEPT !.step = "verifying", !.from = address,
                                                        !.account = account]]
    /\ UNCHANGED <<wizard, session, throttles>>

\* verify_password fails; the failure counts for the address, then for the account.
WrongPassword(t) ==
    /\ At(t, "verifying")
    /\ RecordFailure(thread[t].from)
    /\ IF thread[t].account = None THEN Done(t) ELSE Goto(t, "counting")
    /\ UNCHANGED <<wizard, requests, session>>

CountForAccount(t) ==
    /\ At(t, "counting")
    /\ RecordFailure(thread[t].account) /\ Done(t)
    /\ UNCHANGED <<wizard, requests, session>>

\* The right one: both counters start again.
RightPassword(t) ==
    /\ At(t, "verifying") /\ thread[t].account # None
    /\ Reset(thread[t].from) /\ Goto(t, "resetting")
    /\ UNCHANGED <<wizard, requests, session>>

SignIn(t) ==
    /\ At(t, "resetting")
    /\ Reset(thread[t].account)
    /\ session' = [session EXCEPT ![thread[t].from] = "login"]
    /\ Done(t)
    /\ UNCHANGED <<wizard, requests>>

\* logout, or the cookie's week is over.
Logout(address) ==
    /\ session[address] # None
    /\ session' = [session EXCEPT ![address] = None]
    /\ UNCHANGED <<wizard, requests, throttles, thread>>

---------------------------------------------------------------------------
(* setup.py, step 2: the administrator. *)

NeedsSetup == users = {}
SetupPending == ~settings.completed
Authed(address) == session[address] # None

Send(t, form) ==
    /\ At(t, "idle") /\ requests < MaxRequests
    /\ requests' = requests + 1 /\ thread' = [thread EXCEPT ![t] = form]

\* setup_admin_submit with the right code; the password is hashed before the row is made.
SubmitAdmin(t, address) ==
    /\ NeedsSetup
    /\ Send(t, [Idle EXCEPT !.step = "creating", !.from = address])
    /\ UNCHANGED <<users, settings, session, throttles>>

\* Mutation: the row is inserted without looking for one.
MutCreateFirstUser(address) == users' = users \cup {address}

\* create_first_user: INSERT ... WHERE NOT EXISTS, under a lock of the table.
CreateFirstUser(address) == users' = IF users = {} THEN {address} ELSE users

\* Whoever created it is signed in; whoever lost the race is sent to the sign-in.
CreateAdmin(t) ==
    LET address == thread[t].from IN
    /\ At(t, "creating")
    /\ CreateFirstUser(address)
    /\ session' = IF users' # users THEN [session EXCEPT ![address] = "created"] ELSE session
    /\ Done(t)
    /\ UNCHANGED <<settings, requests, throttles>>

---------------------------------------------------------------------------
(* setup.py, step 4; routes/admin.py: the Collection source.  The step between, the *)
(* first company and its Page, is AdStore's CreateCompany and CreateFirstPage.      *)

\* _after_admin
AfterAdmin(address) == ~NeedsSetup /\ Authed(address) /\ SetupPending

\* account_username: what Apify says of the token typed, else of the stored one.
Checked(token) == IF token = None THEN settings.token ELSE token

\* setup_collection_submit: Apify only with a token it accepts.
SubmitCollection(t, address) ==
    /\ AfterAdmin(address)
    /\ \E source \in Sources, token \in Tokens \cup {None} :
        /\ source = "apify" => Checked(token) = "accepted"
        /\ Send(t, [Idle EXCEPT !.step = "finishing", !.from = address, !.source = source,
                                !.token = token])
    /\ UNCHANGED <<users, settings, session, throttles>>

\* admin_source_save: Apify only with a token, which is not tried.
SubmitSource(t, address) ==
    /\ Authed(address)
    /\ \E source \in Sources, token \in Tokens \cup {None} :
        /\ source = "apify" => Checked(token) # None
        /\ Send(t, [Idle EXCEPT !.step = "saving", !.from = address, !.source = source,
                                !.token = token])
    /\ UNCHANGED <<users, settings, session, throttles>>

\* Mutation: a token left empty clears the stored one.
MutUpdateCollectionSource(source, token) ==
    settings' = [settings EXCEPT !.source = source, !.token = token]

\* update_collection_source: COALESCE, a token left empty keeps the stored one.
UpdateCollectionSource(source, token) ==
    settings' = [settings EXCEPT !.source = source, !.token = IF token = None THEN @ ELSE token]

SaveSource(t) ==
    /\ thread[t].step \in {"saving", "finishing"}
    /\ UpdateCollectionSource(thread[t].source, thread[t].token)
    /\ IF At(t, "saving") THEN Done(t) ELSE Goto(t, "completing")
    /\ UNCHANGED <<users, requests, session, throttles>>

\* complete_setup; the first run is then asked for (CollectNow).
CompleteSetup(t) ==
    /\ At(t, "completing")
    /\ settings' = [settings EXCEPT !.completed = TRUE]
    /\ Done(t)
    /\ UNCHANGED <<users, requests, session, throttles>>

---------------------------------------------------------------------------
(* The clock, and the web app's restarts. *)

\* Ages stop at the window's end: later than that is all the same.
Older(ages) == [i \in DOMAIN ages |-> IF ages[i] < WindowTicks THEN ages[i] + 1 ELSE ages[i]]

Tick ==
    /\ \E k \in Keys : Recent(failures[k]) # <<>>
    /\ failures' = [k \in Keys |-> Older(failures[k])]
    /\ guesses' = [k \in Keys |-> Recent(Older(guesses[k]))]
    /\ UNCHANGED <<wizard, requests, session, thread>>

\* Requests under way are lost, and the counters are cleared.
Restart ==
    /\ thread' = [t \in Threads |-> Idle]
    /\ failures' = [k \in Keys |-> <<>>] /\ guesses' = [k \in Keys |-> <<>>]
    /\ UNCHANGED <<wizard, requests, session>>

ThreadStep(t) ==
    \/ \E address \in Addresses :
        \/ LoginSubmit(t, address) \/ SubmitAdmin(t, address)
        \/ SubmitCollection(t, address) \/ SubmitSource(t, address)
    \/ WrongPassword(t) \/ CountForAccount(t)
    \/ RightPassword(t) \/ SignIn(t)
    \/ CreateAdmin(t) \/ SaveSource(t) \/ CompleteSetup(t)

Next ==
    \/ \E t \in Threads : ThreadStep(t)
    \/ \E address \in Addresses : Logout(address)
    \/ Tick \/ Restart

Spec == Init /\ [][Next]_vars

---------------------------------------------------------------------------
(* Properties *)

\* However many browsers finish the wizard at once, one becomes the administrator, and
\* only that one is signed in by it (setup.py, create_first_user).
OneAdministrator ==
    /\ Cardinality(users) <= 1
    /\ \A a \in Addresses : session[a] = "created" => users = {a}

\* Collection from Apify always has a token, whatever was left empty and whichever
\* requests ran at once (update_collection_source); and the wizard was finished by someone.
ApifyHasAToken ==
    /\ settings.source = "apify" => settings.token # None
    /\ settings.completed => users # {}

\* Within a window no more wrong passwords are tried from an address, or on the account,
\* than its limit and the attempts that were checked before the last of them counted
\* (login_submit: the check and the record are apart; throttle.py keeps the last ones).
GuessesAreLimited == \A k \in Keys : Len(guesses[k]) < Limit(k) + Cardinality(Threads)

\* The wait an answer states (Retry-After) is enough, and no more than a second longer
\* than needed, when nothing is added or cleared meanwhile (retry_after).
RetryAfterIsRight ==
    \A key \in Keys :
        LET WaitIn(ticks) == RetryAfter([i \in DOMAIN failures[key] |-> failures[key][i] + ticks],
                                        Limit(key))
        IN /\ WaitIn(Wait(key) * TicksPerSecond) = 0
           /\ Wait(key) > 0 => WaitIn((Wait(key) - 1) * TicksPerSecond) > 0
=============================================================================
