-------------------------- MODULE AccountsProofs --------------------------
(***************************************************************************)
(* What holds of Accounts for any number of browsers, threads and limits:  *)
(* first the administrator and the token, then the throttle, whose list of *)
(* failures is trimmed, and what it says of all the guesses made.          *)
(***************************************************************************)
EXTENDS Accounts, TLAPS, FiniteSetTheorems, ListsProofs

Steps == {"idle", "verifying", "counting", "resetting", "creating", "saving", "finishing",
          "completing"}

Request == [step: Steps, from: Addresses \cup {None}, account: {None, Account},
            source: Sources \cup {None}, token: Tokens \cup {None}]

Types ==
    /\ session \in [Addresses -> {None, "created", "login"}]
    /\ settings \in [completed: BOOLEAN, source: Sources, token: Tokens \cup {None}]
    /\ thread \in [Threads -> Request]

\* A cookie of the wizard is the creator's; there is one user at most.
Admin ==
    /\ users = {} \/ \E a \in Addresses \cup {None} : users = {a}
    /\ \A a \in Addresses : session[a] = "created" => users = {a}

\* A request past its checks comes after the administrator, and one that turns Apify on
\* brings a token or found one stored, which stays.
Allowed(request) ==
    /\ request.account # None => users # {}
    /\ request.step \in {"resetting", "finishing", "completing"} => users # {}
    /\ request.step \in {"saving", "finishing"} =>
          /\ request.source \in Sources
          /\ request.source = "apify" => request.token # None \/ settings.token # None

Inv ==
    /\ Types
    /\ Admin
    /\ \A a \in Addresses : session[a] # None => users # {}
    /\ \A t \in Threads : Allowed(thread[t])
    /\ ApifyHasAToken

\* A request that is not there yet is one.
LEMMA IdleRequest == Idle \in Request /\ Idle.step = "idle" /\ Idle.account = None
BY DEF Idle, Request, Steps

\* Nobody has set anything up.
LEMMA InitInv == Init => Inv
BY IdleRequest DEF Init, Inv, Types, Admin, Allowed, ApifyHasAToken, Sources, Idle, None

\* A step of a thread that changes neither users, settings nor cookies.
LEMMA Quiet ==
    ASSUME Inv, NEW t \in Threads, NEW request \in Request, Allowed(request),
           users' = users, settings' = settings, session' = session,
           thread' = [thread EXCEPT ![t] = request]
    PROVE  Inv'
BY DEF Inv, Types, Admin, Allowed, ApifyHasAToken

\* A thread without a request has got past no guard.
LEMMA IdleAllowed == Allowed(Idle)
BY DEF Allowed, Idle, None

\* Every step keeps the invariant.
LEMMA StepInv == Inv /\ [Next]_vars => Inv'
<1> SUFFICES ASSUME Inv, [Next]_vars PROVE Inv'
  OBVIOUS
<1>1. ASSUME NEW t \in Threads, NEW address \in Addresses, LoginSubmit(t, address)
      PROVE  Inv'
  <2>1. PICK account \in {None} \cup (IF users = {} THEN {} ELSE {Account}) :
          thread' = [thread EXCEPT ![t] = [Idle EXCEPT !.step = "verifying", !.from = address,
                                                      !.account = account]]
    BY <1>1 DEF LoginSubmit
  <2> DEFINE request == [Idle EXCEPT !.step = "verifying", !.from = address, !.account = account]
  <2>2. request \in Request /\ Allowed(request)
    BY <2>1 DEF Idle, Request, Steps, Allowed
  <2>3. users' = users /\ settings' = settings /\ session' = session
    BY <1>1 DEF LoginSubmit, wizard
  <2> QED
    BY <2>1, <2>2, <2>3, Quiet
<1>2. ASSUME NEW t \in Threads, WrongPassword(t) \/ CountForAccount(t) \/ RightPassword(t)
      PROVE  Inv'
  <2>1. users' = users /\ settings' = settings /\ session' = session
    BY <1>2 DEF WrongPassword, CountForAccount, RightPassword, wizard
  <2>2. CASE Done(t)
    BY <2>1, <2>2, IdleRequest, IdleAllowed, Quiet DEF Done
  <2>3. ASSUME NEW step \in {"counting", "resetting"}, Goto(t, step), thread[t].account # None
        PROVE  Inv'
    <3> DEFINE request == [thread[t] EXCEPT !.step = step]
    <3>1. request \in Request
      BY <2>3 DEF Inv, Types, Request, Steps
    <3>2. request.step = step /\ request.account = thread[t].account
      BY <2>3 DEF Inv, Types, Request
    <3>3. Allowed(request)
      BY <2>3, <3>2 DEF Inv, Allowed
    <3>4. thread' = [thread EXCEPT ![t] = request]
      BY <2>3 DEF Goto
    <3> QED
      BY <2>1, <3>1, <3>3, <3>4, Quiet
  <2> QED
    BY <1>2, <2>2, <2>3 DEF WrongPassword, CountForAccount, RightPassword
<1>3. ASSUME NEW t \in Threads, SignIn(t)
      PROVE  Inv'
  <2>1. /\ users' = users /\ settings' = settings /\ users # {}
        /\ thread' = [thread EXCEPT ![t] = Idle]
        /\ session' = [session EXCEPT ![thread[t].from] = "login"]
    BY <1>3 DEF SignIn, wizard, At, Inv, Allowed, Done
  <2>2. \A a \in Addresses : session'[a] \in {session[a], "login"}
    BY <2>1 DEF Inv, Types
  <2>3. Types' /\ Admin'
    BY <2>1, <2>2, IdleRequest DEF Inv, Types, Admin
  <2>4. \A u \in Threads : Allowed(thread'[u])
    BY <2>1, IdleAllowed DEF Inv, Types
  <2> QED
    BY <2>1, <2>3, <2>4 DEF Inv, Allowed, ApifyHasAToken
<1>4. ASSUME NEW address \in Addresses, Logout(address)
      PROVE  Inv'
  <2>1. /\ users' = users /\ settings' = settings /\ thread' = thread
        /\ session' = [session EXCEPT ![address] = None]
    BY <1>4 DEF Logout, wizard
  <2>2. \A a \in Addresses : session'[a] \in {session[a], None}
    BY <2>1 DEF Inv, Types
  <2> QED
    BY <2>1, <2>2 DEF Inv, Types, Admin, Allowed, ApifyHasAToken, None
<1>5. ASSUME NEW t \in Threads, NEW address \in Addresses, SubmitAdmin(t, address)
      PROVE  Inv'
  <2> DEFINE request == [Idle EXCEPT !.step = "creating", !.from = address]
  <2>1. /\ users' = users /\ settings' = settings /\ session' = session
        /\ thread' = [thread EXCEPT ![t] = request]
    BY <1>5 DEF SubmitAdmin, Send
  <2>2. request \in Request /\ Allowed(request)
    BY DEF Idle, Request, Steps, Allowed
  <2> QED
    BY <2>1, <2>2, Quiet
<1>6. ASSUME NEW t \in Threads, CreateAdmin(t)
      PROVE  Inv'
  <2> DEFINE address == thread[t].from
  <2>1. /\ users' = (IF users = {} THEN {address} ELSE users)
        /\ session' = (IF users' # users THEN [session EXCEPT ![address] = "created"] ELSE session)
        /\ settings' = settings /\ thread' = [thread EXCEPT ![t] = Idle]
    BY <1>6 DEF CreateAdmin, CreateFirstUser, Done
  <2>2. address \in Addresses \cup {None}
    BY DEF Inv, Types, Request
  <2> HIDE DEF address
  <2>3. users' # {}
    BY <2>1
  <2>4. Types'
    BY <2>1, IdleRequest DEF Inv, Types
  <2>5. Admin'
    <3>1. CASE users = {}
      <4>1. users' = {address} /\ session' = [session EXCEPT ![address] = "created"]
        BY <2>1, <3>1
      <4>2. \A a \in Addresses : session[a] # "created"
        BY <3>1 DEF Inv, Admin
      <4> QED
        BY <2>2, <4>1, <4>2 DEF Admin, Inv, Types
    <3>2. CASE users # {}
      BY <2>1, <3>2 DEF Inv, Admin
    <3> QED
      BY <3>1, <3>2
  <2>6. \A u \in Threads : Allowed(thread[u])'
    <3> SUFFICES ASSUME NEW u \in Threads PROVE Allowed(thread[u])'
      OBVIOUS
    <3>1. thread'[u] \in {thread[u], Idle}
      BY <2>1 DEF Inv, Types
    <3> QED
      BY <2>1, <2>3, <3>1, IdleAllowed DEF Inv, Allowed
  <2> QED
    BY <2>1, <2>3, <2>4, <2>5, <2>6 DEF Inv, ApifyHasAToken
<1>7. ASSUME NEW t \in Threads, NEW address \in Addresses,
             SubmitCollection(t, address) \/ SubmitSource(t, address)
      PROVE  Inv'
  <2>1. PICK source \in Sources, token \in Tokens \cup {None}, step \in {"finishing", "saving"} :
          /\ thread' = [thread EXCEPT ![t] = [Idle EXCEPT !.step = step, !.from = address,
                                                         !.source = source, !.token = token]]
          /\ source = "apify" => Checked(token) # None
    BY <1>7 DEF SubmitCollection, SubmitSource, Send, None
  <2> DEFINE request == [Idle EXCEPT !.step = step, !.from = address,
                                     !.source = source, !.token = token]
  <2>2. users' = users /\ settings' = settings /\ session' = session /\ users # {}
    BY <1>7 DEF SubmitCollection, SubmitSource, AfterAdmin, NeedsSetup, Authed, Inv
  <2>3. request \in Request
    BY <2>1 DEF Idle, Request, Steps
  <2>4. Allowed(request)
    BY <2>1, <2>2 DEF Idle, Allowed, Checked
  <2> QED
    BY <2>1, <2>2, <2>3, <2>4, Quiet
<1>8. ASSUME NEW t \in Threads, SaveSource(t)
      PROVE  Inv'
  <2>1. /\ users' = users /\ session' = session
        /\ settings' = [settings EXCEPT !.source = thread[t].source,
                          !.token = IF thread[t].token = None THEN @ ELSE thread[t].token]
        /\ thread[t].step \in {"saving", "finishing"}
        /\ Done(t) \/ (thread[t].step = "finishing" /\ Goto(t, "completing"))
    BY <1>8 DEF SaveSource, UpdateCollectionSource, At
  <2>2. /\ thread[t].source \in Sources /\ thread[t].token \in Tokens \cup {None}
        /\ thread[t].source = "apify" => thread[t].token # None \/ settings.token # None
    BY <2>1 DEF Inv, Types, Request, Allowed
  <2>3. /\ settings' \in [completed: BOOLEAN, source: Sources, token: Tokens \cup {None}]
        /\ settings'.completed = settings.completed
        /\ settings'.source = thread[t].source
        /\ settings'.token = (IF thread[t].token = None THEN settings.token ELSE thread[t].token)
    BY <2>1, <2>2 DEF Inv, Types
  <2>4. PICK request \in Request :
          /\ thread' = [thread EXCEPT ![t] = request]
          /\ request = Idle \/ (request.step = "completing" /\ request.account = thread[t].account
                               /\ thread[t].step = "finishing")
    <3>1. CASE Done(t)
      BY <3>1, IdleRequest DEF Done
    <3>2. CASE thread[t].step = "finishing" /\ Goto(t, "completing")
      <4> DEFINE request == [thread[t] EXCEPT !.step = "completing"]
      <4>1. /\ request \in Request /\ request.step = "completing"
            /\ request.account = thread[t].account
        BY DEF Inv, Types, Request, Steps
      <4> QED
        BY <3>2, <4>1 DEF Goto
    <3> QED
      BY <2>1, <3>1, <3>2
  <2>5. Allowed(request)
    BY <2>4, IdleAllowed DEF Inv, Allowed
  <2>6. Types' /\ Admin'
    BY <2>1, <2>3, <2>4 DEF Inv, Types, Admin
  <2>7. \A u \in Threads : Allowed(thread[u])'
    <3> SUFFICES ASSUME NEW u \in Threads PROVE Allowed(thread[u])'
      OBVIOUS
    <3>1. thread'[u] \in {thread[u], request}
      BY <2>4 DEF Inv, Types
    <3>2. settings.token # None => settings'.token # None
      BY <2>3
    <3> QED
      BY <2>1, <2>5, <3>1, <3>2 DEF Inv, Allowed
  <2>8. ApifyHasAToken'
    BY <2>1, <2>2, <2>3 DEF Inv, ApifyHasAToken
  <2> QED
    BY <2>1, <2>6, <2>7, <2>8 DEF Inv
<1>9. ASSUME NEW t \in Threads, CompleteSetup(t)
      PROVE  Inv'
  <2>1. /\ users' = users /\ session' = session /\ users # {}
        /\ thread' = [thread EXCEPT ![t] = Idle]
        /\ settings' = [settings EXCEPT !.completed = TRUE]
    BY <1>9 DEF CompleteSetup, At, Inv, Allowed, Done
  <2>2. /\ settings' \in [completed: BOOLEAN, source: Sources, token: Tokens \cup {None}]
        /\ settings'.source = settings.source /\ settings'.token = settings.token
    BY <2>1 DEF Inv, Types
  <2>3. \A u \in Threads : Allowed(thread'[u])
    BY <2>1, IdleAllowed DEF Inv, Types
  <2> QED
    BY <2>1, <2>2, <2>3, IdleRequest DEF Inv, Types, Admin, Allowed, ApifyHasAToken
<1>10. CASE Tick \/ UNCHANGED vars
  BY <1>10 DEF Tick, wizard, vars, Inv, Types, Admin, Allowed, ApifyHasAToken
<1>11. CASE Restart
  <2>1. /\ users' = users /\ session' = session /\ settings' = settings
        /\ thread' = [t \in Threads |-> Idle]
    BY <1>11 DEF Restart, wizard
  <2> QED
    BY <2>1, IdleRequest, IdleAllowed DEF Inv, Types, Admin, Allowed, ApifyHasAToken
<1> QED
  BY <1>1, <1>2, <1>3, <1>4, <1>5, <1>6, <1>7, <1>8, <1>9, <1>10, <1>11
  DEF Next, ThreadStep

---------------------------------------------------------------------------
\* The invariant holds of every behavior.
LEMMA Invariant == Spec => []Inv
BY InitInv, StepInv, PTL DEF Spec

\* The account the wizard made is the only user.
LEMMA OneUserAtMost == Admin => OneAdministrator
<1> SUFFICES ASSUME Admin PROVE OneAdministrator
  OBVIOUS
<1>1. CASE users = {}
  BY <1>1, FS_EmptySet, 0 <= 1 DEF Admin, OneAdministrator
<1>2. CASE \E a \in Addresses \cup {None} : users = {a}
  BY <1>2, FS_Singleton, 1 <= 1 DEF Admin, OneAdministrator
<1> QED
  BY <1>1, <1>2 DEF Admin

\* One browser becomes the administrator, and only that one gets a cookie by it, however
\* many submit the wizard's form at once (create_first_user).
THEOREM OneAdministratorEver == Spec => []OneAdministrator
<1>1. Inv => OneAdministrator
  BY OneUserAtMost DEF Inv
<1> QED
  BY <1>1, Invariant, PTL

\* No two forms, of the wizard or of Settings, leave Apify on without a token, and setup
\* is never complete before there is an administrator (update_collection_source).
THEOREM ApifyAlwaysHasAToken == Spec => []ApifyHasAToken
<1>1. Inv => ApifyHasAToken
  BY DEF Inv
<1> QED
  BY <1>1, Invariant, PTL

---------------------------------------------------------------------------
(* The throttle: what its two lists hold, and what a wait says of them.    *)

\* The bounds are not zero.
LEMMA Bounds ==
    /\ WindowTicks \in Nat \ {0} /\ TicksPerSecond \in Nat \ {0}
    /\ \A k \in Keys : Limit(k) \in Nat \ {0}
BY AccountsAssumption DEF WindowTicks, Limit

\* Failures are appended as they come.
OldestFirst(ages) == \A i, j \in DOMAIN ages : i <= j => ages[j] <= ages[i]

\* The last n guesses are all among the failures kept, and those are the last ones.
Kept(kept, guessed, n) ==
    \A i \in 1..Len(guessed) : i <= n =>
        /\ i <= Len(kept)
        /\ kept[Len(kept) - i + 1] = guessed[Len(guessed) - i + 1]

\* What is kept of a key limited to n failures, and what it is kept of.
Throttle(kept, guessed, n) ==
    /\ kept \in Seq(0..WindowTicks) /\ guessed \in Seq(0..(WindowTicks - 1))
    /\ OldestFirst(kept) /\ OldestFirst(guessed)
    /\ Len(kept) <= n
    /\ Kept(kept, guessed, n)

\* One waits while n failures are within the window: until the first of them is not.
LEMMA WaitIs ==
    ASSUME NEW ages \in Seq(Nat), OldestFirst(ages), NEW n \in Nat \ {0}, Len(ages) <= n
    PROVE  /\ Len(ages) < n \/ ages[1] >= WindowTicks => RetryAfter(ages, n) = 0
           /\ (Len(ages) = n /\ ages[1] < WindowTicks) =>
                 /\ RetryAfter(ages, n)
                       = (WindowTicks - ages[1] + TicksPerSecond - 1) \div TicksPerSecond
                 /\ RetryAfter(ages, n) > 0
<1> DEFINE fresh == {i \in DOMAIN ages : ages[i] < WindowTicks}
           m == Len(Recent(ages))
<1>1. fresh \in SUBSET DOMAIN ages /\ Recent(ages) = Where(ages, fresh)
  BY DEF Recent
<1>2. Recent(ages) \in Seq(Nat) /\ m \in Nat /\ DOMAIN ages = 1..Len(ages) /\ Len(ages) \in Nat
  BY <1>1, WhereIs
<1>3. m <= Len(ages) /\ (fresh # DOMAIN ages => m < Len(ages))
  BY <1>1, <1>2, WhereLen
<1>4. ASSUME Len(ages) < n \/ ages[1] >= WindowTicks PROVE RetryAfter(ages, n) = 0
  <2>1. CASE Len(ages) < n
    BY <1>2, <1>3, <2>1 DEF RetryAfter
  <2>2. CASE Len(ages) = n /\ ages[1] >= WindowTicks
    <3>1. 1 \in DOMAIN ages /\ ages[1] \in Nat
      BY <1>2, <2>2
    <3>2. 1 \notin fresh
      BY <2>2, <3>1, Bounds
    <3> HIDE DEF fresh
    <3>3. m < n
      BY <1>3, <2>2, <3>1, <3>2
    <3> QED
      BY <3>3 DEF RetryAfter
  <2>3. Len(ages) < n \/ Len(ages) = n
    <3>1. n \in Nat /\ Len(ages) \in Nat /\ Len(ages) <= n
      BY <1>2
    <3> QED
      BY ONLY <3>1
  <2> QED
    BY <1>4, <2>1, <2>2, <2>3
<1>5. ASSUME Len(ages) = n, ages[1] < WindowTicks
      PROVE  /\ RetryAfter(ages, n)
                   = (WindowTicks - ages[1] + TicksPerSecond - 1) \div TicksPerSecond
             /\ RetryAfter(ages, n) > 0
  <2>1. 1 \in DOMAIN ages /\ ages[1] \in Nat /\ WindowTicks \in Nat
    BY <1>2, <1>5, Bounds
  <2>2. fresh = DOMAIN ages
    <3>1. \A i \in DOMAIN ages : 1 <= i /\ ages[i] \in Nat
      BY <1>2
    <3>2. \A i \in DOMAIN ages : ages[i] <= ages[1]
      BY <2>1, <3>1 DEF OldestFirst
    <3> QED
      BY <1>5, <2>1, <3>1, <3>2
  <2> HIDE DEF fresh
  <2>3. Recent(ages) = ages
    BY <1>1, <2>2, WhereLen
  <2> DEFINE T == TicksPerSecond
             a == WindowTicks - ages[1] + T - 1
             q == a \div T
  <2>4. RetryAfter(ages, n) = q
    BY <1>5, <2>3 DEF RetryAfter
  <2>5. T \in Nat \ {0} /\ a \in Nat /\ a >= T
    BY <1>5, <2>1, Bounds
  <2>6. q \in Nat /\ a < q * T + T
    BY <2>5, DivisionIs
  <2>7. q # 0
    <3> HIDE DEF a, T, q
    <3> SUFFICES ASSUME q = 0 PROVE FALSE
      OBVIOUS
    <3>1. q * T = 0
      BY <2>5
    <3> QED
      BY <2>5, <2>6, <3>1
  <2> QED
    BY <2>4, <2>6, <2>7
<1> QED
  BY <1>4, <1>5

\* Whoever need not wait has not guessed n times.
LEMMA NoWait ==
    ASSUME NEW kept, NEW guessed, NEW n \in Nat \ {0}, Throttle(kept, guessed, n),
           RetryAfter(kept, n) = 0
    PROVE  Len(guessed) < n
<1> SUFFICES ASSUME Len(guessed) >= n PROVE FALSE
  BY DEF Throttle
<1> DEFINE g == Len(guessed)
           first == g - n + 1
<1>1. g \in Nat /\ DOMAIN guessed = 1..g /\ Len(kept) \in Nat /\ DOMAIN kept = 1..Len(kept)
  BY DEF Throttle
<1>2. n \in 1..g /\ g - n + 1 \in 1..g
  BY <1>1
<1>3. n <= Len(kept) /\ kept[Len(kept) - n + 1] = guessed[g - n + 1]
  BY <1>2 DEF Throttle, Kept
<1>4. Len(kept) = n
  <2>1. Len(kept) <= n
    BY DEF Throttle
  <2>2. n \in Nat
    OBVIOUS
  <2>3. Len(kept) \in Nat /\ n <= Len(kept)
    BY <1>1, <1>3
  <2> QED
    BY ONLY <2>1, <2>2, <2>3
<1>5. kept[1] = guessed[g - n + 1]
  <2>1. Len(kept) - n + 1 = 1
    BY <1>4
  <2> QED
    BY <1>3, <2>1
<1>6. guessed[g - n + 1] \in 0..(WindowTicks - 1)
  <2>1. guessed \in Seq(0..(WindowTicks - 1))
    BY DEF Throttle
  <2> QED
    BY <1>2, <2>1, ElementIs
<1>7. kept[1] < WindowTicks
  BY <1>5, <1>6, Bounds
<1>8. kept \in Seq(Nat) /\ OldestFirst(kept)
  BY Bounds DEF Throttle
<1> QED
  BY <1>4, <1>7, <1>8, WaitIs

\* Nothing was tried.
LEMMA ThrottleEmpty == ASSUME NEW n \in Nat PROVE Throttle(<<>>, <<>>, n)
BY DEF Throttle, Kept, OldestFirst

\* One more failure: it is the youngest.
LEMMA OldestFirstAppend ==
    ASSUME NEW ages \in Seq(Nat), OldestFirst(ages)
    PROVE  OldestFirst(Append(ages, 0))
<1> DEFINE n == Len(ages)
           more == Append(ages, 0)
<1>1. /\ n \in Nat /\ DOMAIN ages = 1..n /\ DOMAIN more = 1..(n + 1)
      /\ more[n + 1] = 0 /\ \A i \in 1..n : more[i] = ages[i] /\ ages[i] \in Nat
  OBVIOUS
<1> HIDE DEF n, more
<1> SUFFICES ASSUME NEW i \in 1..(n + 1), NEW j \in 1..(n + 1), i <= j
             PROVE  more[j] <= more[i]
  BY <1>1 DEF OldestFirst, more
<1>2. CASE j = n + 1
  <2>1. more[i] \in Nat
    BY <1>1
  <2> QED
    BY <1>1, <1>2, <2>1
<1>3. CASE j \in 1..n
  <2>1. i \in 1..n
    BY <1>1, <1>3
  <2> QED
    BY <1>1, <1>3, <2>1 DEF OldestFirst
<1> QED
  BY <1>1, <1>2, <1>3

\* The last failures of a list.
LEMMA TrimmedIs ==
    ASSUME NEW S, NEW ages \in Seq(S), NEW n \in Nat
    PROVE  LET kept == Trimmed(ages, n)
           IN  /\ kept \in Seq(S)
               /\ Len(kept) = IF Len(ages) <= n THEN Len(ages) ELSE n
               /\ \A i \in 1..Len(kept) : kept[i] = ages[Len(ages) - Len(kept) + i]
<1> DEFINE l == Len(ages)
<1>1. l \in Nat /\ DOMAIN ages = 1..l /\ \A i \in 1..l : ages[i] \in S
  BY ElementIs
<1>2. CASE l <= n
  <2>1. Trimmed(ages, n) = ages
    BY <1>2 DEF Trimmed
  <2> HIDE DEF l
  <2> QED
    BY <1>1, <1>2, <2>1 DEF l
<1>3. CASE ~(l <= n)
  <2> DEFINE kept == SubSeq(ages, l - n + 1, l)
  <2>1. Trimmed(ages, n) = kept
    BY <1>3 DEF Trimmed
  <2>2. l - n + 1 \in 1..(l + 1)
    BY <1>1, <1>3
  <2>3. kept = [i \in 1..n |-> ages[l - n + i]]
    <3>1. kept = [i \in 1..(l - (l - n + 1) + 1) |-> ages[i + (l - n + 1) - 1]]
      BY <1>1, <2>2
    <3>2. l - (l - n + 1) + 1 = n
      BY <1>1
    <3>3. \A i \in 1..n : i + (l - n + 1) - 1 = l - n + i
      BY <1>1
    <3> HIDE DEF kept, l
    <3> QED
      BY <3>1, <3>2, <3>3
  <2>4. \A i \in 1..n : ages[l - n + i] \in S
    BY <1>1, <1>3
  <2> HIDE DEF kept
  <2>5. kept \in Seq(S) /\ Len(kept) = n
    BY <2>3, <2>4
  <2> HIDE DEF l
  <2> QED
    BY <1>3, <2>1, <2>3, <2>5 DEF l
<1> QED
  BY <1>2, <1>3

\* A failure is recorded.
LEMMA ThrottleRecord ==
    ASSUME NEW kept, NEW guessed, NEW n \in Nat \ {0}, Throttle(kept, guessed, n)
    PROVE  /\ Throttle(Trimmed(Append(kept, 0), n), Append(guessed, 0), n)
           /\ Len(Append(guessed, 0)) = Len(guessed) + 1
<1> DEFINE f == Append(kept, 0)
           g == Append(guessed, 0)
           t == Trimmed(f, n)
           W == WindowTicks
<1>0. W \in Nat \ {0} /\ n \in Nat /\ n > 0
  BY Bounds
<1>1. /\ kept \in Seq(0..W) /\ guessed \in Seq(0..(W - 1)) /\ Len(kept) \in Nat
      /\ Len(guessed) \in Nat
  BY DEF Throttle
<1>2. f \in Seq(0..W) /\ g \in Seq(0..(W - 1))
  BY <1>0, <1>1
<1>3. /\ Len(f) = Len(kept) + 1 /\ Len(g) = Len(guessed) + 1
      /\ f[Len(kept) + 1] = 0 /\ g[Len(guessed) + 1] = 0
      /\ \A i \in 1..Len(kept) : f[i] = kept[i]
      /\ \A i \in 1..Len(guessed) : g[i] = guessed[i]
  BY <1>1
<1>4. OldestFirst(f) /\ OldestFirst(g)
  <2>1. kept \in Seq(Nat) /\ guessed \in Seq(Nat)
    BY <1>0, <1>1
  <2> QED
    BY <2>1, OldestFirstAppend DEF Throttle
<1> HIDE DEF f, g, W, t
<1>5. /\ t \in Seq(0..W) /\ Len(t) = (IF Len(f) <= n THEN Len(f) ELSE n)
      /\ \A i \in 1..Len(t) : t[i] = f[Len(f) - Len(t) + i]
  BY <1>0, <1>2, TrimmedIs DEF t
<1>6. Len(t) <= n /\ Len(t) <= Len(f) /\ Len(t) \in Nat
  BY <1>0, <1>1, <1>3, <1>5
<1>7. OldestFirst(t)
  <2>1. DOMAIN t = 1..Len(t) /\ DOMAIN f = 1..Len(f) /\ Len(f) \in Nat
    BY <1>2, <1>5
  <2> SUFFICES ASSUME NEW i \in 1..Len(t), NEW j \in 1..Len(t), i <= j
               PROVE  t[j] <= t[i]
    BY <2>1 DEF OldestFirst
  <2> DEFINE a == Len(f) - Len(t) + i
             b == Len(f) - Len(t) + j
  <2>2. a \in 1..Len(f) /\ b \in 1..Len(f) /\ a <= b
    BY <1>6, <2>1
  <2>3. f[b] <= f[a]
    BY <1>4, <2>1, <2>2 DEF OldestFirst
  <2> QED
    BY <1>5, <2>3
<1>8. Kept(t, g, n)
  <2> SUFFICES ASSUME NEW i \in 1..Len(g), i <= n
               PROVE  i <= Len(t) /\ t[Len(t) - i + 1] = g[Len(g) - i + 1]
    BY DEF Kept
  <2>1. ASSUME i <= Len(t) PROVE t[Len(t) - i + 1] = f[Len(f) - i + 1]
    <3> DEFINE k == Len(t) - i + 1
    <3>1. k \in 1..Len(t) /\ Len(f) - Len(t) + k = Len(f) - i + 1
      BY <1>1, <1>3, <1>6, <2>1
    <3> HIDE DEF k
    <3>2. t[k] = f[Len(f) - Len(t) + k]
      BY <1>5, <3>1
    <3>3. t[k] = f[Len(f) - i + 1]
      BY <3>1, <3>2
    <3> QED
      BY <3>3 DEF k
  <2>2. CASE i = 1
    <3>1. 1 <= Len(t)
      BY <1>0, <1>1, <1>3, <1>5
    <3>2. Len(f) - 1 + 1 = Len(kept) + 1 /\ Len(g) - 1 + 1 = Len(guessed) + 1
      BY <1>1, <1>3
    <3> QED
      BY <1>3, <2>1, <2>2, <3>1, <3>2
  <2>3. CASE i # 1
    <3> DEFINE j == i - 1
    <3>1. j \in 1..Len(guessed) /\ j <= n
      BY <1>0, <1>1, <1>3, <2>3
    <3>2. j <= Len(kept) /\ kept[Len(kept) - j + 1] = guessed[Len(guessed) - j + 1]
      BY <3>1 DEF Throttle, Kept
    <3>3. i <= Len(t)
      BY <1>0, <1>1, <1>3, <1>5, <3>1, <3>2
    <3>4. /\ Len(kept) - j + 1 \in 1..Len(kept) /\ Len(kept) - j + 1 = Len(f) - i + 1
          /\ Len(guessed) - j + 1 \in 1..Len(guessed)
          /\ Len(guessed) - j + 1 = Len(g) - i + 1
      BY <1>1, <1>3, <3>1, <3>2
    <3> QED
      BY <1>3, <2>1, <3>2, <3>3, <3>4
  <2> QED
    BY <2>2, <2>3
<1> QED
  BY <1>2, <1>3, <1>4, <1>5, <1>6, <1>7, <1>8 DEF Throttle, t, g, f, W

\* A key whose last failure has aged out has nothing within the window.
LEMMA ThrottleForget ==
    ASSUME NEW kept, NEW guessed, NEW n \in Nat \ {0}, Throttle(kept, guessed, n),
           kept # <<>>, Last(kept) >= WindowTicks
    PROVE  guessed = <<>>
<1> SUFFICES ASSUME guessed # <<>> PROVE FALSE
  OBVIOUS
<1> DEFINE g == Len(guessed)
<1>1. guessed \in Seq(0..(WindowTicks - 1)) /\ kept \in Seq(0..WindowTicks)
  BY DEF Throttle
<1>2. g \in Nat /\ g # 0 /\ Len(kept) \in Nat
  BY <1>1
<1>3. 1 \in 1..g /\ g \in 1..g /\ 1 <= n
  BY <1>2
<1>4. kept[Len(kept) - 1 + 1] = guessed[g - 1 + 1]
  BY <1>3 DEF Throttle, Kept
<1>5. kept[Len(kept)] = guessed[g]
  <2>1. Len(kept) - 1 + 1 = Len(kept) /\ g - 1 + 1 = g
    BY <1>2
  <2> QED
    BY <1>4, <2>1
<1>6. guessed[g] \in 0..(WindowTicks - 1)
  BY <1>1, <1>3, ElementIs
<1> QED
  BY <1>5, <1>6, Bounds DEF Last

\* A tick of the clock; what has left the window is forgotten of the guesses.
LEMMA ThrottleTick ==
    ASSUME NEW kept, NEW guessed, NEW n \in Nat \ {0}, Throttle(kept, guessed, n)
    PROVE  /\ Throttle(Older(kept), Recent(Older(guessed)), n)
           /\ Len(Recent(Older(guessed))) <= Len(guessed)
<1> DEFINE W == WindowTicks
           f == Older(kept)
           o == Older(guessed)
           fresh == {i \in DOMAIN o : o[i] < W}
           g == Recent(o)
           m == Cardinality(fresh)
<1>0. W \in Nat \ {0} /\ n \in Nat /\ n > 0
  BY Bounds
<1>1. /\ kept \in Seq(0..W) /\ guessed \in Seq(0..(W - 1))
      /\ OldestFirst(kept) /\ OldestFirst(guessed) /\ Kept(kept, guessed, n) /\ Len(kept) <= n
  BY DEF Throttle
<1>2. /\ Len(kept) \in Nat /\ DOMAIN kept = 1..Len(kept)
      /\ \A i \in 1..Len(kept) : kept[i] \in 0..W
      /\ Len(guessed) \in Nat /\ DOMAIN guessed = 1..Len(guessed)
      /\ \A i \in 1..Len(guessed) : guessed[i] \in 0..(W - 1)
  BY <1>1, ElementIs
<1>3. /\ f \in Seq(0..W) /\ Len(f) = Len(kept)
      /\ \A i \in 1..Len(f) : f[i] = IF kept[i] < W THEN kept[i] + 1 ELSE kept[i]
  <2>1. f = [i \in 1..Len(kept) |-> IF kept[i] < W THEN kept[i] + 1 ELSE kept[i]]
    BY <1>2 DEF Older
  <2>2. \A i \in 1..Len(kept) : (IF kept[i] < W THEN kept[i] + 1 ELSE kept[i]) \in 0..W
    BY <1>0, <1>2
  <2> HIDE DEF f, W
  <2> QED
    BY <1>2, <2>1, <2>2
<1>4. /\ o \in Seq(0..W) /\ Len(o) = Len(guessed)
      /\ \A i \in 1..Len(o) : o[i] = guessed[i] + 1
  <2>1. o = [i \in 1..Len(guessed) |-> guessed[i] + 1]
    BY <1>0, <1>2 DEF Older
  <2>2. \A i \in 1..Len(guessed) : guessed[i] + 1 \in 0..W
    BY <1>0, <1>2
  <2> HIDE DEF o, W
  <2> QED
    BY <1>2, <2>1, <2>2
<1> HIDE DEF f, o, W
<1>5. OldestFirst(f)
  <2>1. ASSUME NEW i \in 1..Len(f), NEW j \in 1..Len(f), i <= j PROVE f[j] <= f[i]
    <3>1. kept[j] <= kept[i] /\ kept[i] \in 0..W /\ kept[j] \in 0..W
      BY <1>1, <1>2, <1>3, <2>1 DEF OldestFirst
    <3> QED
      BY <1>0, <1>3, <3>1
  <2> QED
    BY <1>3, <2>1 DEF OldestFirst
<1>6. ASSUME NEW i \in 1..Len(o), NEW j \in 1..Len(o), i <= j PROVE o[j] <= o[i]
  <2>1. guessed[j] <= guessed[i] /\ guessed[i] \in 0..(W - 1) /\ guessed[j] \in 0..(W - 1)
    BY <1>1, <1>2, <1>4, <1>6 DEF OldestFirst
  <2> QED
    BY <1>0, <1>4, <2>1
<1>7. /\ m \in 0..Len(o) /\ Len(g) = m /\ g \in Seq(0..W)
      /\ fresh = (Len(o) - m + 1)..Len(o)
      /\ \A k \in 1..m : g[k] = o[Len(o) - m + k]
  <2>1. DOMAIN o = 1..Len(o) /\ Len(o) \in Nat
    BY <1>4
  <2>2. \A i \in 1..Len(o) : o[i] \in 0..W
    BY <1>4, ElementIs
  <2>3. ASSUME NEW i \in fresh, NEW j \in DOMAIN o, i <= j PROVE j \in fresh
    <3>1. o[j] <= o[i] /\ o[i] < W /\ o[i] \in 0..W /\ o[j] \in 0..W
      BY <1>6, <2>1, <2>2, <2>3
    <3> QED
      BY <1>0, <3>1
  <2>4. fresh \in SUBSET DOMAIN o
    OBVIOUS
  <2>5. g = Where(o, fresh)
    BY DEF Recent, W
  <2> HIDE DEF fresh, g
  <2> QED
    BY <1>4, <2>3, <2>4, <2>5, WhereLast
<1> HIDE DEF g, m
<1>8. ASSUME NEW k \in 1..m
      PROVE  /\ Len(o) - m + k \in 1..Len(o)
             /\ g[k] = guessed[Len(o) - m + k] + 1 /\ g[k] \in 0..(W - 1)
  <2> DEFINE i == Len(o) - m + k
  <2>1. i \in 1..Len(o) /\ i \in (Len(o) - m + 1)..Len(o)
    BY <1>2, <1>4, <1>7
  <2> HIDE DEF i
  <2>2. o[i] < W /\ i \in fresh
    BY <1>7, <2>1
  <2>3. g[k] = o[i]
    BY <1>7 DEF i
  <2>4. o[i] \in 0..W
    BY <1>4, <2>1, ElementIs
  <2> QED
    BY <1>0, <1>4, <2>1, <2>2, <2>3, <2>4 DEF i
<1>9. g \in Seq(0..(W - 1)) /\ Len(g) = m /\ DOMAIN g = 1..m /\ m \in Nat /\ m <= Len(guessed)
  <2>1. m \in Nat /\ m <= Len(o)
    BY <1>2, <1>4, <1>7
  <2>2. DOMAIN g = 1..m
    BY <1>7, ElementIs
  <2>3. g = [k \in 1..m |-> g[k]]
    BY <1>7, <2>2
  <2>4. \A k \in 1..m : g[k] \in 0..(W - 1)
    BY <1>8
  <2>5. g \in [1..m -> 0..(W - 1)]
    BY <2>3, <2>4
  <2>6. g \in Seq(0..(W - 1))
    BY <2>1, <2>5, ListIs
  <2> QED
    BY <1>4, <1>7, <2>1, <2>2, <2>6
<1>10. OldestFirst(g)
  <2>1. ASSUME NEW i \in 1..m, NEW j \in 1..m, i <= j PROVE g[j] <= g[i]
    <3> DEFINE a == Len(o) - m + i
               b == Len(o) - m + j
    <3>1. a \in 1..Len(o) /\ b \in 1..Len(o)
      BY <1>8
    <3>2. a <= b
      BY <1>2, <1>4, <1>9, <2>1
    <3>3. g[i] = o[a] /\ g[j] = o[b]
      BY <1>7
    <3> HIDE DEF a, b
    <3> QED
      BY <1>6, <3>1, <3>2, <3>3
  <2> QED
    BY <1>9, <2>1 DEF OldestFirst
<1>11. Kept(f, g, n)
  <2> SUFFICES ASSUME NEW i \in 1..Len(g), i <= n
               PROVE  i <= Len(f) /\ f[Len(f) - i + 1] = g[Len(g) - i + 1]
    BY DEF Kept
  <2> DEFINE a == Len(guessed) - i + 1
             b == Len(kept) - i + 1
             k == m - i + 1
  <2>1. i \in 1..Len(guessed) /\ k \in 1..m /\ Len(o) - m + k = a /\ a \in 1..Len(guessed)
    BY <1>2, <1>4, <1>9
  <2>2. i <= Len(kept) /\ kept[b] = guessed[a]
    BY <1>1, <2>1 DEF Kept
  <2>3. b \in 1..Len(kept)
    BY <1>2, <2>1, <2>2
  <2> HIDE DEF a, b, k
  <2>4. g[k] = guessed[a] + 1
    BY <1>8, <2>1
  <2>5. guessed[a] \in 0..(W - 1)
    BY <1>2, <2>1
  <2>6. f[b] = guessed[a] + 1
    BY <1>0, <1>3, <2>2, <2>3, <2>5
  <2> QED
    BY <1>3, <1>9, <2>2, <2>4, <2>6 DEF a, b, k
<1> QED
  BY <1>1, <1>3, <1>5, <1>9, <1>10, <1>11 DEF Throttle, f, g, o, W

---------------------------------------------------------------------------
(* What the threads add to it.                                             *)

\* A request that has passed the check of a key and may still count a failure for it.
Trying(request, key) ==
    \/ request.step = "verifying" /\ (request.from = key \/ request.account = key)
    \/ request.step = "counting" /\ request.account = key

Pending(key) == {t \in Threads : Trying(thread[t], key)}

\* A sign-in comes from somewhere, and counts for an account only if it named one.
Signs(request) ==
    /\ request.step \in {"verifying", "counting"} => request.from \in Addresses
    /\ request.step = "counting" => request.account = Account

Throttled ==
    /\ failures \in [Keys -> Seq(0..WindowTicks)]
    /\ guesses \in [Keys -> Seq(0..(WindowTicks - 1))]
    /\ thread \in [Threads -> Request]
    /\ \A t \in Threads : Signs(thread[t])
    /\ \A k \in Keys : Throttle(failures[k], guesses[k], Limit(k))
    /\ \A k \in Keys : Len(guesses[k]) + Cardinality(Pending(k)) < Limit(k) + Cardinality(Threads)

\* The threads that may still count a failure are threads.
LEMMA PendingIs ==
    ASSUME NEW key
    PROVE  /\ IsFiniteSet(Pending(key)) /\ Cardinality(Pending(key)) \in Nat
           /\ Cardinality(Pending(key)) <= Cardinality(Threads) /\ Cardinality(Threads) \in Nat
<1>1. Pending(key) \in SUBSET Threads /\ IsFiniteSet(Threads)
  BY AccountsAssumption DEF Pending
<1> QED
  BY <1>1, FS_Subset, FS_CardinalityType

\* One thread goes on to another request.
LEMMA PendingAfter ==
    ASSUME NEW key, NEW t \in Threads, NEW request, thread \in [Threads -> Request],
           thread' = [thread EXCEPT ![t] = request]
    PROVE  /\ Cardinality(Pending(key)') \in Nat
           /\ Cardinality(Pending(key)') <= Cardinality(Threads)
           /\ (Trying(request, key) => Trying(thread[t], key)) =>
                 Cardinality(Pending(key)') <= Cardinality(Pending(key))
           /\ (~Trying(request, key) /\ Trying(thread[t], key)) =>
                 Cardinality(Pending(key)') = Cardinality(Pending(key)) - 1
<1> DEFINE P == Pending(key)
           Q == {u \in Threads : Trying(thread'[u], key)}
<1>1. Pending(key)' = Q
  BY DEF Pending, Trying
<1>2. \A u \in Threads : thread'[u] = IF u = t THEN request ELSE thread[u]
  OBVIOUS
<1>3. P = {u \in Threads : Trying(thread[u], key)}
  BY DEF Pending
<1>4. IsFiniteSet(P) /\ Cardinality(P) \in Nat
  BY PendingIs
<1>5. Q \in SUBSET Threads /\ IsFiniteSet(Threads) /\ IsFiniteSet(Q)
  BY AccountsAssumption, FS_Subset
<1>6. /\ Cardinality(Q) \in Nat /\ Cardinality(Q) <= Cardinality(Threads)
  BY <1>5, FS_Subset, FS_CardinalityType
<1>7. ASSUME Trying(request, key) => Trying(thread[t], key)
      PROVE  Cardinality(Q) <= Cardinality(P)
  <2>1. Q \in SUBSET P
    BY <1>2, <1>3, <1>7
  <2> HIDE DEF Q, P
  <2> QED
    BY <1>4, <2>1, FS_Subset
<1>8. ASSUME ~Trying(request, key), Trying(thread[t], key)
      PROVE  Cardinality(Q) = Cardinality(P) - 1
  <2>1. Q = P \ {t} /\ t \in P
    BY <1>2, <1>3, <1>8
  <2> HIDE DEF Q, P
  <2> QED
    BY <1>4, <2>1, FS_RemoveElement
<1> QED
  BY <1>1, <1>6, <1>7, <1>8

\* No thread is at a request.
LEMMA NonePending ==
    ASSUME \A t \in Threads : thread[t] = Idle, NEW key
    PROVE  Cardinality(Pending(key)) = 0
<1>1. Pending(key) = {}
  BY DEF Pending, Trying, Idle
<1> QED
  BY <1>1, FS_EmptySet

\* A sign-in is the only request that counts.
LEMMA NotTrying ==
    ASSUME NEW request, request.step \notin {"verifying", "counting"}, NEW key
    PROVE  Signs(request) /\ ~Trying(request, key)
BY DEF Signs, Trying

\* Nothing was tried, nobody is trying.
LEMMA InitThrottled == Init => Throttled
<1> SUFFICES ASSUME Init PROVE Throttled
  OBVIOUS
<1>1. \A t \in Threads : thread[t] = Idle
  BY DEF Init
<1>2. thread \in [Threads -> Request] /\ \A t \in Threads : Signs(thread[t])
  BY <1>1, IdleRequest, NotTrying DEF Init
<1>3. /\ failures \in [Keys -> Seq(0..WindowTicks)]
      /\ guesses \in [Keys -> Seq(0..(WindowTicks - 1))]
  BY DEF Init
<1>4. ASSUME NEW k \in Keys
      PROVE  /\ Throttle(failures[k], guesses[k], Limit(k))
             /\ Len(guesses[k]) + Cardinality(Pending(k)) < Limit(k) + Cardinality(Threads)
  <2>1. failures[k] = <<>> /\ guesses[k] = <<>> /\ Len(<<>>) = 0
    BY DEF Init
  <2>2. Limit(k) \in Nat \ {0} /\ Cardinality(Threads) \in Nat
    BY Bounds, PendingIs
  <2>3. Cardinality(Pending(k)) = 0
    BY <1>1, NonePending
  <2> QED
    BY <2>1, <2>2, <2>3, ThrottleEmpty
<1> QED
  BY <1>2, <1>3, <1>4 DEF Throttled

\* A request that counts for nothing comes or goes, and keys may be cleared.
LEMMA ThrottledQuiet ==
    ASSUME Throttled, NEW t \in Threads, NEW request \in Request,
           request.step \notin {"verifying", "counting"},
           thread' = [thread EXCEPT ![t] = request],
           failures' \in [Keys -> Seq(0..WindowTicks)],
           guesses' \in [Keys -> Seq(0..(WindowTicks - 1))],
           \A k \in Keys : \/ failures'[k] = failures[k] /\ guesses'[k] = guesses[k]
                           \/ failures'[k] = <<>> /\ guesses'[k] = <<>>
    PROVE  Throttled'
<1>1. thread' \in [Threads -> Request] /\ \A u \in Threads : Signs(thread'[u])
  BY NotTrying DEF Throttled
<1>2. ASSUME NEW k \in Keys
      PROVE  /\ Throttle(failures'[k], guesses'[k], Limit(k))
             /\ Len(guesses'[k]) + Cardinality(Pending(k)') < Limit(k) + Cardinality(Threads)
  <2>1. Throttle(failures'[k], guesses'[k], Limit(k))
    BY Bounds, ThrottleEmpty DEF Throttled
  <2>2. Cardinality(Pending(k)') \in Nat /\ Cardinality(Pending(k)') <= Cardinality(Pending(k))
    BY NotTrying, PendingAfter DEF Throttled
  <2>3. Len(guesses'[k]) \in Nat /\ Len(guesses'[k]) <= Len(guesses[k]) /\ Len(guesses[k]) \in Nat
    BY DEF Throttled
  <2>4. Limit(k) \in Nat /\ Cardinality(Threads) \in Nat /\ Cardinality(Pending(k)) \in Nat
    BY Bounds, PendingIs
  <2>5. Len(guesses[k]) + Cardinality(Pending(k)) < Limit(k) + Cardinality(Threads)
    BY DEF Throttled
  <2> QED
    BY <2>1, <2>2, <2>3, <2>4, <2>5
<1>3. \A u \in Threads : Signs(thread[u])'
  BY <1>1 DEF Signs
<1>4. /\ \A k \in Keys : Throttle(failures[k], guesses[k], Limit(k))'
      /\ \A k \in Keys : (Len(guesses[k]) + Cardinality(Pending(k))
                             < Limit(k) + Cardinality(Threads))'
  BY <1>2 DEF Throttle, Kept, OldestFirst, Limit, WindowTicks
<1> QED
  BY <1>1, <1>3, <1>4 DEF Throttled, WindowTicks, Keys

\* A failure is counted by a request that was trying and is done with that key.
LEMMA ThrottledRecord ==
    ASSUME Throttled, NEW key \in Keys, RecordFailure(key),
           NEW t \in Threads, NEW request \in Request, Signs(request),
           thread' = [thread EXCEPT ![t] = request],
           Trying(thread[t], key), ~Trying(request, key),
           \A k \in Keys : Trying(request, k) => Trying(thread[t], k)
    PROVE  Throttled'
<1> DEFINE Forgotten(k) == /\ (k = Account) = (key = Account)
                           /\ failures[k] # <<>> /\ Last(failures[k]) >= WindowTicks
           kept == [k \in Keys |-> IF Forgotten(k) THEN <<>> ELSE failures[k]]
<1>1. /\ failures' = [kept EXCEPT ![key] = Trimmed(Append(@, 0), Limit(key))]
      /\ guesses' = [guesses EXCEPT ![key] = Append(@, 0)]
  BY DEF RecordFailure, FailuresAfter
<1>2. ASSUME NEW k \in Keys PROVE Throttle(kept[k], guesses[k], Limit(k))
  <2>1. Throttle(failures[k], guesses[k], Limit(k)) /\ Limit(k) \in Nat \ {0}
    BY Bounds DEF Throttled
  <2>2. CASE Forgotten(k)
    <3>1. guesses[k] = <<>>
      BY <2>1, <2>2, ThrottleForget
    <3>2. kept[k] = <<>>
      BY <2>2
    <3> HIDE DEF kept
    <3> QED
      BY <2>1, <3>1, <3>2, ThrottleEmpty
  <2>3. CASE ~Forgotten(k)
    BY <2>1, <2>3
  <2> QED
    BY <2>2, <2>3
<1>3. \A k \in Keys \ {key} : failures'[k] = kept[k] /\ guesses'[k] = guesses[k]
  BY <1>1 DEF Throttled
<1>4. /\ failures'[key] = Trimmed(Append(kept[key], 0), Limit(key))
      /\ guesses'[key] = Append(guesses[key], 0)
  BY <1>1 DEF Throttled
<1>5. DOMAIN failures' = Keys /\ DOMAIN guesses' = Keys
  BY <1>1 DEF Throttled
<1>6. failures' = [k \in Keys |-> failures'[k]] /\ guesses' = [k \in Keys |-> guesses'[k]]
  BY <1>1 DEF Throttled
<1> HIDE DEF kept
<1>7. ASSUME NEW k \in Keys
      PROVE  /\ Throttle(failures'[k], guesses'[k], Limit(k))
             /\ Len(guesses'[k]) + Cardinality(Pending(k)') < Limit(k) + Cardinality(Threads)
  <2>1. Limit(k) \in Nat \ {0} /\ Cardinality(Threads) \in Nat /\ Cardinality(Pending(k)) \in Nat
    BY Bounds, PendingIs
  <2>2. /\ Len(guesses[k]) + Cardinality(Pending(k)) < Limit(k) + Cardinality(Threads)
        /\ Len(guesses[k]) \in Nat
    BY DEF Throttled
  <2>3. CASE k = key
    <3>1. Throttle(failures'[k], guesses'[k], Limit(k)) /\ Len(guesses'[k]) = Len(guesses[k]) + 1
      BY <1>2, <1>4, <2>1, <2>3, ThrottleRecord
    <3>2. Cardinality(Pending(k)') = Cardinality(Pending(k)) - 1
      BY <2>3, PendingAfter DEF Throttled
    <3> QED
      BY <2>1, <2>2, <3>1, <3>2
  <2>4. CASE k # key
    <3>1. Throttle(failures'[k], guesses'[k], Limit(k)) /\ guesses'[k] = guesses[k]
      BY <1>2, <1>3, <2>4
    <3>2. Cardinality(Pending(k)') \in Nat /\ Cardinality(Pending(k)') <= Cardinality(Pending(k))
      BY PendingAfter DEF Throttled
    <3> QED
      BY <2>1, <2>2, <3>1, <3>2
  <2> QED
    BY <2>3, <2>4
<1>8. /\ failures' \in [Keys -> Seq(0..WindowTicks)]
      /\ guesses' \in [Keys -> Seq(0..(WindowTicks - 1))]
  <2>1. \A k \in Keys : /\ failures'[k] \in Seq(0..WindowTicks)
                        /\ guesses'[k] \in Seq(0..(WindowTicks - 1))
    BY <1>7 DEF Throttle
  <2> QED
    BY <1>6, <2>1
<1>9. thread' \in [Threads -> Request] /\ \A u \in Threads : Signs(thread'[u])
  BY DEF Throttled
<1>10. \A u \in Threads : Signs(thread[u])'
  BY <1>9 DEF Signs
<1>11. /\ \A k \in Keys : Throttle(failures[k], guesses[k], Limit(k))'
       /\ \A k \in Keys : (Len(guesses[k]) + Cardinality(Pending(k))
                              < Limit(k) + Cardinality(Threads))'
  BY <1>7 DEF Throttle, Kept, OldestFirst, Limit, WindowTicks
<1> QED
  BY <1>8, <1>9, <1>10, <1>11 DEF Throttled, WindowTicks, Keys

\* A sign-in is let in: neither its address nor its account must wait.
LEMMA ThrottledAdmits ==
    ASSUME Throttled, NEW t \in Threads, NEW request \in Request, Signs(request),
           thread' = [thread EXCEPT ![t] = request],
           failures' = failures, guesses' = guesses,
           \A k \in Keys : Trying(request, k) => Wait(k) = 0
    PROVE  Throttled'
<1>1. ASSUME NEW k \in Keys
      PROVE  Len(guesses[k]) + Cardinality(Pending(k)') < Limit(k) + Cardinality(Threads)
  <2>1. /\ Limit(k) \in Nat \ {0} /\ Cardinality(Threads) \in Nat
        /\ Cardinality(Pending(k)) \in Nat
    BY Bounds, PendingIs
  <2>2. /\ Len(guesses[k]) + Cardinality(Pending(k)) < Limit(k) + Cardinality(Threads)
        /\ Len(guesses[k]) \in Nat
    BY DEF Throttled
  <2>3. Cardinality(Pending(k)') \in Nat /\ Cardinality(Pending(k)') <= Cardinality(Threads)
    BY PendingAfter DEF Throttled
  <2>4. CASE Trying(request, k)
    <3>1. Len(guesses[k]) < Limit(k)
      BY <2>1, <2>4, NoWait DEF Throttled, Wait
    <3> QED
      BY <2>1, <2>2, <2>3, <3>1
  <2>5. CASE ~Trying(request, k)
    <3>1. Cardinality(Pending(k)') <= Cardinality(Pending(k))
      BY <2>5, PendingAfter DEF Throttled
    <3> QED
      BY <2>1, <2>2, <2>3, <3>1
  <2> QED
    BY <2>4, <2>5
<1>2. thread' \in [Threads -> Request] /\ \A u \in Threads : Signs(thread'[u])
  BY DEF Throttled
<1>3. \A u \in Threads : Signs(thread[u])'
  BY <1>2 DEF Signs
<1>4. /\ \A k \in Keys : Throttle(failures[k], guesses[k], Limit(k))'
      /\ \A k \in Keys : (Len(guesses[k]) + Cardinality(Pending(k))
                             < Limit(k) + Cardinality(Threads))'
  BY <1>1 DEF Throttled, Throttle, Kept, OldestFirst, Limit, WindowTicks
<1> QED
  BY <1>2, <1>3, <1>4 DEF Throttled, WindowTicks, Keys

\* The clock moves on.
LEMMA ThrottledTick == Throttled /\ Tick => Throttled'
<1> SUFFICES ASSUME Throttled, Tick PROVE Throttled'
  OBVIOUS
<1>1. /\ failures' = [k \in Keys |-> Older(failures[k])]
      /\ guesses' = [k \in Keys |-> Recent(Older(guesses[k]))]
      /\ thread' = thread
  BY DEF Tick
<1>2. ASSUME NEW k \in Keys
      PROVE  /\ Throttle(failures'[k], guesses'[k], Limit(k))
             /\ Len(guesses'[k]) + Cardinality(Pending(k)') < Limit(k) + Cardinality(Threads)
  <2>1. /\ Limit(k) \in Nat \ {0} /\ Cardinality(Threads) \in Nat
        /\ Cardinality(Pending(k)) \in Nat
    BY Bounds, PendingIs
  <2>2. /\ Throttle(failures[k], guesses[k], Limit(k)) /\ Len(guesses[k]) \in Nat
        /\ Len(guesses[k]) + Cardinality(Pending(k)) < Limit(k) + Cardinality(Threads)
    BY DEF Throttled
  <2>3. /\ Throttle(failures'[k], guesses'[k], Limit(k))
        /\ Len(guesses'[k]) <= Len(guesses[k])
    BY <1>1, <2>1, <2>2, ThrottleTick
  <2>4. Len(guesses'[k]) \in Nat
    BY <2>3 DEF Throttle
  <2>5. Pending(k)' = Pending(k)
    BY <1>1 DEF Pending, Trying
  <2> QED
    BY <2>1, <2>2, <2>3, <2>4, <2>5
<1>3. /\ failures' \in [Keys -> Seq(0..WindowTicks)]
      /\ guesses' \in [Keys -> Seq(0..(WindowTicks - 1))]
  <2>1. \A k \in Keys : /\ failures'[k] \in Seq(0..WindowTicks)
                        /\ guesses'[k] \in Seq(0..(WindowTicks - 1))
    BY <1>2 DEF Throttle
  <2>2. failures' = [k \in Keys |-> failures'[k]] /\ guesses' = [k \in Keys |-> guesses'[k]]
    BY <1>1
  <2> QED
    BY <2>1, <2>2
<1>4. (\A t \in Threads : Signs(thread[t]))'
  BY <1>1 DEF Throttled, Signs
<1>5. /\ \A k \in Keys : Throttle(failures[k], guesses[k], Limit(k))'
      /\ \A k \in Keys : (Len(guesses[k]) + Cardinality(Pending(k))
                             < Limit(k) + Cardinality(Threads))'
  BY <1>2 DEF Throttle, Kept, OldestFirst, Limit, WindowTicks
<1> QED
  BY <1>1, <1>3, <1>4, <1>5 DEF Throttled, WindowTicks, Keys

\* A restart is where it all begins.
LEMMA ThrottledRestart == Restart => Throttled'
<1> SUFFICES ASSUME Restart PROVE Throttled'
  OBVIOUS
<1>1. /\ thread' = [t \in Threads |-> Idle]
      /\ failures' = [k \in Keys |-> <<>>] /\ guesses' = [k \in Keys |-> <<>>]
  BY DEF Restart
<1>2. /\ failures' \in [Keys -> Seq(0..WindowTicks)]
      /\ guesses' \in [Keys -> Seq(0..(WindowTicks - 1))]
  BY <1>1
<1>3. thread' \in [Threads -> Request] /\ \A t \in Threads : Signs(thread'[t])
  BY <1>1, IdleRequest, NotTrying
<1>4. ASSUME NEW k \in Keys
      PROVE  /\ Throttle(failures'[k], guesses'[k], Limit(k))
             /\ Len(guesses'[k]) + Cardinality(Pending(k)') < Limit(k) + Cardinality(Threads)
  <2>1. Pending(k)' = {}
    BY <1>1 DEF Pending, Trying, Idle
  <2>2. Limit(k) \in Nat \ {0} /\ Cardinality(Threads) \in Nat
    BY Bounds, PendingIs
  <2>3. Cardinality(Pending(k)') = 0
    BY <2>1, FS_EmptySet
  <2>4. failures'[k] = <<>> /\ guesses'[k] = <<>> /\ Len(<<>>) = 0
    BY <1>1
  <2> QED
    BY <2>2, <2>3, <2>4, ThrottleEmpty
<1>5. (\A t \in Threads : Signs(thread[t]))'
  BY <1>3 DEF Signs
<1>6. /\ \A k \in Keys : Throttle(failures[k], guesses[k], Limit(k))'
      /\ \A k \in Keys : (Len(guesses[k]) + Cardinality(Pending(k))
                             < Limit(k) + Cardinality(Threads))'
  BY <1>4 DEF Throttle, Kept, OldestFirst, Limit, WindowTicks
<1> QED
  BY <1>2, <1>3, <1>5, <1>6 DEF Throttled, WindowTicks, Keys

\* Every step keeps the two lists in step, and the guesses within the limit.
LEMMA ThrottledStep == Inv /\ Throttled /\ [Next]_vars => Throttled'
<1> SUFFICES ASSUME Inv, Throttled, [Next]_vars PROVE Throttled'
  OBVIOUS
<1>t. thread \in [Threads -> Request] /\ \A t \in Threads : Signs(thread[t])
  BY DEF Throttled
<1>k. Addresses \subseteq Keys /\ Account \in Keys /\ None \notin Keys /\ Account \notin Addresses
  BY AccountsAssumption DEF Keys, Account, None
<1>0. ASSUME failures' = failures, guesses' = guesses, NEW t \in Threads, NEW request \in Request,
             request.step \notin {"verifying", "counting"},
             thread' = [thread EXCEPT ![t] = request]
      PROVE  Throttled'
  BY <1>0, ThrottledQuiet DEF Throttled
<1>1. ASSUME NEW t \in Threads, NEW address \in Addresses, LoginSubmit(t, address)
      PROVE  Throttled'
  <2>1. PICK account \in {None, Account} :
          /\ Wait(address) = 0 /\ (account # None => Wait(account) = 0)
          /\ thread' = [thread EXCEPT ![t] = [Idle EXCEPT !.step = "verifying", !.from = address,
                                                        !.account = account]]
    BY <1>1 DEF LoginSubmit
  <2> DEFINE request == [Idle EXCEPT !.step = "verifying", !.from = address, !.account = account]
  <2>2. /\ request \in Request /\ request.step = "verifying" /\ request.from = address
        /\ request.account = account
    BY DEF Idle, Request, Steps
  <2>3. failures' = failures /\ guesses' = guesses /\ thread' = [thread EXCEPT ![t] = request]
    BY <1>1, <2>1 DEF LoginSubmit, throttles
  <2> HIDE DEF request
  <2>4. Signs(request)
    BY <2>2 DEF Signs
  <2>5. \A k \in Keys : Trying(request, k) => Wait(k) = 0
    BY <1>k, <2>1, <2>2 DEF Trying
  <2> QED
    BY <2>2, <2>3, <2>4, <2>5, ThrottledAdmits
<1>2. ASSUME NEW t \in Threads, WrongPassword(t)
      PROVE  Throttled'
  <2> DEFINE key == thread[t].from
  <2>1. /\ thread[t].step = "verifying" /\ key \in Addresses /\ RecordFailure(key)
        /\ IF thread[t].account = None THEN Done(t) ELSE Goto(t, "counting")
    BY <1>2, <1>t DEF WrongPassword, At, Signs
  <2>2. Trying(thread[t], key) /\ key \in Keys
    BY <1>k, <2>1 DEF Trying
  <2>3. CASE thread[t].account = None
    <3>1. thread' = [thread EXCEPT ![t] = Idle] /\ Idle.step \notin {"verifying", "counting"}
      BY <2>1, <2>3, IdleRequest DEF Done
    <3>2. Signs(Idle) /\ \A k : ~Trying(Idle, k)
      BY <3>1, NotTrying
    <3> HIDE DEF key
    <3> QED
      BY <2>1, <2>2, <3>1, <3>2, IdleRequest, ThrottledRecord
  <2>4. CASE thread[t].account # None
    <3> DEFINE request == [thread[t] EXCEPT !.step = "counting"]
    <3>1. /\ request \in Request /\ request.step = "counting"
          /\ request.from = key /\ request.account = Account /\ thread[t].account = Account
      BY <1>t, <2>4 DEF Request, Steps
    <3>2. thread' = [thread EXCEPT ![t] = request]
      BY <2>1, <2>4 DEF Goto
    <3> HIDE DEF request
    <3>3. Signs(request)
      BY <2>1, <3>1 DEF Signs
    <3>4. ~Trying(request, key)
      BY <1>k, <2>1, <3>1 DEF Trying
    <3>5. \A k \in Keys : Trying(request, k) => Trying(thread[t], k)
      BY <2>1, <3>1 DEF Trying
    <3> HIDE DEF key
    <3> QED
      BY <2>1, <2>2, <3>1, <3>2, <3>3, <3>4, <3>5, ThrottledRecord
  <2> QED
    BY <2>3, <2>4
<1>3. ASSUME NEW t \in Threads, CountForAccount(t)
      PROVE  Throttled'
  <2>1. /\ thread[t].step = "counting" /\ thread[t].account = Account /\ RecordFailure(Account)
        /\ thread' = [thread EXCEPT ![t] = Idle]
    BY <1>3, <1>t DEF CountForAccount, At, Signs, Done
  <2>2. Trying(thread[t], Account)
    BY <2>1 DEF Trying
  <2>3. Signs(Idle) /\ \A k : ~Trying(Idle, k)
    BY IdleRequest, NotTrying
  <2> QED
    BY <1>k, <2>1, <2>2, <2>3, IdleRequest, ThrottledRecord
<1>4. ASSUME NEW t \in Threads, NEW key, NEW request \in Request, Reset(key),
             request.step \notin {"verifying", "counting"},
             thread' = [thread EXCEPT ![t] = request]
      PROVE  Throttled'
  <2>1. /\ failures' = [failures EXCEPT ![key] = <<>>]
        /\ guesses' = [guesses EXCEPT ![key] = <<>>]
    BY <1>4 DEF Reset
  <2>2. /\ failures' \in [Keys -> Seq(0..WindowTicks)]
        /\ guesses' \in [Keys -> Seq(0..(WindowTicks - 1))]
    <3>1. /\ failures \in [Keys -> Seq(0..WindowTicks)] /\ <<>> \in Seq(0..WindowTicks)
          /\ guesses \in [Keys -> Seq(0..(WindowTicks - 1))] /\ <<>> \in Seq(0..(WindowTicks - 1))
      BY DEF Throttled
    <3> QED
      BY Zenon, <2>1, <3>1
  <2>3. \A k \in Keys : \/ failures'[k] = failures[k] /\ guesses'[k] = guesses[k]
                        \/ failures'[k] = <<>> /\ guesses'[k] = <<>>
    BY <2>1 DEF Throttled
  <2> QED
    BY <1>4, <2>2, <2>3, ThrottledQuiet
<1>5. ASSUME NEW t \in Threads, RightPassword(t) \/ SignIn(t)
      PROVE  Throttled'
  <2>1. CASE RightPassword(t)
    <3> DEFINE request == [thread[t] EXCEPT !.step = "resetting"]
    <3>1. request \in Request /\ request.step = "resetting"
      BY <1>t DEF Request, Steps
    <3>2. Reset(thread[t].from) /\ thread' = [thread EXCEPT ![t] = request]
      BY <2>1 DEF RightPassword, Goto
    <3> HIDE DEF request
    <3> QED
      BY <1>4, <3>1, <3>2
  <2>2. CASE SignIn(t)
    <3>1. Reset(thread[t].account) /\ thread' = [thread EXCEPT ![t] = Idle]
      BY <2>2 DEF SignIn, Done
    <3> QED
      BY <1>4, <3>1, IdleRequest
  <2> QED
    BY <1>5, <2>1, <2>2
<1>6. ASSUME NEW t \in Threads, NEW address \in Addresses,
             SubmitAdmin(t, address) \/ SubmitCollection(t, address) \/ SubmitSource(t, address)
      PROVE  Throttled'
  <2>1. failures' = failures /\ guesses' = guesses
    BY <1>6 DEF SubmitAdmin, SubmitCollection, SubmitSource, throttles
  <2>2. CASE SubmitAdmin(t, address)
    <3> DEFINE request == [Idle EXCEPT !.step = "creating", !.from = address]
    <3>1. request \in Request /\ request.step = "creating"
      BY DEF Idle, Request, Steps
    <3>2. thread' = [thread EXCEPT ![t] = request]
      BY <2>2 DEF SubmitAdmin, Send
    <3> HIDE DEF request
    <3> QED
      BY <1>0, <2>1, <3>1, <3>2
  <2>3. CASE SubmitCollection(t, address) \/ SubmitSource(t, address)
    <3>1. PICK source \in Sources, token \in Tokens \cup {None}, step \in {"finishing", "saving"} :
            thread' = [thread EXCEPT ![t] = [Idle EXCEPT !.step = step, !.from = address,
                                                         !.source = source, !.token = token]]
      BY <2>3 DEF SubmitCollection, SubmitSource, Send
    <3> DEFINE request == [Idle EXCEPT !.step = step, !.from = address,
                                       !.source = source, !.token = token]
    <3>2. request \in Request /\ request.step = step
      BY <3>1 DEF Idle, Request, Steps
    <3>3. thread' = [thread EXCEPT ![t] = request]
      BY <3>1
    <3> HIDE DEF request
    <3> QED
      BY <1>0, <2>1, <3>2, <3>3
  <2> QED
    BY <1>6, <2>2, <2>3
<1>7. ASSUME NEW t \in Threads, CreateAdmin(t) \/ SaveSource(t) \/ CompleteSetup(t)
      PROVE  Throttled'
  <2>1. failures' = failures /\ guesses' = guesses
    BY <1>7 DEF CreateAdmin, SaveSource, CompleteSetup, throttles
  <2>2. CASE Done(t)
    BY <1>0, <2>1, <2>2, IdleRequest DEF Done
  <2>3. CASE Goto(t, "completing")
    <3> DEFINE request == [thread[t] EXCEPT !.step = "completing"]
    <3>1. request \in Request /\ request.step = "completing"
      BY <1>t DEF Request, Steps
    <3>2. thread' = [thread EXCEPT ![t] = request]
      BY <2>3 DEF Goto
    <3> HIDE DEF request
    <3> QED
      BY <1>0, <2>1, <3>1, <3>2
  <2> QED
    BY <1>7, <2>2, <2>3 DEF CreateAdmin, SaveSource, CompleteSetup
<1>8. CASE UNCHANGED <<thread, failures, guesses>>
  BY <1>8 DEF Throttled, Signs, Throttle, Kept, OldestFirst, Pending, Trying, Limit, WindowTicks,
              Keys
<1>9. ASSUME NEW address \in Addresses, Logout(address)
      PROVE  Throttled'
  BY <1>8, <1>9 DEF Logout, throttles
<1> QED
  BY <1>1, <1>2, <1>3, <1>5, <1>6, <1>7, <1>8, <1>9, ThrottledTick, ThrottledRestart
  DEF Next, ThreadStep, vars

\* The lists hold what they should in every behavior.
LEMMA ThrottledAlways == Spec => []Throttled
<1>1. Inv /\ Throttled /\ [Next]_vars => Throttled'
  BY ThrottledStep
<1> QED
  BY <1>1, InitThrottled, Invariant, PTL DEF Spec

\* No more wrong passwords are tried within a window, from an address or on the account,
\* than its limit and the attempts that were under way when the last of them counted
\* (login_submit, throttle.py).
THEOREM GuessesStayLimited == Spec => []GuessesAreLimited
<1>1. Throttled => GuessesAreLimited
  <2> SUFFICES ASSUME Throttled, NEW k \in Keys
               PROVE  Len(guesses[k]) < Limit(k) + Cardinality(Threads)
    BY DEF GuessesAreLimited
  <2>1. /\ Len(guesses[k]) \in Nat
        /\ Len(guesses[k]) + Cardinality(Pending(k)) < Limit(k) + Cardinality(Threads)
    BY DEF Throttled
  <2>2. /\ Limit(k) \in Nat /\ Cardinality(Threads) \in Nat
        /\ Cardinality(Pending(k)) \in Nat
    BY Bounds, PendingIs
  <2> QED
    BY <2>1, <2>2
<1> QED
  BY <1>1, ThrottledAlways, PTL

\* A wait stated is enough, and a second less is not (retry_after).
LEMMA WaitsAreEnough == Throttled => RetryAfterIsRight
<1> SUFFICES ASSUME Throttled, NEW key \in Keys
             PROVE  LET WaitIn(ticks) ==
                          RetryAfter([i \in DOMAIN failures[key] |-> failures[key][i] + ticks],
                                     Limit(key))
                    IN  /\ WaitIn(Wait(key) * TicksPerSecond) = 0
                        /\ Wait(key) > 0 => WaitIn((Wait(key) - 1) * TicksPerSecond) > 0
  BY DEF RetryAfterIsRight
<1> DEFINE f == failures[key]
           n == Limit(key)
           W == WindowTicks
           T == TicksPerSecond
           Later(ticks) == [i \in DOMAIN f |-> f[i] + ticks]
<1>1. f \in Seq(Nat) /\ OldestFirst(f) /\ Len(f) <= n /\ n \in Nat \ {0} /\ Len(f) \in Nat
  <2>1. f \in Seq(0..W) /\ OldestFirst(f) /\ Len(f) <= n
    BY DEF Throttled, Throttle
  <2>2. f \in Seq(Nat)
    BY <2>1, Bounds
  <2> QED
    BY <2>1, <2>2, Bounds
<1>2. DOMAIN f = 1..Len(f) /\ \A i \in 1..Len(f) : f[i] \in Nat
  BY <1>1, ElementIs
<1> HIDE DEF f, n
<1>3. ASSUME NEW ticks \in Nat
      PROVE  /\ Later(ticks) \in Seq(Nat) /\ OldestFirst(Later(ticks))
             /\ Len(Later(ticks)) = Len(f)
             /\ \A i \in 1..Len(f) : Later(ticks)[i] = f[i] + ticks
  <2>1. Later(ticks) \in [1..Len(f) -> Nat]
    BY <1>2
  <2>2. Later(ticks) \in Seq(Nat) /\ Len(Later(ticks)) = Len(f)
    BY <1>1, <2>1, ListIs
  <2>3. \A i \in 1..Len(f) : Later(ticks)[i] = f[i] + ticks
    BY <1>2
  <2>4. \A i, j \in 1..Len(f) : i <= j => f[j] + ticks <= f[i] + ticks
    <3> SUFFICES ASSUME NEW i \in 1..Len(f), NEW j \in 1..Len(f), i <= j
                 PROVE  f[j] + ticks <= f[i] + ticks
      OBVIOUS
    <3>1. f[j] <= f[i] /\ f[i] \in Nat /\ f[j] \in Nat
      BY <1>1, <1>2 DEF OldestFirst
    <3> QED
      BY <3>1
  <2>5. DOMAIN Later(ticks) = 1..Len(f)
    BY <1>2
  <2> HIDE DEF Later
  <2>6. OldestFirst(Later(ticks))
    BY <2>3, <2>4, <2>5 DEF OldestFirst
  <2> QED
    BY <2>2, <2>3, <2>6
<1>4. W \in Nat \ {0} /\ T \in Nat \ {0}
  BY Bounds
<1>5. CASE Len(f) < n \/ f[1] >= W
  <2>1. Wait(key) = 0
    BY <1>1, <1>5, WaitIs DEF Wait, f, n
  <2>2. Later(0) = f
    <3>1. \A i \in DOMAIN f : f[i] + 0 = f[i]
      BY <1>2
    <3>2. f = [i \in DOMAIN f |-> f[i]]
      BY <1>1
    <3> QED
      BY <3>1, <3>2
  <2>3. Wait(key) * T = 0
    BY <1>4, <2>1
  <2>4. RetryAfter(Later(Wait(key) * T), n) = 0
    BY <1>1, <1>5, <2>2, <2>3, WaitIs
  <2> QED
    BY <2>1, <2>4 DEF f, n
<1>6. CASE Len(f) = n /\ f[1] < W
  <2> DEFINE q == Wait(key)
             a == W - f[1] + T - 1
  <2>1. q = a \div T /\ q > 0
    BY <1>1, <1>6, WaitIs DEF Wait, f, n
  <2>2. 1 \in 1..Len(f) /\ f[1] \in Nat
    BY <1>1, <1>2, <1>6
  <2>3. a \in Nat
    BY <1>4, <1>6, <2>2
  <2>4. q \in Nat /\ q * T <= a /\ a < q * T + T
    BY <1>4, <2>1, <2>3, DivisionIs
  <2> HIDE DEF q, W, T
  <2>5. q * T \in Nat /\ (q - 1) * T \in Nat /\ (q - 1) * T = q * T - T
    <3>1. q - 1 \in Nat
      BY <2>1, <2>4
    <3> QED
      BY <1>4, <2>4, <3>1
  <2>6. f[1] + q * T >= W /\ f[1] + (q - 1) * T < W
    BY <1>4, <2>2, <2>4, <2>5
  <2> HIDE DEF Later
  <2>7. RetryAfter(Later(q * T), n) = 0
    <3>1. Later(q * T)[1] >= WindowTicks
      BY <1>3, <2>2, <2>5, <2>6 DEF W
    <3> QED
      BY <1>1, <1>3, <2>5, <3>1, WaitIs
  <2>8. RetryAfter(Later((q - 1) * T), n) > 0
    <3>1. Later((q - 1) * T)[1] < WindowTicks
      BY <1>3, <2>2, <2>5, <2>6 DEF W
    <3> QED
      BY <1>1, <1>3, <1>6, <2>5, <3>1, WaitIs
  <2> QED
    BY <2>7, <2>8 DEF Later, f, n, T, q
<1>7. Len(f) < n \/ Len(f) = n
  BY <1>1
<1>8. Len(f) = n => f[1] \in Nat
  BY <1>1, <1>2
<1> QED
  BY <1>4, <1>5, <1>6, <1>7, <1>8

\* The wait an answer states is enough, and no more than a second longer than needed,
\* when nothing is added or cleared meanwhile (retry_after).
THEOREM WaitsAreRight == Spec => []RetryAfterIsRight
BY WaitsAreEnough, ThrottledAlways, PTL
=============================================================================
