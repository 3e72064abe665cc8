----------------------------- MODULE CollectNow -----------------------------
(***************************************************************************)
(* "Collect now" with the clock: the single-flight statement of the web    *)
(* app (request_collect_now, tracker/db/settings.py), the worker that      *)
(* takes the request, and what the Settings screen says meanwhile          *)
(* (get_run_status, tracker/db/admin.py).  Scheduler has the worker's own  *)
(* loop in full; here it is reduced to what those two statements read.     *)
(* Timestamps are finer than the seconds the screen counts in.             *)
(***************************************************************************)
EXTENDS Integers, Sequences

CONSTANTS
    PendingSecs,    \* how long a request counts as pending: 60
    StaleSecs,      \* STALE_MINUTES: 15
    IntervalSecs,   \* collect_interval_hours: an hour at least
    TicksPerSecond, \* ticks of the clock in a second
    RunsShown,      \* the runs get_run_status reads: 10
    MaxNow,         \* bound: the clock
    MaxRuns         \* bound: runs

ASSUME CollectNowAssumption ==
    /\ {PendingSecs, StaleSecs, IntervalSecs, TicksPerSecond, RunsShown, MaxNow, MaxRuns} \subseteq Nat
    /\ TicksPerSecond > 0 /\ RunsShown >= 2 /\ StaleSecs < IntervalSecs

VARIABLES
    now,          \* the database's clock, in ticks
    collectNow,   \* app_settings.collect_now
    requestedAt,  \* app_settings.collect_now_requested_at: {} (NULL) or {a time}
    runs,         \* collection_runs, oldest first: started_at, heartbeat_at, finished?
    worker,       \* "idle", "taken" (a request, its run not opened), "due" (another
                  \* run, not opened), "running", "down"
    lastRun       \* when the worker's last run ended (main's last_run)

vars == <<now, collectNow, requestedAt, runs, worker, lastRun>>

PendingTicks  == PendingSecs * TicksPerSecond
StaleTicks    == StaleSecs * TicksPerSecond
IntervalTicks == IntervalSecs * TicksPerSecond

Stale(r) == r.beat + StaleTicks < now
InFlight(r) == ~r.finished /\ ~Stale(r)
Rows == DOMAIN runs

---------------------------------------------------------------------------
\* Mutation: a run that started with the request does not end its minute.
MutStrictlyAfter ==
    /\ ~collectNow
    /\ \A t \in requestedAt : \/ t + PendingTicks <= now
                              \/ \E k \in Rows : runs[k].started > t
    /\ \A k \in Rows : ~InFlight(runs[k])

\* The WHERE of request_collect_now: no flag, no request of the last minute that no
\* run started after, no run in flight.
CanRequest ==
    /\ ~collectNow
    /\ \A t \in requestedAt : \/ t + PendingTicks <= now
                              \/ \E k \in Rows : runs[k].started >= t
    /\ \A k \in Rows : ~InFlight(runs[k])

\* The run get_run_status shows, of the last few: the latest in flight, else the latest.
Shown ==
    LET latest == {k \in Rows : k > Len(runs) - RunsShown}
        flying == {k \in latest : InFlight(runs[k])}
    IN  IF flying # {} THEN {runs[k] : k \in {j \in flying : \A i \in flying : i <= j}}
        ELSE {runs[k] : k \in {j \in latest : j = Len(runs)}}

\* EXTRACT(EPOCH FROM ...)::int, to the nearest second, a half up.
WholeSecs(ticks) == (2 * ticks + TicksPerSecond) \div (2 * TicksPerSecond)

RequestPending ==
    \E t \in requestedAt :
        /\ WholeSecs(now - t) < PendingSecs
        /\ \A r \in Shown : t > r.started

RunState ==
    IF \E r \in Shown : InFlight(r) THEN "running"
    ELSE IF collectNow \/ RequestPending THEN "queued"
    ELSE IF \E r \in Shown : ~r.finished /\ Stale(r) THEN "stalled"
    ELSE "idle"

---------------------------------------------------------------------------
Init ==
    /\ now = 0
    /\ collectNow = FALSE
    /\ requestedAt = {}
    /\ runs = <<>>
    /\ worker = "due"
    /\ lastRun = 0

RequestCollectNow ==
    /\ CanRequest
    /\ collectNow' = TRUE
    /\ requestedAt' = {now}
    /\ UNCHANGED <<now, runs, worker, lastRun>>

ConsumeCollectNow ==
    /\ worker = "idle" /\ collectNow
    /\ collectNow' = FALSE
    /\ worker' = "taken"
    /\ UNCHANGED <<now, requestedAt, runs, lastRun>>

\* There was no request, but the interval has elapsed (_should_run).
BecomeDue ==
    /\ worker = "idle" /\ ~collectNow
    /\ now - lastRun >= IntervalTicks
    /\ worker' = "due"
    /\ UNCHANGED <<now, collectNow, requestedAt, runs, lastRun>>

\* For the request, or for the start of the worker or the schedule.
OpenRun ==
    /\ worker \in {"taken", "due"}
    /\ Len(runs) < MaxRuns
    /\ runs' = Append(runs, [started |-> now, beat |-> now, finished |-> FALSE])
    /\ worker' = "running"
    /\ UNCHANGED <<now, collectNow, requestedAt, lastRun>>

\* The statement that opens it fails, or, after the request was taken, the one that reads
\* the interval: there is no run.
OpenNoRun ==
    /\ worker \in {"taken", "due"}
    /\ worker' = "idle"
    /\ lastRun' \in IF worker = "taken" THEN {now, lastRun} ELSE {now}
    /\ UNCHANGED <<now, collectNow, requestedAt, runs>>

Beat ==
    /\ worker = "running"
    /\ runs' = [runs EXCEPT ![Len(runs)].beat = now]
    /\ UNCHANGED <<now, collectNow, requestedAt, worker, lastRun>>

\* It is closed, or left open: its last statement failed.
Finish ==
    /\ worker = "running"
    /\ \E done \in BOOLEAN :
          runs' = [runs EXCEPT ![Len(runs)].beat = IF done THEN now ELSE @,
                               ![Len(runs)].finished = done]
    /\ worker' = "idle"
    /\ lastRun' = now
    /\ UNCHANGED <<now, collectNow, requestedAt>>

\* A run left open, once it is stale.
CloseOrphans ==
    /\ worker = "idle"
    /\ \E k \in Rows : ~runs[k].finished /\ Stale(runs[k])
    /\ runs' = [k \in Rows |-> IF Stale(runs[k]) THEN [runs[k] EXCEPT !.finished = TRUE] ELSE runs[k]]
    /\ UNCHANGED <<now, collectNow, requestedAt, worker, lastRun>>

Crash ==
    /\ worker # "down"
    /\ worker' = "down"
    /\ UNCHANGED <<now, collectNow, requestedAt, runs, lastRun>>

\* It is back: the runs it left are closed, and it starts with a run.
Restart ==
    /\ worker = "down"
    /\ worker' = "due"
    /\ runs' = [k \in Rows |-> [runs[k] EXCEPT !.finished = TRUE]]
    /\ UNCHANGED <<now, collectNow, requestedAt, lastRun>>

Tick ==
    /\ now < MaxNow
    /\ now' = now + 1
    /\ UNCHANGED <<collectNow, requestedAt, runs, worker, lastRun>>

Next ==
    \/ RequestCollectNow
    \/ ConsumeCollectNow \/ BecomeDue \/ OpenRun \/ OpenNoRun \/ Beat \/ Finish \/ CloseOrphans
    \/ Crash \/ Restart
    \/ Tick

Spec == Init /\ [][Next]_vars

---------------------------------------------------------------------------
\* What the screen is to say (test_db.py: never "idle" while refused): a request is
\* refused exactly while a collection is shown as queued or running.  The code breaks it:
\* the statement counts the minute to the microsecond, the screen in rounded seconds.
ScreenSaysWhy == CanRequest <=> RunState \in {"idle", "stalled"}

\* The last half second of a request's minute.
MinuteEnds ==
    \E t \in requestedAt : t + PendingTicks - now \in 1..(TicksPerSecond \div 2)

\* The statement that takes a request (request_collect_now) and the screen
\* (get_run_status) read the same tables with queries of their own.  Who may request is
\* never told to wait, and who is refused is told so, but for the half second that the
\* rounding takes off the request's minute; also with a run left open behind newer ones.
RefusedAsShown ==
    /\ CanRequest => RunState \in {"idle", "stalled"}
    /\ RunState \in {"idle", "stalled"} => CanRequest \/ MinuteEnds

\* request_collect_now's own words: a request is refused while another is pending, "flag
\* set, or taken by the worker less than a minute ago but its run not opened yet".  So
\* the moment the worker has taken one, the next is refused.  The code measures the
\* minute from the request, and any run since ends it.
JustTakenIsRefused ==
    [][worker # "taken" /\ worker' = "taken" => ~CanRequest']_vars
=============================================================================
