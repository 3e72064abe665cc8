-------------------------- MODULE ApifyCollection --------------------------
(***************************************************************************)
(* One collection run read through Apify (tracker/worker/collector.py and  *)
(* its statements in persist.py), across the lives of the workers that     *)
(* carry it on: Batches in parallel, the Actor runs on Apify and what the  *)
(* database remembers of them, storing what they read, and a worker that   *)
(* crashes or stops and is resumed by the next one.                        *)
(*                                                                         *)
(* Apify is outside this code: an Actor run there goes on whatever happens *)
(* to the worker.  The worker's tasks are asyncio coroutines, so a step is *)
(* what one of them does between two awaits or two commits.                *)
(***************************************************************************)
EXTENDS Batches, FiniteSets

CONSTANTS
    Pages,      \* ids of the tracked Pages
    Country,    \* the country each is read in
    AdsOf,      \* the ads of each that run on Meta now
    Parallel,   \* Simultaneous Actor runs
    Outcomes,   \* how an Actor run may end in this instance
    Faults,     \* what may go wrong in this instance
    MaxFaults   \* bound: how often

APIFY_ATTEMPTS == 2

FaultKinds == {
    "crash",    \* the worker is killed, or stopped
    "midstart", \* ... between an Actor run's start and its record
    "answer",   \* the answer to a start request is lost
    "call",     \* another call of Apify fails (network, Apify, its quota)
    "read",     \* reading a dataset fails half-way
    "summary",  \* the run summary cannot be read
    "record",   \* the statement that records an Actor run fails
    "db",       \* any other database statement of the worker fails
    "delete"}   \* the admin deletes a Page

ASSUME ApifyAssumption ==
    /\ Pages \subseteq Nat /\ IsFiniteSet(Pages)
    /\ DOMAIN Country = Pages
    /\ DOMAIN AdsOf = Pages
    /\ \A p, q \in Pages : p # q => AdsOf[p] \cap AdsOf[q] = {}
    /\ Parallel \in Nat \ {0}
    /\ Outcomes \subseteq {"SUCCEEDED", "PARTIAL", "REFUSED", "FAILED"}
    /\ Faults \subseteq FaultKinds
    /\ MaxFaults \in Nat

VARIABLES
    actors,    \* Actor runs on Apify, in the order they were started
    recorded,  \* rows of apify_actor_runs, oldest first: what the database knows of them
    row,       \* the collection run's row
    stored,    \* ads with an appearance in this run
    gone,      \* ads marked as no longer running
    tracked,   \* the Pages that exist
    worker,    \* "up", "closing" (collected, not closed yet) or "down"
    tasks,     \* the worker's Batches, one coroutine each, in plan order
    holder,    \* the task that holds store_lock, 0 if none
    mem,       \* the worker's RunProgress
    conn,      \* its connection: "ok", "aborted" (transaction) or "dead"
    faults     \* faults so far (bound), and of which kinds

apify == actors
database == <<recorded, row, stored, gone>>
memory == <<tasks, holder, mem, conn>>
vars == <<apify, database, tracked, worker, memory, faults>>

None == 0
AllAds == UNION {AdsOf[p] : p \in Pages}
AdsOfBatch(P) == UNION {AdsOf[p] : p \in P}

Fault(kind) ==
    /\ kind \in Faults /\ faults.times < MaxFaults
    /\ faults' = [times |-> faults.times + 1, kinds |-> faults.kinds \cup {kind}]

---------------------------------------------------------------------------
(* The plan. *)

Task(P, attached) ==
    [pages |-> P, attached |-> attached, at |-> "queued", attempt |-> 0,
     cur |-> None, retry |-> TRUE, ok |-> FALSE, unread |-> {}, complete |-> FALSE]

Fresh(P) ==
    LET plan == MakeBatches(InOrder(P), Country)
    IN  [k \in 1..Len(plan) |-> Task({plan[k][i] : i \in 1..Len(plan[k])}, None)]

\* _resume: the Batches the recorded Actor runs were started for, oldest first,
\* each with its latest Actor run (a retry replaces the attempt before it).
Rows == DOMAIN recorded
Started == UNION {recorded[k].pages : k \in Rows}
FirstRows == {k \in Rows : \A j \in Rows : recorded[j].pages = recorded[k].pages => k <= j}
\* Mutation: a retry does not replace the attempt before it.
MutEarliest(P) ==
    recorded[CHOOSE k \in Rows : /\ recorded[k].pages = P
                                 /\ \A j \in Rows : recorded[j].pages = P => k <= j]

Latest(P) ==
    recorded[CHOOSE k \in Rows : /\ recorded[k].pages = P
                                 /\ \A j \in Rows : recorded[j].pages = P => j <= k]
DealtWith(P) == Latest(P).outcome # "none" \/ P \cap tracked = {}

\* Mutation: the Pages no Actor run was started for are forgotten.
MutFollowOnly ==
    LET open == InOrder({k \in FirstRows : ~DealtWith(recorded[k].pages)})
    IN  [k \in DOMAIN open |-> Task(recorded[open[k]].pages, Latest(recorded[open[k]].pages).id)]

ResumePlan ==
    LET open == InOrder({k \in FirstRows : ~DealtWith(recorded[k].pages)})
        Follow(P) == Task(P \cap tracked, Latest(P).id)
    IN  [k \in DOMAIN open |-> Follow(recorded[open[k]].pages)] \o Fresh(tracked \ Started)

\* The Pages of each Batch dealt with, counted Batch by Batch.
PagesDealtWith ==
    Cardinality({counted \in FirstRows \X Pages :
                    LET P == recorded[counted[1]].pages
                    IN  DealtWith(P) /\ counted[2] \in P})

---------------------------------------------------------------------------
(* The run is opened (start_collection_run) and its Batches are planned. *)
Init ==
    /\ actors = <<>>
    /\ recorded = <<>>
    /\ row = [open |-> TRUE, errors |-> 0, total |-> 0, done |-> 0,
              pages |-> Cardinality(Pages)]
    /\ stored = {}
    /\ gone = {}
    /\ tracked = Pages
    /\ worker = "up"
    /\ tasks = Fresh(Pages)
    /\ holder = None
    /\ mem = [errors |-> 0, total |-> 0, done |-> 0]
    /\ conn = "ok"
    /\ faults = [times |-> 0, kinds |-> {}]

Tasks == DOMAIN tasks
Become(i, t) == tasks' = [tasks EXCEPT ![i] = t]
At(i, place) == worker = "up" /\ tasks[i].at = place

\* beat: the progress in memory is written to the row.
Beaten(m) == [row EXCEPT !.errors = m.errors, !.total = m.total, !.done = m.done]

\* A statement fails: the transaction is aborted (every later statement fails until a
\* rollback) or the connection is dead for good.
StatementWorks == conn = "ok" /\ UNCHANGED <<conn, faults>>
Fails(kind) ==
    \/ conn # "ok" /\ UNCHANGED <<conn, faults>>
    \/ conn = "ok" /\ Fault(kind) /\ conn' \in {"aborted", "dead"}
StatementFails == Fails("db")

\* An exception leaves the Batch, and with it its locks.
Raise(i) ==
    /\ Become(i, [tasks[i] EXCEPT !.at = "raised"])
    /\ holder' = IF holder = i THEN None ELSE holder

\* gather ends with the first exception; until the event loop is closed the other
\* Batches go on, with a client that refuses every call.
Raised == \E j \in Tasks : tasks[j].at = "raised"
CallFails == \/ Raised /\ UNCHANGED faults
             \/ Fault("call")

---------------------------------------------------------------------------
(* Reading: the slot, the attempts, one Actor run each. *)

Reading == {"attempting", "starting", "polling"}
AttemptOf(id) == recorded[CHOOSE k \in Rows : recorded[k].id = id].attempt

\* Mutation: one slot too many.
MutTakeExtraSlot(i) ==
    /\ At(i, "queued")
    /\ Cardinality({j \in Tasks : tasks[j].at \in Reading}) <= Parallel
    /\ Become(i, [tasks[i] EXCEPT !.at = "attempting",
                      !.attempt = IF tasks[i].attached = None THEN 0
                                  ELSE AttemptOf(tasks[i].attached) - 1])
    /\ UNCHANGED <<apify, database, tracked, worker, holder, mem, conn, faults>>

\* async with slots: waiters get a slot in the order they came, which is plan order.
TakeSlot(i) ==
    /\ At(i, "queued")
    /\ \A j \in Tasks : j < i => tasks[j].at # "queued"
    /\ Cardinality({j \in Tasks : tasks[j].at \in Reading}) < Parallel
    /\ LET before == IF tasks[i].attached = None THEN 0 ELSE AttemptOf(tasks[i].attached) - 1
       IN  Become(i, [tasks[i] EXCEPT !.at = "attempting", !.attempt = before])
    /\ UNCHANGED <<apify, database, tracked, worker, holder, mem, conn, faults>>

\* Mutation: off by one, so that the attempt to follow is never met.
MutFollowsLate(t) == t.attached # None /\ AttemptOf(t.attached) = t.attempt

\* This attempt follows the Actor run a stopped worker started.
Follows(t) ==
    t.attached # None /\ AttemptOf(t.attached) = t.attempt + 1

\* Mutation: one attempt too many.
MutTryOnceMore(t) ==
    IF t.attempt <= APIFY_ATTEMPTS /\ t.retry
    THEN [t EXCEPT !.at = "attempting"]
    ELSE [t EXCEPT !.at = "waiting", !.ok = FALSE]

\* An attempt that failed: another one, or the Batch goes on without an Actor run
\* that succeeded.
AfterFailure(t) ==
    IF t.attempt < APIFY_ATTEMPTS /\ t.retry
    THEN [t EXCEPT !.at = "attempting"]
    ELSE [t EXCEPT !.at = "waiting", !.ok = FALSE]

\* start_run: Apify starts the Actor run when it gets the request.
StartRun(i) ==
    /\ At(i, "attempting") /\ ~Follows(tasks[i]) /\ ~Raised
    /\ actors' = Append(actors, [pages |-> tasks[i].pages, status |-> "RUNNING", data |-> {}])
    /\ Become(i, [tasks[i] EXCEPT !.at = "starting", !.attempt = @ + 1, !.cur = Len(actors) + 1])
    /\ UNCHANGED <<database, tracked, worker, holder, mem, conn, faults>>

\* Its answer arrives, and record_actor_run adds the row; if that fails the worker
\* goes on without it.
RecordRun(i) ==
    /\ At(i, "starting")
    /\ \/ /\ StatementWorks
          /\ recorded' = Append(recorded, [id |-> tasks[i].cur, pages |-> tasks[i].pages,
                                         attempt |-> tasks[i].attempt, outcome |-> "none"])
       \/ Fails("record") /\ UNCHANGED recorded
    /\ Become(i, [tasks[i] EXCEPT !.at = "polling"])
    /\ UNCHANGED <<apify, row, stored, gone, tracked, worker, holder, mem>>

\* The call fails before Apify gets it, or Apify refuses it.
StartFails(i) ==
    /\ At(i, "attempting") /\ ~Follows(tasks[i])
    /\ CallFails
    /\ \E retry \in BOOLEAN :
          Become(i, AfterFailure([tasks[i] EXCEPT !.attempt = @ + 1, !.cur = None, !.retry = retry]))
    /\ UNCHANGED <<apify, database, tracked, worker, holder, mem, conn>>

\* Its answer is lost: the worker takes the start for failed.
LoseAnswer(i) ==
    /\ At(i, "starting")
    /\ Fault("answer")
    /\ Become(i, AfterFailure([tasks[i] EXCEPT !.cur = None]))
    /\ UNCHANGED <<apify, database, tracked, worker, holder, mem, conn>>

Follow(i) ==
    /\ At(i, "attempting") /\ Follows(tasks[i])
    /\ \/ /\ ~Raised
          /\ Become(i, [tasks[i] EXCEPT !.at = "polling", !.attempt = @ + 1,
                                        !.cur = tasks[i].attached])
          /\ UNCHANGED faults
       \/ /\ CallFails
          /\ \E retry \in BOOLEAN :
                Become(i, AfterFailure([tasks[i] EXCEPT !.attempt = @ + 1, !.cur = None,
                                                        !.retry = retry]))
    /\ UNCHANGED <<apify, database, tracked, worker, holder, mem, conn>>

Status(i) == actors[tasks[i].cur].status

\* The Actor run is still going: beat, and check again later.  A beat that fails is
\* taken for a failure of the Actor run.
Watch(i) ==
    /\ At(i, "polling") /\ Status(i) = "RUNNING"
    /\ \/ StatementWorks /\ row' = Beaten(mem) /\ UNCHANGED tasks
       \/ StatementFails /\ Become(i, AfterFailure(tasks[i])) /\ UNCHANGED row
    /\ UNCHANGED <<apify, recorded, stored, gone, tracked, worker, holder, mem>>

\* It went on for APIFY_MAX_RUN_SECONDS: abort_run.
AbortRun(i) ==
    /\ At(i, "polling") /\ Status(i) = "RUNNING"
    /\ actors' = [actors EXCEPT ![tasks[i].cur].status = "FAILED"]
    /\ UNCHANGED <<database, tracked, worker, memory, faults>>

\* A check fails, for any reason: that attempt failed, and running the Actor again
\* may help, unless the token was refused.
PollFails(i) ==
    /\ At(i, "polling")
    /\ CallFails
    /\ \E retry \in BOOLEAN : Become(i, AfterFailure([tasks[i] EXCEPT !.retry = retry]))
    /\ UNCHANGED <<apify, database, tracked, worker, holder, mem, conn>>

\* The Actor run ended, as its status says; the beat after it may end the collection.
SeeEnd(i) ==
    /\ At(i, "polling") /\ Status(i) # "RUNNING"
    /\ \/ /\ StatementWorks
          /\ row' = Beaten(mem)
          /\ Become(i, CASE Status(i) = "SUCCEEDED" -> [tasks[i] EXCEPT !.at = "waiting", !.ok = TRUE]
                         [] Status(i) = "REFUSED"   -> AfterFailure([tasks[i] EXCEPT !.retry = FALSE])
                         [] OTHER                   -> AfterFailure(tasks[i]))
          /\ UNCHANGED holder
       \/ StatementFails /\ Raise(i) /\ UNCHANGED row
    /\ UNCHANGED <<apify, recorded, stored, gone, tracked, worker, mem>>

---------------------------------------------------------------------------
(* Storing: one Batch at a time, under store_lock. *)

TakeStoreLock(i) ==
    /\ At(i, "waiting") /\ holder = None
    /\ IF tasks[i].ok
       THEN \/ /\ StatementWorks
               /\ row' = Beaten(mem)
               /\ holder' = i
               /\ Become(i, [tasks[i] EXCEPT !.at = "saving", !.unread = actors[tasks[i].cur].data])
            \/ StatementFails /\ Raise(i) /\ UNCHANGED row
       ELSE /\ holder' = i
            /\ Become(i, [tasks[i] EXCEPT !.at = "failing"])
            /\ UNCHANGED <<row, conn, faults>>
    /\ UNCHANGED <<apify, recorded, stored, gone, tracked, worker, mem>>

Mine(i) == holder = i

\* Mutation: counted whenever it is stored.
MutCountAlways(ad) == 1
\* Mutation: counted when there was an appearance already.
MutCountSeen(ad) == IF ad \in stored THEN 1 ELSE 0

\* StoredAd.counted: the first time this run stores it.
Counted(ad) == IF ad \in stored THEN 0 ELSE 1

\* upsert_ad: the ad, and its appearance in this run, once; items of other Pages are
\* skipped, and a Page deleted meanwhile refuses its ads.
StoreAd(i, ad) ==
    /\ At(i, "saving") /\ Mine(i)
    /\ ad \in tasks[i].unread
    /\ IF ad \in AdsOfBatch(tasks[i].pages)
       THEN \/ /\ StatementWorks /\ ad \in AdsOfBatch(tracked)
               /\ stored' = stored \cup {ad}
               /\ mem' = [mem EXCEPT !.total = @ + Counted(ad)]
               /\ Become(i, [tasks[i] EXCEPT !.at = "counting", !.unread = @ \ {ad}])
            \/ /\ \/ StatementFails
                  \/ ad \notin AdsOfBatch(tracked) /\ conn = "ok" /\ conn' = "aborted" /\ UNCHANGED faults
               /\ Become(i, [tasks[i] EXCEPT !.at = "failing"])
               /\ UNCHANGED <<stored, mem>>
       ELSE /\ Become(i, [tasks[i] EXCEPT !.unread = @ \ {ad}])
            /\ UNCHANGED <<stored, mem, conn, faults>>
    /\ UNCHANGED <<apify, recorded, row, gone, tracked, worker, holder>>

\* The beat after it.
CountAd(i) ==
    /\ At(i, "counting") /\ Mine(i)
    /\ \/ StatementWorks /\ row' = Beaten(mem) /\ Become(i, [tasks[i] EXCEPT !.at = "saving"])
       \/ StatementFails /\ Become(i, [tasks[i] EXCEPT !.at = "failing"]) /\ UNCHANGED row
    /\ UNCHANGED <<apify, recorded, stored, gone, tracked, worker, holder, mem>>

ReadFails(i) ==
    /\ At(i, "saving") /\ Mine(i)
    /\ \/ Raised /\ UNCHANGED faults
       \/ Fault("read")
    /\ Become(i, [tasks[i] EXCEPT !.at = "failing"])
    /\ UNCHANGED <<apify, database, tracked, worker, holder, mem, conn>>

\* Mutation: the run summary is not asked for.
MutTakeAtItsWord(i) ==
    /\ At(i, "saving") /\ Mine(i) /\ tasks[i].unread = {}
    /\ Become(i, [tasks[i] EXCEPT !.at = "closing", !.complete = TRUE])
    /\ UNCHANGED <<apify, database, tracked, worker, holder, mem, conn, faults>>

\* _read_everything: the run summary says whether the Actor stopped early; without
\* one the run is taken at its word.
ReadEverything(i) ==
    /\ At(i, "saving") /\ Mine(i) /\ tasks[i].unread = {}
    /\ LET P == actors[tasks[i].cur].pages
           inFull == actors[tasks[i].cur].data = AdsOfBatch(P)
           Close(complete) == Become(i, [tasks[i] EXCEPT !.at = "closing", !.complete = complete])
       IN  \/ ~Raised /\ Close(inFull) /\ UNCHANGED faults
           \/ Close(TRUE) /\ \/ Raised /\ UNCHANGED faults
                             \/ Fault("summary")
    /\ UNCHANGED <<apify, database, tracked, worker, holder, mem, conn>>

\* Every Page of the Batch failed: each counts as an error; the rollback mends an
\* aborted transaction.
FailPages(i) ==
    /\ At(i, "failing") /\ Mine(i)
    /\ mem' = [mem EXCEPT !.errors = @ + Cardinality(tasks[i].pages)]
    /\ conn' = IF conn = "aborted" THEN "ok" ELSE conn
    /\ Become(i, [tasks[i] EXCEPT !.at = "closing", !.ok = FALSE, !.complete = FALSE])
    /\ UNCHANGED <<apify, database, tracked, worker, holder, faults>>

\* page_done of every Page (mark_disappeared_ads of those read in full), the count of
\* Pages, and a beat.
FinishPages(i) ==
    /\ At(i, "closing") /\ Mine(i)
    /\ LET P == tasks[i].pages
           Mark(Q) == gone' = IF tasks[i].complete
                              THEN gone \cup (AdsOfBatch(Q \cap tracked) \ stored) ELSE gone
       IN  \/ /\ StatementWorks
              /\ Mark(P)
              /\ mem' = [mem EXCEPT !.done = @ + Cardinality(P)]
              /\ row' = Beaten(mem')
              /\ Become(i, [tasks[i] EXCEPT !.at = "concluding"])
              /\ UNCHANGED holder
           \/ /\ StatementFails
              /\ \E Q \in SUBSET P : Mark(Q) /\ (conn # "ok" => Q = {})
              /\ Raise(i)
              /\ UNCHANGED <<row, mem>>
    /\ UNCHANGED <<apify, recorded, stored, tracked, worker>>

\* Mutation: the lock is kept.
MutConcludeHolding(i) ==
    /\ At(i, "concluding") /\ Mine(i)
    /\ Become(i, [tasks[i] EXCEPT !.at = "done"])
    /\ UNCHANGED <<apify, database, tracked, worker, holder, mem, conn, faults>>

\* conclude_actor_run: the Batch is dealt with, which its latest Actor run tells; if
\* that fails the worker goes on.
Conclude(i) ==
    /\ At(i, "concluding") /\ Mine(i)
    /\ LET last == IF tasks[i].cur # None THEN tasks[i].cur ELSE tasks[i].attached
           outcome == IF tasks[i].ok THEN "stored" ELSE "failed"
       IN  IF last = None
           THEN UNCHANGED <<recorded, conn, faults>>
           ELSE \/ /\ StatementWorks
                   /\ recorded' = [k \in Rows |-> IF recorded[k].id = last
                                                THEN [recorded[k] EXCEPT !.outcome = outcome]
                                                ELSE recorded[k]]
                \/ StatementFails /\ UNCHANGED recorded
    /\ Become(i, [tasks[i] EXCEPT !.at = "done"])
    /\ holder' = None
    /\ UNCHANGED <<apify, row, stored, gone, tracked, worker, mem>>

---------------------------------------------------------------------------
(* The run as a whole. *)

Collected ==
    /\ worker = "up"
    /\ \A i \in Tasks : tasks[i].at = "done"
    /\ worker' = "closing"
    /\ UNCHANGED <<apify, database, tracked, memory, faults>>

\* The first exception of a Batch ends the collection, as one more error; the other
\* Batches are cancelled, their Actor runs are not.
CollectorFails ==
    /\ worker = "up" /\ Raised
    /\ worker' = "closing"
    /\ mem' = [mem EXCEPT !.errors = @ + 1]
    /\ tasks' = <<>>
    /\ holder' = None
    /\ UNCHANGED <<apify, database, tracked, conn, faults>>

\* After the post-collection steps, on a connection of their own.
FinishRun ==
    /\ worker = "closing"
    /\ row' = [Beaten(mem) EXCEPT !.open = FALSE]
    /\ worker' = "down"
    /\ UNCHANGED <<apify, recorded, stored, gone, tracked, memory, faults>>

Down ==
    /\ worker' = "down"
    /\ tasks' = <<>>
    /\ holder' = None
    /\ mem' = [errors |-> 0, total |-> 0, done |-> 0]
    /\ conn' = "ok"

MayDie ==
    /\ worker # "down"
    /\ Fault(IF \E i \in Tasks : tasks[i].at = "starting" THEN "midstart" ELSE "crash")

Crash ==
    /\ MayDie
    /\ Down
    /\ UNCHANGED <<apify, database, tracked>>

Interrupted == [row EXCEPT !.open = FALSE, !.errors = @ + 1]

\* SIGTERM: a run with Actor runs on Apify is left open, any other is closed.
Stop ==
    /\ MayDie
    /\ Down
    /\ row' = IF recorded = <<>> THEN Interrupted ELSE row
    /\ UNCHANGED <<apify, recorded, stored, gone, tracked>>

\* The next worker carries the run on.
Resume ==
    /\ worker = "down" /\ row.open /\ recorded # <<>>
    /\ worker' = "up"
    /\ tasks' = ResumePlan
    /\ row' = [row EXCEPT !.pages = Cardinality(Started) + Cardinality(tracked \ Started)]
    /\ mem' = [errors |-> row.errors, total |-> row.total, done |-> PagesDealtWith]
    /\ UNCHANGED <<apify, recorded, stored, gone, tracked, holder, conn, faults>>

\* It closes it instead: no Actor run was recorded, the source was changed, or a day
\* has passed.
CloseInterrupted ==
    /\ worker = "down" /\ row.open
    /\ row' = Interrupted
    /\ UNCHANGED <<apify, recorded, stored, gone, tracked, worker, memory, faults>>

\* delete_page, which the foreign key of its ads refuses once there are any; the worker's
\* list of Pages stays as it was.
DeletePage(p) ==
    /\ row.open /\ p \in tracked
    /\ AdsOf[p] \cap (stored \cup gone) = {}
    /\ Fault("delete")
    /\ tracked' = tracked \ {p}
    /\ UNCHANGED <<apify, database, worker, memory>>

\* On Apify: an Actor run ends, having read its Pages in full or in part.
EndActorRun(a) ==
    /\ actors[a].status = "RUNNING"
    /\ LET all == AdsOfBatch(actors[a].pages)
           Ends(status, data) ==
               actors' = [actors EXCEPT ![a].status = status, ![a].data = data]
       IN  \/ "SUCCEEDED" \in Outcomes /\ Ends("SUCCEEDED", all)
           \/ "PARTIAL" \in Outcomes /\ \E read \in SUBSET all : Ends("SUCCEEDED", read)
           \/ "REFUSED" \in Outcomes /\ Ends("REFUSED", {})
           \/ "FAILED" \in Outcomes /\ Ends("FAILED", {})
    /\ UNCHANGED <<database, tracked, worker, memory, faults>>

---------------------------------------------------------------------------
TaskStep(i) ==
    \/ TakeSlot(i) \/ StartRun(i) \/ StartFails(i) \/ RecordRun(i) \/ LoseAnswer(i)
    \/ Follow(i) \/ Watch(i) \/ AbortRun(i) \/ PollFails(i) \/ SeeEnd(i)
    \/ TakeStoreLock(i) \/ CountAd(i) \/ ReadFails(i) \/ ReadEverything(i)
    \/ FailPages(i) \/ FinishPages(i) \/ Conclude(i)
    \/ \E ad \in AllAds : StoreAd(i, ad)

NextWorker == Resume \/ CloseInterrupted

\* The run is closed: nothing of it is left to do.
Over == worker = "down" /\ ~row.open /\ UNCHANGED vars

Next ==
    \/ \E i \in Tasks : TaskStep(i)
    \/ Collected \/ CollectorFails \/ FinishRun
    \/ Crash \/ Stop \/ NextWorker
    \/ \E p \in Pages : DeletePage(p)
    \/ \E a \in DOMAIN actors : EndActorRun(a)
    \/ Over

Spec == Init /\ [][Next]_vars

\* The worker goes on as long as it is up, another one comes back after it
\* (restart: unless-stopped), and an Actor run ends, if only by the time limit.
FairSpec ==
    /\ Spec
    /\ WF_vars(\E i \in Tasks : TaskStep(i))
    /\ WF_vars(Collected \/ CollectorFails \/ FinishRun)
    /\ WF_vars(NextWorker)
    /\ WF_vars(\E a \in DOMAIN actors : EndActorRun(a))

---------------------------------------------------------------------------
(* Properties. *)

Places == {"queued", "attempting", "starting", "polling", "waiting", "saving", "counting",
           "failing", "closing", "concluding", "done", "raised"}

\* Every variable has the values the code gives it.
TypeOK ==
    /\ \A a \in DOMAIN actors :
          /\ actors[a].pages \subseteq Pages
          /\ actors[a].status \in {"RUNNING", "SUCCEEDED", "REFUSED", "FAILED"}
          /\ actors[a].data \subseteq AdsOfBatch(actors[a].pages)
    /\ \A k \in Rows :
          /\ recorded[k].id \in DOMAIN actors
          /\ recorded[k].pages = actors[recorded[k].id].pages
          /\ recorded[k].attempt \in 1..APIFY_ATTEMPTS
          /\ recorded[k].outcome \in {"none", "stored", "failed"}
    /\ row.open \in BOOLEAN
    /\ {row.errors, row.total, row.done, row.pages} \subseteq Nat
    /\ {mem.errors, mem.total, mem.done} \subseteq Nat
    /\ stored \subseteq AllAds /\ gone \subseteq AllAds /\ tracked \subseteq Pages
    /\ worker \in {"up", "closing", "down"}
    /\ \A i \in Tasks :
          /\ tasks[i].pages \subseteq Pages /\ tasks[i].pages # {}
          /\ tasks[i].at \in Places
          /\ tasks[i].attempt \in 0..APIFY_ATTEMPTS
          /\ tasks[i].cur \in {None} \cup DOMAIN actors
          /\ tasks[i].attached \in {None} \cup DOMAIN actors
          /\ tasks[i].unread \subseteq AllAds
    /\ holder \in {None} \cup Tasks
    /\ conn \in {"ok", "aborted", "dead"}
    /\ faults \in [times: 0..MaxFaults, kinds: SUBSET Faults]

\* The worker never lost sight of an Actor run: nothing failed but reading what one read.
InSight == faults.kinds \subseteq {"crash", "read", "summary"}

\* "Nothing is paid for twice" (docs/configuration.md, Restarts): whenever the worker dies
\* and is resumed, no Page is read by an Actor run while, or after, another one reads it well.
NothingPaidTwice ==
    InSight =>
    \A a, b \in DOMAIN actors :
        a < b /\ actors[a].pages \cap actors[b].pages # {}
        => actors[a].status \in {"REFUSED", "FAILED"}

\* "Simultaneous Actor runs sets how many of those runs go at once" (docs/configuration.md):
\* not more of them are running on Apify, whoever started them.  A failed check breaks it.
ParallelAlways == Cardinality({a \in DOMAIN actors : actors[a].status = "RUNNING"}) <= Parallel

\* It holds across the lives of the worker, for the Batches it follows and those it sends,
\* as long as no Actor run is given up unseen.
ParallelLimit == InSight => ParallelAlways

\* "A failed Actor run is retried once" (docs/configuration.md): across every life of the
\* worker, a Page is sent to Apify twice at most.  Needs the record of every start, and
\* that no Page of the Batch is deleted.
RetriedOnce ==
    faults.kinds \subseteq {"crash", "call", "read", "summary"} =>
    \A p \in Pages : Cardinality({a \in DOMAIN actors : p \in actors[a].pages}) <= APIFY_ATTEMPTS

\* The ads of a run are counted once each, however often a resumed Batch stores them
\* again: the row never says more than there are.
NeverOvercounted == "delete" \notin faults.kinds => row.total <= Cardinality(stored)

\* An ad that still runs on Meta is never marked as stopped, whatever part of its Page the
\* Actor read and wherever reading it broke off or the worker died: a run summary that
\* cannot be had is taken at its word, and an exception takes the client with it.
NoAdWronglyGone ==
    faults.kinds \cap {"summary", "record", "db", "delete"} = {} => gone = {}

\* collector.py on storing an ad: "Store one ad ... and count it (once per run ...)".  A run
\* that closes without errors says how many ads it stored.
CountedOnce == ~row.open /\ row.errors = 0 => row.total = Cardinality(stored)

\* It holds unless a worker died between storing an ad and counting it.
EveryAdCounted == faults.kinds \cap {"crash", "midstart", "delete"} = {} => CountedOnce

\* A run that closes without errors read every Page: an Actor run read it well, all of
\* what that one read is stored, and every Page is counted as done.
CleanRunIsComplete ==
    ~row.open /\ row.errors = 0 /\ "delete" \notin faults.kinds
    => /\ \A p \in Pages : \E a \in DOMAIN actors :
             /\ p \in actors[a].pages /\ actors[a].status = "SUCCEEDED"
             /\ actors[a].data \subseteq stored
       /\ row.done = row.pages

\* A Page whose Batch was dealt with (stored, or failed and counted) is left be for the
\* rest of the run: no Actor run is started for it again.
DealtWithForGood ==
    [][\A a \in DOMAIN actors' \ DOMAIN actors : \A k \in Rows :
          recorded[k].outcome # "none" /\ "delete" \notin faults.kinds
          => actors'[a].pages \cap recorded[k].pages = {}]_vars

\* collector.py on an Actor run that could not be recorded: "it goes on; only a resume
\* wouldn't find it".  A Batch waits for its Actor run to end.
UnrecordedGoesOn ==
    [][\A i \in Tasks :
          tasks[i].at = "polling" /\ actors[tasks[i].cur].status = "RUNNING" /\ tasks' # <<>>
          => \/ tasks'[i].at = "polling"
             \/ actors'[tasks[i].cur].status # "RUNNING"]_vars

\* However often the worker dies, the run gets closed.
RunGetsClosed == <>(~row.open)
=============================================================================
