-------------------------- MODULE CollectNowProofs --------------------------
(***************************************************************************)
(* What holds of CollectNow for any limits, fineness of the clock and      *)
(* number of runs.                                                         *)
(***************************************************************************)
EXTENDS CollectNow, TLAPS, ListsProofs

RunRow == [started: Nat, beat: Nat, finished: BOOLEAN]

TypeOK ==
    /\ now \in Nat
    /\ collectNow \in BOOLEAN
    /\ requestedAt \in SUBSET Nat
    /\ runs \in Seq(RunRow)
    /\ worker \in {"idle", "taken", "due", "running", "down"}
    /\ worker = "running" => runs # <<>>
    /\ lastRun \in Nat

\* Nothing is dated in the future, and runs are opened one after another.
RowsInOrder ==
    /\ \A t \in requestedAt : t <= now
    /\ \A k \in Rows : runs[k].started <= now /\ runs[k].beat <= now
    /\ \A j, k \in Rows : j <= k => runs[j].started <= runs[k].started

Inv == TypeOK /\ RowsInOrder

\* Runs that are written to keep their places and the times they started at.
LEMMA SameRuns ==
    ASSUME Inv, UNCHANGED <<now, requestedAt>>,
           runs' \in Seq(RunRow), Len(runs') = Len(runs),
           \A k \in Rows : runs'[k].started = runs[k].started /\ runs'[k].beat <= now
    PROVE  RowsInOrder'
BY DEF Inv, TypeOK, RowsInOrder, Rows

\* The end of a run writes the latest row.
LEMMA FinishIs ==
    ASSUME Inv, Finish
    PROVE  /\ worker = "running" /\ worker' = "idle" /\ lastRun' = now
           /\ UNCHANGED <<now, collectNow, requestedAt>>
           /\ Len(runs) \in Rows /\ runs' \in Seq(RunRow) /\ Len(runs') = Len(runs) /\ Rows' = Rows
           /\ \A k \in Rows : k # Len(runs) => runs'[k] = runs[k]
           /\ \A k \in Rows : runs'[k].started = runs[k].started /\ runs'[k].beat <= now
<1>1. /\ Rows = 1..Len(runs) /\ Len(runs) \in Rows /\ now \in Nat
      /\ \A k \in Rows : runs[k] \in RunRow /\ runs[k].beat <= now
  BY DEF Finish, Inv, TypeOK, RowsInOrder, Rows
<1> DEFINE last == runs[Len(runs)]
<1>2. PICK done \in BOOLEAN :
         runs' = [runs EXCEPT ![Len(runs)].beat = IF done THEN now ELSE @, ![Len(runs)].finished = done]
  BY DEF Finish
<1> DEFINE row == [last EXCEPT !.beat = IF done THEN now ELSE last.beat, !.finished = done]
<1>3. last \in RunRow /\ last.beat <= now
  BY <1>1
<1>4. row \in RunRow /\ row.started = last.started /\ row.beat <= now
  <2> HIDE DEF last
  <2>1. now \in Nat
    BY <1>1
  <2>2. (IF done THEN now ELSE last.beat) \in Nat /\ (IF done THEN now ELSE last.beat) <= now
    BY <1>3, <2>1 DEF RunRow
  <2> DEFINE beat == IF done THEN now ELSE last.beat
  <2> HIDE DEF beat
  <2>3. row = [last EXCEPT !.beat = beat, !.finished = done] /\ beat \in Nat /\ beat <= now
    BY <2>2 DEF beat
  <2> HIDE DEF row
  <2> QED
    BY <1>3, <2>3 DEF RunRow
<1>5. runs' = [runs EXCEPT ![Len(runs)] = row]
  BY <1>1, <1>2 DEF Inv, TypeOK
<1> HIDE DEF row
<1>6. /\ runs' \in Seq(RunRow) /\ Len(runs') = Len(runs) /\ Rows' = Rows
      /\ \A k \in Rows : runs'[k] = IF k = Len(runs) THEN row ELSE runs[k]
  BY <1>1, <1>4, <1>5 DEF Inv, TypeOK, Rows
<1> QED
  BY <1>1, <1>4, <1>6 DEF Finish

\* Every step keeps the requests and answers in order.
LEMMA InvStep ==
    ASSUME Inv, [Next]_vars
    PROVE  Inv'
<1> USE CollectNowAssumption DEF Inv, TypeOK
<1>1. CASE RequestCollectNow
  BY <1>1 DEF RequestCollectNow, RowsInOrder, Rows
<1>2. CASE ConsumeCollectNow \/ BecomeDue \/ OpenNoRun \/ Crash \/ UNCHANGED vars
  <2>1. UNCHANGED <<now, requestedAt, runs>> /\ lastRun' \in {lastRun, now}
    BY <1>2 DEF ConsumeCollectNow, BecomeDue, OpenNoRun, Crash, vars
  <2>2. /\ collectNow' \in BOOLEAN
        /\ worker' \in {"idle", "taken", "due", "running", "down"}
        /\ worker' = "running" => worker = "running"
    BY <1>2 DEF ConsumeCollectNow, BecomeDue, OpenNoRun, Crash, vars
  <2> QED
    BY <2>1, <2>2 DEF RowsInOrder, Rows
<1>3. CASE OpenRun
  <2> DEFINE row == [started |-> now, beat |-> now, finished |-> FALSE]
  <2>1. row \in RunRow
    BY DEF RunRow
  <2>2. /\ runs' \in Seq(RunRow) /\ runs' # <<>> /\ Len(runs') = Len(runs) + 1
        /\ \A k \in 1..Len(runs) : runs'[k] = runs[k]
        /\ runs'[Len(runs) + 1].started = now /\ runs'[Len(runs) + 1].beat = now
    BY <1>3, <2>1 DEF OpenRun
  <2>3. UNCHANGED <<now, requestedAt, lastRun>>
    BY <1>3 DEF OpenRun
  <2> QED
    BY <1>3, <2>2, <2>3 DEF OpenRun, RowsInOrder, Rows
<1>4. CASE Beat
  <2>1. Len(runs) \in 1..Len(runs) /\ runs[Len(runs)] \in RunRow
    BY <1>4 DEF Beat
  <2> DEFINE row == [runs[Len(runs)] EXCEPT !.beat = now]
  <2>2. row \in RunRow /\ row.started = runs[Len(runs)].started /\ row.beat = now
    BY <2>1 DEF RunRow
  <2> HIDE DEF row
  <2>3. runs' = [runs EXCEPT ![Len(runs)] = row]
    BY <1>4 DEF Beat, row
  <2>4. /\ runs' \in Seq(RunRow) /\ Len(runs') = Len(runs)
        /\ \A k \in Rows : runs'[k].started = runs[k].started /\ runs'[k].beat <= now
    BY <2>1, <2>2, <2>3 DEF Rows, RowsInOrder
  <2> QED
    BY <1>4, <2>4, SameRuns DEF Beat
<1>5. CASE Finish
  <2>1. Inv
    OBVIOUS
  <2> QED
    BY <1>5, <2>1, FinishIs, SameRuns
<1>6. CASE CloseOrphans \/ Restart
  <2>0. Rows = 1..Len(runs) /\ \A k \in Rows : runs[k] \in RunRow
    BY DEF Rows
  <2>1. /\ runs' \in [1..Len(runs) -> RunRow]
        /\ \A k \in Rows : runs'[k].started = runs[k].started /\ runs'[k].beat <= now
    <3>1. CASE CloseOrphans
      BY <2>0, <3>1 DEF CloseOrphans, RunRow, RowsInOrder
    <3>2. CASE Restart
      BY <2>0, <3>2 DEF Restart, RunRow, RowsInOrder
    <3> QED
      BY <1>6, <3>1, <3>2
  <2>2. runs' \in Seq(RunRow) /\ Len(runs') = Len(runs)
    BY <2>1
  <2>3. UNCHANGED <<now, requestedAt, collectNow, lastRun>> /\ worker' \in {worker, "due"}
    BY <1>6 DEF CloseOrphans, Restart
  <2>4. worker' = "running" => runs' # <<>>
    BY <1>6, <2>2 DEF CloseOrphans, Restart
  <2> QED
    BY <2>1, <2>2, <2>3, <2>4, SameRuns
<1>7. CASE Tick
  <2>1. UNCHANGED <<requestedAt, collectNow, worker, runs, lastRun>> /\ now' \in Nat /\ now <= now'
    BY <1>7 DEF Tick
  <2>2. \A k \in Rows : runs[k].started \in Nat /\ runs[k].beat \in Nat
    <3>1. \A k \in Rows : runs[k] \in RunRow
      BY DEF Rows
    <3> QED
      BY <3>1 DEF RunRow
  <2>3. Rows' = Rows
    BY <2>1 DEF Rows
  <2>4. \A k \in Rows : runs'[k].started <= now' /\ runs'[k].beat <= now'
    BY <2>1, <2>2 DEF RowsInOrder
  <2> QED
    BY <2>1, <2>3, <2>4 DEF RowsInOrder
<1> QED
  BY <1>1, <1>2, <1>3, <1>4, <1>5, <1>6, <1>7 DEF Next

\* The requests and answers are in order in every behaviour.
THEOREM InvHolds == Spec => []Inv
<1>1. Init => Inv
  <2>1. <<>> \in Seq(RunRow) /\ DOMAIN <<>> = {}
    OBVIOUS
  <2> SUFFICES ASSUME Init PROVE Inv
    OBVIOUS
  <2>2. Rows = {}
    BY <2>1 DEF Init, Rows
  <2>3. TypeOK
    BY <2>1 DEF Init, TypeOK
  <2>4. RowsInOrder
    BY <2>2 DEF Init, RowsInOrder
  <2> QED
    BY <2>3, <2>4 DEF Inv
<1>2. Inv /\ [Next]_vars => Inv'
  BY InvStep
<1> QED
  BY <1>1, <1>2, PTL DEF Spec

---------------------------------------------------------------------------
(* The runs in flight. *)

\* Of all runs only the latest n may be in flight.
OnlyLatest(n) == \A k \in Rows : InFlight(runs[k]) => k > Len(runs) - n

\* A run that was left open is followed by one other at most before it is stale: a request
\* is refused meanwhile, and the interval is longer.  So the request for that other run was
\* accepted before, and there is no second one.
FewInFlight ==
    /\ OnlyLatest(2)
    /\ worker = "due" => OnlyLatest(0)
    /\ worker = "taken" => OnlyLatest(1)
    /\ worker = "taken" /\ collectNow => OnlyLatest(0)
    /\ worker \in {"idle", "running"} /\ collectNow => OnlyLatest(1)
    /\ worker \in {"idle", "taken"} => \A k \in Rows : runs[k].beat <= lastRun

\* The limits in ticks.
LEMMA Ticks ==
    /\ PendingTicks \in Nat /\ StaleTicks \in Nat /\ IntervalTicks \in Nat
    /\ StaleTicks < IntervalTicks
<1> DEFINE T == TicksPerSecond
<1>1. PendingSecs \in Nat /\ StaleSecs \in Nat /\ IntervalSecs \in Nat /\ T \in Nat
  BY CollectNowAssumption
<1>2. T > 0 /\ IntervalSecs - StaleSecs - 1 \in Nat
  BY CollectNowAssumption
<1> DEFINE d == IntervalSecs - StaleSecs - 1
<1>3. IntervalSecs = StaleSecs + 1 + d
  BY <1>1
<1> HIDE DEF T, d
<1>4. d \in Nat
  BY <1>2 DEF d
<1>5. (StaleSecs + 1 + d) * T = StaleSecs * T + T + d * T /\ d * T \in Nat /\ StaleSecs * T \in Nat
  BY <1>1, <1>4
<1>6. PendingSecs * T \in Nat
  BY <1>1
<1>7. StaleTicks = StaleSecs * T /\ IntervalTicks = (StaleSecs + 1 + d) * T /\ PendingTicks = PendingSecs * T
  BY <1>3 DEF StaleTicks, IntervalTicks, PendingTicks, T
<1> QED
  BY <1>1, <1>2, <1>5, <1>6, <1>7

\* What is known of a row.
LEMMA RowIs ==
    ASSUME Inv
    PROVE  /\ Rows = 1..Len(runs) /\ Len(runs) \in Nat /\ now \in Nat
           /\ \A k \in Rows : /\ runs[k] \in RunRow /\ runs[k].started \in Nat
                              /\ runs[k].beat \in Nat /\ runs[k].beat <= now
<1>1. /\ Rows = 1..Len(runs) /\ Len(runs) \in Nat /\ now \in Nat
      /\ \A k \in Rows : runs[k] \in RunRow
  BY DEF Inv, TypeOK, Rows
<1>2. \A k \in Rows : runs[k].started \in Nat /\ runs[k].beat \in Nat
  BY <1>1 DEF RunRow
<1> QED
  BY <1>1, <1>2 DEF Inv, RowsInOrder

\* Fewer are a case of more.
LEMMA OnlyLatestWeaker ==
    ASSUME Inv, NEW n \in Nat, NEW m \in Nat, n <= m, OnlyLatest(n)
    PROVE  OnlyLatest(m)
BY RowIs DEF OnlyLatest

\* Rows that get no beat do not take off again.
LEMMA OnlyLatestKept ==
    ASSUME Inv, Rows' = Rows, Len(runs') = Len(runs),
           \A k \in Rows : InFlight(runs[k])' => InFlight(runs[k])
    PROVE  \A n \in Nat : OnlyLatest(n) => OnlyLatest(n)'
BY RowIs DEF OnlyLatest

\* A beat or an end of the latest run.
LEMMA LatestWritten ==
    ASSUME Inv, Rows' = Rows, Len(runs') = Len(runs), now' = now,
           \A k \in Rows : k # Len(runs) => runs'[k] = runs[k]
    PROVE  \A n \in Nat : n > 0 /\ OnlyLatest(n) => OnlyLatest(n)'
BY RowIs DEF OnlyLatest, InFlight, Stale

\* Every step keeps all but the two latest runs out of flight.
LEMMA FewInFlightStep ==
    ASSUME Inv, FewInFlight, [Next]_vars
    PROVE  FewInFlight'
<1>0. /\ Rows = 1..Len(runs) /\ Len(runs) \in Nat /\ now \in Nat /\ lastRun \in Nat
      /\ \A k \in Rows : runs[k] \in RunRow /\ runs[k].beat \in Nat /\ runs[k].beat <= now
  BY RowIs DEF Inv, TypeOK
<1>1. CASE RequestCollectNow
  <2>1. OnlyLatest(0) /\ UNCHANGED <<now, runs, worker, lastRun>>
    BY <1>1 DEF RequestCollectNow, CanRequest, OnlyLatest
  <2>2. OnlyLatest(0)' /\ OnlyLatest(1)' /\ OnlyLatest(2)'
    BY <1>0, <2>1 DEF OnlyLatest, InFlight, Stale, Rows
  <2> QED
    BY <2>1, <2>2 DEF FewInFlight, Rows
<1>2. CASE ConsumeCollectNow \/ OpenNoRun \/ Crash \/ UNCHANGED vars
  <2>1. UNCHANGED <<now, runs>>
    BY <1>2 DEF ConsumeCollectNow, OpenNoRun, Crash, vars
  <2>2. \A n \in Nat : OnlyLatest(n) <=> OnlyLatest(n)'
    BY <2>1 DEF OnlyLatest, InFlight, Stale, Rows
  <2>3. OnlyLatest(0) => OnlyLatest(1)
    BY OnlyLatestWeaker
  <2>4. CASE ConsumeCollectNow
    BY <2>1, <2>2, <2>4 DEF FewInFlight, ConsumeCollectNow, Rows
  <2>5. CASE OpenNoRun
    <3>1. worker' = "idle" /\ worker \in {"taken", "due"} /\ collectNow' = collectNow
      BY <2>5 DEF OpenNoRun
    <3>2. \A k \in Rows : runs[k].beat <= lastRun'
      BY <1>0, <2>5 DEF OpenNoRun, FewInFlight
    <3> QED
      BY <2>1, <2>2, <2>3, <3>1, <3>2 DEF FewInFlight, Rows
  <2>6. CASE Crash
    BY <2>1, <2>2, <2>6 DEF FewInFlight, Crash
  <2>7. CASE UNCHANGED vars
    BY <2>1, <2>2, <2>7 DEF FewInFlight, vars, Rows
  <2> QED
    BY <1>2, <2>4, <2>5, <2>6, <2>7
<1>3. CASE BecomeDue
  <2>1. UNCHANGED <<now, runs>> /\ worker' = "due"
    BY <1>3 DEF BecomeDue
  <2>2. ASSUME NEW k \in Rows PROVE ~InFlight(runs[k])
    <3>1. runs[k].beat <= lastRun /\ now - lastRun >= IntervalTicks
      BY <1>3 DEF BecomeDue, FewInFlight
    <3> QED
      BY <1>0, <3>1, Ticks DEF InFlight, Stale
  <2>3. OnlyLatest(0)' /\ OnlyLatest(2)'
    BY <2>1, <2>2 DEF OnlyLatest, InFlight, Stale, Rows
  <2> QED
    BY <2>1, <2>3 DEF FewInFlight
<1>4. CASE OpenRun
  <2>1. /\ Len(runs') = Len(runs) + 1 /\ Rows' = 1..(Len(runs) + 1)
        /\ \A k \in 1..Len(runs) : runs'[k] = runs[k]
    BY <1>0, <1>4 DEF OpenRun, Rows
  <2>2. UNCHANGED <<now, collectNow>> /\ worker' = "running" /\ worker \in {"taken", "due"}
    BY <1>4 DEF OpenRun
  <2>3. ASSUME NEW n \in Nat, OnlyLatest(n) PROVE OnlyLatest(n + 1)'
    <3>1. ASSUME NEW k \in Rows', InFlight(runs[k])' PROVE k > Len(runs') - (n + 1)
      <4>1. CASE k \in Rows
        <5>1. InFlight(runs[k])
          BY <1>0, <2>1, <2>2, <3>1, <4>1 DEF InFlight, Stale
        <5>2. k > Len(runs) - n
          BY <2>3, <4>1, <5>1 DEF OnlyLatest
        <5> QED
          BY <1>0, <2>1, <4>1, <5>2
      <4>2. CASE k = Len(runs) + 1
        BY <1>0, <2>1, <4>2
      <4> QED
        BY <1>0, <2>1, <4>1, <4>2
    <3> QED
      BY <3>1 DEF OnlyLatest
  <2>4. OnlyLatest(1)
    BY <2>2, OnlyLatestWeaker DEF FewInFlight
  <2>5. OnlyLatest(1 + 1)' /\ (OnlyLatest(0) => OnlyLatest(0 + 1)')
    BY <2>3, <2>4
  <2>6. OnlyLatest(2)' /\ (OnlyLatest(0) => OnlyLatest(1)')
    BY <2>5
  <2> QED
    BY <2>2, <2>6 DEF FewInFlight
<1>5. CASE Beat \/ Finish
  <2>1. /\ worker = "running" /\ UNCHANGED <<now, collectNow>>
        /\ Rows' = Rows /\ Len(runs') = Len(runs)
        /\ \A k \in Rows : k # Len(runs) => runs'[k] = runs[k]
    <3>1. CASE Beat
      BY <1>0, <3>1 DEF Beat, Rows
    <3>2. CASE Finish
      BY <3>2, FinishIs
    <3> QED
      BY <1>5, <3>1, <3>2
  <2>2. OnlyLatest(2)' /\ (collectNow => OnlyLatest(1)')
    BY <2>1, LatestWritten DEF FewInFlight
  <2>3. CASE Beat
    BY <2>1, <2>2, <2>3 DEF FewInFlight, Beat
  <2>4. CASE Finish
    <3>1. worker' = "idle" /\ lastRun' = now /\ \A k \in Rows : runs'[k].beat <= now
      BY <2>4, FinishIs
    <3> QED
      BY <2>1, <2>2, <3>1 DEF FewInFlight
  <2> QED
    BY <1>5, <2>3, <2>4
<1>6. CASE CloseOrphans
  <2>1. /\ UNCHANGED <<now, collectNow, worker, lastRun>>
        /\ Rows' = Rows /\ Len(runs') = Len(runs)
        /\ \A k \in Rows : /\ runs'[k].beat = runs[k].beat
                           /\ InFlight(runs[k])' => InFlight(runs[k])
    BY <1>0, <1>6 DEF CloseOrphans, RunRow, Rows, InFlight, Stale
  <2>2. \A n \in Nat : OnlyLatest(n) => OnlyLatest(n)'
    BY <2>1, OnlyLatestKept
  <2> QED
    BY <2>1, <2>2 DEF FewInFlight
<1>7. CASE Restart
  <2>1. worker' = "due" /\ Rows' = Rows /\ \A k \in Rows : runs'[k].finished = TRUE
    BY <1>0, <1>7 DEF Restart, RunRow, Rows
  <2>2. OnlyLatest(0)' /\ OnlyLatest(2)'
    BY <2>1 DEF OnlyLatest, InFlight
  <2> QED
    BY <2>1, <2>2 DEF FewInFlight
<1>8. CASE Tick
  <2>1. UNCHANGED <<collectNow, runs, worker, lastRun>> /\ now' = now + 1 /\ Rows' = Rows
    BY <1>8 DEF Tick, Rows
  <2>2. ASSUME NEW k \in Rows, InFlight(runs[k])' PROVE InFlight(runs[k])
    BY <1>0, <2>1, <2>2, Ticks DEF InFlight, Stale
  <2>3. \A n \in Nat : OnlyLatest(n) => OnlyLatest(n)'
    BY <2>1, <2>2, OnlyLatestKept
  <2> QED
    BY <2>1, <2>3 DEF FewInFlight
<1> QED
  BY <1>1, <1>2, <1>3, <1>4, <1>5, <1>6, <1>7, <1>8 DEF Next

\* Only the two latest runs are ever in flight.
LEMMA FewInFlightAlways == Spec => []FewInFlight
<1>1. Init => FewInFlight
  <2> SUFFICES ASSUME Init PROVE FewInFlight
    OBVIOUS
  <2>1. Rows = {}
    BY DEF Init, Rows
  <2> QED
    BY <2>1 DEF FewInFlight, OnlyLatest
<1>2. Inv /\ FewInFlight /\ [Next]_vars => FewInFlight'
  BY FewInFlightStep
<1> QED
  BY <1>1, <1>2, InvHolds, PTL DEF Spec

---------------------------------------------------------------------------
(* The two queries. *)

\* While a run is in flight, the screen shows the latest that is: it is among those read.
LEMMA ShownInFlight ==
    ASSUME Inv, FewInFlight, \E k \in Rows : InFlight(runs[k])
    PROVE  \E r \in Shown : InFlight(r)
<1> DEFINE latest == {k \in Rows : k > Len(runs) - RunsShown}
           flying == {k \in latest : InFlight(runs[k])}
<1>1. Rows = 1..Len(runs) /\ Len(runs) \in Nat
  BY RowIs
<1>2. flying \subseteq Nat /\ flying # {} /\ \A k \in flying : k <= Len(runs)
  BY <1>1, CollectNowAssumption DEF FewInFlight, OnlyLatest
<1> HIDE DEF flying
<1>3. PICK k \in flying : \A i \in flying : i <= k
  BY <1>1, <1>2, GreatestNatural
<1>4. Shown = {runs[i] : i \in {j \in flying : \A h \in flying : h <= j}}
  BY <1>2 DEF Shown, flying
<1>5. runs[k] \in Shown /\ InFlight(runs[k])
  BY <1>3, <1>4 DEF flying
<1> QED
  BY <1>5

\* Otherwise it shows the latest run, which started last.
LEMMA ShownLatest ==
    ASSUME Inv, \A k \in Rows : ~InFlight(runs[k])
    PROVE  /\ \A r \in Shown : ~InFlight(r)
           /\ \A t \in requestedAt :
                 (\E k \in Rows : runs[k].started >= t) <=> ~(\A r \in Shown : t > r.started)
<1>1. /\ Rows = 1..Len(runs) /\ Len(runs) \in Nat
      /\ \A k \in Rows : runs[k].started \in Nat
  BY RowIs
<1>2. Shown = {runs[k] : k \in {j \in Rows : j = Len(runs)}}
  <2>1. \A k \in Rows : k = Len(runs) => k > Len(runs) - RunsShown
    BY <1>1, CollectNowAssumption
  <2> QED
    BY <2>1 DEF Shown
<1>3. ASSUME NEW t \in requestedAt
      PROVE  (\E k \in Rows : runs[k].started >= t) <=> ~(\A r \in Shown : t > r.started)
  <2>1. t \in Nat
    BY DEF Inv, TypeOK
  <2>2. CASE Rows = {}
    BY <1>2, <2>2
  <2>3. CASE Rows # {}
    <3>1. Len(runs) \in Rows
      BY <1>1, <2>3
    <3>2. Shown = {runs[Len(runs)]}
      BY <1>2, <3>1
    <3>3. \A k \in Rows : runs[k].started <= runs[Len(runs)].started
      BY <1>1, <3>1 DEF Inv, RowsInOrder
    <3> QED
      BY <1>1, <2>1, <3>1, <3>2, <3>3
  <2> QED
    BY <2>2, <2>3
<1> QED
  BY <1>2, <1>3

\* In rounded seconds a minute is over when it is over, or up to half a second before.
LEMMA RoundedMinute ==
    ASSUME NEW ticks \in Nat
    PROVE  /\ WholeSecs(ticks) < PendingSecs => ticks < PendingTicks
           /\ ~(WholeSecs(ticks) < PendingSecs) /\ ticks < PendingTicks
              => PendingTicks - ticks \in 1..(TicksPerSecond \div 2)
<1> DEFINE T == TicksPerSecond
           P == PendingSecs
           a == 2 * ticks + T
           b == 2 * T
           q == WholeSecs(ticks)
<1>1. T \in Nat \ {0} /\ P \in Nat
  BY CollectNowAssumption
<1>2. a \in Nat /\ b \in Nat \ {0} /\ q = a \div b
  BY <1>1 DEF WholeSecs
<1>3. q \in Nat /\ q * b <= a /\ a < q * b + b
  BY <1>2, DivisionIs
<1>4. PendingTicks = P * T
  BY DEF PendingTicks
<1> HIDE DEF T, P, q
<1>5. /\ q * b = 2 * (q * T) /\ q * T \in Nat /\ P * T \in Nat
  BY <1>1, <1>3
<1>6. CASE q < P
  <2> DEFINE d == P - q - 1
  <2>1. d \in Nat /\ P = q + 1 + d
    BY <1>1, <1>3, <1>6
  <2> HIDE DEF d
  <2>2. (q + 1 + d) * T = q * T + T + d * T /\ d * T \in Nat
    BY <1>1, <1>3, <2>1
  <2>3. P * T = q * T + T + d * T
    BY <2>1, <2>2
  <2> QED
    BY <1>1, <1>3, <1>4, <1>5, <1>6, <2>2, <2>3 DEF q, P
<1>7. CASE ~(q < P)
  <2> DEFINE d == q - P
  <2>1. d \in Nat /\ q = P + d
    BY <1>1, <1>3, <1>7
  <2> HIDE DEF d
  <2>2. (P + d) * T = P * T + d * T /\ d * T \in Nat
    BY <1>1, <1>3, <2>1
  <2>3. q * T = P * T + d * T
    BY <2>1, <2>2
  <2>4. 2 * (P * T - ticks) <= T
    BY <1>1, <1>3, <1>5, <2>2, <2>3
  <2>5. P * T - ticks <= T \div 2
    BY <1>1, <1>5, <2>4
  <2> QED
    BY <1>1, <1>4, <1>5, <1>7, <2>5 DEF q, P, T
<1> QED
  BY <1>6, <1>7

(* The web app's statement and the screen's query agree (RefusedAsShown):  *)
(* a request is refused while a run is shown in flight or a request as     *)
(* queued, and otherwise only in the half second that the screen's         *)
(* rounding takes off the request's minute.                                *)
THEOREM RefusedIffShown == Spec => []RefusedAsShown
<1>1. Inv /\ FewInFlight => RefusedAsShown
  <2> SUFFICES ASSUME Inv, FewInFlight PROVE RefusedAsShown
    OBVIOUS
  <2>1. CASE \E k \in Rows : InFlight(runs[k])
    <3>1. RunState = "running"
      BY <2>1, ShownInFlight DEF RunState
    <3> QED
      BY <2>1, <3>1 DEF RefusedAsShown, CanRequest
  <2>2. CASE \A k \in Rows : ~InFlight(runs[k])
    <3>1. \A r \in Shown : ~InFlight(r)
      BY <2>2, ShownLatest
    <3>2. RunState \in {"idle", "stalled"} <=> ~collectNow /\ ~RequestPending
      BY <3>1 DEF RunState
    <3>3. ASSUME NEW t \in requestedAt
          PROVE  /\ t \in Nat /\ now \in Nat /\ t <= now /\ PendingTicks \in Nat
                 /\ WholeSecs(now - t) < PendingSecs => ~(t + PendingTicks <= now)
                 /\ ~(WholeSecs(now - t) < PendingSecs) /\ ~(t + PendingTicks <= now)
                    => t + PendingTicks - now \in 1..(TicksPerSecond \div 2)
      <4>1. t \in Nat /\ now \in Nat /\ t <= now
        BY DEF Inv, TypeOK, RowsInOrder
      <4> DEFINE d == now - t
      <4>2. d \in Nat
        BY <4>1
      <4>3. (t + PendingTicks <= now) <=> ~(d < PendingTicks)
        BY <4>1, Ticks
      <4>4. t + PendingTicks - now = PendingTicks - d
        BY <4>1, Ticks
      <4> HIDE DEF d
      <4>5. /\ WholeSecs(d) < PendingSecs => ~(t + PendingTicks <= now)
            /\ ~(WholeSecs(d) < PendingSecs) /\ ~(t + PendingTicks <= now)
               => t + PendingTicks - now \in 1..(TicksPerSecond \div 2)
        BY <4>2, <4>3, <4>4, RoundedMinute
      <4> QED
        BY <4>1, <4>5, Ticks DEF d
    <3>4. CanRequest <=>
              /\ ~collectNow
              /\ \A t \in requestedAt : \/ t + PendingTicks <= now
                                        \/ ~(\A r \in Shown : t > r.started)
      BY <2>2, ShownLatest DEF CanRequest
    <3>5. CanRequest => ~collectNow /\ ~RequestPending
      BY <3>3, <3>4 DEF RequestPending
    <3>6. ~collectNow /\ ~RequestPending => CanRequest \/ MinuteEnds
      BY <3>3, <3>4 DEF RequestPending, MinuteEnds
    <3> QED
      BY <3>2, <3>5, <3>6 DEF RefusedAsShown
  <2> QED
    BY <2>1, <2>2
<1> QED
  BY <1>1, InvHolds, FewInFlightAlways, PTL
=============================================================================
