----------------------------- MODULE RunLedger -----------------------------
(***************************************************************************)
(* What collection runs look like to everyone else (the Settings screen,   *)
(* the "collect now" button, the next worker), whatever workers come and   *)
(* go: rows are added one after another, at most one of them is being      *)
(* worked on, only the worker on it finishes it while it is worked on, a   *)
(* closed row is never picked up again, and rows are closed as interrupted *)
(* only while nobody works on any.                                         *)
(***************************************************************************)
EXTENDS Integers

CONSTANT MaxRuns

NoRun == 0

VARIABLES opened,  \* rows added so far
          open,    \* the rows with no finished_at
          active   \* the row a worker is working on, NoRun if none

lvars == <<opened, open, active>>

Init ==
    /\ opened = 0
    /\ open = {}
    /\ active = NoRun

\* A worker adds a row and works on it.
Begin ==
    /\ active = NoRun
    /\ opened < MaxRuns
    /\ opened' = opened + 1
    /\ open' = open \cup {opened + 1}
    /\ active' = opened + 1

\* A worker picks up a row another one left open.
Resume ==
    /\ active = NoRun
    /\ active' \in open
    /\ UNCHANGED <<opened, open>>

\* The worker on it finishes the row.
Finish ==
    /\ active \in open
    /\ open' = open \ {active}
    /\ active' = NoRun
    /\ UNCHANGED opened

\* The worker on it is gone, or could not close it.
Leave ==
    /\ active # NoRun
    /\ active' = NoRun
    /\ UNCHANGED <<opened, open>>

\* Rows nobody works on are closed as interrupted.
Interrupt ==
    /\ active = NoRun
    /\ open' \in SUBSET open
    /\ UNCHANGED <<opened, active>>

Next == Begin \/ Resume \/ Finish \/ Leave \/ Interrupt

Spec == Init /\ [][Next]_lvars
=============================================================================
