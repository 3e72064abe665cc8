---------------------------- MODULE MCScheduler ----------------------------
EXTENDS Scheduler, TLC

\* Workers are interchangeable (safety runs only).
WorkerSymmetry == Permutations(Workers)
=============================================================================
