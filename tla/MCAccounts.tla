---------------------------- MODULE MCAccounts ----------------------------
(* Browsers and threads are interchangeable. *)
EXTENDS Accounts, TLC

Symmetry == Permutations(Addresses) \cup Permutations(Threads)
=============================================================================
