----------------------------- MODULE MCAdStore -----------------------------
(* Instances of AdStore for TLC: two companies, two Facebook Pages with one *)
(* ad each.                                                                 *)
EXTENDS AdStore

MCCompanies == {1, 2}
MCFbPages == {101, 102}
MCAds == {"x", "y"}
MCPageOf == [ad \in MCAds |-> IF ad = "x" THEN 101 ELSE 102]

\* An active ad, as Meta sends it (its end date is the day it was read), one that ended,
\* and one that says nothing but that it is not shown.
MCRecords == {
    [flag |-> "yes", status |-> "none", start |-> TRUE, stop |-> TRUE],
    [flag |-> "no", status |-> "none", start |-> TRUE, stop |-> TRUE],
    [flag |-> "none", status |-> "ACTIVE", start |-> FALSE, stop |-> TRUE]}
=============================================================================
