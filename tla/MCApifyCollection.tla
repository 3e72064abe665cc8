------------------------- MODULE MCApifyCollection -------------------------
(* Three Pages of one country in two Batches, one ad each. *)
EXTENDS ApifyCollection

MCPages == 1..3
MCCountry == [p \in MCPages |-> "US"]
MCAdsOf == [p \in MCPages |-> {10 * p}]

\* Two Pages in one Batch.
OneBatch == 1..2
OneBatchCountry == [p \in OneBatch |-> "US"]
OneBatchAdsOf == [p \in OneBatch |-> {10 * p}]
=============================================================================
