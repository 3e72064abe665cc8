------------------------------ MODULE Batches ------------------------------
(***************************************************************************)
(* make_batches (tracker/worker/collector.py): the tracked Pages, in the   *)
(* order of their ids, grouped by the country they are read in and cut     *)
(* into Batches of at most BatchSize, one Actor run each.                  *)
(***************************************************************************)
EXTENDS Integers, Sequences, FiniteSets, SequencesExt, Lists

CONSTANT BatchSize   \* BATCH_SIZE

ASSUME BatchSizeAssumption == BatchSize \in Nat \ {0}

\* The countries in the order the Pages bring them up (a dict keeps that order).
CountriesOf(pages, country) ==
    LET firsts == {i \in DOMAIN pages :
                      \A j \in 1..(i - 1) : country[pages[j]] # country[pages[i]]}
    IN  [k \in 1..Cardinality(firsts) |-> country[Where(pages, firsts)[k]]]

\* Mutation: the Pages are not grouped by country.
MutGroupAll(pages, country, c) == pages

Group(pages, country, c) == Where(pages, {i \in DOMAIN pages : country[pages[i]] = c})

\* Mutation: the last, short chunk is lost.
MutWholeChunks(group) ==
    [k \in 1..(Len(group) \div BatchSize) |->
        SubSeq(group, (k - 1) * BatchSize + 1, k * BatchSize)]

\* group[i:i + BATCH_SIZE] for i in range(0, len(group), BATCH_SIZE)
Chunks(group) ==
    [k \in 1..((Len(group) + BatchSize - 1) \div BatchSize) |->
        SubSeq(group, (k - 1) * BatchSize + 1,
               IF k * BatchSize < Len(group) THEN k * BatchSize ELSE Len(group))]

MakeBatches(pages, country) ==
    LET countries == CountriesOf(pages, country)
    IN  FlattenSeq([k \in 1..Len(countries) |-> Chunks(Group(pages, country, countries[k]))])
=============================================================================
