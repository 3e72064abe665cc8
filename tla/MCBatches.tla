----------------------------- MODULE MCBatches -----------------------------
(***************************************************************************)
(* Every list of up to MaxPages tracked Pages, each read in one of a few   *)
(* countries: make_batches against what it promises.                       *)
(***************************************************************************)
EXTENDS Batches, FiniteSets

CONSTANTS Countries, MaxPages

VARIABLE countryOf   \* the country of each tracked Page, whose ids are 1..Len(countryOf)

NoPages == countryOf = <<>>

\* The admin adds a Page.
CreatePage ==
    /\ Len(countryOf) < MaxPages
    /\ \E c \in Countries : countryOf' = Append(countryOf, c)

PagesAdded == NoPages /\ [][CreatePage]_countryOf

Ids  == [i \in 1..Len(countryOf) |-> i]
Plan == MakeBatches(Ids, countryOf)
In(b) == {b[i] : i \in 1..Len(b)}

\* Every tracked Page is in one Batch and in no other, once (collector.make_batches).
EveryPageOnce ==
    \A p \in In(Ids) :
        Cardinality({at \in (1..Len(Plan)) \X (1..BatchSize) :
                        at[2] <= Len(Plan[at[1]]) /\ Plan[at[1]][at[2]] = p}) = 1

\* A Batch has one to BatchSize Pages, all read in the same country (one Actor run reads
\* one country, and takes so many searches), and no country gets more Actor runs than
\* its Pages need: only its last Batch may be short.
BatchesFitAnActorRun ==
    /\ \A k \in 1..Len(Plan) :
          /\ Len(Plan[k]) \in 1..BatchSize
          /\ Cardinality({countryOf[p] : p \in In(Plan[k])}) = 1
    /\ \A c \in Countries :
          LET n == Cardinality({p \in In(Ids) : countryOf[p] = c})
              used == Cardinality({k \in 1..Len(Plan) : countryOf[Plan[k][1]] = c})
          IN  used * BatchSize \in n..(n + BatchSize - 1)
=============================================================================
