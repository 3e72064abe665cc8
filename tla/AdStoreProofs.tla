--------------------------- MODULE AdStoreProofs ---------------------------
(***************************************************************************)
(* What holds of AdStore for any companies, Pages, ads and records, any    *)
(* number of runs, edits and faults.                                       *)
(***************************************************************************)
EXTENDS AdStore, TLAPS

---------------------------------------------------------------------------
(* Types. *)

\* What is read of a record is an ad's row's part.
LEMMA ReadingType ==
    ASSUME NEW rec \in Records, NEW n \in FromLibraryAd(rec)
    PROVE  /\ n \in [active: {"yes", "no", "none"}, start: BOOLEAN, stop: BOOLEAN]
           /\ n.active = "yes" => ~n.stop
<1>1. rec \in [flag: {"yes", "no", "none"}, status: {"ACTIVE", "other", "none"},
               start: BOOLEAN, stop: BOOLEAN]
  BY AdStoreAssumption
<1>2. CASE n = FromMetaRecord(rec)
  BY <1>1, <1>2 DEF FromMetaRecord
<1>3. CASE n = FromLibraryModel(rec)
  BY <1>1, <1>3 DEF FromLibraryModel
<1> QED
  BY <1>2, <1>3 DEF FromLibraryAd

\* What storing an ad makes of its row.
LEMMA StoredType ==
    ASSUME NEW old \in AdRow, NEW page \in ListedPage, NEW run \in Nat,
           NEW n \in [active: {"yes", "no", "none"}, start: BOOLEAN, stop: BOOLEAN]
    PROVE  /\ Updated(old, page, run, n) \in AdRow
           /\ Updated(old, page, run, n).page = page.pk
           /\ Updated(old, page, run, n).run = run
           /\ Updated(old, page, run, n).active = n.active
           /\ old.start => Updated(old, page, run, n).start
           /\ n.active = "yes" => ~Updated(old, page, run, n).stop
           /\ Inserted(page, run, n) \in AdRow
           /\ Inserted(page, run, n).page = page.pk
           /\ Inserted(page, run, n).run = run
           /\ Inserted(page, run, n).active = n.active
           /\ Inserted(page, run, n).start = n.start
           /\ Inserted(page, run, n).stop = n.stop
BY DEF Updated, Inserted, AdRow, ListedPage

\* An empty row of pages is one.
LEMMA NoPageType == NoPage \in PageRow
BY DEF NoPage, PageRow

\* No primary key is None.
LEMMA PkIsNoNone == \A pk \in Pks : pk \in Nat /\ pk # None
BY AdStoreAssumption DEF Pks, None

\* The row create_page writes.
LEMMA PutPageType ==
    ASSUME TypeOK, NEW c \in Companies, NEW fb \in FbPages, NEW name \in Names,
           PutPage(c, fb, name)
    PROVE  pages' \in [Pks -> PageRow] /\ nextPk' \in Nat
<1>1. /\ pages \in [Pks -> PageRow] /\ nextPk \in Nat
      /\ c \in Companies \cup {None} /\ fb \in FbPages \cup {None}
      /\ name \in {"none", "admin", "meta"}
  BY DEF TypeOK, Names
<1>2. CASE \E pk \in Pks : pages[pk].fb = fb
  <2>1. PICK pk \in Pks :
          pages' = [pages EXCEPT ![pk].company = c,
                      ![pk].name = IF name = "none" THEN @ ELSE name,
                      ![pk].fromAdmin = name # "none" \/ @]
    BY <1>2 DEF PutPage
  <2>2. nextPk' = nextPk
    BY <1>2 DEF PutPage
  <2>3. pages[pk] \in PageRow
    BY <1>1
  <2> QED
    BY <1>1, <2>1, <2>2, <2>3 DEF PageRow
<1>3. CASE ~\E pk \in Pks : pages[pk].fb = fb
  <2> DEFINE row == [fb |-> fb, company |-> c, tracked |-> TRUE, name |-> name,
                     fromAdmin |-> name # "none"]
  <2>1. row \in PageRow
    BY <1>1 DEF PageRow
  <2>2. pages' = [pages EXCEPT ![nextPk] = row] /\ nextPk' = nextPk + 1
    BY <1>3 DEF PutPage
  <2>3. nextPk' \in Nat
    BY <1>1, <2>2
  <2> HIDE DEF row
  <2> QED
    BY <1>1, <2>1, <2>2, <2>3
<1> QED
  BY <1>2, <1>3

\* The tables are empty.
LEMMA TypeInit == Init => TypeOK
<1> SUFFICES ASSUME Init PROVE TypeOK
  OBVIOUS
<1>1. ads \in [Ads -> AdRow] /\ pages \in [Pks -> PageRow]
  BY NoPageType DEF Init, NoAd, AdRow
<1>2. worker \in [at: {"idle", "reading", "naming"}, run: Nat, list: SUBSET ListedPage,
                  page: ListedPage \cup {Nothing}, named: BOOLEAN]
  BY DEF Init
<1> QED
  BY <1>1, <1>2, AdStoreAssumption DEF Init, TypeOK

WorkerType == [at: {"idle", "reading", "naming"}, run: Nat, list: SUBSET ListedPage,
               page: ListedPage \cup {Nothing}, named: BOOLEAN]

\* Whatever is done to the worker's record.
LEMMA WorkerParts ==
    ASSUME NEW w \in WorkerType, NEW at \in {"idle", "reading", "naming"}, NEW run \in Nat,
           NEW list \in SUBSET ListedPage, NEW page \in ListedPage \cup {Nothing},
           NEW named \in BOOLEAN
    PROVE  /\ [w EXCEPT !.run = run, !.list = list] \in WorkerType
           /\ [w EXCEPT !.at = at, !.page = page, !.list = list] \in WorkerType
           /\ [w EXCEPT !.at = at, !.page = page, !.named = named] \in WorkerType
           /\ [w EXCEPT !.at = at, !.page = page, !.named = named, !.list = list] \in WorkerType
           /\ [w EXCEPT !.at = at, !.page = page] \in WorkerType
           /\ [w EXCEPT !.at = at] \in WorkerType
           /\ [w EXCEPT !.named = named] \in WorkerType
BY DEF WorkerType

\* A Page that is read is one of the list.
LEMMA PageRead ==
    ASSUME TypeOK, worker.page.fb # None PROVE worker.page \in ListedPage
<1>1. worker.page \in ListedPage \cup {Nothing}
  BY DEF TypeOK
<1>2. Nothing.fb = None
  BY DEF Nothing
<1> QED
  BY <1>1, <1>2

\* Every ad is of a Page of Meta.
LEMMA NoneIsNoPage == \A ad \in Ads : PageOf[ad] \in FbPages /\ PageOf[ad] # None
BY AdStoreAssumption

\* Every step keeps the types.
LEMMA TypeStep == TypeOK /\ [Next]_vars => TypeOK'
<1> SUFFICES ASSUME TypeOK, [Next]_vars PROVE TypeOK'
  OBVIOUS
<1>a. worker \in WorkerType
  BY DEF TypeOK, WorkerType
<1>1. CASE StartRun
  <2> DEFINE list == {[pk |-> pk, fb |-> pages[pk].fb, company |-> pages[pk].company] :
                        pk \in {q \in Pks : Exists(q) /\ pages[q].tracked}}
  <2>1. list \subseteq ListedPage
    BY DEF TypeOK, ListedPage, PageRow, Exists
  <2>2. worker' = [worker EXCEPT !.run = worker.run + 1, !.list = list] /\ worker.run + 1 \in Nat
    BY <1>1 DEF StartRun, TypeOK
  <2> HIDE DEF list
  <2>3. worker' \in WorkerType
    BY <1>a, <2>1, <2>2, WorkerParts
  <2> QED
    BY <1>1, <2>3 DEF StartRun, TypeOK, tables, WorkerType
<1>2. CASE ReadPage
  BY <1>2 DEF ReadPage, TypeOK, tables
<1>3. ASSUME NEW ad \in Ads, NEW rec \in Records, StoreAd(ad, rec)
      PROVE  TypeOK'
  <2>1. PICK n \in FromLibraryAd(rec) :
          ads' = [ads EXCEPT ![ad] = IF Known(ad) THEN Updated(@, worker.page, worker.run, n)
                                     ELSE Inserted(worker.page, worker.run, n)]
    BY <1>3 DEF StoreAd
  <2>2. ads[ad] \in AdRow /\ worker.run \in Nat
    BY DEF TypeOK
  <2>3. worker.page \in ListedPage
    BY <1>3, PageRead, NoneIsNoPage DEF StoreAd
  <2>4. ads' \in [Ads -> AdRow]
    BY <2>1, <2>2, <2>3, ReadingType, StoredType DEF TypeOK
  <2> QED
    BY <1>3, <2>4 DEF StoreAd, TypeOK
<1>4. CASE ReadFails
  <2>1. worker' \in WorkerType
    BY <1>a, <1>4, WorkerParts DEF ReadFails
  <2>2. faults' \in 0..MaxFaults
    BY <1>4, AdStoreAssumption DEF ReadFails, Fault, TypeOK
  <2> QED
    BY <1>4, <2>1, <2>2 DEF ReadFails, TypeOK, tables, WorkerType
<1>5. CASE MarkDisappeared
  <2>1. ads' \in [Ads -> AdRow]
    <3> SUFFICES ASSUME NEW ad \in Ads PROVE ads'[ad] \in AdRow
      BY <1>5 DEF MarkDisappeared
    <3>1. ads[ad] \in AdRow
      BY DEF TypeOK
    <3>2. ads'[ad] \in {ads[ad], [ads[ad] EXCEPT !.active = "no", !.stop = TRUE]}
      BY <1>5 DEF MarkDisappeared
    <3> QED
      BY <3>1, <3>2 DEF AdRow
  <2>2. worker' \in WorkerType
    BY <1>a, <1>5, WorkerParts DEF MarkDisappeared
  <2> QED
    BY <1>5, <2>1, <2>2 DEF MarkDisappeared, TypeOK, WorkerType
<1>6. CASE UpdatePageName
  <2>1. pages' \in [Pks -> PageRow]
    <3> DEFINE pk == worker.page.pk
               name == IF Exists(pk) /\ ~pages[pk].fromAdmin THEN "meta" ELSE pages[pk].name
    <3>1. pages' = [pages EXCEPT ![pk] = [pages[pk] EXCEPT !.name = name]]
      BY <1>6 DEF UpdatePageName
    <3>2. CASE pk \in Pks
      <4>1. pages[pk] \in PageRow
        BY <3>2 DEF TypeOK
      <4>2. name \in {"none", "admin", "meta"}
        BY <4>1 DEF PageRow
      <4> HIDE DEF pk, name
      <4>3. [pages[pk] EXCEPT !.name = name] \in PageRow
        BY <4>1, <4>2 DEF PageRow
      <4> QED
        BY <3>1, <4>3 DEF TypeOK
    <3>3. CASE pk \notin Pks
      BY <3>1, <3>3 DEF TypeOK
    <3> QED
      BY <3>2, <3>3
  <2>2. worker' \in WorkerType
    BY <1>a, <1>6, WorkerParts DEF UpdatePageName
  <2> QED
    BY <1>6, <2>1, <2>2 DEF UpdatePageName, TypeOK, WorkerType
<1>7. CASE Crash
  <2>1. worker' \in WorkerType
    BY <1>a, <1>7, WorkerParts DEF Crash
  <2>2. faults' \in 0..MaxFaults
    BY <1>7, AdStoreAssumption DEF Crash, Fault, TypeOK
  <2> QED
    BY <1>7, <2>1, <2>2 DEF Crash, TypeOK, tables, WorkerType
<1>8. ASSUME NEW c \in Companies, CreateCompany(c)
      PROVE  TypeOK'
  BY <1>8, AdStoreAssumption DEF CreateCompany, Edit, TypeOK, NoForm
<1>9. ASSUME NEW c \in Companies, NEW fb \in FbPages, NEW name \in Names, CreatePage(c, fb, name)
      PROVE  TypeOK'
  BY <1>9, PutPageType, AdStoreAssumption DEF CreatePage, Edit, TypeOK
<1>10. CASE CreateFirstPage
  <2>1. form.company \in Companies /\ form.fb \in FbPages /\ "none" \in Names
    BY <1>10 DEF CreateFirstPage, TypeOK, NoForm, Names
  <2>2. pages' \in [Pks -> PageRow] /\ nextPk' \in Nat
    BY <1>10, <2>1, PutPageType DEF CreateFirstPage, TypeOK
  <2> QED
    BY <1>10, <2>2 DEF CreateFirstPage, TypeOK
<1>11. ASSUME NEW pk \in Pks, NEW fb \in FbPages, NEW name \in Names, EditPage(pk, fb, name)
       PROVE  TypeOK'
  BY <1>11, AdStoreAssumption DEF EditPage, Edit, TypeOK, tables
<1>12. CASE SaveEdit
  <2>1. form.pk \in Pks /\ form.fb \in FbPages /\ form.name \in Names
    BY <1>12 DEF SaveEdit, TypeOK, NoForm
  <2>2. pages' \in [Pks -> PageRow]
    BY <1>12, <2>1 DEF SaveEdit, TypeOK, PageRow, Names
  <2> QED
    BY <1>12, <2>2 DEF SaveEdit, TypeOK
<1>13. ASSUME NEW pk \in Pks, TogglePage(pk)
       PROVE  TypeOK'
  <2>1. pages' \in [Pks -> PageRow]
    <3>1. pages[pk] \in PageRow /\ pages \in [Pks -> PageRow]
      BY DEF TypeOK
    <3>2. [pages[pk] EXCEPT !.tracked = ~pages[pk].tracked] \in PageRow
      BY <3>1 DEF PageRow
    <3>3. pages' = [pages EXCEPT ![pk] = [pages[pk] EXCEPT !.tracked = ~pages[pk].tracked]]
      BY <1>13 DEF TogglePage
    <3> QED
      BY <3>1, <3>2, <3>3
  <2> QED
    BY <1>13, <2>1, AdStoreAssumption DEF TogglePage, Edit, TypeOK
<1>14. ASSUME NEW pk \in Pks, DeletePage(pk)
       PROVE  TypeOK'
  BY <1>14, NoPageType, AdStoreAssumption DEF DeletePage, Edit, TypeOK
<1>15. ASSUME NEW c \in Companies, DeleteCompany(c)
       PROVE  TypeOK'
  <2>1. pages' \in [Pks -> PageRow]
    BY <1>15, NoPageType DEF DeleteCompany, TypeOK
  <2> QED
    BY <1>15, <2>1, AdStoreAssumption DEF DeleteCompany, Edit, TypeOK
<1>16. CASE Over \/ UNCHANGED vars
  BY <1>16 DEF Over, vars, tables, TypeOK
<1> QED
  BY <1>1, <1>2, <1>3, <1>4, <1>5, <1>6, <1>7, <1>8, <1>9, <1>10, <1>11, <1>12, <1>13, <1>14,
     <1>15, <1>16 DEF Next, WorkerStep, AdminStep

---------------------------------------------------------------------------
(* The rows of pages, and the ads on them. *)

\* UNIQUE (page_id), and primary keys that are not used twice.
Rows ==
    /\ \A p, q \in Pks : pages[p].fb # None /\ pages[p].fb = pages[q].fb => p = q
    /\ \A pk \in Pks : pages[pk].fb # None => pk < nextPk

\* ads.page_id REFERENCES pages.
Homed == \A ad \in Ads : ads[ad].page # None => pages[ads[ad].page].fb # None

\* While the form of a Page is between its check and its update, the row stays, and an ID
\* that is about to change has no ads.
EditHeld ==
    form.kind = "edit" =>
        /\ pages[form.pk].fb # None
        /\ form.fb # pages[form.pk].fb => \A ad \in Ads : ads[ad].page # form.pk

Tables == TypeOK /\ Rows /\ Homed /\ EditHeld

\* What a statement may do to the IDs of Pages: keep them, add a row, or delete one that
\* nobody holds and no ad refers to.
Gentle ==
    /\ nextPk' >= nextPk
    /\ \A pk \in Pks :
          \/ pages'[pk].fb = pages[pk].fb
          \/ pages[pk].fb = None /\ nextPk <= pk
          \/ pages'[pk].fb = None /\ ~Locked(pk) /\ \A ad \in Ads : ads[ad].page # pk

\* The types of an ad's and a Page's row.
LEMMA AdTypes ==
    ASSUME TypeOK
    PROVE  /\ \A ad \in Ads : ads[ad] \in AdRow /\ ads[ad].page \in Pks \cup {None}
           /\ \A pk \in Pks : pages[pk] \in PageRow /\ pages[pk].fb \in FbPages \cup {None}
           /\ nextPk \in Nat
BY DEF TypeOK, AdRow, PageRow

\* A step that is gentle to the IDs, leaves every ad on its Page and opens no edit keeps the tables
\* consistent.
LEMMA GentleStep ==
    ASSUME Tables, Gentle, Rows', TypeOK',
           \A ad \in Ads : ads'[ad].page = ads[ad].page,
           form' = form \/ form'.kind # "edit"
    PROVE  Tables'
<1>1. Homed'
  <2> SUFFICES ASSUME NEW ad \in Ads, ads'[ad].page # None
               PROVE  pages'[ads'[ad].page].fb # None
    BY DEF Homed
  <2> DEFINE pk == ads[ad].page
  <2>1. pk \in Pks /\ pages[pk].fb # None /\ pk < nextPk /\ ads'[ad].page = pk
    BY AdTypes DEF Tables, Homed, Rows
  <2>2. pk \in Nat /\ nextPk \in Nat
    BY <2>1, PkIsNoNone, AdTypes DEF Tables
  <2> HIDE DEF pk
  <2> QED
    BY <2>1, <2>2 DEF Gentle, pk
<1>2. EditHeld'
  <2>1. CASE form'.kind # "edit"
    BY <2>1 DEF EditHeld
  <2>2. CASE form' = form /\ form.kind = "edit"
    <3>1. /\ form.pk \in Pks /\ pages[form.pk].fb # None /\ Locked(form.pk)
      BY <2>2 DEF Tables, EditHeld, TypeOK, NoForm, Locked
    <3>2. pages'[form.pk].fb = pages[form.pk].fb
      BY <3>1, AdTypes, PkIsNoNone DEF Gentle, Tables, Rows
    <3> QED
      BY <2>2, <3>1, <3>2 DEF Tables, EditHeld
  <2> QED
    BY <2>1, <2>2
<1> QED
  BY <1>1, <1>2 DEF Tables

\* A statement that touches no ID.
LEMMA SameRows ==
    ASSUME Tables, nextPk' = nextPk, \A pk \in Pks : pages'[pk].fb = pages[pk].fb
    PROVE  Gentle /\ Rows'
BY AdTypes DEF Gentle, Tables, Rows

\* create_page adds a Page or moves one.
LEMMA PutPageGentle ==
    ASSUME Tables, NEW c \in Companies, NEW fb \in FbPages, NEW name \in Names,
           PutPage(c, fb, name)
    PROVE  Gentle /\ Rows'
<1>1. CASE \E pk \in Pks : pages[pk].fb = fb
  <2>1. PICK pk \in Pks :
          pages' = [pages EXCEPT ![pk].company = c,
                      ![pk].name = IF name = "none" THEN @ ELSE name,
                      ![pk].fromAdmin = name # "none" \/ @]
    BY <1>1 DEF PutPage
  <2>2. nextPk' = nextPk
    BY <1>1 DEF PutPage
  <2>3. \A q \in Pks : pages'[q].fb = pages[q].fb
    BY <2>1, AdTypes DEF Tables, TypeOK, PageRow
  <2> QED
    BY <2>2, <2>3, SameRows
<1>2. CASE ~\E pk \in Pks : pages[pk].fb = fb
  <2>1. /\ nextPk \in Pks /\ nextPk' = nextPk + 1
        /\ \A pk \in Pks : pages'[pk].fb = (IF pk = nextPk THEN fb ELSE pages[pk].fb)
    BY <1>2 DEF PutPage, Tables, TypeOK
  <2>2. pages[nextPk].fb = None
    BY <2>1, AdTypes DEF Tables, Rows
  <2>3. Gentle
    BY <2>1, <2>2, AdTypes DEF Gentle, Tables
  <2>4. Rows'
    <3>1. \A p, q \in Pks : pages'[p].fb # None /\ pages'[p].fb = pages'[q].fb => p = q
      BY <1>2, <2>1 DEF Tables, Rows
    <3>2. \A pk \in Pks : pages'[pk].fb # None => pk < nextPk'
      BY <2>1, AdTypes, PkIsNoNone DEF Tables, Rows
    <3> QED
      BY <3>1, <3>2 DEF Rows
  <2> QED
    BY <2>3, <2>4
<1> QED
  BY <1>1, <1>2

\* A row that goes.
LEMMA DeleteGentle ==
    ASSUME Tables, NEW its \in SUBSET Pks, nextPk' = nextPk,
           \A pk \in its : ~Locked(pk) /\ AdsOn(pk) = {},
           pages' = [pk \in Pks |-> IF pk \in its THEN NoPage ELSE pages[pk]]
    PROVE  Gentle /\ Rows'
<1>1. \A pk \in Pks : pages'[pk].fb = (IF pk \in its THEN None ELSE pages[pk].fb)
  BY DEF NoPage
<1>2. \A pk \in its : \A ad \in Ads : ads[ad].page # pk
  BY DEF AdsOn
<1> QED
  BY <1>1, <1>2, AdTypes DEF Gentle, Tables, Rows

\* Empty tables are consistent.
LEMMA TablesInit == Init => Tables
<1> SUFFICES ASSUME Init PROVE Tables
  OBVIOUS
<1>1. /\ \A pk \in Pks : pages[pk].fb = None
      /\ \A ad \in Ads : ads[ad].page = None
      /\ form.kind # "edit"
  BY DEF Init, NoPage, NoAd, NoForm
<1> QED
  BY <1>1, TypeInit DEF Tables, Rows, Homed, EditHeld

\* What storing an ad does.
LEMMA StoreAdEffect ==
    ASSUME TypeOK, NEW ad \in Ads, NEW rec \in Records, StoreAd(ad, rec)
    PROVE  /\ worker.page \in ListedPage /\ PageOf[ad] = worker.page.fb
           /\ \A other \in Ads \ {ad} : ads'[other] = ads[other]
           /\ ads'[ad].page = worker.page.pk
           /\ ads'[ad].run = worker.run
           /\ ads'[ad].active \in {"yes", "no", "none"}
           /\ ads[ad].page # None /\ ads[ad].start => ads'[ad].start
           /\ ads'[ad].start \in BOOLEAN
           /\ ads'[ad].active = "yes" => ~ads'[ad].stop
<1>1. PICK n \in FromLibraryAd(rec) :
        ads' = [ads EXCEPT ![ad] = IF Known(ad) THEN Updated(@, worker.page, worker.run, n)
                                   ELSE Inserted(worker.page, worker.run, n)]
  BY DEF StoreAd
<1>2. ads \in [Ads -> AdRow] /\ worker.run \in Nat /\ worker.page \in ListedPage
  BY PageRead, NoneIsNoPage DEF TypeOK, StoreAd
<1>3. /\ n \in [active: {"yes", "no", "none"}, start: BOOLEAN, stop: BOOLEAN]
      /\ n.active = "yes" => ~n.stop
  BY <1>1, ReadingType
<1> DEFINE updated == Updated(ads[ad], worker.page, worker.run, n)
           inserted == Inserted(worker.page, worker.run, n)
<1>4. /\ updated \in AdRow /\ inserted \in AdRow
      /\ updated.page = worker.page.pk /\ inserted.page = worker.page.pk
      /\ updated.run = worker.run /\ inserted.run = worker.run
      /\ ads[ad].start => updated.start
      /\ updated.active = n.active /\ inserted.active = n.active
      /\ n.active = "yes" => ~updated.stop
      /\ inserted.stop = n.stop
  <2>1. ads[ad] \in AdRow /\ worker.page \in ListedPage /\ worker.run \in Nat
    BY <1>2
  <2> DEFINE old == ads[ad]
  <2>2. old \in AdRow
    BY <2>1
  <2> HIDE DEF old
  <2>3. updated = Updated(old, worker.page, worker.run, n)
    BY DEF old
  <2>4. old.start => updated.start
    BY <1>3, <2>1, <2>2, <2>3, StoredType
  <2> QED
    BY <1>3, <2>1, <2>2, <2>3, <2>4, StoredType DEF old
<1>5. /\ \A other \in Ads \ {ad} : ads'[other] = ads[other]
      /\ ads'[ad] \in {updated, inserted}
      /\ ads[ad].page # None => ads'[ad] = updated
  BY <1>1, <1>2 DEF Known
<1> HIDE DEF updated, inserted
<1> QED
  BY <1>2, <1>3, <1>4, <1>5 DEF StoreAd, AdRow

\* Storing an ad: the Page is there, and not held by a form that changes its ID.
LEMMA StoreAdTables ==
    ASSUME Tables, TypeOK', NEW ad \in Ads, NEW rec \in Records, StoreAd(ad, rec)
    PROVE  Tables'
<1> DEFINE pk == worker.page.pk
<1>1. /\ pages' = pages /\ nextPk' = nextPk /\ form' = form /\ pk \in Pks
      /\ \A other \in Ads \ {ad} : ads'[other].page = ads[other].page
      /\ ads'[ad].page = pk
  BY StoreAdEffect DEF StoreAd, Tables, ListedPage
<1>2. ads[ad].page = pk \/ (pages[pk].fb # None /\ ~Locked(pk))
  BY DEF StoreAd, MayRefer, Refers, Exists
<1>3. pages[pk].fb # None
  BY <1>1, <1>2, PkIsNoNone DEF Tables, Homed
<1> HIDE DEF pk
<1>4. Homed'
  BY <1>1, <1>3 DEF Tables, Homed
<1>5. EditHeld'
  BY <1>1, <1>2 DEF Tables, EditHeld, Locked
<1>6. Rows'
  BY <1>1 DEF Tables, Rows
<1> QED
  BY <1>4, <1>5, <1>6 DEF Tables

\* Every step keeps the tables together.
LEMMA TablesStep == Tables /\ [Next]_vars => Tables'
<1> SUFFICES ASSUME Tables, [Next]_vars PROVE Tables'
  OBVIOUS
<1>a. TypeOK'
  BY TypeStep DEF Tables
<1>1. ASSUME pages' = pages, nextPk' = nextPk, form' = form \/ form'.kind # "edit",
             \A ad \in Ads : ads'[ad].page = ads[ad].page
      PROVE  Tables'
  BY <1>a, <1>1, SameRows, GentleStep
<1>2. CASE StartRun \/ ReadPage \/ ReadFails \/ Crash \/ Over \/ UNCHANGED vars
  BY <1>1, <1>2 DEF StartRun, ReadPage, ReadFails, Crash, Over, vars, tables
<1>3. ASSUME NEW ad \in Ads, NEW rec \in Records, StoreAd(ad, rec)
      PROVE  Tables'
  BY <1>a, <1>3, StoreAdTables
<1>4. CASE MarkDisappeared
  <2>1. \A ad \in Ads : ads'[ad].page = ads[ad].page
    BY <1>4, AdTypes DEF MarkDisappeared, Tables, AdRow
  <2> QED
    BY <1>1, <1>4, <2>1 DEF MarkDisappeared
<1>5. CASE UpdatePageName
  <2>1. \A q \in Pks : pages'[q].fb = pages[q].fb
    BY <1>5, AdTypes DEF UpdatePageName, Tables, TypeOK, PageRow
  <2> QED
    BY <1>a, <1>5, <2>1, SameRows, GentleStep DEF UpdatePageName
<1>6. ASSUME NEW c \in Companies, CreateCompany(c)
      PROVE  Tables'
  BY <1>1, <1>6 DEF CreateCompany, NoForm
<1>7. ASSUME NEW c \in Companies, NEW fb \in FbPages, NEW name \in Names, CreatePage(c, fb, name)
      PROVE  Tables'
  BY <1>a, <1>7, PutPageGentle, GentleStep DEF CreatePage
<1>8. CASE CreateFirstPage
  <2>1. form.company \in Companies /\ form.fb \in FbPages /\ "none" \in Names
    BY <1>8 DEF CreateFirstPage, Tables, TypeOK, NoForm, Names
  <2>2. Gentle /\ Rows'
    BY <1>8, <2>1, PutPageGentle, SameRows DEF CreateFirstPage
  <2> QED
    BY <1>a, <1>8, <2>2, GentleStep DEF CreateFirstPage, NoForm
<1>9. ASSUME NEW pk \in Pks, NEW fb \in FbPages, NEW name \in Names, EditPage(pk, fb, name)
      PROVE  Tables'
  <2>1. /\ pages' = pages /\ nextPk' = nextPk /\ ads' = ads
        /\ form' = [kind |-> "edit", pk |-> pk, fb |-> fb, name |-> name]
    BY <1>9 DEF EditPage, tables
  <2>2. Rows' /\ Homed'
    BY <2>1 DEF Tables, Rows, Homed
  <2>3. EditHeld'
    BY <1>9, <2>1 DEF EditPage, EditHeld, Exists, AdsOn
  <2> QED
    BY <1>a, <2>2, <2>3 DEF Tables
<1>10. CASE SaveEdit
  <2> DEFINE pk == form.pk
  <2>1. /\ pk \in Pks /\ form.fb \in FbPages /\ form.kind = "edit"
        /\ nextPk' = nextPk /\ ads' = ads /\ form'.kind # "edit"
    BY <1>10 DEF SaveEdit, Tables, TypeOK, NoForm
  <2>2. CASE \E q \in Pks \ {pk} : pages[q].fb = form.fb
    BY <1>1, <1>10, <2>1, <2>2 DEF SaveEdit
  <2>3. CASE ~\E q \in Pks \ {pk} : pages[q].fb = form.fb
    <3>1. pages[pk].fb # None
      BY <2>1 DEF Tables, EditHeld
    <3>2. \A q \in Pks : pages'[q].fb = (IF q = pk THEN form.fb ELSE pages[q].fb)
      BY <1>10, <2>1, <2>3, <3>1 DEF SaveEdit, Tables, TypeOK, Exists, PageRow
    <3> HIDE DEF pk
    <3>3. Rows'
      <4>1. \A p, q \in Pks : pages'[p].fb # None /\ pages'[p].fb = pages'[q].fb => p = q
        BY <2>1, <2>3, <3>2 DEF Tables, Rows
      <4>2. \A q \in Pks : pages'[q].fb # None => q < nextPk'
        BY <2>1, <3>1, <3>2 DEF Tables, Rows
      <4> QED
        BY <4>1, <4>2 DEF Rows
    <3>4. Homed'
      BY <2>1, <3>2, AdStoreAssumption, AdTypes DEF Tables, Homed
    <3>5. EditHeld'
      BY <2>1 DEF EditHeld
    <3> QED
      BY <1>a, <3>3, <3>4, <3>5 DEF Tables
  <2> QED
    BY <2>2, <2>3
<1>11. ASSUME NEW pk \in Pks, TogglePage(pk)
       PROVE  Tables'
  <2>1. \A q \in Pks : pages'[q].fb = pages[q].fb
    BY <1>11, AdTypes DEF TogglePage, Tables, TypeOK, PageRow
  <2> QED
    BY <1>a, <1>11, <2>1, SameRows, GentleStep DEF TogglePage
<1>12. ASSUME NEW pk \in Pks, DeletePage(pk)
       PROVE  Tables'
  <2>1. /\ ~Locked(pk) /\ AdsOn(pk) = {} /\ nextPk' = nextPk /\ ads' = ads /\ form' = form
        /\ pages' = [q \in Pks |-> IF q \in {pk} THEN NoPage ELSE pages[q]]
    BY <1>12 DEF DeletePage, Tables, TypeOK
  <2>2. Gentle /\ Rows'
    BY <2>1, DeleteGentle
  <2> QED
    BY <1>a, <2>1, <2>2, GentleStep
<1>13. ASSUME NEW c \in Companies, DeleteCompany(c)
       PROVE  Tables'
  <2> DEFINE its == {pk \in Pks : Exists(pk) /\ pages[pk].company = c}
  <2>1. /\ \A pk \in its : ~Locked(pk) /\ AdsOn(pk) = {}
        /\ pages' = [pk \in Pks |-> IF pk \in its THEN NoPage ELSE pages[pk]]
        /\ nextPk' = nextPk /\ ads' = ads /\ form' = form
    BY <1>13 DEF DeleteCompany
  <2>2. its \in SUBSET Pks
    OBVIOUS
  <2> HIDE DEF its
  <2>3. Gentle /\ Rows'
    BY <2>1, <2>2, DeleteGentle
  <2> QED
    BY <1>a, <2>1, <2>3, GentleStep
<1> QED
  BY <1>2, <1>3, <1>4, <1>5, <1>6, <1>7, <1>8, <1>9, <1>10, <1>11, <1>12, <1>13
  DEF Next, WorkerStep, AdminStep

\* The tables are consistent in every behaviour.
LEMMA TablesAlways == Spec => []Tables
BY TablesInit, TablesStep, PTL DEF Spec

\* Every variable has the values the code gives it.
THEOREM TypeCorrect == Spec => []TypeOK
<1>1. Tables => TypeOK
  BY DEF Tables
<1> QED
  BY <1>1, TablesAlways, PTL

---------------------------------------------------------------------------
(* Ends, names and IDs. *)

\* Two steps write ads.
LEMMA AdsWritten ==
    ASSUME [Next]_vars
    PROVE  \/ ads' = ads
           \/ MarkDisappeared
           \/ \E ad \in Ads, rec \in Records : StoreAd(ad, rec)
BY DEF Next, WorkerStep, AdminStep, StartRun, ReadPage, ReadFails, UpdatePageName, Crash, CreateCompany,
       CreatePage, CreateFirstPage, EditPage, SaveEdit, TogglePage, DeletePage, DeleteCompany, Over,
       vars, tables

\* Marking the disappeared ads touches nothing but whether they are active.
LEMMA MarkEffect ==
    ASSUME TypeOK, MarkDisappeared, NEW ad \in Ads
    PROVE  /\ ads'[ad].page = ads[ad].page /\ ads'[ad].run = ads[ad].run
           /\ ads'[ad].start = ads[ad].start
           /\ ads'[ad] = ads[ad] \/ ads'[ad].active = "no"
BY DEF MarkDisappeared, TypeOK, AdRow

\* Every step keeps an active ad without an end.
LEMMA NoEndStep == Tables /\ NoEndWhileActive /\ [Next]_vars => NoEndWhileActive'
<1> SUFFICES ASSUME Tables, NoEndWhileActive, [Next]_vars, NEW ad \in Ads,
                    ads'[ad].active = "yes"
             PROVE  ~ads'[ad].stop
  BY DEF NoEndWhileActive
<1>1. CASE ads'[ad] = ads[ad]
  BY <1>1 DEF NoEndWhileActive
<1>2. CASE MarkDisappeared
  BY <1>1, <1>2, MarkEffect DEF Tables
<1>3. ASSUME NEW other \in Ads, NEW rec \in Records, StoreAd(other, rec)
      PROVE  ~ads'[ad].stop
  BY <1>1, <1>3, StoreAdEffect DEF Tables
<1> QED
  BY <1>1, <1>2, <1>3, AdsWritten

\* An ad that runs, or runs again, has no end (upsert_ad, mark_disappeared_ads).
THEOREM ActiveAdsHaveNoEnd == Spec => []NoEndWhileActive
<1>1. Init => NoEndWhileActive
  BY DEF Init, NoEndWhileActive, NoAd
<1> QED
  BY <1>1, NoEndStep, TablesAlways, PTL DEF Spec

\* One row after a step, for each statement that writes it.
NameKept(page) == page.fb # None => (page.fromAdmin <=> page.name = "admin")

\* Adding a Page keeps the admin's names.
LEMMA PutPageNames ==
    ASSUME Tables, NamesAreKept, NEW c \in Companies, NEW fb \in FbPages, NEW name \in Names,
           PutPage(c, fb, name), NEW pk \in Pks
    PROVE  NameKept(pages'[pk])
<1>1. NameKept(pages[pk]) /\ pages[pk] \in PageRow /\ pages \in [Pks -> PageRow]
  BY AdTypes DEF Tables, TypeOK, NamesAreKept, NameKept, Exists
<1>2. CASE \E q \in Pks : pages[q].fb = fb
  <2>1. PICK q \in Pks :
          pages' = [pages EXCEPT ![q].company = c,
                      ![q].name = IF name = "none" THEN @ ELSE name,
                      ![q].fromAdmin = name # "none" \/ @]
    BY <1>2 DEF PutPage
  <2>2. CASE pk # q
    BY <1>1, <2>1, <2>2
  <2>3. CASE pk = q
    <3>1. /\ pages'[pk].fb = pages[pk].fb
          /\ pages'[pk].name = (IF name = "none" THEN pages[pk].name ELSE name)
          /\ pages'[pk].fromAdmin = (name # "none" \/ pages[pk].fromAdmin)
      BY <1>1, <2>1, <2>3 DEF PageRow
    <3> QED
      BY <1>1, <2>1, <3>1 DEF NameKept, Names
  <2> QED
    BY <2>2, <2>3
<1>3. CASE ~\E q \in Pks : pages[q].fb = fb
  <2>1. pages' = [pages EXCEPT ![nextPk] = [fb |-> fb, company |-> c, tracked |-> TRUE,
                                            name |-> name, fromAdmin |-> name # "none"]]
    BY <1>3 DEF PutPage
  <2> QED
    BY <1>1, <2>1 DEF NameKept, Names
<1> QED
  BY <1>2, <1>3

\* Every step keeps the names the admin gave.
LEMMA NamesStep == Tables /\ NamesAreKept /\ [Next]_vars => NamesAreKept'
<1> SUFFICES ASSUME Tables, NamesAreKept, [Next]_vars, NEW pk \in Pks
             PROVE  NameKept(pages'[pk])
  BY DEF NamesAreKept, NameKept, Exists
<1>a. NameKept(pages[pk]) /\ pages[pk] \in PageRow /\ pages \in [Pks -> PageRow]
  BY AdTypes DEF Tables, TypeOK, NamesAreKept, NameKept, Exists
<1>1. CASE pages' = pages
  BY <1>a, <1>1
<1>2. CASE UpdatePageName
  <2>1. /\ pages'[pk].fb = pages[pk].fb /\ pages'[pk].fromAdmin = pages[pk].fromAdmin
        /\ pages'[pk].name = pages[pk].name
             \/ (pages'[pk].name = "meta" /\ ~pages[pk].fromAdmin)
    BY <1>a, <1>2 DEF UpdatePageName, PageRow
  <2> QED
    BY <1>a, <2>1 DEF NameKept
<1>3. ASSUME NEW c \in Companies, NEW fb \in FbPages, NEW name \in Names, PutPage(c, fb, name)
      PROVE  NameKept(pages'[pk])
  BY <1>3, PutPageNames
<1>4. CASE CreateFirstPage
  <2>1. form.company \in Companies /\ form.fb \in FbPages /\ "none" \in Names
    BY <1>4 DEF CreateFirstPage, Tables, TypeOK, NoForm, Names
  <2> QED
    BY <1>1, <1>3, <1>4, <2>1 DEF CreateFirstPage
<1>5. CASE SaveEdit
  <2>1. form.pk \in Pks /\ form.name \in Names
    BY <1>5 DEF SaveEdit, Tables, TypeOK, NoForm
  <2>2. \/ pages'[pk] = pages[pk]
        \/ pages'[pk].name = form.name /\ pages'[pk].fromAdmin = (form.name # "none")
        \/ pages'[pk].fb = None
    BY <1>a, <1>5, <2>1 DEF SaveEdit, PageRow, Exists
  <2> QED
    BY <1>a, <2>1, <2>2 DEF NameKept, Names
<1>6. ASSUME NEW q \in Pks, TogglePage(q)
      PROVE  NameKept(pages'[pk])
  <2>1. /\ pages'[pk].fb = pages[pk].fb /\ pages'[pk].fromAdmin = pages[pk].fromAdmin
        /\ pages'[pk].name = pages[pk].name
    BY <1>a, <1>6 DEF TogglePage, PageRow
  <2> QED
    BY <1>a, <2>1 DEF NameKept
<1>7. CASE pages'[pk] = NoPage
  BY <1>7 DEF NameKept, NoPage
<1> QED
  BY <1>a, <1>1, <1>2, <1>3, <1>4, <1>5, <1>6, <1>7
  DEF Next, WorkerStep, AdminStep, StartRun, ReadPage, ReadFails, StoreAd, MarkDisappeared, Crash,
      CreateCompany, CreatePage, EditPage, DeletePage, DeleteCompany, Over, vars, tables

\* A name the administrator gave is the one that stays, whatever Facebook's is
\* (create_page, update_page, update_page_name).
THEOREM GivenNamesStay == Spec => []NamesAreKept
<1>1. Init => NamesAreKept
  BY DEF Init, NamesAreKept, NoPage, Exists
<1> QED
  BY <1>1, NamesStep, TablesAlways, PTL DEF Spec

IdStays ==
    \A pk \in Pks : AdsOn(pk) # {} \/ (Exists(pk) /\ AdsOn(pk)' # {})
                    => pages'[pk].fb = pages[pk].fb

\* The writers of IDs: they write no ads, and hold to Gentle but for the Page's form.
LEMMA IdStep == Tables /\ [Next]_vars => IdStays
<1> SUFFICES ASSUME Tables, [Next]_vars, NEW pk \in Pks,
                    AdsOn(pk) # {} \/ (Exists(pk) /\ AdsOn(pk)' # {})
             PROVE  pages'[pk].fb = pages[pk].fb
  BY DEF IdStays
<1>a. pages[pk].fb # None
  BY AdTypes, PkIsNoNone DEF Tables, Homed, AdsOn, Exists
<1>1. CASE pages' = pages
  BY <1>1
<1>2. CASE ads' = ads /\ Gentle
  <2>1. \E ad \in Ads : ads[ad].page = pk
    BY <1>2 DEF AdsOn
  <2> QED
    BY <1>a, <1>2, <2>1 DEF Gentle
<1>3. CASE UpdatePageName
  BY <1>3, AdTypes DEF UpdatePageName, Tables, TypeOK, PageRow
<1>4. ASSUME NEW c \in Companies, NEW fb \in FbPages, NEW name \in Names, CreatePage(c, fb, name)
      PROVE  pages'[pk].fb = pages[pk].fb
  BY <1>2, <1>4, PutPageGentle DEF CreatePage
<1>5. CASE CreateFirstPage
  <2>1. form.company \in Companies /\ form.fb \in FbPages /\ "none" \in Names
    BY <1>5 DEF CreateFirstPage, Tables, TypeOK, NoForm, Names
  <2> QED
    BY <1>1, <1>2, <1>5, <2>1, PutPageGentle DEF CreateFirstPage
<1>6. CASE SaveEdit
  <2>1. form.kind = "edit" /\ form.pk \in Pks /\ ads' = ads
    BY <1>6 DEF SaveEdit, Tables, TypeOK, NoForm
  <2>2. form.pk = pk => form.fb = pages[pk].fb
    BY <2>1 DEF Tables, EditHeld, AdsOn
  <2> QED
    BY <1>6, <2>1, <2>2 DEF SaveEdit, Tables, TypeOK, PageRow
<1>7. ASSUME NEW q \in Pks, TogglePage(q)
      PROVE  pages'[pk].fb = pages[pk].fb
  BY <1>7, AdTypes DEF TogglePage, Tables, TypeOK, PageRow
<1>8. ASSUME NEW q \in Pks, DeletePage(q)
      PROVE  pages'[pk].fb = pages[pk].fb
  BY <1>8 DEF DeletePage, AdsOn, Tables, TypeOK
<1>9. ASSUME NEW c \in Companies, DeleteCompany(c)
      PROVE  pages'[pk].fb = pages[pk].fb
  BY <1>9 DEF DeleteCompany, AdsOn, Tables, TypeOK
<1> QED
  BY <1>1, <1>3, <1>4, <1>5, <1>6, <1>7, <1>8, <1>9
  DEF Next, WorkerStep, AdminStep, StartRun, ReadPage, ReadFails, StoreAd, MarkDisappeared, Crash,
      CreateCompany, EditPage, Over, vars, tables

\* The ID of a Page never changes under its ads, although it is checked in one statement
\* and written in another while the worker stores (update_page).
THEOREM IdsStayUnderAds == Spec => IdOfAPageWithAdsStays
BY IdStep, TablesAlways, PTL DEF Spec, IdOfAPageWithAdsStays, IdStays

---------------------------------------------------------------------------
(* Ads and the Facebook Page they were read from. *)

\* A Page as it was listed, against its row now: the same ID, or no row.
Held(page) ==
    /\ page.pk < nextPk
    /\ page.fb # None
    /\ pages[page.pk].fb # None => pages[page.pk].fb = page.fb

ListHeld ==
    /\ \A page \in worker.list : Held(page)
    /\ worker.page.fb # None => Held(worker.page)

\* Every statement but the update of a Page is gentle to the IDs.
LEMMA GentleOrEdit == Tables /\ [Next]_vars => Gentle \/ SaveEdit
<1> SUFFICES ASSUME Tables, [Next]_vars PROVE Gentle \/ SaveEdit
  OBVIOUS
<1>1. ASSUME nextPk' = nextPk, \A pk \in Pks : pages'[pk].fb = pages[pk].fb
      PROVE  Gentle
  BY <1>1, SameRows
<1>2. CASE pages' = pages /\ nextPk' = nextPk
  BY <1>1, <1>2
<1>3. CASE UpdatePageName
  BY <1>1, <1>3, AdTypes DEF UpdatePageName, Tables, TypeOK, PageRow
<1>4. ASSUME NEW c \in Companies, NEW fb \in FbPages, NEW name \in Names, CreatePage(c, fb, name)
      PROVE  Gentle
  BY <1>4, PutPageGentle DEF CreatePage
<1>5. CASE CreateFirstPage
  <2>1. form.company \in Companies /\ form.fb \in FbPages /\ "none" \in Names
    BY <1>5 DEF CreateFirstPage, Tables, TypeOK, NoForm, Names
  <2> QED
    BY <1>2, <1>5, <2>1, PutPageGentle DEF CreateFirstPage
<1>6. ASSUME NEW pk \in Pks, TogglePage(pk)
      PROVE  Gentle
  <2>1. \A q \in Pks : pages'[q].fb = pages[q].fb
    BY <1>6, AdTypes DEF TogglePage, Tables, TypeOK, PageRow
  <2> QED
    BY <1>1, <1>6, <2>1 DEF TogglePage
<1>7. ASSUME NEW pk \in Pks, DeletePage(pk)
      PROVE  Gentle
  <2>1. /\ ~Locked(pk) /\ AdsOn(pk) = {} /\ nextPk' = nextPk
        /\ pages' = [q \in Pks |-> IF q \in {pk} THEN NoPage ELSE pages[q]]
    BY <1>7 DEF DeletePage, Tables, TypeOK
  <2> QED
    BY <2>1, DeleteGentle
<1>8. ASSUME NEW c \in Companies, DeleteCompany(c)
      PROVE  Gentle
  <2> DEFINE its == {pk \in Pks : Exists(pk) /\ pages[pk].company = c}
  <2>1. /\ \A pk \in its : ~Locked(pk) /\ AdsOn(pk) = {}
        /\ pages' = [pk \in Pks |-> IF pk \in its THEN NoPage ELSE pages[pk]]
        /\ nextPk' = nextPk
    BY <1>8 DEF DeleteCompany
  <2>2. its \in SUBSET Pks
    OBVIOUS
  <2> HIDE DEF its
  <2> QED
    BY <2>1, <2>2, DeleteGentle
<1> QED
  BY <1>2, <1>3, <1>4, <1>5, <1>6, <1>7, <1>8
  DEF Next, WorkerStep, AdminStep, StartRun, ReadPage, ReadFails, StoreAd, MarkDisappeared, Crash,
      CreateCompany, EditPage, Over, vars, tables

\* A listed Page stays held: its ID is edited only when it is on no list.
LEMMA HeldStays ==
    ASSUME Tables, ~EditsListed, [Next]_vars, NEW page \in ListedPage, Held(page), Listed(page.pk)
    PROVE  /\ page.pk < nextPk'
           /\ page.fb # None
           /\ pages'[page.pk].fb # None => pages'[page.pk].fb = page.fb
<1> DEFINE pk == page.pk
<1>1. /\ pk \in Pks /\ pk \in Nat /\ nextPk \in Nat /\ nextPk' \in Nat /\ pk < nextPk
      /\ page.fb # None
      /\ pages[pk].fb # None => pages[pk].fb = page.fb
  BY TypeStep, PkIsNoNone DEF Tables, TypeOK, ListedPage, Held
<1>2. Listed(pk)
  OBVIOUS
<1> HIDE DEF pk
<1>3. CASE Gentle
  BY <1>1, <1>3 DEF Gentle, pk
<1>4. CASE SaveEdit
  <2>1. form.pk \in Pks /\ nextPk' = nextPk
    BY <1>4 DEF SaveEdit, Tables, TypeOK, NoForm
  <2>2. form.pk = pk => form.fb = pages[pk].fb
    BY <1>2, <1>4 DEF SaveEdit
  <2>3. pages'[pk].fb = pages[pk].fb
    BY <1>1, <1>4, <2>1, <2>2 DEF SaveEdit, Tables, TypeOK, PageRow
  <2> QED
    BY <1>1, <2>1, <2>3 DEF pk
<1> QED
  BY <1>3, <1>4, GentleOrEdit

\* Whatever becomes of the worker, what it lists is what it listed, or a list made now.
LEMMA WorkerLists ==
    ASSUME Tables, [Next]_vars
    PROVE  \/ StartRun
           \/ /\ worker'.list \subseteq worker.list
              /\ worker'.page \in worker.list \cup {worker.page, Nothing}
<1>1. worker \in WorkerType
  BY DEF Tables, TypeOK, WorkerType
<1> QED
  BY <1>1 DEF Next, WorkerStep, AdminStep, ReadPage, ReadFails, StoreAd, MarkDisappeared, UpdatePageName,
       Crash, CreateCompany, CreatePage, CreateFirstPage, EditPage, SaveEdit, TogglePage,
       DeletePage, DeleteCompany, Over, vars, tables, WorkerType

\* Every step keeps the Pages the worker listed held, if a listed Page cannot be edited.
LEMMA ListHeldStep == Tables /\ ~EditsListed /\ ListHeld /\ [Next]_vars => ListHeld'
<1> SUFFICES ASSUME Tables, ~EditsListed, ListHeld, [Next]_vars PROVE ListHeld'
  OBVIOUS
<1>1. ASSUME NEW page \in worker.list \cup {worker.page}, page.fb # None
      PROVE  Held(page)'
  <2>1. page \in ListedPage
    BY <1>1, PageRead DEF Tables, TypeOK
  <2>2. Held(page) /\ Listed(page.pk)
    BY <1>1 DEF ListHeld, Listed
  <2> QED
    BY <2>1, <2>2, HeldStays DEF Held
<1>2. CASE StartRun
  <2>1. /\ pages' = pages /\ nextPk' = nextPk /\ worker'.page = worker.page
        /\ worker'.list = {[pk |-> pk, fb |-> pages[pk].fb, company |-> pages[pk].company] :
                              pk \in {q \in Pks : Exists(q) /\ pages[q].tracked}}
    BY <1>2 DEF StartRun, tables, Tables, TypeOK
  <2>2. ASSUME NEW page \in worker'.list
        PROVE  Held(page)'
    <3>1. PICK pk \in Pks : /\ pages[pk].fb # None
                            /\ page = [pk |-> pk, fb |-> pages[pk].fb, company |-> pages[pk].company]
      BY <2>1, <2>2 DEF Exists
    <3> QED
      BY <2>1, <3>1 DEF Held, Tables, Rows
  <2> QED
    BY <1>1, <2>1, <2>2 DEF ListHeld
<1>3. CASE /\ worker'.list \subseteq worker.list
           /\ worker'.page \in worker.list \cup {worker.page, Nothing}
  <2>1. \A page \in worker'.list : page.fb # None
    BY <1>3 DEF ListHeld, Held
  <2>2. Nothing.fb = None
    BY DEF Nothing
  <2> QED
    BY <1>1, <1>3, <2>1, <2>2 DEF ListHeld
<1> QED
  BY <1>2, <1>3, WorkerLists

\* ... and then every ad on its own Page.
LEMMA OwnPageStep ==
    Tables /\ ListHeld /\ AdsOnTheirOwnPage /\ [Next]_vars => AdsOnTheirOwnPage'
<1> SUFFICES ASSUME Tables, ListHeld, AdsOnTheirOwnPage, [Next]_vars,
                    NEW ad \in Ads, ads'[ad].page # None
             PROVE  pages'[ads'[ad].page].fb = PageOf[ad]
  BY DEF AdsOnTheirOwnPage, Known
<1>1. CASE ads'[ad].page = ads[ad].page
  <2>1. ads[ad].page \in Pks /\ pages[ads[ad].page].fb = PageOf[ad]
    BY <1>1, AdTypes DEF Tables, AdsOnTheirOwnPage, Known
  <2>2. ad \in AdsOn(ads[ad].page)
    BY DEF AdsOn
  <2> QED
    BY <1>1, <2>1, <2>2, IdStep DEF IdStays
<1>2. ASSUME NEW rec \in Records, StoreAd(ad, rec)
      PROVE  pages'[ads'[ad].page].fb = PageOf[ad]
  <2>1. /\ ads'[ad].page = worker.page.pk /\ PageOf[ad] = worker.page.fb /\ pages' = pages
        /\ worker.page.pk \in Pks /\ worker.page.fb # None
    BY <1>2, StoreAdEffect, NoneIsNoPage DEF Tables, StoreAd, ListedPage
  <2>2. ads[ad].page = worker.page.pk \/ pages[worker.page.pk].fb # None
    BY <1>2 DEF StoreAd, MayRefer, Refers, Exists
  <2>3. pages[worker.page.pk].fb = worker.page.fb
    BY <2>1, <2>2, PkIsNoNone DEF ListHeld, Held, AdsOnTheirOwnPage, Known
  <2> QED
    BY <2>1, <2>3
<1>3. ASSUME NEW other \in Ads, NEW rec \in Records, StoreAd(other, rec), other # ad
      PROVE  ads'[ad].page = ads[ad].page
  BY <1>3, StoreAdEffect DEF Tables
<1>4. CASE MarkDisappeared
  BY <1>1, <1>4, MarkEffect DEF Tables
<1> QED
  BY <1>1, <1>2, <1>3, <1>4, AdsWritten

\* Every ad is on its own Page in every such behaviour.
LEMMA OwnPages ==
    ASSUME ~EditsListed
    PROVE  Spec => [](ListHeld /\ AdsOnTheirOwnPage)
<1>1. Init => ListHeld /\ AdsOnTheirOwnPage
  BY DEF Init, ListHeld, Nothing, AdsOnTheirOwnPage, Known, NoAd
<1>2. Tables /\ ListHeld /\ AdsOnTheirOwnPage /\ [Next]_vars => (ListHeld /\ AdsOnTheirOwnPage)'
  BY ListHeldStep, OwnPageStep
<1> QED
  BY <1>1, <1>2, TablesAlways, PTL DEF Spec

\* Unless the ID of a Page is edited while a run has it on its list, every ad is on the row
\* of the Facebook Page it was read from, over deletions, moves and Pages added again
\* (upsert_ad, update_page).
THEOREM AdsStayOnTheirOwnPage ==
    ASSUME ~EditsListed
    PROVE  Spec => []AdsOnTheirOwnPage
BY OwnPages, PTL

---------------------------------------------------------------------------
(* The history of ads. *)

\* What the worker has read and has still to read: an ad unknown to the library has no
\* start and no run; the Pages on the list are distinct, none of them is the one being
\* read, and none of their ads has been seen by this run.
Unread ==
    /\ \A ad \in Ads : ads[ad].run <= worker.run
    /\ \A ad \in Ads : ads[ad].page = None => ~ads[ad].start
    /\ worker.at = "idle" => worker.page = Nothing
    /\ worker.at = "reading" => worker.page.fb # None
    /\ \A page \in worker.list :
          /\ page.fb # worker.page.fb
          /\ \A ad \in Ads : PageOf[ad] = page.fb => ads[ad].run # worker.run
    /\ \A p, q \in worker.list : p.fb = q.fb => p = q

\* Administrators leave what Unread is about alone, and so does whatever breaks off.
LEMMA UnreadKept ==
    ASSUME Unread, worker'.run = worker.run, worker'.list \subseteq worker.list,
           \A ad \in Ads : /\ ads'[ad].run = ads[ad].run /\ ads'[ad].page = ads[ad].page
                            /\ ads'[ad].start = ads[ad].start,
           worker'.at = "idle" => worker'.page = Nothing,
           worker'.at = "reading" => worker'.page.fb # None,
           worker'.page = worker.page \/ worker'.page = Nothing,
           \A page \in worker'.list : page.fb # None
    PROVE  Unread'
BY DEF Unread, Nothing

\* Every step keeps what is still to be read unread.
LEMMA UnreadStep == Tables /\ ListHeld /\ Unread /\ [Next]_vars => Unread'
<1> SUFFICES ASSUME Tables, ListHeld, Unread, [Next]_vars PROVE Unread'
  OBVIOUS
<1>a. /\ worker \in WorkerType /\ ads \in [Ads -> AdRow]
      /\ \A page \in worker.list : page.fb # None
  BY DEF Tables, TypeOK, WorkerType, ListHeld, Held
<1>1. CASE worker' = worker /\ ads' = ads
  BY <1>a, <1>1 DEF Unread
<1>2. CASE StartRun
  <2> DEFINE list == {[pk |-> pk, fb |-> pages[pk].fb, company |-> pages[pk].company] :
                        pk \in {q \in Pks : Exists(q) /\ pages[q].tracked}}
  <2>1. /\ ads' = ads /\ worker'.run = worker.run + 1 /\ worker'.list = list
        /\ worker'.page = worker.page /\ worker'.at = worker.at /\ worker.page = Nothing
    BY <1>a, <1>2 DEF StartRun, tables, WorkerType, Unread
  <2>2. \A page \in list : \E pk \in Pks :
           /\ pages[pk].fb # None
           /\ page = [pk |-> pk, fb |-> pages[pk].fb, company |-> pages[pk].company]
    BY DEF Exists
  <2>3. \A p, q \in list : p.fb = q.fb => p = q
    <3> SUFFICES ASSUME NEW p \in list, NEW q \in list, p.fb = q.fb
                 PROVE  p = q
      OBVIOUS
    <3>1. PICK pk \in Pks :
             /\ pages[pk].fb # None
             /\ p = [pk |-> pk, fb |-> pages[pk].fb, company |-> pages[pk].company]
      BY <2>2
    <3>2. PICK qk \in Pks :
             /\ pages[qk].fb # None
             /\ q = [pk |-> qk, fb |-> pages[qk].fb, company |-> pages[qk].company]
      BY <2>2
    <3>3. pk = qk
      BY <3>1, <3>2 DEF Tables, Rows
    <3> QED
      BY <3>1, <3>2, <3>3
  <2>4. \A page \in list : page.fb # None
    BY <2>2
  <2>5. worker.run \in Nat /\ \A ad \in Ads : ads[ad].run \in Nat /\ ads[ad].run <= worker.run
    BY <1>a DEF WorkerType, AdRow, Unread
  <2> HIDE DEF list
  <2> QED
    BY <1>2, <2>1, <2>3, <2>4, <2>5 DEF Unread, Nothing, StartRun
<1>3. CASE ReadPage
  <2>1. PICK page \in worker.list :
          worker' = [worker EXCEPT !.at = "reading", !.page = page, !.list = @ \ {page}]
    BY <1>3 DEF ReadPage
  <2>2. /\ worker'.at = "reading" /\ worker'.page = page /\ worker'.list = worker.list \ {page}
        /\ worker'.run = worker.run /\ ads' = ads
    BY <1>a, <1>3, <2>1 DEF ReadPage, tables, WorkerType
  <2> QED
    BY <1>a, <2>2 DEF Unread
<1>4. ASSUME NEW ad \in Ads, NEW rec \in Records, StoreAd(ad, rec)
      PROVE  Unread'
  <2>1. /\ PageOf[ad] = worker.page.fb
        /\ \A other \in Ads \ {ad} : ads'[other] = ads[other]
        /\ ads'[ad].page = worker.page.pk /\ ads'[ad].run = worker.run /\ worker.page.pk # None
    BY <1>4, StoreAdEffect, PkIsNoNone DEF Tables, ListedPage
  <2>2. /\ worker'.run = worker.run /\ worker'.list = worker.list
        /\ worker'.at = worker.at /\ worker'.page = worker.page
    BY <1>a, <1>4 DEF StoreAd, WorkerType
  <2>3. worker.run \in Nat
    BY <1>a DEF WorkerType
  <2>4. /\ \A other \in Ads : ads'[other].run <= worker'.run
        /\ \A other \in Ads : ads'[other].page = None => ~ads'[other].start
    BY <2>1, <2>2, <2>3 DEF Unread
  <2>5. \A page \in worker'.list :
          /\ page.fb # worker'.page.fb
          /\ \A other \in Ads : PageOf[other] = page.fb => ads'[other].run # worker'.run
    BY <2>1, <2>2 DEF Unread
  <2> QED
    BY <2>2, <2>4, <2>5 DEF Unread
<1>5. ASSUME worker'.run = worker.run, worker'.list \subseteq worker.list,
             worker'.at \in {"idle", "naming"},
             worker'.page = Nothing \/ (worker'.at = "naming" /\ worker'.page = worker.page),
             \A ad \in Ads : /\ ads'[ad].run = ads[ad].run /\ ads'[ad].page = ads[ad].page
                              /\ ads'[ad].start = ads[ad].start
      PROVE  Unread'
  BY <1>a, <1>5, UnreadKept
<1>6. CASE MarkDisappeared
  <2>1. /\ worker'.run = worker.run /\ worker'.list = worker.list
        /\ worker'.at \in {"idle", "naming"}
        /\ worker'.page = Nothing \/ (worker'.at = "naming" /\ worker'.page = worker.page)
    BY <1>a, <1>6 DEF MarkDisappeared, WorkerType
  <2> QED
    BY <1>5, <1>6, <2>1, MarkEffect DEF Tables
<1>7. CASE ReadFails \/ UpdatePageName \/ Crash
  <2>1. /\ worker'.run = worker.run /\ worker'.list \subseteq worker.list
        /\ worker'.at = "idle" /\ worker'.page = Nothing /\ ads' = ads
    BY <1>a, <1>7 DEF ReadFails, UpdatePageName, Crash, WorkerType, tables
  <2> QED
    BY <1>5, <2>1
<1> QED
  BY <1>1, <1>2, <1>3, <1>4, <1>6, <1>7
  DEF Next, WorkerStep, AdminStep, CreateCompany, CreatePage, CreateFirstPage, EditPage, SaveEdit,
      TogglePage, DeletePage, DeleteCompany, Over, vars, tables

ReadInv == Tables /\ ListHeld /\ AdsOnTheirOwnPage /\ Unread

Statuses == [ad \in Ads |-> StatusOf(ad)]

\* Nothing is read, before and after.
LEMMA NotReading ==
    ASSUME Reading = None, Reading' = None
    PROVE  Seen = {} /\ Seen' = {}
BY NoneIsNoPage DEF Seen

\* Ads as they were.
LEMMA SameAds ==
    ASSUME ads' = ads
    PROVE  Statuses' = Statuses /\ Dated' = Dated
BY DEF Statuses, StatusOf, Known, Dated

\* A Page taken from the list has shown nothing yet in this run.
LEMMA ReadPageBegins ==
    ASSUME ReadInv, ReadPage
    PROVE  \E p \in FbPages : History!Begin(p)
<1>1. PICK page \in worker.list :
        worker' = [worker EXCEPT !.at = "reading", !.page = page, !.list = @ \ {page}]
  BY DEF ReadPage
<1>2. /\ worker'.at = "reading" /\ worker'.page = page /\ worker'.run = worker.run
      /\ ads' = ads /\ worker.at = "idle" /\ page \in ListedPage /\ page.fb # None
  BY <1>1 DEF ReadInv, ReadPage, tables, Tables, TypeOK, ListHeld, Held
<1>3. Reading = None /\ Reading' = page.fb /\ page.fb \in FbPages
  BY <1>2 DEF Reading, ListedPage
<1>4. Seen' = {}
  BY <1>2, <1>3 DEF Seen, ReadInv, Unread
<1> QED
  BY <1>2, <1>3, <1>4, SameAds DEF History!Begin, Statuses

\* An ad that is stored is one the reading shows.
LEMMA StoreAdSees ==
    ASSUME ReadInv, NEW ad \in Ads, NEW rec \in Records, StoreAd(ad, rec)
    PROVE  History!See(ad)
<1>1. /\ PageOf[ad] = worker.page.fb
      /\ \A other \in Ads \ {ad} : ads'[other] = ads[other]
      /\ ads'[ad].page = worker.page.pk /\ ads'[ad].run = worker.run /\ worker.page.pk # None
      /\ ads'[ad].active \in {"yes", "no", "none"}
      /\ ads[ad].page # None /\ ads[ad].start => ads'[ad].start
      /\ ads'[ad].start \in BOOLEAN
  BY StoreAdEffect, PkIsNoNone DEF ReadInv, Tables, ListedPage
<1>2. /\ worker.at = "reading" /\ worker'.at = worker.at /\ worker'.page = worker.page
      /\ worker'.run = worker.run
  BY DEF StoreAd, ReadInv, Tables, TypeOK
<1>3. Reading = PageOf[ad] /\ Reading' = Reading
  BY <1>1, <1>2 DEF Reading
<1>4. /\ StatusOf(ad)' \in {"active", "ended", "unsaid"}
      /\ \A other \in Ads \ {ad} : StatusOf(other)' = StatusOf(other)
  BY <1>1 DEF StatusOf, Known
<1>5. Statuses' = [Statuses EXCEPT ![ad] = StatusOf(ad)']
  BY <1>4 DEF Statuses
<1>6. Dated' \in {Dated, Dated \cup {ad}}
  <2>1. ads[ad].start => ads'[ad].start
    BY <1>1 DEF ReadInv, Unread
  <2>2. CASE ads'[ad].start
    <3>1. Dated' = Dated \cup {ad}
      BY <1>1, <2>2 DEF Dated
    <3> QED
      BY <3>1
  <2>3. CASE ~ads'[ad].start
    <3>1. Dated' = Dated
      BY <1>1, <2>1, <2>3 DEF Dated
    <3> QED
      BY <3>1
  <2> QED
    BY <2>2, <2>3
<1>7. Seen' = Seen \cup {ad}
  BY <1>1, <1>2, <1>3 DEF Seen
<1> QED
  BY <1>3, <1>4, <1>5, <1>6, <1>7 DEF History!See, Statuses

\* A reading is broken off: no ad is written.
LEMMA BrokenOff ==
    ASSUME ads' = ads, Reading' = None
    PROVE  [History!Next]_(History!vars)
<1>1. Statuses' = Statuses /\ Dated' = Dated
  BY SameAds
<1>2. Seen' = {}
  BY NoneIsNoPage DEF Seen
<1>3. CASE Reading = None
  BY <1>1, <1>3, NotReading DEF History!vars, Statuses
<1>4. CASE Reading # None
  BY <1>1, <1>2, <1>4 DEF History!Next, History!BreakOff, Statuses
<1> QED
  BY <1>3, <1>4

\* The ads on the row of the Page that is read are those of that Facebook Page.
LEMMA AdsOfThePage ==
    ASSUME ReadInv, worker.at = "reading", pages[worker.page.pk].fb # None,
           NEW ad \in Ads
    PROVE  ads[ad].page = worker.page.pk <=> (Known(ad) /\ PageOf[ad] = worker.page.fb)
<1>1. /\ worker.page.fb # None /\ worker.page.pk \in Pks /\ worker.page.pk # None
      /\ pages[worker.page.pk].fb = worker.page.fb
  BY PageRead, PkIsNoNone DEF ReadInv, Unread, ListHeld, Held, Tables, ListedPage
<1>2. Known(ad) => ads[ad].page \in Pks /\ pages[ads[ad].page].fb = PageOf[ad]
  BY AdTypes DEF ReadInv, Tables, AdsOnTheirOwnPage, Known
<1> QED
  BY <1>1, <1>2 DEF Known, ReadInv, Tables, Rows

\* The search ends: the dated, active ads of its Page that it did not show are taken for
\* gone; of a Page whose row was deleted meanwhile there are none.
LEMMA MarkDisappearedEnds ==
    ASSUME ReadInv, MarkDisappeared
    PROVE  [History!Next]_(History!vars)
<1> DEFINE pk == worker.page.pk
<1>1. /\ worker.at = "reading" /\ worker.page.fb # None /\ pk \in Pks /\ pk # None
      /\ Reading = worker.page.fb
  BY PageRead, PkIsNoNone DEF MarkDisappeared, ReadInv, Unread, Tables, ListedPage, Reading
<1>2. Reading' = None /\ Seen' = {}
  <2>1. worker'.at \in {"idle", "naming"}
    BY DEF MarkDisappeared, ReadInv, Tables, TypeOK
  <2>2. Reading' = None
    BY <2>1 DEF Reading
  <2> QED
    BY <2>2, NoneIsNoPage DEF Seen
<1>3. ads' = [ad \in Ads |->
         IF /\ ads[ad].page = pk /\ ads[ad].active = "yes"
            /\ ads[ad].run # worker.run /\ ads[ad].start
         THEN [ads[ad] EXCEPT !.active = "no", !.stop = TRUE] ELSE ads[ad]]
  BY DEF MarkDisappeared
<1> HIDE DEF pk
<1>4. CASE pages[pk].fb = None
  <2>1. \A ad \in Ads : ads[ad].page # pk
    BY <1>1, <1>4 DEF ReadInv, Tables, Homed
  <2>2. ads' = ads
    BY <1>3, <2>1 DEF ReadInv, Tables, TypeOK
  <2> QED
    BY <1>2, <2>2, BrokenOff
<1>5. CASE pages[pk].fb # None
  <2>1. Dated' = Dated
    BY MarkEffect DEF ReadInv, Tables, Dated
  <2>2. ASSUME NEW ad \in Ads
        PROVE  StatusOf(ad)' = IF History!Gone(ad) THEN "ended" ELSE StatusOf(ad)
    <3>1. ads[ad] \in AdRow /\ ads'[ad].page = ads[ad].page
      BY AdTypes, MarkEffect DEF ReadInv, Tables
    <3>2. ads[ad].page = pk <=> (Known(ad) /\ PageOf[ad] = Reading)
      BY <1>1, <1>5, AdsOfThePage DEF pk
    <3>3. History!Gone(ad) <=> /\ PageOf[ad] = Reading /\ StatusOf(ad) = "active"
                              /\ ad \notin Seen /\ ad \in Dated
      BY DEF History!Gone
    <3>4. History!Gone(ad) <=> /\ ads[ad].page = pk /\ ads[ad].active = "yes"
                              /\ ads[ad].run # worker.run /\ ads[ad].start
      BY <3>2, <3>3 DEF StatusOf, Seen, Dated
    <3>5. ads'[ad] = IF History!Gone(ad) THEN [ads[ad] EXCEPT !.active = "no", !.stop = TRUE]
                     ELSE ads[ad]
      BY <1>3, <3>4
    <3>6. CASE History!Gone(ad)
      <4>1. Known(ad) /\ ads'[ad].active = "no"
        BY <3>1, <3>2, <3>4, <3>5, <3>6 DEF AdRow
      <4> QED
        BY <3>1, <3>6, <4>1 DEF StatusOf, Known
    <3>7. CASE ~History!Gone(ad)
      BY <3>5, <3>7 DEF StatusOf, Known
    <3> QED
      BY <3>6, <3>7
  <2> QED
    BY <1>1, <1>2, <2>1, <2>2 DEF History!Next, History!ReadToTheEnd
<1> QED
  BY <1>4, <1>5

\* Every step is one of the history, or a stutter.
LEMMA HistoryStep == ReadInv /\ [Next]_vars => [History!Next]_(History!vars)
<1> SUFFICES ASSUME ReadInv, [Next]_vars PROVE [History!Next]_(History!vars)
  OBVIOUS
<1>1. CASE ads' = ads /\ worker' = worker
  <2>1. Reading' = Reading /\ Seen' = Seen
    BY <1>1 DEF Reading, Seen
  <2> QED
    BY <1>1, <2>1, SameAds DEF History!vars, Statuses
<1>2. CASE StartRun \/ ReadFails \/ UpdatePageName \/ Crash
  <2>1. ads' = ads /\ worker'.at = "idle"
    BY <1>2 DEF StartRun, ReadFails, UpdatePageName, Crash, tables, ReadInv, Tables, TypeOK
  <2>2. Reading' = None
    BY <2>1 DEF Reading
  <2> QED
    BY <2>1, <2>2, BrokenOff
<1>3. CASE ReadPage
  BY <1>3, ReadPageBegins DEF History!Next
<1>4. ASSUME NEW ad \in Ads, NEW rec \in Records, StoreAd(ad, rec)
      PROVE  [History!Next]_(History!vars)
  BY <1>4, StoreAdSees DEF History!Next
<1>5. CASE MarkDisappeared
  BY <1>5, MarkDisappearedEnds
<1> QED
  BY <1>1, <1>2, <1>3, <1>4, <1>5
  DEF Next, WorkerStep, AdminStep, CreateCompany, CreatePage, CreateFirstPage, EditPage, SaveEdit,
      TogglePage, DeletePage, DeleteCompany, Over, vars, tables

\* AdStore implements AdHistory: whatever the administrator does to Pages and companies, an
\* ad's status changes only when its Facebook Page is read, and an ad is taken for gone
\* only by a reading that got to the end and did not show it (upsert_ad,
\* mark_disappeared_ads); as long as no ID is edited while a run has it on its list.
THEOREM HistoryImplemented ==
    ASSUME ~EditsListed
    PROVE  Spec => HistorySpec
<1>1. Init => History!Init
  <2> SUFFICES ASSUME Init PROVE History!Init
    OBVIOUS
  <2>1. /\ \A ad \in Ads : ads[ad].page = None /\ ~ads[ad].start
        /\ worker.at = "idle"
    BY DEF Init, NoAd
  <2>2. Dated = {} /\ Reading = None
    BY <2>1 DEF Dated, Reading
  <2>3. Seen = {}
    BY <2>2, NoneIsNoPage DEF Seen
  <2> QED
    BY <2>1, <2>2, <2>3 DEF History!Init, StatusOf, Known
<1>2. Init => Unread
  BY DEF Init, Unread, NoAd, Nothing
<1>3. Tables /\ ListHeld /\ Unread /\ [Next]_vars => Unread'
  BY UnreadStep
<1>4. Tables /\ ListHeld /\ AdsOnTheirOwnPage /\ Unread /\ [Next]_vars
        => [History!Next]_(History!vars)
  BY HistoryStep DEF ReadInv
<1> QED
  BY <1>1, <1>2, <1>3, <1>4, TablesAlways, OwnPages, PTL DEF Spec, HistorySpec, History!Spec
=============================================================================
