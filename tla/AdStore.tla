------------------------------ MODULE AdStore ------------------------------
(***************************************************************************)
(* The library of ads, and the companies and Pages it is kept for: the     *)
(* worker reads one tracked Page after the other (the Self-hosted source,  *)
(* collector.py) and stores what it shows (persist.py, normalize.py),      *)
(* while the administrator adds, moves, renames, pauses and deletes Pages  *)
(* and companies (db/admin.py and its forms, routes/admin.py).             *)
(*                                                                         *)
(* A step is one transaction.  The worker keeps the Pages it listed at the *)
(* start of the run; only the two forms of more than one statement (a      *)
(* company with its first Page, the edit of a Page) have a state.          *)
(***************************************************************************)
EXTENDS Integers, FiniteSets

CONSTANTS
    Companies,    \* ids of companies, ever
    FbPages,      \* Facebook Pages
    Ads,          \* ads on Meta
    PageOf,       \* the Facebook Page of each
    Records,      \* what Meta's record of an ad may say of its run
    EditsListed,  \* may the ID of a Page be edited while a run has it on its list?
    MaxPages,     \* bound: rows of pages, ever
    MaxRuns,      \* bound: collection runs
    MaxEdits,     \* bound: what the administrator does
    MaxFaults     \* bound: reads that fail, workers that die

None == 0

ASSUME AdStoreAssumption ==
    /\ PageOf \in [Ads -> FbPages]
    /\ None \notin FbPages /\ None \notin Companies
    /\ Records \subseteq [flag: {"yes", "no", "none"}, status: {"ACTIVE", "other", "none"},
                          start: BOOLEAN, stop: BOOLEAN]
    /\ EditsListed \in BOOLEAN
    /\ MaxPages \in Nat /\ MaxRuns \in Nat /\ MaxEdits \in Nat /\ MaxFaults \in Nat

VARIABLES
    companies,  \* "none" yet, "row" or "deleted"
    pages,      \* rows of pages by primary key; fb = None where there is none
    nextPk,     \* the next primary key: they are not used twice
    ads,        \* rows of ads; page = None where there is none
    worker,     \* the collector: the run, the Pages still on its list, the one it reads
    form,       \* a form of the administrator under way
    edits,      \* so far (bound)
    faults      \* so far (bound)

tables == <<companies, pages, nextPk, ads>>
vars == <<tables, worker, form, edits, faults>>

Pks == 1..MaxPages
NoPage == [fb |-> None, company |-> None, tracked |-> FALSE, name |-> "none", fromAdmin |-> FALSE]
NoAd == [page |-> None, company |-> None, active |-> "none", start |-> FALSE, stop |-> FALSE,
         run |-> 0]
NoForm == [kind |-> "none"]
Nothing == [pk |-> None, fb |-> None, company |-> None]

Exists(pk) == pages[pk].fb # None
Known(ad) == ads[ad].page # None
AdsOn(pk) == {ad \in Ads : ads[ad].page = pk}

\* Mutation: the row is not locked, so what was checked may have changed.
MutLocked(pk) == FALSE

\* update_page holds the row from its check to its commit: whoever needs it waits.
Locked(pk) == form.kind = "edit" /\ form.pk = pk

Edit ==
    /\ edits < MaxEdits
    /\ edits' = edits + 1

Fault ==
    /\ faults < MaxFaults
    /\ faults' = faults + 1

Init ==
    /\ companies = [c \in Companies |-> "none"]
    /\ pages = [pk \in Pks |-> NoPage]
    /\ nextPk = 1
    /\ ads = [ad \in Ads |-> NoAd]
    /\ worker = [at |-> "idle", run |-> 0, list |-> {}, page |-> Nothing, named |-> FALSE]
    /\ form = NoForm
    /\ edits = 0
    /\ faults = 0

---------------------------------------------------------------------------
(* What is stored of a record. *)

\* from_meta_record: without a flag the status tells; the end date of an active ad is
\* the day it was read, not an end.
FromMetaRecord(rec) ==
    LET active == IF rec.flag = "none" /\ rec.status # "none"
                  THEN IF rec.status = "ACTIVE" THEN "yes" ELSE "no"
                  ELSE rec.flag
    IN  [active |-> active, start |-> rec.start, stop |-> active # "yes" /\ rec.stop]

\* _from_library_model: the collector's own reading of the record, whose is_active is
\* always set.
FromLibraryModel(rec) ==
    [active |-> rec.flag, start |-> rec.start, stop |-> rec.flag # "yes" /\ rec.stop]

\* from_library_ad: the raw record, where there is one with an id.
FromLibraryAd(rec) ==
    {FromMetaRecord(rec)} \cup (IF rec.flag # "none" THEN {FromLibraryModel(rec)} ELSE {})

\* Mutation: an ad that runs again keeps its end.
MutKeepEnd(old, page, run, ad) ==
    [old EXCEPT !.page = page.pk, !.run = run, !.active = ad.active,
                !.start = @ \/ ad.start, !.stop = @ \/ ad.stop]

\* The UPDATE of upsert_ad: what Meta didn't send stays, an ad that runs (again) has no
\* end, and the company is left as it was.
Updated(old, page, run, ad) ==
    [old EXCEPT !.page = page.pk, !.run = run, !.active = ad.active,
                !.start = @ \/ ad.start,
                !.stop = ad.active # "yes" /\ (ad.stop \/ @)]

Inserted(page, run, ad) ==
    [page |-> page.pk, company |-> page.company, active |-> ad.active,
     start |-> ad.start, stop |-> ad.stop, run |-> run]

---------------------------------------------------------------------------
(* The worker. *)

\* list_tracked_pages, once per run.
StartRun ==
    /\ worker.at = "idle" /\ worker.list = {}
    /\ worker.run < MaxRuns
    /\ worker' = [worker EXCEPT
         !.run = @ + 1,
         !.list = {[pk |-> pk, fb |-> pages[pk].fb, company |-> pages[pk].company] :
                      pk \in {q \in Pks : Exists(q) /\ pages[q].tracked}}]
    /\ UNCHANGED <<tables, form, edits, faults>>

\* The next Page, in the order of their ids.
ReadPage ==
    /\ worker.at = "idle"
    /\ \E page \in worker.list :
          /\ \A other \in worker.list : page.pk <= other.pk
          /\ worker' = [worker EXCEPT !.at = "reading", !.page = page,
                                      !.list = @ \ {page}]
    /\ UNCHANGED <<tables, form, edits, faults>>

\* The foreign keys of ads: the Page, and of a new ad the company, must be there; the
\* Page must not be locked where the reference is new.
Refers(ad) == ads[ad].page # worker.page.pk
MayRefer(ad) ==
    /\ Refers(ad) => Exists(worker.page.pk)
    /\ ~Known(ad) => companies[worker.page.company] = "row"

\* store: upsert_ad, in one transaction; the search shows the ads of the Page it was
\* asked for.
StoreAd(ad, rec) ==
    /\ worker.at = "reading" /\ PageOf[ad] = worker.page.fb
    /\ Refers(ad) => ~Locked(worker.page.pk)
    /\ MayRefer(ad)
    /\ \E n \in FromLibraryAd(rec) :
          ads' = [ads EXCEPT ![ad] = IF Known(ad) THEN Updated(@, worker.page, worker.run, n)
                                     ELSE Inserted(worker.page, worker.run, n)]
    /\ worker' = [worker EXCEPT !.named = TRUE]
    /\ UNCHANGED <<companies, pages, nextPk, form, edits, faults>>

\* fail: the search raises or a statement fails, which a deleted Page or company makes
\* it; the Page was read in part and nothing is marked.
ReadFails ==
    /\ worker.at = "reading"
    /\ \/ Fault
       \/ \E ad \in Ads : PageOf[ad] = worker.page.fb /\ ~MayRefer(ad) /\ UNCHANGED faults
    /\ worker' = [worker EXCEPT !.at = "idle", !.page = Nothing, !.named = FALSE]
    /\ UNCHANGED <<tables, form, edits>>

\* Mutation: the ads of the run before are not told from those of this one.
MutMarkAll ==
    /\ worker.at = "reading"
    /\ ads' = [ad \in Ads |->
         IF /\ ads[ad].page = worker.page.pk /\ ads[ad].active = "yes" /\ ads[ad].start
         THEN [ads[ad] EXCEPT !.active = "no", !.stop = TRUE] ELSE ads[ad]]
    /\ worker' = IF worker.named THEN [worker EXCEPT !.at = "naming"]
                 ELSE [worker EXCEPT !.at = "idle", !.page = Nothing]
    /\ UNCHANGED <<companies, pages, nextPk, form, edits, faults>>

\* The search ends: mark_disappeared_ads, by the Page's primary key.
MarkDisappeared ==
    /\ worker.at = "reading"
    /\ ads' = [ad \in Ads |->
         IF /\ ads[ad].page = worker.page.pk /\ ads[ad].active = "yes"
            /\ ads[ad].run # worker.run /\ ads[ad].start
         THEN [ads[ad] EXCEPT !.active = "no", !.stop = TRUE] ELSE ads[ad]]
    /\ worker' = IF worker.named THEN [worker EXCEPT !.at = "naming"]
                 ELSE [worker EXCEPT !.at = "idle", !.page = Nothing]
    /\ UNCHANGED <<companies, pages, nextPk, form, edits, faults>>

\* Mutation: Meta's name is taken whoever named the Page.
MutUpdatePageName ==
    /\ worker.at = "naming" /\ ~Locked(worker.page.pk)
    /\ LET pk == worker.page.pk
       IN  pages' = [pages EXCEPT ![pk].name = IF Exists(pk) THEN "meta" ELSE @]
    /\ worker' = [worker EXCEPT !.at = "idle", !.page = Nothing, !.named = FALSE]
    /\ UNCHANGED <<companies, nextPk, ads, form, edits, faults>>

\* update_page_name, on a connection of its own: the name from Meta, unless the
\* administrator named the Page.
UpdatePageName ==
    /\ worker.at = "naming" /\ ~Locked(worker.page.pk)
    /\ LET pk == worker.page.pk
       IN  pages' = [pages EXCEPT ![pk].name =
                        IF Exists(pk) /\ ~pages[pk].fromAdmin THEN "meta" ELSE @]
    /\ worker' = [worker EXCEPT !.at = "idle", !.page = Nothing, !.named = FALSE]
    /\ UNCHANGED <<companies, nextPk, ads, form, edits, faults>>

\* The worker dies, or its connection does: the run is over.
Crash ==
    /\ worker.at # "idle"
    /\ Fault
    /\ worker' = [worker EXCEPT !.at = "idle", !.page = Nothing, !.named = FALSE, !.list = {}]
    /\ UNCHANGED <<tables, form, edits>>

---------------------------------------------------------------------------
(* The administrator. *)

Names == {"none", "admin"}

\* create_company; its form goes on with a first Page when an ID was typed.
CreateCompany(c) ==
    /\ Edit /\ form = NoForm
    /\ companies[c] = "none"
    /\ companies' = [companies EXCEPT ![c] = "row"]
    /\ form' \in {NoForm} \cup {[kind |-> "firstPage", company |-> c, fb |-> fb] : fb \in FbPages}
    /\ UNCHANGED <<pages, nextPk, ads, worker, faults>>

\* create_page: a Page ID that is registered moves, with its row; a name given now or
\* before by the administrator is kept.
PutPage(c, fb, name) ==
    IF \E pk \in Pks : pages[pk].fb = fb
    THEN /\ \E pk \in Pks :
              /\ pages[pk].fb = fb /\ ~Locked(pk)
              /\ pages' = [pages EXCEPT ![pk].company = c,
                             ![pk].name = IF name = "none" THEN @ ELSE name,
                             ![pk].fromAdmin = name # "none" \/ @]
         /\ UNCHANGED nextPk
    ELSE /\ nextPk \in Pks
         /\ pages' = [pages EXCEPT ![nextPk] = [fb |-> fb, company |-> c, tracked |-> TRUE,
                                                name |-> name, fromAdmin |-> name # "none"]]
         /\ nextPk' = nextPk + 1

CreatePage(c, fb, name) ==
    /\ Edit
    /\ companies[c] = "row"
    /\ PutPage(c, fb, name)
    /\ UNCHANGED <<companies, ads, worker, form, faults>>

\* The second half of the company's form, for a company that may be gone by now.
CreateFirstPage ==
    /\ form.kind = "firstPage"
    /\ IF companies[form.company] = "row" THEN PutPage(form.company, form.fb, "none")
       ELSE UNCHANGED <<pages, nextPk>>
    /\ form' = NoForm
    /\ UNCHANGED <<companies, ads, worker, edits, faults>>

\* update_page, its check: SELECT ... FOR UPDATE.  The ID of a Page that has ads stays.
EditPage(pk, fb, name) ==
    /\ Edit /\ form = NoForm
    /\ Exists(pk)
    /\ fb # pages[pk].fb => AdsOn(pk) = {}
    /\ form' = [kind |-> "edit", pk |-> pk, fb |-> fb, name |-> name]
    /\ UNCHANGED <<tables, worker, faults>>

Listed(pk) == pk \in {page.pk : page \in worker.list}
              \/ worker.page.pk = pk

\* Its update and commit, or its rollback when another Page has that ID.
SaveEdit ==
    /\ form.kind = "edit"
    /\ LET pk == form.pk
       IN  /\ EditsListed \/ form.fb = pages[pk].fb \/ ~Listed(pk)
           /\ IF \E q \in Pks \ {pk} : pages[q].fb = form.fb
              THEN UNCHANGED pages
              ELSE pages' = [pages EXCEPT ![pk].fb = IF Exists(pk) THEN form.fb ELSE @,
                               ![pk].name = IF Exists(pk) THEN form.name ELSE @,
                               ![pk].fromAdmin = Exists(pk) /\ form.name # "none"]
    /\ form' = NoForm
    /\ UNCHANGED <<companies, nextPk, ads, worker, edits, faults>>

TogglePage(pk) ==
    /\ Edit /\ ~Locked(pk)
    /\ Exists(pk)
    /\ pages' = [pages EXCEPT ![pk].tracked = ~@]
    /\ UNCHANGED <<companies, nextPk, ads, worker, form, faults>>

\* delete_page: refused while ads refer to it.
DeletePage(pk) ==
    /\ Edit /\ ~Locked(pk)
    /\ Exists(pk) /\ AdsOn(pk) = {}
    /\ pages' = [pages EXCEPT ![pk] = NoPage]
    /\ UNCHANGED <<companies, nextPk, ads, worker, form, faults>>

\* delete_company takes its Pages with it: refused while ads refer to it or to them.
DeleteCompany(c) ==
    /\ Edit
    /\ companies[c] = "row"
    /\ LET its == {pk \in Pks : Exists(pk) /\ pages[pk].company = c}
       IN  /\ \A pk \in its : ~Locked(pk) /\ AdsOn(pk) = {}
           /\ pages' = [pk \in Pks |-> IF pk \in its THEN NoPage ELSE pages[pk]]
    /\ \A ad \in Ads : ads[ad].company # c
    /\ companies' = [companies EXCEPT ![c] = "deleted"]
    /\ UNCHANGED <<nextPk, ads, worker, form, faults>>

---------------------------------------------------------------------------
WorkerStep ==
    \/ StartRun \/ ReadPage \/ ReadFails \/ MarkDisappeared \/ UpdatePageName \/ Crash
    \/ \E ad \in Ads, rec \in Records : StoreAd(ad, rec)

AdminStep ==
    \/ CreateFirstPage \/ SaveEdit
    \/ \E c \in Companies : CreateCompany(c) \/ DeleteCompany(c)
    \/ \E c \in Companies, fb \in FbPages, name \in Names : CreatePage(c, fb, name)
    \/ \E pk \in Pks, fb \in FbPages, name \in Names : EditPage(pk, fb, name)
    \/ \E pk \in Pks : TogglePage(pk) \/ DeletePage(pk)

\* The bounds are reached.
Over ==
    /\ worker.at = "idle" /\ worker.list = {} /\ worker.run = MaxRuns /\ edits = MaxEdits
    /\ UNCHANGED vars

Next == WorkerStep \/ AdminStep \/ Over

Spec == Init /\ [][Next]_vars

---------------------------------------------------------------------------
(* Properties. *)

PageRow == [fb: FbPages \cup {None}, company: Companies \cup {None}, tracked: BOOLEAN,
            name: {"none", "admin", "meta"}, fromAdmin: BOOLEAN]
AdRow == [page: Pks \cup {None}, company: Companies \cup {None}, active: {"yes", "no", "none"},
          start: BOOLEAN, stop: BOOLEAN, run: Nat]
ListedPage == [pk: Pks, fb: FbPages, company: Companies \cup {None}]

\* Every variable has the values the code gives it.
TypeOK ==
    /\ companies \in [Companies -> {"none", "row", "deleted"}]
    /\ pages \in [Pks -> PageRow]
    /\ nextPk \in Nat
    /\ ads \in [Ads -> AdRow]
    /\ worker \in [at: {"idle", "reading", "naming"}, run: Nat, list: SUBSET ListedPage,
                   page: ListedPage \cup {Nothing}, named: BOOLEAN]
    /\ form \in {NoForm} \cup [kind: {"firstPage"}, company: Companies, fb: FbPages]
                         \cup [kind: {"edit"}, pk: Pks, fb: FbPages, name: Names]
    /\ edits \in 0..MaxEdits
    /\ faults \in 0..MaxFaults

\* An ad on Meta's page is stored on the row of that Page, whatever became of the row
\* since the run listed it: "the Page already has ads, which belong to its current ID"
\* (db/admin.py).
AdsOnTheirOwnPage == \A ad \in Ads : Known(ad) => pages[ads[ad].page].fb = PageOf[ad]

\* update_page checks in one statement and writes in another, the worker inserts between
\* its own: the ID of a Page never changes under an ad.
IdOfAPageWithAdsStays ==
    [][\A pk \in Pks : AdsOn(pk) # {} \/ (Exists(pk) /\ AdsOn(pk)' # {})
                       => pages'[pk].fb = pages[pk].fb]_vars

\* Over endings, returns and records that say little: an ad that runs has no end, whose
\* duration the screens would stop at.
NoEndWhileActive == \A ad \in Ads : ads[ad].active = "yes" => ~ads[ad].stop

\* "A name given here is the admin's and is kept over the name from Facebook"
\* (db/admin.py), also when the Page is added again without one, or named while it is read.
NamesAreKept == \A pk \in Pks : Exists(pk) => (pages[pk].fromAdmin <=> pages[pk].name = "admin")

\* CONTEXT.md: an ad "belongs to a Page (and, through it, to a Company)".
AdsFollowTheirPage ==
    \A ad \in Ads : Known(ad) => ads[ad].company = pages[ads[ad].page].company

\* The reading of Pages keeps the promises of AdHistory.
StatusOf(ad) ==
    IF ~Known(ad) THEN "unknown"
    ELSE IF ads[ad].active = "yes" THEN "active"
    ELSE IF ads[ad].active = "no" THEN "ended" ELSE "unsaid"
Dated == {ad \in Ads : ads[ad].start}
Reading == IF worker.at = "reading" THEN worker.page.fb ELSE None
Seen == {ad \in Ads : PageOf[ad] = Reading /\ ads[ad].run = worker.run}

History == INSTANCE AdHistory WITH
    Statuses <- {"active", "ended", "unsaid"},
    status <- [ad \in Ads |-> StatusOf(ad)],
    dated <- Dated,
    reading <- Reading,
    seen <- Seen

HistorySpec == History!Spec
=============================================================================
