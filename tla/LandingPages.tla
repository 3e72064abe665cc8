--------------------------- MODULE LandingPages ---------------------------
(***************************************************************************)
(* Landing pages: the destinations of ads in canonical form (linking.py),  *)
(* and their titles and versions, fetched some at a time after every       *)
(* collection (resolver.py), as the catalog shows them (db/landing.py).    *)
(*                                                                         *)
(* An ad has one card here.  Sites change, fail and answer what the        *)
(* database refuses, links get other parameters at each read, and a worker *)
(* may die between two pages.                                              *)
(***************************************************************************)
EXTENDS Integers, FiniteSets, Sequences, SequencesExt, FiniteSetsExt

CONSTANTS
    Ads,        \* ads
    Links,      \* what their links may be
    Tracking,   \* parameters that are dropped (utm_*, fbclid...)
    Contents,   \* what a site may answer
    Unstorable, \* titles and descriptions that Postgres refuses (they have a NUL)
    CrawlLimit, \* CRAWL_LIMIT: pages per run
    MaxVersions,\* bound: versions of pages read, in all
    MaxFaults   \* bound: steps that fail, workers that die

None == "none"

ASSUME LandingPagesAssumption ==
    /\ Links \subseteq [web: BOOLEAN, host: STRING, path: STRING, slash: BOOLEAN,
                        params: SUBSET STRING, fragment: BOOLEAN]
    /\ None \notin Unstorable
    /\ CrawlLimit \in Nat \ {0} /\ MaxVersions \in Nat /\ MaxFaults \in Nat

VARIABLES
    cards,    \* the card of each ad: its link, and the landing page it is linked to
    landing,  \* landing pages: those resolved, and their snapshots, oldest first
    order,    \* the resolved ones in the order of last_resolved_at
    due,      \* those of them last resolved more than STALE_HOURS ago
    read,     \* what was last read well of each page (history)
    worker,   \* "storing", "linking" or "crawling", and the pages still to crawl
    faults    \* so far (bound)

vars == <<cards, landing, order, due, read, worker, faults>>

NoLink == [web |-> FALSE, host |-> None, path |-> None, slash |-> FALSE, params |-> {},
           fragment |-> FALSE]
NoPage == [host |-> None, path |-> None, params |-> {}]
NoCard == [link |-> NoLink, page |-> NoPage]
NoContent == [answer |-> None]

---------------------------------------------------------------------------
(* linking.py *)

\* canonicalize_url: only for http and https; without tracking, fragment and last slash.
CanonicalizeUrl(link) ==
    [host |-> link.host, path |-> link.path, params |-> link.params \ Tracking]

Canonical == {CanonicalizeUrl(link) : link \in {l \in Links : l.web}}

\* Mutation: the destination is not part of a card's identity.
MutLinkKey(link) == <<>>

\* _link_key: the part of the link a card is known by.
LinkKey(link) == <<link.web, link.host, link.path, link.slash>>

\* The link of a card after a read: a link made is kept while the card is the same.
StoredCard(card, link) ==
    [link |-> link,
     page |-> IF LinkKey(card.link) = LinkKey(link) THEN card.page ELSE NoPage]

Pending == {ad \in Ads : cards[ad].page = NoPage /\ cards[ad].link.web}

---------------------------------------------------------------------------
(* resolver.py: what is read of a page. *)

\* _fetch: every hop must be public, there are not too many, and the answer is no error.
Fetched(content) == content.answer = "page"

\* extract_title_and_description: og:title, then twitter:title, then <title>.
Title(content) ==
    IF content.og # None THEN content.og
    ELSE IF content.twitter # None THEN content.twitter ELSE content.title

ContentHash(content) == IF content.text # None THEN content.text ELSE Title(content)

Snapshot(content) ==
    [hash |-> ContentHash(content), title |-> Title(content), description |-> content.description]

\* Mutation: only the first version is told from none.
MutSnapshotsAfter(snaps, content) ==
    IF snaps = <<>> \/ Last(snaps).title # Title(content)
    THEN Append(snaps, Snapshot(content))
    ELSE snaps

\* Mutation: the title is kept.
MutNoRefresh(snaps, content) ==
    IF snaps = <<>> \/ Last(snaps).hash # ContentHash(content)
    THEN Append(snaps, Snapshot(content))
    ELSE snaps

\* A new version when the text changed; with the same text another title is written over
\* the one of the latest version.
SnapshotsAfter(snaps, content) ==
    IF snaps = <<>> \/ Last(snaps).hash # ContentHash(content)
    THEN Append(snaps, Snapshot(content))
    ELSE IF Title(content) # None THEN [snaps EXCEPT ![Len(snaps)] = Snapshot(content)]
    ELSE snaps

\* What of an answer is kept.
Status(content) ==
    IF ~Fetched(content) THEN "fetch_failed"
    ELSE IF content.text = None /\ Title(content) = None THEN "no_content" ELSE "ok"

\* The INSERT or UPDATE of a snapshot raises.
Refused(snaps, content) ==
    /\ Status(content) = "ok" /\ SnapshotsAfter(snaps, content) # snaps
    /\ Title(content) \in Unstorable \/ content.description \in Unstorable

---------------------------------------------------------------------------
Init ==
    /\ cards = [ad \in Ads |-> NoCard]
    /\ landing = [p \in Canonical |-> [row |-> FALSE, snaps |-> <<>>]]
    /\ order = <<>>
    /\ due = {}
    /\ read = [p \in Canonical |-> NoContent]
    /\ worker = [phase |-> "storing", pages |-> <<>>]
    /\ faults = 0

Fault == faults < MaxFaults /\ faults' = faults + 1

\* The ad is stored again, its card with the link it has now.
StoreAd(ad, link) ==
    /\ worker.phase = "storing"
    /\ cards' = [cards EXCEPT ![ad] = StoredCard(@, link)]
    /\ UNCHANGED <<landing, order, due, read, worker, faults>>

\* link_creatives, one transaction: every card with a destination and no landing page.
LinkCreatives ==
    /\ worker.phase = "storing"
    /\ cards' = [ad \in Ads |-> IF ad \in Pending
                                THEN [cards[ad] EXCEPT !.page = CanonicalizeUrl(cards[ad].link)]
                                ELSE cards[ad]]
    /\ landing' = [p \in Canonical |->
          [landing[p] EXCEPT !.row = @ \/ \E ad \in Pending : p = CanonicalizeUrl(cards[ad].link)]]
    /\ worker' = [worker EXCEPT !.phase = "linking"]
    /\ UNCHANGED <<order, due, read, faults>>

\* It fails: the titles are fetched all the same.
LinkingFails ==
    /\ worker.phase = "storing"
    /\ Fault
    /\ worker' = [worker EXCEPT !.phase = "linking"]
    /\ UNCHANGED <<cards, landing, order, due, read>>

\* crawl_pending: the pages never resolved, then those due, the oldest first, so many of
\* them.
StartCrawl ==
    /\ worker.phase = "linking"
    /\ \E new \in SetToSeqs({p \in Canonical : landing[p].row /\ p \notin ToSet(order)}) :
          LET all == new \o SelectSeq(order, LAMBDA p : p \in due)
          IN  worker' = [phase |-> "crawling", pages |-> SubSeq(all, 1, IF CrawlLimit < Len(all)
                                                                        THEN CrawlLimit ELSE Len(all))]
    /\ UNCHANGED <<cards, landing, order, due, read, faults>>

\* Mutation: a page that could not be read is tried again first.
MutMark(p, status) ==
    IF status = "ok" THEN order' = Append(SelectSeq(order, LAMBDA q : q # p), p) /\ due' = due \ {p}
    ELSE UNCHANGED <<order, due>>

\* _mark: resolved now, whatever came of it.
Mark(p, status) ==
    /\ order' = Append(SelectSeq(order, LAMBDA q : q # p), p)
    /\ due' = due \ {p}

Versions == MapThenSumSet(LAMBDA p : Len(landing[p].snaps), Canonical)

\* crawl_landing_page, with its snapshot and its mark in one transaction, whatever the
\* site answers by then that can be stored.
CrawlLandingPage(content) ==
    /\ worker.phase = "crawling" /\ worker.pages # <<>>
    /\ LET p == Head(worker.pages)
           status == Status(content)
           snaps == IF status = "ok" THEN SnapshotsAfter(landing[p].snaps, content)
                    ELSE landing[p].snaps
       IN  /\ ~Refused(landing[p].snaps, content)
           /\ Versions + Len(snaps) - Len(landing[p].snaps) <= MaxVersions
           /\ Mark(p, status)
           /\ landing' = [landing EXCEPT ![p].snaps = snaps]
           /\ read' = [read EXCEPT ![p] = IF status = "ok" THEN content ELSE @]
    /\ worker' = [worker EXCEPT !.pages = Tail(@)]
    /\ UNCHANGED <<cards, faults>>

\* Only the fetch is guarded: an answer that cannot be stored raises before the page is
\* marked, and the exception ends the crawl; the run goes on to its end.
CrawlRaises(p) ==
    /\ worker.phase = "crawling" /\ worker.pages # <<>> /\ p = Head(worker.pages)
    /\ \E content \in Contents : Refused(landing[p].snaps, content)
    /\ worker' = [phase |-> "storing", pages |-> <<>>]
    /\ UNCHANGED <<cards, landing, order, due, read, faults>>

\* The run is over; the next one stores ads first.
EndRun ==
    /\ worker.phase = "crawling" /\ worker.pages = <<>>
    /\ worker' = [worker EXCEPT !.phase = "storing"]
    /\ UNCHANGED <<cards, landing, order, due, read, faults>>

\* A statement of the crawl or its heartbeat fails, or the worker dies.
Crash ==
    /\ worker.phase # "storing"
    /\ Fault
    /\ worker' = [phase |-> "storing", pages |-> <<>>]
    /\ UNCHANGED <<cards, landing, order, due, read>>

\* STALE_HOURS pass since a page was resolved, and so since those before it.
BecomeDue ==
    /\ \E i \in DOMAIN order : due' = ToSet(SubSeq(order, 1, i)) /\ due' # due /\ due \subseteq due'
    /\ UNCHANGED <<cards, landing, order, read, worker, faults>>

Run == LinkCreatives \/ LinkingFails \/ StartCrawl \/ EndRun
       \/ \E content \in Contents : CrawlLandingPage(content)
       \/ \E p \in Canonical : CrawlRaises(p)

Next ==
    \/ Run \/ Crash \/ BecomeDue
    \/ \E ad \in Ads, link \in Links : StoreAd(ad, link)

\* The worker runs again and again (its main loop, restart: unless-stopped).
Spec == Init /\ [][Next]_vars /\ WF_vars(Run)

---------------------------------------------------------------------------
(* What is shown. *)

\* The latest version of a page (_latest_snapshot), which the catalog shows it by.
LatestSnapshot(p) == Last(landing[p].snaps)

---------------------------------------------------------------------------
(* Properties. *)

\* A link made is kept over reads, its card's own link may differ by then: an ad never
\* stays with a landing page of another host or path, as long as it has a link.
LinkedToItsDestination ==
    \A ad \in Ads : cards[ad].page # NoPage =>
       /\ cards[ad].page.host = cards[ad].link.host
       /\ cards[ad].page.path = cards[ad].link.path

\* CONTEXT.md: "A new version is born when the content changes (a new hash)", and only
\* then, over failures, restarts and other titles.
VersionsDiffer ==
    \A p \in Canonical : \A i \in 1..(Len(landing[p].snaps) - 1) :
       landing[p].snaps[i].hash # landing[p].snaps[i + 1].hash

\* What the catalog shows of a page is what was read of it last, whatever failed since:
\* its text's version, with the title and description read with it.
CatalogIsCurrent ==
    \A p \in Canonical : read[p].answer # None =>
       /\ LatestSnapshot(p).hash = ContentHash(read[p])
       /\ Title(read[p]) # None => LatestSnapshot(p) = Snapshot(read[p])

\* "Crawl the landing pages that are new or due a re-check": however few of them a run
\* takes and however many cannot be fetched, each one's turn comes, again and again, once
\* no more answers are refused.
HasHadItsTurn(p) == p \in ToSet(order) /\ p \notin due
EveryPageGetsItsTurn ==
    <>[][\A p \in Canonical : ~CrawlRaises(p)]_vars
    => \A p \in Canonical : landing[p].row ~> HasHadItsTurn(p)

\* The same of each page whose own answers are not refused, whatever others answer.  The
\* code breaks it: a refused page is not marked, stays first in line, and ends each crawl.
OthersGetTheirTurn ==
    \A p \in Canonical :
        <>[][~CrawlRaises(p)]_vars => (landing[p].row ~> HasHadItsTurn(p))
=============================================================================
