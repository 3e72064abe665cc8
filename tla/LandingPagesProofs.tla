------------------------- MODULE LandingPagesProofs -------------------------
(***************************************************************************)
(* What holds of LandingPages for any ads, links, sites, limits and        *)
(* faults.                                                                 *)
(***************************************************************************)
EXTENDS LandingPages, TLAPS

---------------------------------------------------------------------------
(* Types. *)

AnyLink == Links \cup {NoLink}
AnyPage == Canonical \cup {NoPage}
Version == {Snapshot(content) : content \in Contents}

CardTypes == cards \in [Ads -> [link: AnyLink, page: AnyPage]]
PageTypes ==
    /\ landing \in [Canonical -> [row: BOOLEAN, snaps: Seq(Version)]]
    /\ read \in [Canonical -> Contents \cup {NoContent}]

\* What a step does to the cards.
StoresOne == \E ad \in Ads, link \in Links : cards' = [cards EXCEPT ![ad] = StoredCard(@, link)]
LinksAll ==
    cards' = [ad \in Ads |-> IF ad \in Pending
                             THEN [cards[ad] EXCEPT !.page = CanonicalizeUrl(cards[ad].link)]
                             ELSE cards[ad]]

\* A step stores the cards of one ad, links all of them, or leaves them.
LEMMA CardsStep ==
    ASSUME [Next]_vars
    PROVE  StoresOne \/ LinksAll \/ UNCHANGED cards
BY DEF Next, Run, StoreAd, LinkCreatives, LinkingFails, StartCrawl, EndRun, CrawlLandingPage,
   CrawlRaises, Crash, BecomeDue, vars, StoresOne, LinksAll

\* What is read of one page, if it can be read.
ReadsOne ==
    \E p \in Canonical, content \in Contents :
       /\ Fetched(content)
       /\ landing' = [landing EXCEPT ![p].snaps = SnapshotsAfter(landing[p].snaps, content)]
       /\ read' = [read EXCEPT ![p] = content]

\* Versions, and what was read, are written by the crawl of one page only.
LEMMA PagesStep ==
    ASSUME PageTypes, [Next]_vars
    PROVE  \/ ReadsOne
           \/ /\ read' = read
              /\ landing' \in [Canonical -> [row: BOOLEAN, snaps: Seq(Version)]]
              /\ \A p \in Canonical : landing'[p].snaps = landing[p].snaps
<1> DEFINE Same ==
      /\ read' = read
      /\ landing' \in [Canonical -> [row: BOOLEAN, snaps: Seq(Version)]]
      /\ \A p \in Canonical : landing'[p].snaps = landing[p].snaps
<1>1. ASSUME NEW content \in Contents, CrawlLandingPage(content) PROVE ReadsOne \/ Same
  <2> DEFINE p == Head(worker.pages)
             ok == Status(content) = "ok"
             snaps == IF ok THEN SnapshotsAfter(landing[p].snaps, content) ELSE landing[p].snaps
  <2>1. /\ landing' = [landing EXCEPT ![p].snaps = snaps]
        /\ read' = [read EXCEPT ![p] = IF ok THEN content ELSE @]
    BY <1>1 DEF CrawlLandingPage
  <2> HIDE DEF p
  <2>2. CASE p \in Canonical /\ ok
    BY <2>1, <2>2 DEF ReadsOne, Status
  <2>3. CASE p \in Canonical /\ ~ok
    BY <2>1, <2>3 DEF PageTypes
  <2>4. CASE p \notin Canonical
    BY <2>1, <2>4 DEF PageTypes
  <2> QED
    BY <2>2, <2>3, <2>4
<1>2. CASE LinkCreatives
  BY <1>2 DEF LinkCreatives, PageTypes
<1>3. CASE UNCHANGED <<landing, read>>
  BY <1>3 DEF PageTypes
<1> QED
  BY <1>1, <1>2, <1>3 DEF Next, Run, StoreAd, LinkingFails, StartCrawl, EndRun, CrawlRaises,
     Crash, BecomeDue, vars

---------------------------------------------------------------------------
(* Links. *)

CardInv == CardTypes /\ LinkedToItsDestination

\* Every step keeps the links right.
LEMMA CardInvStep ==
    ASSUME CardInv, [Next]_vars
    PROVE  CardInv'
<1> USE DEF CardInv, CardTypes, LinkedToItsDestination
<1>1. ASSUME NEW ad \in Ads, NEW link \in Links, cards' = [cards EXCEPT ![ad] = StoredCard(@, link)]
      PROVE  CardInv'
  <2>1. /\ StoredCard(cards[ad], link) \in [link: AnyLink, page: AnyPage]
        /\ StoredCard(cards[ad], link).link = link
        /\ StoredCard(cards[ad], link).page # NoPage =>
              /\ StoredCard(cards[ad], link).page = cards[ad].page
              /\ link.host = cards[ad].link.host /\ link.path = cards[ad].link.path
    BY DEF StoredCard, LinkKey, AnyLink, AnyPage
  <2> QED
    BY <1>1, <2>1
<1>2. CASE LinksAll
  <2>1. ASSUME NEW ad \in Pending
        PROVE  CanonicalizeUrl(cards[ad].link) \in AnyPage
    <3>1. cards[ad].link \in Links /\ cards[ad].link.web
      BY <2>1 DEF Pending, AnyLink, NoLink
    <3> QED
      BY <3>1 DEF AnyPage, Canonical
  <2>2. ASSUME NEW ad \in Pending
        PROVE  /\ CanonicalizeUrl(cards[ad].link).host = cards[ad].link.host
               /\ CanonicalizeUrl(cards[ad].link).path = cards[ad].link.path
    BY DEF CanonicalizeUrl
  <2> HIDE DEF CardInv
  <2>3. CardTypes'
    BY <1>2, <2>1 DEF CardInv, LinksAll
  <2>4. ASSUME NEW ad \in Ads, cards'[ad].page # NoPage
        PROVE  cards'[ad].page.host = cards'[ad].link.host /\ cards'[ad].page.path = cards'[ad].link.path
    BY <1>2, <2>2, <2>4 DEF CardInv, LinksAll
  <2> QED
    BY <2>3, <2>4 DEF CardInv
<1>3. CASE UNCHANGED cards
  BY <1>3
<1> QED
  BY <1>1, <1>2, <1>3, CardsStep DEF StoresOne

(* An ad is never left with the landing page of another host or path, over *)
(* reads that change its link and cards that keep theirs                   *)
(* (LinkedToItsDestination).                                               *)
THEOREM LinksAreRight == Spec => []LinkedToItsDestination
<1>1. Init => CardInv
  BY DEF Init, CardInv, CardTypes, LinkedToItsDestination, NoCard, AnyLink, AnyPage
<1>2. CardInv /\ [Next]_vars => CardInv'
  BY CardInvStep
<1>3. CardInv => LinkedToItsDestination
  BY DEF CardInv
<1> QED
  BY <1>1, <1>2, <1>3, PTL DEF Spec

---------------------------------------------------------------------------
(* Versions. *)

VersionsOf(snaps) == \A i \in 1..(Len(snaps) - 1) : snaps[i].hash # snaps[i + 1].hash

\* The latest version is what was read of the page last.
Current(snaps, content) ==
    /\ snaps # <<>>
    /\ Last(snaps).hash = ContentHash(content)
    /\ Title(content) # None => Last(snaps) = Snapshot(content)

\* A read adds a version of another text, or writes the title over the latest one, whose
\* text is the same.
LEMMA SnapshotsAfterIs ==
    ASSUME NEW snaps \in Seq(Version), NEW content \in Contents, VersionsOf(snaps)
    PROVE  /\ SnapshotsAfter(snaps, content) \in Seq(Version)
           /\ VersionsOf(SnapshotsAfter(snaps, content))
           /\ Current(SnapshotsAfter(snaps, content), content)
<1> DEFINE new == SnapshotsAfter(snaps, content)
           now == Snapshot(content)
<1>1. now \in Version /\ now.hash = ContentHash(content)
  BY DEF Version, Snapshot
<1> HIDE DEF now
<1>2. CASE snaps = <<>> \/ Last(snaps).hash # ContentHash(content)
  <2>1. new = Append(snaps, now)
    BY <1>2 DEF SnapshotsAfter, now
  <2>2. /\ Append(snaps, now) \in Seq(Version) /\ Len(Append(snaps, now)) = Len(snaps) + 1
        /\ \A i \in 1..Len(snaps) : Append(snaps, now)[i] = snaps[i]
        /\ Append(snaps, now)[Len(snaps) + 1] = now
    BY <1>1
  <2>3. ASSUME NEW i \in 1..Len(snaps)
        PROVE  Append(snaps, now)[i].hash # Append(snaps, now)[i + 1].hash
    <3>1. CASE i = Len(snaps)
      BY <1>1, <1>2, <2>2, <3>1 DEF Last
    <3>2. CASE i # Len(snaps)
      BY <2>2, <3>2 DEF VersionsOf
    <3> QED
      BY <3>1, <3>2
  <2> QED
    BY <1>1, <2>1, <2>2, <2>3 DEF VersionsOf, Current, Last, now
<1>3. CASE snaps # <<>> /\ Last(snaps).hash = ContentHash(content)
  <2>1. Len(snaps) \in 1..Len(snaps)
    BY <1>3
  <2>2. CASE Title(content) # None
    <3>1. new = [snaps EXCEPT ![Len(snaps)] = now]
      BY <1>3, <2>2 DEF SnapshotsAfter, now
    <3>2. /\ new \in Seq(Version) /\ Len(new) = Len(snaps)
          /\ \A i \in 1..Len(snaps) : new[i] = IF i = Len(snaps) THEN now ELSE snaps[i]
      BY <1>1, <2>1, <3>1
    <3>3. \A i \in 1..Len(snaps) : new[i].hash = snaps[i].hash
      BY <1>1, <1>3, <3>2 DEF Last
    <3> HIDE DEF new
    <3>4. VersionsOf(new)
      <4>1. ASSUME NEW i \in 1..(Len(new) - 1) PROVE new[i].hash # new[i + 1].hash
        <5>1. i \in 1..(Len(snaps) - 1) /\ i \in 1..Len(snaps) /\ i + 1 \in 1..Len(snaps)
          BY <3>2
        <5>2. snaps[i].hash # snaps[i + 1].hash
          BY <5>1 DEF VersionsOf
        <5> QED
          BY <3>3, <5>1, <5>2
      <4> QED
        BY <4>1 DEF VersionsOf
    <3>5. Current(new, content)
      BY <1>1, <2>1, <3>2 DEF Current, Last, now
    <3> QED
      BY <3>2, <3>4, <3>5 DEF new
  <2>3. CASE Title(content) = None
    BY <1>3, <2>3 DEF SnapshotsAfter, Current
  <2> QED
    BY <2>2, <2>3
<1> QED
  BY <1>2, <1>3

PageInv ==
    /\ PageTypes
    /\ \A p \in Canonical : VersionsOf(landing[p].snaps)
    /\ \A p \in Canonical : read[p].answer # None => Current(landing[p].snaps, read[p])

\* Every step keeps the versions apart and the catalog current.
LEMMA PageInvStep ==
    ASSUME PageInv, [Next]_vars
    PROVE  PageInv'
<1>1. ASSUME NEW p \in Canonical, NEW content \in Contents, Fetched(content),
             landing' = [landing EXCEPT ![p].snaps = SnapshotsAfter(landing[p].snaps, content)],
             read' = [read EXCEPT ![p] = content]
      PROVE  PageInv'
  <2> DEFINE new == SnapshotsAfter(landing[p].snaps, content)
  <2>1. landing[p].snaps \in Seq(Version) /\ VersionsOf(landing[p].snaps)
    BY DEF PageInv, PageTypes
  <2>2. new \in Seq(Version) /\ VersionsOf(new) /\ Current(new, content)
    BY <2>1, SnapshotsAfterIs
  <2> HIDE DEF new
  <2>3. landing' = [landing EXCEPT ![p].snaps = new]
    BY <1>1 DEF new
  <2>4. PageTypes'
    BY <1>1, <2>2, <2>3 DEF PageInv, PageTypes
  <2>5. \A q \in Canonical : landing'[q].snaps = IF q = p THEN new ELSE landing[q].snaps
    BY <2>3 DEF PageInv, PageTypes
  <2>6. \A q \in Canonical : read'[q] = IF q = p THEN content ELSE read[q]
    BY <1>1 DEF PageInv, PageTypes
  <2> QED
    BY <2>2, <2>4, <2>5, <2>6 DEF PageInv
<1>2. ASSUME read' = read,
             landing' \in [Canonical -> [row: BOOLEAN, snaps: Seq(Version)]],
             \A p \in Canonical : landing'[p].snaps = landing[p].snaps
      PROVE  PageInv'
  BY <1>2 DEF PageInv, PageTypes
<1> QED
  BY <1>1, <1>2, PagesStep DEF PageInv, ReadsOne

\* What is known of the landing pages holds in every behaviour.
THEOREM PagesSafe == Spec => []PageInv
<1>1. Init => PageInv
  <2> SUFFICES ASSUME Init PROVE PageInv
    OBVIOUS
  <2>1. PageTypes
    BY DEF Init, PageTypes
  <2>2. \A p \in Canonical : landing[p].snaps = <<>> /\ read[p].answer = None
    BY DEF Init, NoContent
  <2> QED
    BY <2>1, <2>2 DEF PageInv, VersionsOf
<1>2. PageInv /\ [Next]_vars => PageInv'
  BY PageInvStep
<1> QED
  BY <1>1, <1>2, PTL DEF Spec

(* Neighbouring versions of a page never have the same text                *)
(* (VersionsDiffer).                                                       *)
THEOREM VersionsAreNew == Spec => []VersionsDiffer
<1>1. PageInv => VersionsDiffer
  BY DEF PageInv, VersionsOf, VersionsDiffer
<1> QED
  BY <1>1, PagesSafe, PTL

(* The version the catalog shows of a page is what was read of it last,    *)
(* title and description included, whatever failed since                   *)
(* (CatalogIsCurrent).                                                     *)
THEOREM CatalogShowsTheLastRead == Spec => []CatalogIsCurrent
<1>1. PageInv => CatalogIsCurrent
  BY DEF PageInv, Current, CatalogIsCurrent, LatestSnapshot
<1> QED
  BY <1>1, PagesSafe, PTL
=============================================================================
