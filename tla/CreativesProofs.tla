-------------------------- MODULE CreativesProofs --------------------------
(***************************************************************************)
(* What holds of Creatives for any ads, records, pool and faults.          *)
(***************************************************************************)
EXTENDS Creatives, TLAPS, FiniteSetTheorems

---------------------------------------------------------------------------
(* The cards of the records, and their keys. *)

\* Every card a record can show.
Shown == UNION {{CardsOf(snap)[i] : i \in DOMAIN CardsOf(snap)} : snap \in Snaps}

\* A record shows a sequence of cards.
LEMMA CardsOfIs ==
    ASSUME NEW snap \in Snaps
    PROVE  CardsOf(snap) \in Seq(Shown)
<1> DEFINE c == CardsOf(snap)
<1>1. /\ c = [i \in 1..Len(c) |-> c[i]] /\ Len(c) \in Nat /\ DOMAIN c = 1..Len(c)
  <2>1. snap.cards \in Seq(Cards)
    BY CreativesAssumption
  <2>2. Single(snap) = <<>> \/ \E card : Single(snap) = <<card>>
    BY DEF Single
  <2> QED
    BY <2>1, <2>2 DEF CardsOf
<1>2. \A i \in DOMAIN c : c[i] \in Shown
  BY DEF Shown
<1> HIDE DEF c
<1>3. c \in [1..Len(c) -> Shown]
  BY <1>1, <1>2
<1>4. c \in Seq(Shown)
  BY <1>1, <1>3
<1> QED
  BY <1>4 DEF c

\* Positions before one that hold its key.
Before(cards, i) == {j \in 1..(i - 1) : CardKey(cards[j]) = CardKey(cards[i])}

\* The key of a card: what it shows, and how many before it show the same.
LEMMA OccurrenceNumber ==
    ASSUME NEW cards \in Seq(Shown), NEW i \in DOMAIN cards
    PROVE  /\ IsFiniteSet(Before(cards, i)) /\ Cardinality(Before(cards, i)) \in Nat
           /\ WithCardKeys(cards)[i] = <<CardKey(cards[i]), Cardinality(Before(cards, i))>>
<1>1. i \in Nat
  OBVIOUS
<1>2. IsFiniteSet(1..(i - 1)) /\ Before(cards, i) \in SUBSET (1..(i - 1))
  <2>1. i - 1 \in Int /\ 1 \in Int
    BY <1>1
  <2>2. IsFiniteSet(1..(i - 1))
    BY ONLY <2>1, FS_Interval
  <2>3. Before(cards, i) \subseteq 1..(i - 1)
    BY DEF Before
  <2> QED
    BY <2>2, <2>3
<1>3. IsFiniteSet(Before(cards, i))
  BY <1>2, FS_Subset
<1> QED
  BY <1>3, FS_CardinalityType DEF WithCardKeys, Before

\* Every card of an ad has a key of its own.
LEMMA KeysDiffer ==
    ASSUME NEW cards \in Seq(Shown), NEW i \in DOMAIN cards, NEW j \in DOMAIN cards,
           WithCardKeys(cards)[i] = WithCardKeys(cards)[j]
    PROVE  i = j
<1>1. ASSUME NEW a \in DOMAIN cards, NEW b \in DOMAIN cards, a < b,
             WithCardKeys(cards)[a] = WithCardKeys(cards)[b]
      PROVE  FALSE
  <2>1. CardKey(cards[a]) = CardKey(cards[b])
        /\ Cardinality(Before(cards, a)) = Cardinality(Before(cards, b))
    BY <1>1, OccurrenceNumber
  <2>2. Before(cards, a) \in SUBSET Before(cards, b) /\ a \in Before(cards, b) /\ a \notin Before(cards, a)
    BY <1>1, <2>1 DEF Before
  <2> QED
    BY <2>1, <2>2, OccurrenceNumber, FS_Subset
<1> QED
  BY <1>1

---------------------------------------------------------------------------
(* The rows of an ad. *)

\* The row of a card: named by its key, and each copy it knows is its own.
RowIs(ad, key, row) ==
    /\ row \in [index : Nat, card : Shown, keys : [Kinds -> {NoKey} \cup {MediaName(ad, key, kind) : kind \in Kinds}]]
    /\ \E n \in Nat : key = <<CardKey(row.card), n>>
    /\ \A kind \in Kinds : row.keys[kind] \in {NoKey, MediaName(ad, key, kind)}

RowsAre(ad, some) == 
    /\ some = [key \in DOMAIN some |-> some[key]]
    /\ \A key \in DOMAIN some : RowIs(ad, key, some[key])

\* They are the cards last read, by their keys, each at its place.
AsRead(some, cards) ==
    /\ cards \in Seq(Shown)
    /\ DOMAIN some = {WithCardKeys(cards)[i] : i \in DOMAIN cards}
    /\ \A i \in DOMAIN cards : some[WithCardKeys(cards)[i]].index = i - 1
                               /\ some[WithCardKeys(cards)[i]].card = cards[i]

\* What upsert_ad leaves: the cards as read, each with the object keys its row had.
LEMMA UpsertIs ==
    ASSUME NEW ad, NEW old, RowsAre(ad, old), NEW cards \in Seq(Shown)
    PROVE  LET new == UpsertCreatives(old, cards)
           IN  /\ RowsAre(ad, new) /\ AsRead(new, cards)
               /\ \A key \in DOMAIN new : new[key].keys = IF key \in DOMAIN old THEN old[key].keys
                                                          ELSE [kind \in Kinds |-> NoKey]
<1> DEFINE keys == WithCardKeys(cards)
           copies(key) == IF key \in DOMAIN old THEN old[key].keys ELSE [kind \in Kinds |-> NoKey]
           new == UpsertCreatives(old, cards)
           at(key) == CHOOSE i \in DOMAIN keys : keys[i] = key
<1>1. DOMAIN keys = DOMAIN cards
  BY DEF WithCardKeys
<1>2. new = [key \in {keys[i] : i \in DOMAIN keys} |->
               [index |-> at(key) - 1, card |-> cards[at(key)],
                keys |-> IF keys[at(key)] \in DOMAIN old THEN old[keys[at(key)]].keys
                         ELSE [kind \in Kinds |-> NoKey]]]
  BY DEF UpsertCreatives
<1> HIDE DEF keys, new
<1>3. ASSUME NEW i \in DOMAIN keys
      PROVE  at(keys[i]) = i
  <2>1. at(keys[i]) \in DOMAIN keys /\ keys[at(keys[i])] = keys[i]
    OBVIOUS
  <2> QED
    BY <2>1, <1>1, KeysDiffer DEF keys
<1> HIDE DEF at
<1>4. DOMAIN new = {keys[i] : i \in DOMAIN keys}
  BY <1>2
<1>5. ASSUME NEW i \in DOMAIN keys
      PROVE  new[keys[i]] = [index |-> i - 1, card |-> cards[i], keys |-> copies(keys[i])]
  BY <1>2, <1>3
<1>b. ASSUME NEW i \in DOMAIN keys
      PROVE  /\ new[keys[i]].index = i - 1 /\ new[keys[i]].card = cards[i]
             /\ new[keys[i]].keys = copies(keys[i])
             /\ new[keys[i]] = [index |-> i - 1, card |-> cards[i], keys |-> copies(keys[i])]
  <2>1. ASSUME NEW x, NEW y, NEW z, NEW row, row = [index |-> x, card |-> y, keys |-> z]
        PROVE  row.index = x /\ row.card = y /\ row.keys = z
    BY <2>1
  <2> HIDE DEF copies
  <2> QED
    BY <1>5, <2>1
<1> HIDE DEF copies
<1>6. AsRead(new, cards)
  <2>1. \A i \in DOMAIN cards : new[keys[i]].index = i - 1 /\ new[keys[i]].card = cards[i]
    BY <1>1, <1>b
  <2> QED
    BY <1>1, <1>4, <2>1 DEF AsRead, keys
<1>7. \A key \in DOMAIN new : new[key].keys = copies(key)
  BY <1>4, <1>b
<1>8. ASSUME NEW i \in DOMAIN keys PROVE RowIs(ad, keys[i], new[keys[i]])
  <2>1. /\ copies(keys[i]) \in [Kinds -> {NoKey} \cup {MediaName(ad, keys[i], kind) : kind \in Kinds}]
        /\ \A kind \in Kinds : copies(keys[i])[kind] \in {NoKey, MediaName(ad, keys[i], kind)}
    <3>1. CASE keys[i] \in DOMAIN old
      BY <3>1 DEF RowsAre, RowIs, copies
    <3>2. CASE keys[i] \notin DOMAIN old
      BY <3>2 DEF copies
    <3> QED
      BY <3>1, <3>2
  <2>2. i - 1 \in Nat /\ cards[i] \in Shown
    BY <1>1
  <2>3. \E n \in Nat : keys[i] = <<CardKey(cards[i]), n>>
    BY <1>1, OccurrenceNumber DEF keys
  <2> DEFINE Names == {NoKey} \cup {MediaName(ad, keys[i], kind) : kind \in Kinds}
             Copies == [Kinds -> Names]
  <2>4. copies(keys[i]) \in Copies
    BY <2>1
  <2> HIDE DEF Copies
  <2>5. new[keys[i]] \in [index : Nat, card : Shown, keys : Copies]
    <3>1. ASSUME NEW x \in Nat, NEW y \in Shown, NEW z \in Copies, NEW row,
                 row = [index |-> x, card |-> y, keys |-> z]
          PROVE  row \in [index : Nat, card : Shown, keys : Copies]
      BY <3>1
    <3> DEFINE row == new[keys[i]]
               place == i - 1
    <3>2. row = [index |-> place, card |-> cards[i], keys |-> copies(keys[i])]
      BY <1>b
    <3>3. place \in Nat
      BY <2>2
    <3> HIDE DEF row, place
    <3>4. row \in [index : Nat, card : Shown, keys : Copies]
      BY <3>1, <3>2, <3>3, <2>2, <2>4
    <3> QED
      BY <3>4 DEF row
  <2> QED
    BY <1>b, <2>1, <2>3, <2>5 DEF RowIs, Copies
<1>9. RowsAre(ad, new)
  <2>1. new = [key \in DOMAIN new |-> new[key]]
    BY <1>2
  <2> QED
    BY <2>1, <1>4, <1>8 DEF RowsAre
<1> QED
  BY <1>6, <1>7, <1>9 DEF new, copies

\* A key that is written is the row's own, and nothing else of the rows changes.
LEMMA KeyIs ==
    ASSUME NEW ad, NEW some, RowsAre(ad, some), NEW key \in DOMAIN some, NEW kind \in Kinds, NEW new,
           new = WithKey(some, key, kind, MediaName(ad, key, kind))
    PROVE  /\ RowsAre(ad, new) /\ DOMAIN new = DOMAIN some
           /\ \A k \in DOMAIN some : new[k].index = some[k].index /\ new[k].card = some[k].card
           /\ \A k \in DOMAIN some : \A c \in Kinds :
                 new[k].keys[c] = IF k = key /\ c = kind /\ some[k].keys[c] = NoKey
                                  THEN MediaName(ad, key, kind) ELSE some[k].keys[c]
<1> DEFINE row == some[key]
           name == IF row.keys[kind] = NoKey THEN MediaName(ad, key, kind) ELSE row.keys[kind]
           copies == [row.keys EXCEPT ![kind] = name]
           changed == [row EXCEPT !.keys = copies]
           Names == {NoKey} \cup {MediaName(ad, key, c) : c \in Kinds}
           Copies == [Kinds -> Names]
           Row == [index : Nat, card : Shown, keys : Copies]
<1>1. new = [some EXCEPT ![key] = changed]
  BY DEF WithKey
<1>2. row \in Row /\ row.keys \in Copies
  BY DEF RowsAre, RowIs
<1>3. name \in {NoKey, MediaName(ad, key, kind)}
  BY DEF RowsAre, RowIs
<1>4. copies \in Copies /\ \A c \in Kinds : copies[c] = IF c = kind THEN name ELSE row.keys[c]
  <2> HIDE DEF name, row
  <2> QED
    BY <1>2, <1>3
<1> HIDE DEF copies, Copies
<1>5. /\ changed \in Row
      /\ changed.index = row.index /\ changed.card = row.card /\ changed.keys = copies
  <2> HIDE DEF row
  <2> QED
    BY <1>2, <1>4
<1> HIDE DEF changed
<1>6. /\ DOMAIN new = DOMAIN some /\ new = [k \in DOMAIN new |-> new[k]]
      /\ \A k \in DOMAIN some : new[k] = IF k = key THEN changed ELSE some[k]
  <2>1. some = [k \in DOMAIN some |-> some[k]]
    BY DEF RowsAre
  <2> QED
    BY <1>1, <2>1
<1>7. RowIs(ad, key, changed)
  <2>1. \E n \in Nat : key = <<CardKey(changed.card), n>>
    BY <1>5 DEF RowsAre, RowIs
  <2>2. \A c \in Kinds : changed.keys[c] \in {NoKey, MediaName(ad, key, c)}
    <3>1. \A c \in Kinds : row.keys[c] \in {NoKey, MediaName(ad, key, c)}
      BY DEF RowsAre, RowIs
    <3> HIDE DEF row, name
    <3> QED
      BY <1>3, <1>4, <1>5, <3>1
  <2> QED
    BY <1>5, <2>1, <2>2 DEF RowIs, Copies
<1>8. RowsAre(ad, new)
  BY <1>6, <1>7 DEF RowsAre
<1>9. \A k \in DOMAIN some : new[k].index = some[k].index /\ new[k].card = some[k].card
  BY <1>5, <1>6
<1>10. \A k \in DOMAIN some : \A c \in Kinds :
         new[k].keys[c] = IF k = key /\ c = kind /\ some[k].keys[c] = NoKey
                          THEN MediaName(ad, key, kind) ELSE some[k].keys[c]
  BY <1>4, <1>5, <1>6
<1> QED
  BY <1>6, <1>8, <1>9, <1>10

---------------------------------------------------------------------------
(* The invariant. *)

\* The rows of an ad are its cards as read.
RowsInv ==
    /\ rows = [ad \in Ads |-> rows[ad]] /\ shown = [ad \in Ads |-> shown[ad]]
    /\ \A ad \in Ads : RowsAre(ad, rows[ad]) /\ AsRead(rows[ad], shown[ad])

\* A Page knows the copy of its picture, or none.
Picture == [file : Pictures \cup {NoFile}, key : {NoKey} \cup {<<"pages", p, file>> : p \in FbPages, file \in Pictures \cup {NoFile}}]
PicturesInv ==
    /\ pictures \in [FbPages -> Picture]
    /\ \A p \in FbPages : pictures[p].key \in {NoKey, PictureName(p)}

\* While there are jobs, they are for cards and pictures as they are in the rows.
JobIs(job) ==
    \/ \E ad \in Ads : \E key \in DOMAIN rows[ad] : \E kind \in Kinds : job = CardJob(ad, key, kind)
    \/ \E p \in FbPages : job = PictureJob(p)
JobsInv ==
    /\ jobs = [job \in DOMAIN jobs |-> jobs[job]]
    /\ phase = "storing" => DOMAIN jobs = {}
    /\ \A job \in DOMAIN jobs : JobIs(job)

Inv == RowsInv /\ PicturesInv /\ JobsInv /\ KeysNameObjects

\* Nothing is stored yet.
LEMMA InitInv == Init => Inv
<1> SUFFICES ASSUME Init PROVE Inv
  OBVIOUS
<1>1. ASSUME NEW ad \in Ads PROVE RowsAre(ad, rows[ad]) /\ AsRead(rows[ad], shown[ad])
  <2>1. rows[ad] = <<>> /\ shown[ad] = <<>>
    BY DEF Init
  <2>2. RowsAre(ad, <<>>)
    BY DEF RowsAre
  <2>3. AsRead(<<>>, <<>>)
    BY DEF AsRead
  <2> QED
    BY <2>1, <2>2, <2>3
<1>2. RowsInv
  BY <1>1 DEF Init, RowsInv
<1>3. PicturesInv
  BY DEF Init, PicturesInv, Picture
<1>4. JobsInv
  BY DEF Init, JobsInv
<1>5. KeysNameObjects
  BY DEF Init, KeysNameObjects
<1> QED
  BY <1>2, <1>3, <1>4, <1>5 DEF Inv

\* Nothing collides: no parked row is at a place.
LEMMA NoCollision ==
    ASSUME NEW old, NEW cards \in Seq(Shown)
    PROVE  ~Collides(old, WithCardKeys(cards))
BY DEF Collides, Park, WithCardKeys

\* Storing an ad keeps the rows as read, and the copies of every card that stays.
LEMMA StoreAdIs ==
    ASSUME Inv, NEW ad \in Ads, NEW snap \in Snaps, StoreAd(ad, snap)
    PROVE  /\ RowsInv'
           /\ \A a \in Ads : \A key \in DOMAIN rows'[a] :
                 rows'[a][key].keys = IF key \in DOMAIN rows[a] THEN rows[a][key].keys
                                      ELSE [kind \in Kinds |-> NoKey]
<1> DEFINE cards == CardsOf(snap)
           new == UpsertCreatives(rows[ad], cards)
<1>1. cards \in Seq(Shown)
  BY CardsOfIs
<1>2. RowsAre(ad, rows[ad])
  BY DEF Inv, RowsInv
<1> HIDE DEF cards
<1>3. /\ RowsAre(ad, new) /\ AsRead(new, cards)
      /\ \A key \in DOMAIN new : new[key].keys = IF key \in DOMAIN rows[ad] THEN rows[ad][key].keys
                                                 ELSE [kind \in Kinds |-> NoKey]
  BY <1>1, <1>2, UpsertIs
<1>4. rows' = [rows EXCEPT ![ad] = new] /\ shown' = [shown EXCEPT ![ad] = cards]
  BY <1>1, NoCollision DEF StoreAd, cards
<1> HIDE DEF new
<1>5. rows'[ad] = new /\ shown'[ad] = cards /\ \A a \in Ads \ {ad} : rows'[a] = rows[a] /\ shown'[a] = shown[a]
  BY <1>4 DEF Inv, RowsInv
<1>6. RowsInv'
  <2>1. rows' = [a \in Ads |-> rows'[a]] /\ shown' = [a \in Ads |-> shown'[a]]
    BY <1>4 DEF Inv, RowsInv
  <2>2. \A a \in Ads : RowsAre(a, rows'[a]) /\ AsRead(rows'[a], shown'[a])
    BY <1>3, <1>5 DEF Inv, RowsInv
  <2> QED
    BY <2>1, <2>2 DEF RowsInv
<1> QED
  BY <1>3, <1>5, <1>6

\* Storing an ad keeps the rows as read, and the keys they have.
LEMMA StoreAdStep ==
    ASSUME Inv, NEW ad \in Ads, NEW snap \in Snaps, StoreAd(ad, snap)
    PROVE  Inv'
<1>1. UNCHANGED <<pictures, objects, jobs, phase>> /\ DOMAIN jobs = {}
  BY DEF StoreAd, Inv, JobsInv
<1>2. PicturesInv'
  BY <1>1 DEF Inv, PicturesInv, PictureName
<1>3. JobsInv'
  BY <1>1 DEF Inv, JobsInv
<1>4. KeysNameObjects'
  <2> DEFINE names == DOMAIN objects \cup {NoKey}
  <2>1. ASSUME NEW a \in Ads, NEW key \in DOMAIN rows'[a], NEW kind \in Kinds
        PROVE  rows'[a][key].keys[kind] \in names
    BY StoreAdIs DEF Inv, KeysNameObjects
  <2> QED
    BY <1>1, <2>1 DEF Inv, KeysNameObjects
<1> QED
  BY <1>2, <1>3, <1>4, StoreAdIs DEF Inv

\* A profile picture that was read touches the row of its Page alone.
LEMMA UpdatePageProfileStep ==
    ASSUME Inv, NEW p \in FbPages, NEW file \in Pictures, UpdatePageProfile(p, file)
    PROVE  Inv'
<1>1. UNCHANGED <<rows, objects, shown, jobs, phase>> /\ DOMAIN jobs = {}
  BY DEF UpdatePageProfile, Inv, JobsInv
<1>2. /\ pictures' \in [FbPages -> Picture]
      /\ pictures'[p].file = file
      /\ pictures'[p].key = IF file = pictures[p].file THEN pictures[p].key ELSE NoKey
      /\ \A q \in FbPages \ {p} : pictures'[q] = pictures[q]
  <2> DEFINE new == [file |-> file, key |-> IF file = pictures[p].file THEN pictures[p].key ELSE NoKey]
  <2>1. new \in Picture
    BY DEF Inv, PicturesInv, Picture
  <2>2. pictures' = [pictures EXCEPT ![p] = new]
    BY DEF UpdatePageProfile
  <2>3. new.file = file /\ new.key = IF file = pictures[p].file THEN pictures[p].key ELSE NoKey
    OBVIOUS
  <2> HIDE DEF new
  <2> QED
    BY <2>1, <2>2, <2>3 DEF Inv, PicturesInv
<1>3. PicturesInv'
  BY <1>2 DEF Inv, PicturesInv, PictureName
<1>4. RowsInv' /\ JobsInv'
  BY <1>1 DEF Inv, RowsInv, JobsInv
<1>5. KeysNameObjects'
  BY <1>1, <1>2 DEF Inv, KeysNameObjects
<1> QED
  BY <1>3, <1>4, <1>5 DEF Inv

\* Mirroring begins with the rows that lack an object.
LEMMA StartMirroringStep ==
    ASSUME Inv, StartMirroring
    PROVE  Inv'
<1>1. UNCHANGED <<rows, pictures, objects, shown>> /\ phase' = "mirroring"
  BY DEF StartMirroring
<1>2. jobs' = [job \in PendingMedia |-> "queued"]
  BY DEF StartMirroring
<1>3. ASSUME NEW job \in PendingMedia PROVE JobIs(job)
  <2>1. CASE \E ad \in Ads : \E pending \in CardsPending(ad) : job = CardJob(ad, pending[1], pending[2])
    <3>0. PICK ad \in Ads : \E pending \in CardsPending(ad) : job = CardJob(ad, pending[1], pending[2])
      BY <2>1
    <3>1. PICK pending \in (DOMAIN rows[ad]) \X Kinds : job = CardJob(ad, pending[1], pending[2])
      BY <3>0 DEF CardsPending
    <3>2. pending[1] \in DOMAIN rows[ad] /\ pending[2] \in Kinds
      OBVIOUS
    <3> QED
      BY <3>1, <3>2 DEF JobIs
  <2>2. CASE \E p \in FbPages : job = PictureJob(p)
    BY <2>2 DEF JobIs
  <2> DEFINE OfCards(ad) == {CardJob(ad, pending[1], pending[2]) : pending \in CardsPending(ad)}
             OfPages == {PictureJob(p) : p \in {q \in FbPages : pictures[q].file # NoFile /\ pictures[q].key = NoKey}}
  <2>3. job \in OfPages => \E p \in FbPages : job = PictureJob(p)
    OBVIOUS
  <2>4. PendingMedia = (UNION {OfCards(ad) : ad \in Ads}) \cup OfPages
    BY DEF PendingMedia
  <2> HIDE DEF OfPages
  <2>5. job \in OfPages \/ \E ad \in Ads : job \in OfCards(ad)
    <3> DEFINE All == {OfCards(ad) : ad \in Ads}
    <3>1. \A S \in All : \E ad \in Ads : S = OfCards(ad)
      OBVIOUS
    <3>2. PendingMedia = (UNION All) \cup OfPages
      BY <2>4
    <3> HIDE DEF All, OfCards
    <3>3. CASE job \in UNION All
      <4>1. PICK S \in All : job \in S
        BY <3>3
      <4> QED
        BY <3>1, <4>1
    <3>4. job \in (UNION All) \cup OfPages
      BY <1>3, <3>2
    <3>5. job \in UNION All \/ job \in OfPages
      BY <3>4
    <3> QED
      BY <3>3, <3>5
  <2> QED
    BY <2>1, <2>2, <2>3, <2>5
<1>4. \A job : JobIs(job)' <=> JobIs(job)
  BY <1>1 DEF JobIs, CardJob, File, PictureJob, PictureName
<1>5. JobsInv'
  BY <1>1, <1>2, <1>3, <1>4 DEF JobsInv
<1>6. RowsInv' /\ PicturesInv'
  BY <1>1 DEF Inv, RowsInv, PicturesInv, PictureName
<1>7. KeysNameObjects'
  BY <1>1, <1>2 DEF Inv, KeysNameObjects
<1> QED
  BY <1>5, <1>6, <1>7 DEF Inv

\* Steps that only move jobs along.
LEMMA JobsMove ==
    ASSUME Inv, UNCHANGED <<rows, pictures, shown>>,
           \/ jobs' = <<>>
           \/ UNCHANGED jobs /\ phase' # "storing"
           \/ \E job \in DOMAIN jobs : \E state : Move(job, state) /\ phase' = phase
    PROVE  RowsInv' /\ PicturesInv' /\ JobsInv'
<1>1. RowsInv' /\ PicturesInv'
  BY DEF Inv, RowsInv, PicturesInv, PictureName
<1>2. \A job : JobIs(job)' <=> JobIs(job)
  BY DEF JobIs, CardJob, File, PictureJob, PictureName
<1>3. CASE jobs' = <<>>
  BY <1>1, <1>3 DEF JobsInv
<1>4. CASE UNCHANGED jobs /\ phase' # "storing"
  BY <1>1, <1>2, <1>4 DEF Inv, JobsInv
<1>5. CASE \E job \in DOMAIN jobs : \E state : Move(job, state) /\ phase' = phase
  BY <1>1, <1>2, <1>5 DEF Inv, JobsInv, Move
<1> QED
  BY <1>1, <1>3, <1>4, <1>5

\* Steps that change neither what is stored nor a key.
LEMMA Unwritten ==
    ASSUME Inv, UNCHANGED <<rows, pictures, objects, shown>>, RowsInv' /\ PicturesInv' /\ JobsInv',
           \A job \in DOMAIN jobs' : jobs'[job] \in {"stored", "written"}
                                     => job \in DOMAIN jobs /\ jobs[job] = jobs'[job]
    PROVE  Inv'
<1>1. KeysNameObjects'
  BY DEF Inv, KeysNameObjects
<1> QED
  BY <1>1 DEF Inv

\* A download touches its own job.
LEMMA DownloadStep ==
    ASSUME Inv, NEW job \in DOMAIN jobs, Download(job)
    PROVE  Inv'
<1>1. UNCHANGED <<rows, pictures, objects, shown, phase>>
  BY DEF Download
<1>2. Move(job, "unread") \/ Move(job, "fetched")
  BY DEF Download
<1>3. RowsInv' /\ PicturesInv' /\ JobsInv'
  BY <1>1, <1>2, JobsMove
<1>4. \A j \in DOMAIN jobs' : jobs'[j] \in {"stored", "written"} => j \in DOMAIN jobs /\ jobs[j] = jobs'[j]
  BY <1>2 DEF Move, Inv, JobsInv
<1> QED
  BY <1>1, <1>3, <1>4, Unwritten

\* An upload adds the object of its job, or nothing.
LEMMA UploadIs ==
    ASSUME Inv, NEW job \in DOMAIN jobs, Upload(job)
    PROVE  /\ UNCHANGED <<rows, pictures, shown, phase>>
           /\ \/ /\ Move(job, "stored")
                 /\ DOMAIN objects' = DOMAIN objects \cup {job.name}
                 /\ \A name \in DOMAIN objects' :
                       objects'[name] = IF name = job.name THEN job.file ELSE objects[name]
              \/ Move(job, "refused") /\ UNCHANGED objects
BY DEF Upload

\* An upload only adds an object, under the name its row is to get.
LEMMA UploadStep ==
    ASSUME Inv, NEW job \in DOMAIN jobs, Upload(job)
    PROVE  Inv'
<1>1. UNCHANGED <<rows, pictures, shown, phase>> /\ (Move(job, "stored") \/ Move(job, "refused"))
  BY UploadIs
<1>2. RowsInv' /\ PicturesInv' /\ JobsInv'
  BY <1>1, JobsMove
<1>3. DOMAIN objects \subseteq DOMAIN objects'
  BY UploadIs
<1>4. \A j \in DOMAIN jobs' : jobs'[j] \in {"stored", "written"} => j.name \in DOMAIN objects' \cup {NoKey}
  <2>1. CASE Move(job, "stored") /\ job.name \in DOMAIN objects'
    BY <1>3, <2>1 DEF Move, Inv, JobsInv, KeysNameObjects
  <2>2. CASE Move(job, "refused")
    BY <1>3, <2>2 DEF Move, Inv, JobsInv, KeysNameObjects
  <2> QED
    BY <2>1, <2>2, UploadIs
<1>5. KeysNameObjects'
  BY <1>1, <1>3, <1>4 DEF Inv, KeysNameObjects
<1> QED
  BY <1>2, <1>5 DEF Inv

\* A key that is written is the name of its job, in the row of its job.
LEMMA WriteKeyIs ==
    ASSUME Inv, NEW job \in DOMAIN jobs, WriteKey(job)
    PROVE  /\ UNCHANGED <<objects, shown, phase>> /\ Move(job, "written") /\ job.name \in DOMAIN objects \cup {NoKey}
           /\ \/ /\ \E ad \in Ads : \E key \in DOMAIN rows[ad] : \E kind \in Kinds :
                       /\ job = CardJob(ad, key, kind)
                       /\ rows' = [rows EXCEPT ![ad] = WithKey(rows[ad], key, kind, MediaName(ad, key, kind))]
                 /\ UNCHANGED pictures
              \/ /\ \E p \in FbPages :
                       /\ job = PictureJob(p)
                       /\ pictures' = [pictures EXCEPT ![p].key = IF @ = NoKey THEN PictureName(p) ELSE @]
                 /\ UNCHANGED rows
<1>1. UNCHANGED <<objects, shown, phase>> /\ Move(job, "written") /\ jobs[job] = "stored"
  BY DEF WriteKey, In
<1>2. job.name \in DOMAIN objects \cup {NoKey}
  BY <1>1 DEF Inv, KeysNameObjects
<1>3. ASSUME NEW ad \in Ads, NEW key \in DOMAIN rows[ad], NEW kind \in Kinds, job = CardJob(ad, key, kind)
      PROVE  /\ rows' = [rows EXCEPT ![ad] = WithKey(rows[ad], key, kind, MediaName(ad, key, kind))]
             /\ UNCHANGED pictures
  <2>1. /\ job.row[1] = ad /\ job.row[2] = key /\ job.column = kind /\ job.name = MediaName(ad, key, kind)
        /\ kind # "picture"
    BY <1>3 DEF CardJob, Kinds
  <2> QED
    BY <2>1 DEF WriteKey
<1>4. ASSUME NEW p \in FbPages, job = PictureJob(p)
      PROVE  /\ pictures' = [pictures EXCEPT ![p].key = IF @ = NoKey THEN PictureName(p) ELSE @]
             /\ UNCHANGED rows
  <2>1. job.row[1] = p /\ job.column = "picture" /\ job.name = PictureName(p)
    BY <1>4 DEF PictureJob
  <2> QED
    BY <2>1 DEF WriteKey
<1>5. JobIs(job)
  BY DEF Inv, JobsInv
<1> QED
  BY <1>1, <1>2, <1>3, <1>4, <1>5 DEF JobIs

\* The key that is written names an object that is there.
LEMMA WriteKeyStep ==
    ASSUME Inv, NEW job \in DOMAIN jobs, WriteKey(job)
    PROVE  Inv'
<1>1. /\ UNCHANGED <<objects, shown, phase>> /\ jobs' = [jobs EXCEPT ![job] = "written"]
      /\ job.name \in DOMAIN objects \cup {NoKey}
  BY WriteKeyIs DEF Move
<1>2. /\ DOMAIN jobs' = DOMAIN jobs /\ jobs' = [j \in DOMAIN jobs' |-> jobs'[j]]
      /\ phase' = "storing" => DOMAIN jobs' = {}
  BY <1>1 DEF Inv, JobsInv
<1>3. \A j \in DOMAIN jobs' : jobs'[j] \in {"stored", "written"} => j.name \in DOMAIN objects \cup {NoKey}
  BY <1>1 DEF Inv, JobsInv, KeysNameObjects
<1>4. ASSUME NEW ad \in Ads, NEW key \in DOMAIN rows[ad], NEW kind \in Kinds,
             job = CardJob(ad, key, kind), UNCHANGED pictures,
             rows' = [rows EXCEPT ![ad] = WithKey(rows[ad], key, kind, MediaName(ad, key, kind))]
      PROVE  Inv'
  <2> DEFINE new == WithKey(rows[ad], key, kind, MediaName(ad, key, kind))
  <2>1. rows' = [rows EXCEPT ![ad] = new]
    BY <1>4
  <2>2. RowsAre(ad, rows[ad]) /\ AsRead(rows[ad], shown[ad])
    BY DEF Inv, RowsInv
  <2>3. /\ RowsAre(ad, new) /\ DOMAIN new = DOMAIN rows[ad]
        /\ \A k \in DOMAIN new : new[k].index = rows[ad][k].index /\ new[k].card = rows[ad][k].card
        /\ \A k \in DOMAIN new : \A c \in Kinds :
              new[k].keys[c] = IF k = key /\ c = kind /\ rows[ad][k].keys[c] = NoKey
                               THEN MediaName(ad, key, kind) ELSE rows[ad][k].keys[c]
    BY <2>2, KeyIs
  <2> HIDE DEF new
  <2>4. rows'[ad] = new /\ \A a \in Ads \ {ad} : rows'[a] = rows[a]
    BY <2>1 DEF Inv, RowsInv
  <2>5. AsRead(new, shown[ad])
    BY <2>2, <2>3 DEF AsRead
  <2>6. RowsInv'
    <3>1. rows' = [a \in Ads |-> rows'[a]] /\ shown' = [a \in Ads |-> shown'[a]]
      BY <1>1, <2>1 DEF Inv, RowsInv
    <3>2. \A a \in Ads : RowsAre(a, rows'[a]) /\ AsRead(rows'[a], shown'[a])
      BY <1>1, <2>3, <2>4, <2>5 DEF Inv, RowsInv
    <3> QED
      BY <3>1, <3>2 DEF RowsInv
  <2>7. PicturesInv'
    BY <1>4 DEF Inv, PicturesInv, PictureName
  <2>8. ASSUME NEW a \in Ads, NEW k \in DOMAIN rows[a]
        PROVE  k \in DOMAIN rows'[a] /\ rows'[a][k].card = rows[a][k].card
    BY <2>3, <2>4
  <2>9. JobsInv'
    <3>1. ASSUME NEW j \in DOMAIN jobs PROVE JobIs(j)'
      <4>1. CASE \E a \in Ads : \E k \in DOMAIN rows[a] : \E c \in Kinds : j = CardJob(a, k, c)
        BY <2>8, <4>1 DEF JobIs, CardJob, File
      <4>2. CASE \E p \in FbPages : j = PictureJob(p)
        BY <1>4, <4>2 DEF JobIs, PictureJob, PictureName
      <4> QED
        BY <4>1, <4>2 DEF Inv, JobsInv, JobIs
    <3> QED
      BY <1>2, <3>1 DEF JobsInv
  <2>10. KeysNameObjects'
    <3>1. MediaName(ad, key, kind) \in DOMAIN objects \cup {NoKey}
      BY <1>1, <1>4 DEF CardJob
    <3>2. ASSUME NEW a \in Ads, NEW k \in DOMAIN rows'[a], NEW c \in Kinds
          PROVE  rows'[a][k].keys[c] \in DOMAIN objects \cup {NoKey}
      <4>1. CASE a = ad
        BY <2>3, <2>4, <3>1, <4>1 DEF Inv, KeysNameObjects
      <4>2. CASE a # ad
        BY <2>4, <4>2 DEF Inv, KeysNameObjects
      <4> QED
        BY <4>1, <4>2
    <3> QED
      BY <1>1, <1>3, <1>4, <3>2 DEF Inv, KeysNameObjects
  <2> QED
    BY <2>6, <2>7, <2>9, <2>10 DEF Inv
<1>5. ASSUME NEW p \in FbPages, job = PictureJob(p), UNCHANGED rows,
             pictures' = [pictures EXCEPT ![p].key = IF @ = NoKey THEN PictureName(p) ELSE @]
      PROVE  Inv'
  <2>1. /\ pictures' \in [FbPages -> Picture]
        /\ \A q \in FbPages : pictures'[q].file = pictures[q].file
        /\ \A q \in FbPages : pictures'[q].key = IF q = p /\ pictures[q].key = NoKey
                                               THEN PictureName(p) ELSE pictures[q].key
    BY <1>5 DEF Inv, PicturesInv, Picture, PictureName
  <2>2. PicturesInv'
    BY <2>1 DEF Inv, PicturesInv, PictureName
  <2>3. RowsInv'
    BY <1>1, <1>5 DEF Inv, RowsInv
  <2>4. JobsInv'
    <3>1. ASSUME NEW j \in DOMAIN jobs PROVE JobIs(j)'
      <4>1. CASE \E a \in Ads : \E k \in DOMAIN rows[a] : \E c \in Kinds : j = CardJob(a, k, c)
        BY <1>5, <4>1 DEF JobIs, CardJob, File
      <4>2. CASE \E q \in FbPages : j = PictureJob(q)
        BY <2>1, <4>2 DEF JobIs, PictureJob, PictureName
      <4> QED
        BY <4>1, <4>2 DEF Inv, JobsInv, JobIs
    <3> QED
      BY <1>2, <3>1 DEF JobsInv
  <2>5. KeysNameObjects'
    <3>1. PictureName(p) \in DOMAIN objects \cup {NoKey}
      BY <1>1, <1>5 DEF PictureJob
    <3>2. \A q \in FbPages : pictures'[q].key \in DOMAIN objects \cup {NoKey}
      BY <2>1, <3>1 DEF Inv, KeysNameObjects
    <3> QED
      BY <1>1, <1>3, <1>5, <3>2 DEF Inv, KeysNameObjects
  <2> QED
    BY <2>2, <2>3, <2>4, <2>5 DEF Inv
<1> QED
  BY <1>4, <1>5, WriteKeyIs

\* Steps of the pool's end, whatever way it comes.
LEMMA EndStep ==
    ASSUME Inv, WriteFails \/ FinishMirroring \/ Crash \/ UNCHANGED vars
    PROVE  Inv'
<1>1. UNCHANGED <<rows, pictures, objects, shown>>
  BY DEF WriteFails, FinishMirroring, Crash, vars
<1>2. CASE WriteFails
  <2>1. UNCHANGED jobs /\ phase' # "storing"
    BY <1>2 DEF WriteFails
  <2> QED
    BY <1>1, <2>1, JobsMove, Unwritten
<1>3. CASE FinishMirroring \/ Crash
  <2>1. jobs' = <<>>
    BY <1>3 DEF FinishMirroring, Crash
  <2> QED
    BY <1>1, <2>1, JobsMove, Unwritten
<1>4. CASE UNCHANGED vars
  BY <1>4 DEF vars, Inv, RowsInv, PicturesInv, PictureName, JobsInv, JobIs, CardJob, File, PictureJob,
              KeysNameObjects
<1> QED
  BY <1>2, <1>3, <1>4

\* Every step keeps rows, pictures, jobs and objects together.
LEMMA NextInv == Inv /\ [Next]_vars => Inv'
BY StoreAdStep, UpdatePageProfileStep, StartMirroringStep, DownloadStep, UploadStep, WriteKeyStep, EndStep
   DEF Next

\* The rows, the copies they name and the jobs under way stay as the code means them.
THEOREM InvHolds == Spec => []Inv
BY InitInv, NextInv, PTL DEF Spec

\* A key that is there names an object that is there (pending_media asks for what has no
\* key, so a key without its object would never be made good).
THEOREM CopiesAreThere == Spec => []KeysNameObjects
<1>1. Inv => KeysNameObjects
  BY DEF Inv
<1> QED
  BY <1>1, InvHolds, PTL

\* The rows of an ad are the cards last read, each once, at its place.
THEOREM RowsAreTheCards == Spec => []CardsAsRead
<1>1. ASSUME Inv PROVE CardsAsRead
  <2> SUFFICES ASSUME NEW ad \in Ads
               PROVE  /\ Cardinality(DOMAIN rows[ad]) = Len(shown[ad])
                      /\ \A i \in DOMAIN shown[ad] : \E key \in DOMAIN rows[ad] :
                            rows[ad][key].index = i - 1 /\ rows[ad][key].card = shown[ad][i]
    BY DEF CardsAsRead
  <2> DEFINE cards == shown[ad]
             some == rows[ad]
             keys == WithCardKeys(cards)
             n == Len(cards)
  <2>1. AsRead(some, cards) /\ cards \in Seq(Shown)
    BY <1>1 DEF Inv, RowsInv, AsRead
  <2>2. n \in Nat /\ DOMAIN cards = 1..n /\ DOMAIN keys = 1..n
    BY <2>1 DEF WithCardKeys
  <2>3. \A i, j \in 1..n : keys[i] = keys[j] => i = j
    BY <2>1, <2>2, KeysDiffer
  <2>4. /\ DOMAIN some = {keys[i] : i \in 1..n}
        /\ \A i \in 1..n : some[keys[i]].index = i - 1 /\ some[keys[i]].card = cards[i]
    BY <2>1, <2>2 DEF AsRead
  <2> HIDE DEF cards, some, keys, n
  <2>5. keys \in Bijection(1..n, DOMAIN some)
    <3> DEFINE f == [i \in 1..n |-> keys[i]]
    <3>1. keys = f
      <4>1. keys = [i \in DOMAIN keys |-> keys[i]]
        BY DEF keys, WithCardKeys
      <4> QED
        BY <2>2, <4>1
    <3>2. f \in [1..n -> DOMAIN some]
      BY <2>4
    <3> QED
      BY <2>3, <2>4, <3>1, <3>2 DEF Bijection, Injection, Surjection, IsInjective
  <2>6. IsFiniteSet(1..n) /\ Cardinality(1..n) = n
    <3>1. 1 \in Int /\ n \in Int /\ n \in Nat
      BY <2>2
    <3>2. IsFiniteSet(1..n) /\ Cardinality(1..n) = IF 1 > n THEN 0 ELSE n - 1 + 1
      BY ONLY <3>1, FS_Interval
    <3> QED
      BY <3>1, <3>2
  <2>7. Cardinality(DOMAIN some) = n
    BY <2>5, <2>6, FS_Bijection DEF ExistsBijection
  <2> QED
    BY <2>2, <2>4, <2>7 DEF cards, some, n
<1> QED
  BY <1>1, InvHolds, PTL

\* What a step does to the copies of the cards that stay.
LEMMA KeysStay ==
    ASSUME Inv, [Next]_vars, NEW ad \in Ads, NEW key \in DOMAIN rows[ad], key \in DOMAIN rows'[ad],
           NEW kind \in Kinds, rows[ad][key].keys[kind] # NoKey
    PROVE  rows'[ad][key].keys[kind] = rows[ad][key].keys[kind]
<1>1. CASE \E a \in Ads, snap \in Snaps : StoreAd(a, snap)
  BY <1>1, StoreAdIs
<1>2. CASE \E job \in DOMAIN jobs : WriteKey(job)
  <2>1. CASE UNCHANGED rows
    BY <2>1
  <2>2. ASSUME NEW a \in Ads, NEW k \in DOMAIN rows[a], NEW c \in Kinds,
               rows' = [rows EXCEPT ![a] = WithKey(rows[a], k, c, MediaName(a, k, c))]
        PROVE  rows'[ad][key].keys[kind] = rows[ad][key].keys[kind]
    <3> DEFINE new == WithKey(rows[a], k, c, MediaName(a, k, c))
    <3>1. RowsAre(a, rows[a])
      BY DEF Inv, RowsInv
    <3>2. \A x \in DOMAIN rows[a] : \A y \in Kinds :
            new[x].keys[y] = IF x = k /\ y = c /\ rows[a][x].keys[y] = NoKey
                             THEN MediaName(a, k, c) ELSE rows[a][x].keys[y]
      BY <3>1, KeyIs
    <3> HIDE DEF new
    <3>3. rows'[ad] = IF ad = a THEN new ELSE rows[ad]
      BY <2>2 DEF Inv, RowsInv, new
    <3> QED
      BY <3>2, <3>3
  <2> QED
    BY <1>2, <2>1, <2>2, WriteKeyIs
<1>3. CASE UNCHANGED rows
  BY <1>3
<1> QED
  BY <1>1, <1>2, <1>3 DEF Next, UpdatePageProfile, StartMirroring, Download, Upload, WriteFails,
     FinishMirroring, Crash, vars

\* A card that is shown again keeps its copies, wherever it is shown.
THEOREM CopiesStay == Spec => MirroredMediaStays
<1>1. ASSUME Inv, [Next]_vars
      PROVE  [\A ad \in Ads : \A key \in DOMAIN rows[ad] \cap DOMAIN rows'[ad] : \A kind \in Kinds :
                rows[ad][key].keys[kind] # NoKey
                => rows'[ad][key].keys[kind] = rows[ad][key].keys[kind]]_vars
  BY <1>1, KeysStay
<1> QED
  BY <1>1, InvHolds, PTL DEF Spec, MirroredMediaStays

---------------------------------------------------------------------------
(* Files, where a key tells them. *)

\* An object holds the file its name tells.
FilesInv ==
    /\ \A ad \in Ads, card \in Shown, n \in Nat, kind \in Kinds :
          LET name == MediaName(ad, <<CardKey(card), n>>, kind)
          IN  name \in DOMAIN objects => objects[name] = card[kind]
    /\ \A p \in FbPages, file \in Pictures \cup {NoFile} :
          LET name == <<"pages", p, file>>
          IN  name \in DOMAIN objects => objects[name] = file

\* Cards of one key are of the same files.
LEMMA SameFiles ==
    ASSUME KeysTellFiles, NEW c \in Shown, NEW d \in Shown, CardKey(c) = CardKey(d), NEW kind \in Kinds
    PROVE  c[kind] = d[kind]
<1>1. PICK s \in Snaps : \E i \in DOMAIN CardsOf(s) : c = CardsOf(s)[i]
  BY DEF Shown
<1>2. PICK t \in Snaps : \E j \in DOMAIN CardsOf(t) : d = CardsOf(t)[j]
  BY DEF Shown
<1> QED
  BY <1>1, <1>2 DEF KeysTellFiles

\* The name of a job tells its file.
LEMMA JobTellsFile ==
    ASSUME KeysTellFiles, Inv, NEW job \in DOMAIN jobs
    PROVE  /\ \A ad \in Ads, card \in Shown, n \in Nat, kind \in Kinds :
                 job.name = MediaName(ad, <<CardKey(card), n>>, kind) => job.file = card[kind]
           /\ \A p \in FbPages, file \in Pictures \cup {NoFile} :
                 job.name = <<"pages", p, file>> => job.file = file
<1>1. ASSUME NEW a \in Ads, NEW key \in DOMAIN rows[a], NEW c \in Kinds, job = CardJob(a, key, c)
      PROVE  /\ \A ad \in Ads, card \in Shown, n \in Nat, kind \in Kinds :
                   job.name = MediaName(ad, <<CardKey(card), n>>, kind) => job.file = card[kind]
             /\ \A p \in FbPages, file \in Pictures \cup {NoFile} : job.name # <<"pages", p, file>>
  <2>1. job.name = MediaName(a, key, c) /\ job.file = rows[a][key].card[c]
    BY <1>1 DEF CardJob, File
  <2>2. RowIs(a, key, rows[a][key])
    BY DEF Inv, RowsInv, RowsAre
  <2>3. rows[a][key].card \in Shown /\ \E n \in Nat : key = <<CardKey(rows[a][key].card), n>>
    BY <2>2 DEF RowIs
  <2>4. ASSUME NEW ad \in Ads, NEW card \in Shown, NEW n \in Nat, NEW kind \in Kinds,
               job.name = MediaName(ad, <<CardKey(card), n>>, kind)
        PROVE  job.file = card[kind]
    <3>1. key = <<CardKey(card), n>> /\ c = kind
      BY <2>1, <2>4 DEF MediaName, MediaPrefix
    <3>2. CardKey(rows[a][key].card) = CardKey(card)
      BY <2>3, <3>1
    <3> QED
      BY <2>1, <2>3, <3>1, <3>2, SameFiles
  <2>5. ASSUME NEW p, NEW file PROVE job.name # <<"pages", p, file>>
    BY <2>1 DEF MediaName
  <2> QED
    BY <2>4, <2>5
<1>2. ASSUME NEW q \in FbPages, job = PictureJob(q)
      PROVE  /\ \A ad \in Ads, card \in Shown, n \in Nat, kind \in Kinds :
                   job.name # MediaName(ad, <<CardKey(card), n>>, kind)
             /\ \A p \in FbPages, file \in Pictures \cup {NoFile} :
                   job.name = <<"pages", p, file>> => job.file = file
  <2>1. job.name = <<"pages", q, pictures[q].file>> /\ job.file = pictures[q].file
    BY <1>2 DEF PictureJob, PictureName
  <2>2. ASSUME NEW ad, NEW key, NEW kind PROVE job.name # MediaName(ad, key, kind)
    BY <2>1 DEF MediaName
  <2> QED
    BY <2>1, <2>2
<1>3. JobIs(job)
  BY DEF Inv, JobsInv
<1> QED
  BY <1>1, <1>2, <1>3 DEF JobIs

\* A step leaves the objects alone or uploads the file of one job.
LEMMA ObjectsStep ==
    ASSUME Inv, [Next]_vars
    PROVE  UNCHANGED objects \/ \E job \in DOMAIN jobs :
             /\ DOMAIN objects' = DOMAIN objects \cup {job.name}
             /\ \A name \in DOMAIN objects' :
                   objects'[name] = IF name = job.name THEN job.file ELSE objects[name]
<1>1. CASE \E job \in DOMAIN jobs : Upload(job)
  BY <1>1, UploadIs
<1> QED
  BY <1>1 DEF Next, StoreAd, UpdatePageProfile, StartMirroring, Download, WriteKey, WriteFails,
     FinishMirroring, Crash, vars

\* ... and the files the objects were made of, if a card's key tells its files.
LEMMA FilesStep ==
    ASSUME KeysTellFiles, Inv, FilesInv, [Next]_vars
    PROVE  FilesInv'
<1>1. CASE UNCHANGED objects
  BY <1>1 DEF FilesInv
<1>2. ASSUME NEW job \in DOMAIN jobs,
             DOMAIN objects' = DOMAIN objects \cup {job.name},
             \A name \in DOMAIN objects' :
                objects'[name] = IF name = job.name THEN job.file ELSE objects[name]
      PROVE  FilesInv'
  <2>1. ASSUME NEW ad \in Ads, NEW card \in Shown, NEW n \in Nat, NEW kind \in Kinds,
               MediaName(ad, <<CardKey(card), n>>, kind) \in DOMAIN objects'
        PROVE  objects'[MediaName(ad, <<CardKey(card), n>>, kind)] = card[kind]
    <3> DEFINE name == MediaName(ad, <<CardKey(card), n>>, kind)
    <3>1. name \in DOMAIN objects => objects[name] = card[kind]
      BY DEF FilesInv
    <3>2. name = job.name => job.file = card[kind]
      BY JobTellsFile
    <3> QED
      BY <1>2, <2>1, <3>1, <3>2
  <2>2. ASSUME NEW p \in FbPages, NEW file \in Pictures \cup {NoFile}, <<"pages", p, file>> \in DOMAIN objects'
        PROVE  objects'[<<"pages", p, file>>] = file
    <3> DEFINE name == <<"pages", p, file>>
    <3>1. name \in DOMAIN objects => objects[name] = file
      BY DEF FilesInv
    <3>2. name = job.name => job.file = file
      BY JobTellsFile
    <3> QED
      BY <1>2, <2>2, <3>1, <3>2
  <2> QED
    BY <2>1, <2>2 DEF FilesInv
<1> QED
  BY <1>1, <1>2, ObjectsStep

\* A card, and a Page, shows its own file or none, from storage or from Meta.
THEOREM OwnMedia ==
    ASSUME KeysTellFiles
    PROVE  Spec => []ShowsItsOwnMedia
<1>1. Init => FilesInv
  BY DEF Init, FilesInv
<1>2. Inv /\ FilesInv /\ [Next]_vars => FilesInv'
  BY FilesStep
<1>3. ASSUME Inv, FilesInv PROVE ShowsItsOwnMedia
  <2>1. ASSUME NEW ad \in Ads, NEW key \in DOMAIN rows[ad], NEW kind \in Kinds
        PROVE  LET file == File(rows[ad][key], kind)
               IN  Shows(file, rows[ad][key].keys[kind]) \subseteq {file, NoFile}
    <3> DEFINE row == rows[ad][key]
               name == row.keys[kind]
    <3>1. row.card \in Shown /\ name \in {NoKey, MediaName(ad, key, kind)}
          /\ \E n \in Nat : key = <<CardKey(row.card), n>>
      BY <1>3 DEF Inv, RowsInv, RowsAre, RowIs
    <3> HIDE DEF row
    <3>2. name # NoKey /\ name \in DOMAIN objects => objects[name] = row.card[kind]
      BY <1>3, <3>1 DEF FilesInv
    <3> HIDE DEF name
    <3>3. Shows(File(row, kind), name) \subseteq {File(row, kind), NoFile}
      BY <3>2 DEF Shows, Media, OpenObject, File
    <3> QED
      BY <3>3 DEF row, name
  <2>2. ASSUME NEW p \in FbPages
        PROVE  Shows(pictures[p].file, pictures[p].key) \subseteq {pictures[p].file, NoFile}
    <3>1. pictures[p].file \in Pictures \cup {NoFile} /\ pictures[p].key \in {NoKey, PictureName(p)}
      BY <1>3 DEF Inv, PicturesInv, Picture
    <3>2. pictures[p].key # NoKey /\ pictures[p].key \in DOMAIN objects
          => objects[pictures[p].key] = pictures[p].file
      BY <1>3, <3>1 DEF FilesInv, PictureName
    <3> QED
      BY <3>2 DEF Shows, Media, OpenObject
  <2> QED
    BY <2>1, <2>2 DEF ShowsItsOwnMedia
<1> QED
  BY <1>1, <1>2, <1>3, InvHolds, PTL DEF Spec

\* No object in storage is ever another file: /media may serve it as immutable.
THEOREM ObjectsStay ==
    ASSUME KeysTellFiles
    PROVE  Spec => ObjectsAreImmutable
<1>1. Init => FilesInv
  BY DEF Init, FilesInv
<1>2. Inv /\ FilesInv /\ [Next]_vars => FilesInv'
  BY FilesStep
<1>3. ASSUME Inv, FilesInv, [Next]_vars
      PROVE  [\A name \in DOMAIN objects : name \in DOMAIN objects' /\ objects'[name] = objects[name]]_vars
  <2>1. CASE UNCHANGED objects
    BY <2>1
  <2>2. ASSUME NEW job \in DOMAIN jobs,
               DOMAIN objects' = DOMAIN objects \cup {job.name},
               \A name \in DOMAIN objects' :
                  objects'[name] = IF name = job.name THEN job.file ELSE objects[name]
        PROVE  \A name \in DOMAIN objects : name \in DOMAIN objects' /\ objects'[name] = objects[name]
    <3>1. job.name \in DOMAIN objects => objects[job.name] = job.file
      <4>1. CASE \E ad \in Ads : \E key \in DOMAIN rows[ad] : \E kind \in Kinds : job = CardJob(ad, key, kind)
        <5>1. PICK ad \in Ads : \E key \in DOMAIN rows[ad] : \E kind \in Kinds : job = CardJob(ad, key, kind)
          BY <4>1
        <5>2. PICK key \in DOMAIN rows[ad], kind \in Kinds : job = CardJob(ad, key, kind)
          BY <5>1
        <5>3. job.name = MediaName(ad, key, kind) /\ job.file = rows[ad][key].card[kind]
          BY <5>2 DEF CardJob, File
        <5>4. rows[ad][key].card \in Shown /\ \E n \in Nat : key = <<CardKey(rows[ad][key].card), n>>
          BY <1>3 DEF Inv, RowsInv, RowsAre, RowIs
        <5> QED
          BY <1>3, <5>3, <5>4 DEF FilesInv
      <4>2. CASE \E p \in FbPages : job = PictureJob(p)
        <5>1. PICK p \in FbPages : job = PictureJob(p)
          BY <4>2
        <5>2. job.name = <<"pages", p, pictures[p].file>> /\ job.file = pictures[p].file
          BY <5>1 DEF PictureJob, PictureName
        <5>3. pictures[p].file \in Pictures \cup {NoFile}
          BY <1>3 DEF Inv, PicturesInv, Picture
        <5> QED
          BY <1>3, <5>2, <5>3 DEF FilesInv
      <4> QED
        BY <1>3, <4>1, <4>2 DEF Inv, JobsInv, JobIs
    <3> QED
      BY <2>2, <3>1
  <2> QED
    BY <1>3, <2>1, <2>2, ObjectsStep
<1> QED
  BY <1>1, <1>2, <1>3, InvHolds, PTL DEF Spec, ObjectsAreImmutable
=============================================================================
