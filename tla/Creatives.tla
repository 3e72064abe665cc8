----------------------------- MODULE Creatives -----------------------------
(***************************************************************************)
(* The cards (creatives) of ads and their mirrored media: what a read of   *)
(* an ad does to its rows (normalize.py, persist.py), how the files are    *)
(* copied to storage afterwards by a pool of threads, and what /media      *)
(* shows of them (db/base.py, routes/media.py).                            *)
(*                                                                         *)
(* The worker first stores, then mirrors; Meta shows the cards in another  *)
(* order, and others, at each read.  An object in storage is named after   *)
(* the card and served as immutable.                                       *)
(***************************************************************************)
EXTENDS Integers, FiniteSets, Sequences

CONSTANTS
    Ads,        \* ads
    Snaps,      \* what Meta's records may show of them: cards, or images and videos
    FbPages,    \* Facebook Pages
    Pictures,   \* their profile pictures: files
    Reach,      \* of each file: "ok", or why it is not mirrored ("large", "away")
    Workers,    \* threads of the pool
    MaxFaults   \* bound: calls and statements that fail, workers that die

NoFile == ""

\* A card: its image, its video and the video's preview (files, each by its media id),
\* and its destination.
Cards == [image : STRING, video : STRING, thumb : STRING, link : STRING]

ASSUME CreativesAssumption ==
    /\ NoFile \notin DOMAIN Reach
    /\ \A snap \in Snaps :
         /\ snap.cards \in Seq(Cards) /\ snap.images \in Seq(STRING)
         /\ snap.videos \in Seq([video : STRING, thumb : STRING]) /\ snap.link \in STRING
         /\ snap.says \in BOOLEAN \* it has a body or a title
    /\ Workers \in Nat \ {0} /\ MaxFaults \in Nat

VARIABLES
    rows,      \* creatives of each ad, by card key
    pictures,  \* of each Page: the picture last read and the key of its copy
    objects,   \* storage: the file each object was copied from, by name
    shown,     \* of each ad, the cards last read (history)
    jobs,      \* of the pool: the state of each
    phase,     \* of the worker: "storing", "mirroring" or "stopping" (mirroring failed)
    faults     \* so far (bound)

vars == <<rows, pictures, objects, shown, jobs, phase, faults>>

NoKey == <<>>
Kinds == {"image", "thumb", "video"}

Fault ==
    /\ faults < MaxFaults
    /\ faults' = faults + 1

Init ==
    /\ rows = [ad \in Ads |-> <<>>]
    /\ pictures = [p \in FbPages |-> [file |-> NoFile, key |-> NoKey]]
    /\ objects = <<>>
    /\ shown = [ad \in Ads |-> <<>>]
    /\ jobs = <<>>
    /\ phase = "storing"
    /\ faults = 0

---------------------------------------------------------------------------
(* The cards of a record. *)

\* _single: of an ad without cards the first image and the first video are used; one with
\* neither has a card without files, if it says anything.
Single(snap) ==
    LET first(files, other) == IF files = <<>> THEN other ELSE files[1]
        video == first(snap.videos, [video |-> NoFile, thumb |-> NoFile])
    IN  IF snap.images = <<>> /\ snap.videos = <<>> /\ ~snap.says THEN <<>>
        ELSE << [image |-> first(snap.images, NoFile), video |-> video.video,
                 thumb |-> video.thumb, link |-> snap.link] >>

CardsOf(snap) == IF snap.cards # <<>> THEN snap.cards ELSE Single(snap)

\* card_key: the media file, the image's or else the preview's, and the destination.
CardKey(card) == <<IF card.image # NoFile THEN card.image
                   ELSE IF card.thumb # NoFile THEN card.thumb ELSE card.video, card.link>>

\* What card_key supposes of Meta's records: one key, one image, one video, one preview.
KeysTellFiles ==
    \A s, t \in Snaps : \A i \in DOMAIN CardsOf(s), j \in DOMAIN CardsOf(t) :
       CardKey(CardsOf(s)[i]) = CardKey(CardsOf(t)[j])
       => \A kind \in Kinds : CardsOf(s)[i][kind] = CardsOf(t)[j][kind]

\* _with_card_keys: a repeated key gets its occurrence number.
WithCardKeys(cards) ==
    [i \in DOMAIN cards |->
        <<CardKey(cards[i]),
          Cardinality({j \in 1..(i - 1) : CardKey(cards[j]) = CardKey(cards[i])})>>]

\* Mutation: the positions are left as they are while they are rewritten one by one.
MutPark(old) == [key \in DOMAIN old |-> old[key].index]

\* The positions are parked (at minus the row's id) first.
Park(old) == [key \in DOMAIN old |-> -1]

\* UNIQUE (ad_id, creative_index), checked at each statement: a row that is rewritten
\* later, or dropped at the end, still sits where a card is put.
Collides(old, keys) ==
    \E i \in DOMAIN keys, key \in DOMAIN old :
       /\ Park(old)[key] = i - 1
       /\ \A j \in 1..i : keys[j] # key

\* Mutation: the copies stay with the position, not with the card.
MutUpsertCreatives(old, cards) ==
    LET keys == WithCardKeys(cards)
        At(i) == {key \in DOMAIN old : old[key].index = i - 1}
        Row(i) == [index |-> i - 1, card |-> cards[i],
                   keys |-> IF At(i) # {} THEN old[CHOOSE key \in At(i) : TRUE].keys
                            ELSE [kind \in Kinds |-> NoKey]]
    IN  [key \in {keys[i] : i \in DOMAIN keys} |->
            Row(CHOOSE i \in DOMAIN keys : keys[i] = key)]

\* Mutation: a card keeps its copies only where it was.
MutKeepInPlace(old, cards) ==
    LET keys == WithCardKeys(cards)
        Row(i) == [index |-> i - 1, card |-> cards[i],
                   keys |-> IF keys[i] \in DOMAIN old /\ old[keys[i]].index = i - 1 THEN old[keys[i]].keys
                            ELSE [kind \in Kinds |-> NoKey]]
    IN  [key \in {keys[i] : i \in DOMAIN keys} |->
            Row(CHOOSE i \in DOMAIN keys : keys[i] = key)]

\* _upsert_creatives: matched by card key, which keeps the copies with their card; cards
\* that are not shown any more are dropped.
UpsertCreatives(old, cards) ==
    LET keys == WithCardKeys(cards)
        Row(i) == [index |-> i - 1, card |-> cards[i],
                   keys |-> IF keys[i] \in DOMAIN old THEN old[keys[i]].keys
                            ELSE [kind \in Kinds |-> NoKey]]
    IN  [key \in {keys[i] : i \in DOMAIN keys} |->
            Row(CHOOSE i \in DOMAIN keys : keys[i] = key)]

---------------------------------------------------------------------------
(* Storing. *)

\* The part of upsert_ad about cards, one transaction: a record without cards leaves
\* them, a refused statement undoes them all.
StoreAd(ad, snap) ==
    /\ phase = "storing"
    /\ LET cards == CardsOf(snap)
       IN  /\ cards # <<>>
           /\ rows' = IF Collides(rows[ad], WithCardKeys(cards)) THEN rows
                      ELSE [rows EXCEPT ![ad] = UpsertCreatives(@, cards)]
           /\ shown' = [shown EXCEPT ![ad] = cards]
    /\ UNCHANGED <<pictures, objects, jobs, phase, faults>>

\* update_page_profile: another picture drops the copy of the old one.
UpdatePageProfile(p, file) ==
    /\ phase = "storing"
    /\ pictures' = [pictures EXCEPT ![p] = [file |-> file,
                                            key |-> IF file = @.file THEN @.key ELSE NoKey]]
    /\ UNCHANGED <<rows, objects, shown, jobs, phase, faults>>

---------------------------------------------------------------------------
(* Mirroring. *)

\* _media_prefix: named after the card.
MediaPrefix(ad, key) == <<"ads", ad, key>>
MediaName(ad, key, kind) == <<MediaPrefix(ad, key), kind>>

\* Mutation: one name for whatever picture the Page has.
MutPictureName(p) == <<"pages", p, "picture">>

PictureName(p) == <<"pages", p, pictures[p].file>>

File(row, kind) == row.card[kind]

\* pending_media: what has a file and no copy.
CardsPending(ad) ==
    {pending \in (DOMAIN rows[ad]) \X Kinds :
        File(rows[ad][pending[1]], pending[2]) # NoFile /\ rows[ad][pending[1]].keys[pending[2]] = NoKey}

CardJob(ad, key, kind) ==
    [row |-> <<ad, key>>, column |-> kind, file |-> File(rows[ad][key], kind),
     name |-> MediaName(ad, key, kind)]

PictureJob(p) ==
    [row |-> <<p>>, column |-> "picture", file |-> pictures[p].file, name |-> PictureName(p)]

PendingMedia ==
    (UNION {{CardJob(ad, pending[1], pending[2]) : pending \in CardsPending(ad)} : ad \in Ads})
    \cup {PictureJob(p) : p \in {q \in FbPages : pictures[q].file # NoFile /\ pictures[q].key = NoKey}}

StartMirroring ==
    /\ phase = "storing"
    /\ PendingMedia # {}
    /\ jobs' = [job \in PendingMedia |-> "queued"]
    /\ phase' = "mirroring"
    /\ UNCHANGED <<rows, pictures, objects, shown, faults>>

Move(job, state) == jobs' = [jobs EXCEPT ![job] = state]
In(job, state) == job \in DOMAIN jobs /\ jobs[job] = state

\* _get_meta_media: followed by hand, as long as every hop is on Meta's CDN.
LeavesMeta(file) == Reach[file] = "away"

\* A thread takes a job and downloads its file, unless that is too large.
Download(job) ==
    /\ In(job, "queued")
    /\ Cardinality({j \in DOMAIN jobs : jobs[j] = "fetched"}) < Workers
    /\ \/ /\ Move(job, IF LeavesMeta(job.file) \/ Reach[job.file] = "large" THEN "unread" ELSE "fetched")
          /\ UNCHANGED faults
       \/ Fault /\ Move(job, "unread")
    /\ UNCHANGED <<rows, pictures, objects, shown, phase>>

\* It uploads it, over an object of that name if there is one, or storage refuses it.
Upload(job) ==
    /\ In(job, "fetched")
    /\ \/ /\ objects' = [name \in DOMAIN objects \cup {job.name} |->
                         IF name = job.name THEN job.file ELSE objects[name]]
          /\ Move(job, "stored")
          /\ UNCHANGED faults
       \/ Fault /\ Move(job, "refused") /\ UNCHANGED objects
    /\ UNCHANGED <<rows, pictures, shown, phase>>

\* Mutation: the key is written while the file is still being uploaded.
MutWriteEarly(job) ==
    /\ phase = "mirroring" /\ In(job, "fetched") /\ job.column # "picture"
    /\ rows' = [rows EXCEPT ![job.row[1]] = [@ EXCEPT ![job.row[2]].keys[job.column] = job.name]]
    /\ Move(job, "written")
    /\ UNCHANGED <<pictures, objects, shown, phase, faults>>

WithKey(some, key, kind, name) ==
    [some EXCEPT ![key].keys[kind] = IF @ = NoKey THEN name ELSE @]

\* The main thread writes the key of a finished job, where there is none.
WriteKey(job) ==
    /\ phase = "mirroring" /\ In(job, "stored")
    /\ IF job.column = "picture"
       THEN /\ pictures' = [pictures EXCEPT ![job.row[1]].key = IF @ = NoKey THEN job.name ELSE @]
            /\ UNCHANGED rows
       ELSE /\ rows' = [rows EXCEPT ![job.row[1]] = WithKey(@, job.row[2], job.column, job.name)]
            /\ UNCHANGED pictures
    /\ Move(job, "written")
    /\ UNCHANGED <<objects, shown, phase, faults>>

\* That statement fails, or the heartbeat after it: the main thread leaves the loop, and
\* waits for the threads to finish.
WriteFails ==
    /\ phase = "mirroring" /\ \E job \in DOMAIN jobs : jobs[job] \notin {"queued", "fetched"}
    /\ Fault
    /\ phase' = "stopping"
    /\ UNCHANGED <<rows, pictures, objects, shown, jobs>>

\* Every job is finished (and, unless the loop was left, written): the next run stores again.
FinishMirroring ==
    /\ phase # "storing"
    /\ \A job \in DOMAIN jobs :
          /\ jobs[job] \notin {"queued", "fetched"}
          /\ jobs[job] = "stored" => phase = "stopping"
    /\ jobs' = <<>>
    /\ phase' = "storing"
    /\ UNCHANGED <<rows, pictures, objects, shown, faults>>

Crash ==
    /\ phase # "storing"
    /\ Fault
    /\ jobs' = <<>>
    /\ phase' = "storing"
    /\ UNCHANGED <<rows, pictures, objects, shown>>

---------------------------------------------------------------------------
(* Showing. *)

\* open_object, where storage answers and has the object.
OpenObject(key) == IF key \in DOMAIN objects THEN {objects[key]} ELSE {}

\* /media: the object; without it (or without storage) the file on Meta's CDN, else
\* nothing.
Media(key, fallback) == IF OpenObject(key) # {} THEN OpenObject(key) \cup {fallback, NoFile}
                        ELSE {fallback, NoFile}

\* resolve_media_url: the copy, else Meta's own address.
Shows(file, key) == IF key # NoKey THEN Media(key, file) ELSE {file, NoFile}

---------------------------------------------------------------------------
Next ==
    \/ \E ad \in Ads, snap \in Snaps : StoreAd(ad, snap)
    \/ \E p \in FbPages, file \in Pictures : UpdatePageProfile(p, file)
    \/ StartMirroring
    \/ \E job \in DOMAIN jobs : Download(job) \/ Upload(job) \/ WriteKey(job)
    \/ WriteFails \/ FinishMirroring \/ Crash

Spec == Init /\ [][Next]_vars

---------------------------------------------------------------------------
(* Properties. *)

\* A key is written after its object, by another thread, and cards move or leave between:
\* one that is there names an object in storage, over uploads that are refused, keys that
\* could not be written and workers that die; and so does a job that counts as stored.
KeysNameObjects ==
    LET names == DOMAIN objects \cup {NoKey}
    IN  /\ \A ad \in Ads : \A key \in DOMAIN rows[ad] : \A kind \in Kinds :
              rows[ad][key].keys[kind] \in names
        /\ \A p \in FbPages : pictures[p].key \in names
        /\ \A job \in DOMAIN jobs : jobs[job] \in {"stored", "written"} => job.name \in names

\* Whatever was stored before, in whatever order: the rows of an ad are the cards last
\* read, each once, at its place ("Meta reorders cards between reads").
CardsAsRead ==
    \A ad \in Ads :
       /\ Cardinality(DOMAIN rows[ad]) = Len(shown[ad])
       /\ \A i \in DOMAIN shown[ad] : \E key \in DOMAIN rows[ad] :
             rows[ad][key].index = i - 1 /\ rows[ad][key].card = shown[ad][i]

\* A card, and a Page, shows its own file or none, from storage or from Meta, over cards
\* that move, come and go, and copies that were broken off ("a new card at a reused
\* position must not overwrite another's media").
ShowsItsOwnMedia ==
    /\ \A ad \in Ads : \A key \in DOMAIN rows[ad] : \A kind \in Kinds :
          LET file == File(rows[ad][key], kind)
          IN  Shows(file, rows[ad][key].keys[kind]) \subseteq {file, NoFile}
    /\ \A p \in FbPages : Shows(pictures[p].file, pictures[p].key) \subseteq {pictures[p].file, NoFile}

\* A card that is shown again keeps its copies, wherever it is shown.
MirroredMediaStays ==
    [][\A ad \in Ads : \A key \in DOMAIN rows[ad] \cap DOMAIN rows'[ad] : \A kind \in Kinds :
          rows[ad][key].keys[kind] # NoKey
          => rows'[ad][key].keys[kind] = rows[ad][key].keys[kind]]_vars

\* "/media serves objects as immutable": no object ever holds another file.
ObjectsAreImmutable ==
    [][\A name \in DOMAIN objects : name \in DOMAIN objects' /\ objects'[name] = objects[name]]_vars
=============================================================================
