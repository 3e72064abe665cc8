----------------------------- MODULE AdHistory -----------------------------
(***************************************************************************)
(* What the library promises of an ad, whatever is done to the Pages in    *)
(* the meantime: its status changes only when its Facebook Page is read,   *)
(* and an ad is taken for gone only when that Page was read to the end and *)
(* did not show it.                                                        *)
(***************************************************************************)
CONSTANTS Ads, FbPages, PageOf, Statuses, None

VARIABLES
    status,   \* of each ad: "unknown" to the library, or the last one read
    dated,    \* the ads whose start date is known
    reading,  \* the Facebook Page being read, or None
    seen      \* the ads it has shown so far

vars == <<status, dated, reading, seen>>

Init ==
    /\ status = [ad \in Ads |-> "unknown"]
    /\ dated = {}
    /\ reading = None
    /\ seen = {}

Begin(p) ==
    /\ reading = None
    /\ reading' = p
    /\ seen' = {}
    /\ UNCHANGED <<status, dated>>

See(ad) ==
    /\ reading = PageOf[ad]
    /\ \E s \in Statuses : status' = [status EXCEPT ![ad] = s]
    /\ dated' \in {dated, dated \cup {ad}}
    /\ seen' = seen \cup {ad}
    /\ UNCHANGED reading

Gone(ad) == PageOf[ad] = reading /\ status[ad] = "active" /\ ad \notin seen /\ ad \in dated

ReadToTheEnd ==
    /\ reading # None
    /\ status' = [ad \in Ads |-> IF Gone(ad) THEN "ended" ELSE status[ad]]
    /\ reading' = None
    /\ seen' = {}
    /\ UNCHANGED dated

BreakOff ==
    /\ reading # None
    /\ reading' = None
    /\ seen' = {}
    /\ UNCHANGED <<status, dated>>

Next ==
    \/ \E p \in FbPages : Begin(p)
    \/ \E ad \in Ads : See(ad)
    \/ ReadToTheEnd
    \/ BreakOff

Spec == Init /\ [][Next]_vars
=============================================================================
