---------------------------- MODULE MCCreatives ----------------------------
(* An ad whose cards move, repeat, come and go, a video card, one without   *)
(* files, and a Page with two pictures, one after the other.                *)
EXTENDS Creatives, TLC

Card(image, thumb, video) == [image |-> image, thumb |-> thumb, video |-> video, link |-> "a"]
Image == Card("i1", NoFile, NoFile)
Other == Card("i2", NoFile, NoFile)
Elsewhere == [Image EXCEPT !.link = "b"]
Video == Card(NoFile, "t1", "v1")
Carousel(cards) == [cards |-> cards, images |-> <<>>, videos |-> <<>>, link |-> "a", says |-> TRUE]
Bare == Carousel(<<>>)

MCSnaps == {
    Carousel(<<Image, Other>>), Carousel(<<Other, Image>>), Carousel(<<Image, Image>>),
    Carousel(<<Other, Card("i3", NoFile, NoFile)>>), Carousel(<<Elsewhere, Image>>),
    [Bare EXCEPT !.videos = <<[video |-> "v1", thumb |-> "t1"]>>],
    [Bare EXCEPT !.images = <<"i4", "i1">>], Bare, [Bare EXCEPT !.says = FALSE]}
MCReach == [f \in {"i1", "i2", "t1", "v1", "p1", "p2"} |-> "ok"]
           @@ [f \in {"i3", "i4"} |-> IF f = "i3" THEN "large" ELSE "away"]

\* These records keep what the theorems about files suppose of them.
ASSUME KeysTellFiles
=============================================================================
