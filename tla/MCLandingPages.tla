-------------------------- MODULE MCLandingPages --------------------------
(* One ad; links to two hosts, with and without tracking, a kept parameter  *)
(* and one that is no web page; and a title that the database refuses.      *)
EXTENDS LandingPages

Link(host, params) ==
    [web |-> TRUE, host |-> host, path |-> "/p", slash |-> FALSE, params |-> params, fragment |-> FALSE]

MCLinks == {Link("a", {"utm"}), Link("a", {"id"}), Link("b", {}),
            [Link("b", {}) EXCEPT !.slash = TRUE, !.fragment = TRUE],
            [Link("", {}) EXCEPT !.web = FALSE]}

Page(text, og, title) ==
    [answer |-> "page", text |-> text, og |-> og, twitter |-> None, title |-> title,
     description |-> None]
MCContents == {Page("t1", "A", "A | Brand"), Page("t1", None, "B"), Page("t2", None, None),
               Page(None, None, None), Page("t1", "NUL", None),
               [Page("t1", None, None) EXCEPT !.answer = "error"]}
=============================================================================
