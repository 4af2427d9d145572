------------------------------- MODULE MCHttp -------------------------------
(* The requests of the runs of Http: with and without "Connection:         *)
(* keep-alive", with and without a body, with every kind of target, and    *)
(* one that is malformed.                                                  *)
EXTENDS Http

Plain(method, target, keep, body) ==
    [method |-> method, target |-> target, keep |-> keep, body |-> body]

AllRequests == {Plain("GET", <<"/", "page">>, TRUE, FALSE),
                Plain("GET", <<"/", "/">>, FALSE, FALSE),
                Plain("GET", <<"http://", "/">>, TRUE, TRUE),
                Plain("GET", <<"http://", "page">>, TRUE, FALSE),
                Plain("GET", <<"https://", "page">>, TRUE, FALSE),
                Plain("POST", <<"https://", "/">>, FALSE, TRUE),
                Plain("BREW", <<"/", "page">>, FALSE, FALSE)}

InPieces == [site : {"page"}, room : {6}, pieces : {TRUE}]

(* Requests in one piece, for every outcome of stat and every room; and    *)
(* requests in pieces for a page.                                          *)
AllModes == [site : {"page", "empty", "missing", "forbidden", "directory"},
             room : {2, 4, 6}, pieces : {FALSE}]
                \cup InPieces

Lingering == {Plain("GET", <<"/", "page">>, TRUE, FALSE)}
=============================================================================
