--------------------------- MODULE MCTestGeneration ---------------------------
(***************************************************************************)
(* Small instances of TestGeneration: one requirement q1 with the          *)
(* reference ref1, one rule r1 that demands 404 of GET /orders/x, in its   *)
(* second version 410, and documents that follow, cite, break or miss them.*)
(***************************************************************************)
EXTENDS TestGeneration, TLC

CONSTANTS g1, g2, q1, ref1, other, r1

MCRuleText ==
    r1 :> [v \in 1..2 |->
              [when |-> [methods |-> {"GET"}, scenario |-> "any", path |-> <<"orders", "*">>],
               kind |-> "expect-status", expect |-> IF v = 1 THEN 404 ELSE 410]]

Case(id, status, links, cites) ==
    [id |-> id, method |-> "GET", scenario |-> "not-found", path |-> <<"orders", "x">>,
     status |-> status, empty |-> FALSE, links |-> links, cites |-> cites]
Document(cases) ==
    [cases |-> cases, caseIds |-> <<>>, origin |-> "none", incomplete |-> FALSE,
     reqs |-> {}, rules |-> {}]

Follows == Document(<<Case(0, 404, {q1}, {})>>)
Follows2 == Document(<<Case(0, 410, {ref1}, {}), Case(1, 410, {q1}, {<<r1, 2>>})>>)
Breaks == Document(<<Case(1, 200, {q1}, {<<r1, 1>>})>>)
Unlinked == Document(<<Case(1, 404, {other}, {})>>)
Malformed == Document(<<Case(1, 99, {q1}, {})>>)
OwnInputs == [Document(<<Case(1, 404, {}, {})>>) EXCEPT !.reqs = {<<q1, 1>>}, !.rules = {<<r1, 2>>}]
NoCases == [Document(<<>>) EXCEPT !.caseIds = <<1>>]

MCReference == q1 :> ref1
MCMaxVersion == q1 :> 1 @@ r1 :> 2
MCAnswers == {Follows, Follows2, Breaks, Malformed}
MCDocuments == {Unlinked, OwnInputs, NoCases, Malformed}
=============================================================================
