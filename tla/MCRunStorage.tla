---------------------------- MODULE MCRunStorage ----------------------------
(* RunStorage for TLC: who is there in each scenario.  A reader and an operator, with a     *)
(* cache that answers nothing; an operator and a cache; other runs and the clock.          *)
EXTENDS RunStorage

MCRequests == [body : {1}, volatile : {1, 2}]

Scenario(r, o, n, m) ==
    [reader |-> r, operator |-> o, neighbour |-> n, mode |-> m]

MCScenarios == {Scenario("websocket", TRUE, FALSE, "readonly"), Scenario("poll", TRUE, FALSE, "readonly"),
                Scenario("none", TRUE, FALSE, "readwrite"), Scenario("none", FALSE, TRUE, "readwrite"),
                Scenario("none", FALSE, FALSE, "off")}
=============================================================================
