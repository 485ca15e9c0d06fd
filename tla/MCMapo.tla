------------------------------ MODULE MCMapo ------------------------------
(* Small instances of Mapo.                                                *)
EXTENDS Mapo

Good == [success |-> 1, reward |-> 2, delivered |-> 1, chars |-> 3]
Fair == [success |-> 1, reward |-> 1, delivered |-> 0, chars |-> 1]
Poor == [success |-> 0, reward |-> 1, delivered |-> 2, chars |-> 2]

Plain ==
    [dry |-> FALSE, attempts |-> 1, faults |-> FALSE,
     answers |-> {<<Good>>, <<Poor, Fair>>, <<Fair>>},
     train |-> <<1>>, selSeeds |-> <<>>, selTasks |-> <<>>, heldout |-> <<2, 3>>,
     gens |-> 2, proposals |-> 1, trainReps |-> 2, selReps |-> 1, topK |-> 1,
     branch |-> FALSE, keep |-> 1, minStep |-> 2, strategy |-> "reward", minMessages |-> 0,
     heldoutReps |-> 1, minPairs |-> 2, minDelta |-> 50, campaign |-> "none"]

Selecting == [Plain EXCEPT !.selSeeds = <<4>>, !.proposals = 2, !.gens = 1, !.topK = 2, !.minMessages = 1]

\* A frozen campaign at its real size, and one that asks for fewer pairs than its adapter.
Campaign ==
    [Plain EXCEPT !.campaign = "craftax", !.answers = {<<Poor, Fair>>},
                  !.gens = 4, !.proposals = 4, !.topK = 3, !.trainReps = 3,
                  !.train = [i \in 1 .. 8 |-> i], !.selSeeds = [i \in 1 .. 4 |-> 10 + i],
                  !.heldout = [i \in 1 .. 20 |-> 20 + i], !.heldoutReps = 20, !.minPairs = 20]

MCConfigs ==
    {Plain,
     [Plain EXCEPT !.attempts = 2, !.faults = TRUE, !.gens = 1, !.heldout = <<2>>,
                   !.answers = {<<Good>>, <<Poor, Fair>>}],
     Selecting,
     [Selecting EXCEPT !.gens = 2, !.proposals = 1, !.topK = 1, !.minMessages = 0,
                       !.answers = {<<Good>>, <<Poor, Fair>>}],
     [Selecting EXCEPT !.selSeeds = <<>>, !.selTasks = <<14, 25>>, !.branch = TRUE, !.proposals = 1],
     [Selecting EXCEPT !.branch = TRUE, !.keep = 2, !.strategy = "early", !.topK = 1],
     [Selecting EXCEPT !.selSeeds = <<2>>],
     [Plain EXCEPT !.heldout = <<2, 2>>, !.gens = 1],
     [Plain EXCEPT !.heldoutReps = 0, !.gens = 1],
     Campaign,
     [Campaign EXCEPT !.minPairs = 19]}

Checkpoint(cp, at, reward, delivered, chars) ==
    [cp |-> cp, at |-> at, reward |-> reward, delivered |-> delivered, chars |-> chars]

MCSchedules ==
    {<<Checkpoint(1, 1, 1, 0, 0), Checkpoint(2, 2, 0, 1, 1), Checkpoint(3, 3, 1, 2, 3)>>,
     <<Checkpoint(1, 1, 1, 0, 0)>>}
===========================================================================
