--------------------------- MODULE MCMarlPromptopt ---------------------------
(* Small instances of MarlPromptopt for TLC. *)
EXTENDS MarlPromptopt, TLC

R(s, r, c, x) == [success |-> s, reward |-> r, coord |-> 1, cost |-> c, extra |-> x, honest |-> TRUE]
A(p, o) == [primary |-> p, other |-> o]

\* A task that succeeds because of its channel or roles, one that succeeds at a
\* higher cost, and one that fails.
MCAnswers ==
    [coma   |-> {A(R(1, 1, 1, NoMetric), R(0, 0, 1, NoMetric)),
                 A(R(1, 1, 2, NoMetric), R(1, 1, 2, NoMetric)),
                 A(R(0, 0, 1, NoMetric), R(0, 0, 1, NoMetric))},
     ic3net |-> {A(R(1, 1, 1, 1), R(0, 0, 1, 0)),
                 A(R(1, 1, 1, NoMetric), R(1, 1, 1, NoMetric)),
                 A(R(0, 0, 2, 1), R(0, 0, 2, 1))},
     rode   |-> {A(R(1, 1, 1, NoMetric), R(0, 0, 1, NoMetric)),
                 A(R(1, 1, 2, 1), R(0, 0, 2, NoMetric)),
                 A(R(1, 1, 1, 0), R(0, 0, 1, 0))},
     imac   |-> {A(R(1, 1, 1, NoMetric), R(1, 1, 1, NoMetric)),
                 A(R(1, 1, 0, 1), R(1, 1, 0, 1)),
                 A(R(1, 1, 2, 0), R(1, 1, 2, 0))}]

MCRowArms == [t1 |-> {"role_a"}, t2 |-> {"role_a", "role_b"}, s1 |-> {"role_b"}, h1 |-> {"role_a"}]

Base(v, limit) ==
    [variant |-> v, train |-> <<"t1", "t2", "s1">>, selection |-> <<"s1">>, heldout |-> <<"h1">>,
     minibatch |-> 1, generations |-> 2, minRows |-> 1, perGeneration |-> 1,
     trainLimit |-> limit, heldoutLimit |-> 4,
     disjoint |-> TRUE, exact |-> TRUE, compareSeed |-> TRUE]

\* Search with a budget that runs out, and one whose end cuts a row's arms.
SearchConfigs ==
    {Base("coma", 12), Base("ic3net", 9), Base("rode", 10), Base("imac", 7)}

\* Configurations that are refused, or fail late.
EdgeConfigs ==
    LET b == [Base("imac", 4) EXCEPT !.generations = 1]
    IN  {[b EXCEPT !.selection = <<>>],
         [b EXCEPT !.selection = <<"h1">>],
         [b EXCEPT !.heldout = <<"h1", "h1">>],
         [b EXCEPT !.heldoutLimit = 3], [b EXCEPT !.trainLimit = 0],
         [b EXCEPT !.heldoutLimit = 3, !.compareSeed = FALSE],
         [b EXCEPT !.heldoutLimit = 3, !.compareSeed = FALSE, !.exact = FALSE]}

MCConfigs == SearchConfigs \cup EdgeConfigs
MCProposals == {<<1>>, <<2, 1>>, <<0>>}
=============================================================================
