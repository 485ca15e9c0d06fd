----------------------------- MODULE MCRunTables -----------------------------
(***************************************************************************)
(* Runs of one generation, small enough for every kill between two writes.  *)
(***************************************************************************)
EXTENDS RunTables

Register(c, p) == [kind |-> "register", cand |-> c, parent |-> p]
Propose(g)     == [kind |-> "propose", gen |-> g]
Boundary       == [kind |-> "boundary"]

Eval(c, stage, batches) ==
    [kind |-> "eval", cand |-> c, stage |-> stage, batches |-> batches, afford |-> Len(batches)]

\* Its budget ends after the first batch.
Cut(c, stage, batches) == [Eval(c, stage, batches) EXCEPT !.afford = 1]

Train   == <<{"t1"}, {"t2"}>>
Seeding == <<Register(Seed, None), Eval(Seed, "seed_full_train", Train)>>

Trial(fullTrain) ==
    <<Propose("g1"), Register("c1", Seed),
      Eval(Seed, "parent_minibatch_reference", <<{"t1"}>>),
      Eval("c1", "candidate_minibatch", <<{"t1"}>>), fullTrain, Boundary>>

Heldout == <<Eval(Seed, "heldout", <<{"h1"}>>), Eval("c1", "heldout", <<{"h1"}>>)>>

Whole    == Seeding \o Trial(Eval("c1", "candidate_full_train", Train)) \o Heldout
Deferred == Seeding \o Trial(Cut("c1", "candidate_full_train", Train)) \o SubSeq(Heldout, 1, 1)

\* Two generations whose reference rows overlap.
Overlapping ==
    <<Register(Seed, None), Eval(Seed, "seed_full_train", <<{"t1", "t2"}>>),
      Propose("g1"), Eval(Seed, "parent_minibatch_reference", <<{"t1", "t2"}>>), Boundary,
      Propose("g2"), Eval(Seed, "parent_minibatch_reference", <<{"t2", "t3"}>>), Boundary,
      Eval(Seed, "heldout", <<{"h1"}>>)>>

\* One proposal.
Proposing ==
    Seeding \o <<Propose("g1"), Boundary, Eval(Seed, "heldout", <<{"h1"}>>)>>

Scenario(name, script) ==
    [name |-> name, script |-> script, service |-> FALSE, cache |-> TRUE, crashes |-> 0,
     cancel |-> FALSE, turns |-> 2]

MCScenarios ==
    {[Scenario("loop", Whole)        EXCEPT !.crashes = 1],
     [Scenario("service", Whole)     EXCEPT !.crashes = 1, !.service = TRUE],
     [Scenario("cancel", Seeding)    EXCEPT !.crashes = 1, !.service = TRUE, !.cancel = TRUE],
     [Scenario("overlap", Overlapping) EXCEPT !.cache = FALSE],
     Scenario("deferred", Deferred),
     [Scenario("refused", Proposing) EXCEPT !.turns = 0],
     [Scenario("one turn", Proposing) EXCEPT !.turns = 1, !.crashes = 1],
     Scenario("no heldout", Seeding)}
=============================================================================
