-------------------------- MODULE MCCodexProposer --------------------------
(* Small instances of CodexProposer. *)
EXTENDS CodexProposer

Job(call, sub, mode, auth, keep, back) ==
    [call |-> call, sub |-> sub, mode |-> mode, auth |-> auth, keep |-> keep, back |-> back]

MCJobs == {Job("turn", "local", "websocket", "chatgpt", FALSE, FALSE),
           Job("turn", "docker", "stdio", "chatgpt", FALSE, FALSE),
           Job("turn", "daytona", "stdio", "chatgpt", FALSE, FALSE),
           Job("exec", "local", "stdio", "api_key", FALSE, FALSE),
           Job("exec", "daytona", "stdio", "chatgpt", TRUE, TRUE),
           Job("nano", "local", "stdio", "chatgpt", FALSE, FALSE),
           Job("chat", "local", "stdio", "api_key", FALSE, FALSE)}

\* Two candidates; t1 and t2 are train tasks, h1 is a heldout task.
Frame(c, stage, split, task, win) ==
    [cand |-> c, stage |-> stage, split |-> split, task |-> task, win |-> win]
AllFrames == {Frame("seed", "seed_full_train", "train", "t1", TRUE),
              Frame("seed", "heldout", "heldout", "h1", FALSE),
              Frame("c1", "candidate_minibatch", "train", "t2", FALSE),
              Frame("c1", "candidate_full_train", "train", "t1", TRUE),
              Frame("c1", "heldout", "heldout", "h1", TRUE)}
Scores == {{}, {[task |-> "t1", win |-> TRUE], [task |-> "t2", win |-> FALSE]}}

MCInputs ==
    {[pool |-> p, frames |-> f, parent |-> "seed",
      train |-> [seed |-> {}, c1 |-> s], mini |-> [seed |-> {}, c1 |-> m]] :
        p \in {{}, {"t1"}}, f \in SUBSET AllFrames, s \in Scores, m \in Scores}
=============================================================================
