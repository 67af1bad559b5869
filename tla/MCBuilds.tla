------------------------------ MODULE MCBuilds ------------------------------
(***************************************************************************)
(* Small instances of Builds: two apps, one fed by a repository that feeds *)
(* both, and one commit.                                                   *)
(***************************************************************************)
EXTENDS Builds

MCTriggers == << [owner |-> "a", repo |-> "r", secret |-> "s"],
                 [owner |-> "b", repo |-> "r", secret |-> "s"],
                 [owner |-> "b", repo |-> "r", secret |-> "t"] >>
MCDeliveries ==
    {[repo |-> "r", secret |-> s, branch |-> b, after |-> "c1"] :
        s \in {"s", "forged"}, b \in {"default", "other"}}
    \union {[repo |-> "r", secret |-> "t", branch |-> "default", after |-> None]}
MCRequests == {[owner |-> "a", revision |-> "c1", method |-> "dockerfile"]}
NoDelivery == {}
============================================================================
