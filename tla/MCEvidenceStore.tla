-------------------------- MODULE MCEvidenceStore --------------------------
(* Small instances of EvidenceStore for TLC. *)
EXTENDS EvidenceStore, TLC

CONSTANTS c1, c2

Callers == Permutations({c1, c2})

\* One app in one environment.
OneRef == {[tenant |-> <<"acme">>, app |-> <<"api">>, env |-> <<"prod">>]}

Move(from, to) == [from |-> from, to |-> to,
                   image |-> "keep", admission |-> "keep"]

\* What the git writer and the sweep ask for: nothing is merged.
WriterMoves == {Move({"pending"}, "syncing"), Move({"pending"}, "failed"),
                Move({"pending", "syncing"}, "unknown")}

\* What the deploy observer asks for, with what it learned.
Observed(from, to) == [from |-> from, to |-> to, image |-> "img",
                       admission |-> "allowed"]
ObserverMoves ==
    {Observed({"pending", "syncing", "unknown"}, "applied"),
     Observed({"pending", "syncing", "applied", "unknown"}, "running")}
=============================================================================
