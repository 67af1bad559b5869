---------------------------- MODULE MCOperator ----------------------------
(* Small instances of Operator for TLC. *)
EXTENDS Operator

W == [kind |-> "Workload", name |-> << "a" >>]
D == [kind |-> "Database", name |-> << "a" >>]

OnlyW == {W}
OnlyD == {D}
Both == {W, D}

\* Published, keeping data, with a value to mint; and private, autoscaled, asking
\* for one more value.
WorkloadSpecs(o) ==
    {[rev |-> 1, group |-> "entry", domain |-> "d", autoscale |-> FALSE,
      volumes |-> {<< "data" >>}, secrets |-> {"K"}],
     [rev |-> 2, group |-> "entry", domain |-> None, autoscale |-> TRUE,
      volumes |-> {}, secrets |-> {"K", "L"}]}

\* Where the two reconcilers meet, the Service of the same name is what matters.
BothSpecs(o) ==
    IF o.kind = "Workload"
    THEN {[rev |-> 1, group |-> None, domain |-> None, autoscale |-> FALSE,
           volumes |-> {}, secrets |-> {}]}
    ELSE {[engine |-> "postgres", image |-> 1, backup |-> TRUE, rehearse |-> r] : r \in BOOLEAN}
         \union {[engine |-> "postgres", image |-> 1, backup |-> FALSE, rehearse |-> FALSE]}

\* A rehearsal asked for, not asked for, and a Redis, which is never backed up.
DatabaseSpecs(o) ==
    {[engine |-> "postgres", image |-> 1, backup |-> TRUE, rehearse |-> TRUE],
     [engine |-> "postgres", image |-> 1, backup |-> TRUE, rehearse |-> FALSE],
     [engine |-> "redis", image |-> 1, backup |-> FALSE, rehearse |-> FALSE]}

WorkloadKinds ==
    << "Deployment", "Service", "HorizontalPodAutoscaler", "Ingress", "Certificate" >>
ServiceOnly == << "Service" >>
TamperService == {Key("Service", << "a" >>)}
=============================================================================
