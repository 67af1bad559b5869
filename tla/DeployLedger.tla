--------------------------- MODULE DeployLedger ---------------------------
(***************************************************************************)
(* What the evidence of one app and environment promises its reader,       *)
(* whoever writes it: deploys are numbered from 1 without a gap, each      *)
(* opens pending, and each moves only along the edges below.  Running,     *)
(* failed and rejected are answers and stand; unknown is the platform      *)
(* admitting a gap, which a late observation may still close.              *)
(***************************************************************************)
EXTENDS Naturals, Sequences

VARIABLE ledger     \* the state of each deploy, by sequence number

Edges == {<<"pending", "syncing">>}
    \union ({"pending", "syncing"} \X {"applied", "running", "failed",
                                       "rejected", "unknown"})
    \union ({"applied"} \X {"running", "failed"})
    \union ({"unknown"} \X {"applied", "running", "rejected"})

Init == ledger = << >>

Open == ledger' = Append(ledger, "pending")

Move == \E k \in 1 .. Len(ledger) : \E s \in {e[2] : e \in Edges} :
            /\ <<ledger[k], s>> \in Edges
            /\ ledger' = [ledger EXCEPT ![k] = s]

Next == Open \/ Move

Spec == Init /\ [][Next]_ledger
=============================================================================
