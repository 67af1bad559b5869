------------------------- MODULE MCDeployPipeline -------------------------
(* Small instances of DeployPipeline for TLC. *)
EXTENDS DeployPipeline, TLC

CONSTANTS w1, w2, n1, n2

Deploy(image) == [image |-> image, replicas |-> "keep"]
Scale == [image |-> "keep", replicas |-> "three"]
DeployScaled(image) == [image |-> image, replicas |-> "three"]

OneDeploy == {w1 :> Deploy("v1")}

\* A second request that is a first deploy too, with a replica count, or a
\* scale, which touches another field of the one manifest.
TwoRequests == {w1 :> Deploy("v1") @@ w2 :> r : r \in {DeployScaled("v2"), Scale}}
=============================================================================
