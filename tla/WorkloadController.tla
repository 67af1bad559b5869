------------------------ MODULE WorkloadController ------------------------
(***************************************************************************)
(* The workload reconciler (internal/controller/workload_controller.go):   *)
(* one pass renders one Workload, an object at a time and in order, stops  *)
(* at the first error and ends by writing the status.  One worker runs one *)
(* pass at a time; the object of a pass is the copy of the Workload its    *)
(* first read found in the cache.                                          *)
(***************************************************************************)
EXTENDS ClusterObjects

CONSTANTS
    Rendered    \* the kinds a pass applies, in the order of reconcileOwned

VARIABLES
    certManager,    \* cert-manager is installed
    work            \* the pass under way: None or [o, cr, step, err]

workload == << certManager, work >>

Workloads == {o \in Owners : o.kind = "Workload"}

\* mutant: the Deployment before what its pods name
StepsOwnedFirst == Rendered \o << "claims", "generated", "status" >>

\* The claims and the minted values before the Deployment that names them, and
\* the status last, on an error too.
Steps == << "claims", "generated" >> \o Rendered \o << "status" >>
Doing(step) == work # None /\ Steps[work.step] = step
Me == Ref(work.o, work.cr.inc)

---------------------------------------------------------------------------
(* What a Workload renders: content, and the marks of other writers that   *)
(* this content takes over.                                                *)

\* rev is what a deploy or a restart changes: image, rollout id, restartedAt.
\* group is the catalogue entry's label, which the converter writes.  A workload
\* with volumes cannot autoscale.
WorkloadSpec ==
    {s \in [rev : Nat, group : {None, "entry"}, domain : {None, "d"}, autoscale : BOOLEAN,
             volumes : SUBSET {<< "data" >>}, secrets : SUBSET {"K", "L"}] :
        s.volumes = {} \/ ~ s.autoscale}

\* What reconcileOwned can render.
OwnedKinds ==
    {"ServiceAccount", "Deployment", "Service", "NetworkPolicy", "PodDisruptionBudget",
     "HorizontalPodAutoscaler", "Ingress", "Certificate"}

ASSUME WorkloadAssumption ==
    /\ \A o \in Workloads : SpecsOf(o) \subseteq WorkloadSpec
    /\ Rendered \in Seq(OwnedKinds)

Want(content, takes) == [content |-> content, takes |-> takes]

\* claimName joins the workload's name and the volume's.
ClaimKey(o, volume) == Key("PersistentVolumeClaim", o.name \o volume)
GeneratedKey(o) == Key("GeneratedSecret", o.name \o << "generated" >>)

LabelsFor(spec) == {spec.group} \ {None}

\* The pod template.  The Secret of the minted values is named when any is asked
\* for, the claims are those of the volumes.
PodTemplate(spec) ==
    [rev |-> spec.rev, labels |-> LabelsFor(spec),
     volumes |-> spec.volumes, generated |-> spec.secrets # {}]

\* Two pods cannot hold one claim: a workload that keeps data does not roll.
Strategy(spec) == IF spec.volumes = {} THEN "RollingUpdate" ELSE "Recreate"

\* Replicas stay the autoscaler's while there is one, except that a workload
\* that keeps data runs one replica whatever else it asks for.  An annotation
\* under the platform's prefix that the Workload does not carry is retracted.
DesiredDeployment(spec) ==
    Want([template |-> PodTemplate(spec), strategy |-> Strategy(spec)],
         {"prefixed"} \union
         (IF spec.autoscale /\ spec.volumes = {} THEN {} ELSE {"scaled"}))

DesiredServiceAccount(spec) == Want("no token", {})

\* The node port the server allocated stays with the port it was allocated for.
DesiredService(spec) == Want("port 80", {})

\* Who may connect: the ingress controller, and the siblings of the same entry.
EastWest(spec) == {"ingress"} \union LabelsFor(spec)
DesiredNetworkPolicy(spec) == Want([from |-> EastWest(spec), to |-> {"dns", "internet"}], {"admin"})

DesiredPodDisruptionBudget(spec) == Want("half", {})
DesiredHPA(spec) == IF spec.autoscale THEN Want("range", {}) ELSE None

\* The annotation that asks the ingress shim for a second certificate is taken off.
DesiredIngress(spec) ==
    IF spec.domain = None THEN None ELSE Want(spec.domain, {"shim", "prefixed"})
DesiredCertificate(spec) == IF spec.domain = None THEN None ELSE Want(spec.domain, {})

Desired(kind, spec) ==
    CASE kind = "ServiceAccount" -> DesiredServiceAccount(spec)
      [] kind = "Deployment" -> DesiredDeployment(spec)
      [] kind = "Service" -> DesiredService(spec)
      [] kind = "NetworkPolicy" -> DesiredNetworkPolicy(spec)
      [] kind = "PodDisruptionBudget" -> DesiredPodDisruptionBudget(spec)
      [] kind = "HorizontalPodAutoscaler" -> DesiredHPA(spec)
      [] kind = "Ingress" -> DesiredIngress(spec)
      [] kind = "Certificate" -> DesiredCertificate(spec)

---------------------------------------------------------------------------
(* One pass                                                                *)

GoOn == work' = [work EXCEPT !.step = @ + 1]
Stop(err) == work' = [work EXCEPT !.step = Len(Steps), !.err = err]

\* A Workload that is gone from the cache has been dealt with by the collector.
Reconcile(o) ==
    /\ work = None /\ o \in queue
    /\ queue' = queue \ {o}
    /\ work' = IF crs[o] = None THEN None
               ELSE [o |-> o, cr |-> crs[o], step |-> 1, err |-> "none"]
    /\ UNCHANGED << crs, objs, seen, made, spent, certManager >>

\* Created when the cache has none, left alone otherwise; AlreadyExists is fine.
ReconcileClaims ==
    /\ Doing("claims")
    /\ LET absent == {k \in {ClaimKey(work.o, v) : v \in work.cr.spec.volumes} :
                         Read(k) = None /\ k \notin DOMAIN objs}
       IN  Store([k \in DOMAIN objs \union absent |->
                    IF k \in absent THEN [ctrl |-> None, mine |-> "claim", others |-> {}]
                    ELSE objs[k]])
    /\ GoOn
    /\ UNCHANGED << crs, made, spent, certManager >>

\* A random value is one that is nobody's yet.
Random(kept) == CHOOSE n \in 1 .. 1 + Cardinality(kept) : n \notin kept

\* mutant: every pass mints
DesiredGeneratedAfresh(names, have) ==
    [n \in DOMAIN have \union names |-> Random({have[x] : x \in DOMAIN have})]

\* desiredGeneratedSecret: keeps every value it is handed, mints the missing.
DesiredGenerated(names, have) ==
    [n \in DOMAIN have \union names |->
        IF n \in DOMAIN have THEN have[n] ELSE Random({have[x] : x \in DOMAIN have})]

\* Nothing in the cache: create, and AlreadyExists is fine.  Otherwise an update
\* when a name is missing, which a stale copy loses.
ReconcileGeneratedSecret ==
    /\ Doing("generated")
    /\ LET k == GeneratedKey(work.o)
           names == work.cr.spec.secrets
           have == Read(k)
           want == DesiredGenerated(names, IF have = None THEN << >> ELSE have.mine)
       IN  \/ /\ names = {} \/ (have # None /\ DOMAIN want = DOMAIN have.mine)
              /\ GoOn /\ Store(objs)
           \/ /\ names # {} /\ have = None
              /\ Store(IF k \in DOMAIN objs THEN objs
                       ELSE With(objs, k, [ctrl |-> None, mine |-> want, others |-> {}]))
              /\ GoOn
           \/ /\ names # {} /\ have # None /\ DOMAIN want # DOMAIN have.mine
              /\ IF Lookup(objs, k) = have
                 THEN Store([objs EXCEPT ![k].mine = want]) /\ GoOn
                 ELSE Stop("RenderFailed") /\ Store(objs)
    /\ UNCHANGED << crs, made, spent, certManager >>

\* apply, for what the spec asks for; a cluster without cert-manager has no such
\* kind and the pass goes on.
Apply(kind) ==
    /\ Doing(kind)
    /\ LET k == Key(kind, work.o.name)
           want == Desired(kind, work.cr.spec)
       IN  /\ want # None
           /\ IF kind = "Certificate" /\ ~ certManager
              THEN Store(objs) /\ GoOn
              ELSE /\ Store(Written(Me, k, want))
                   /\ CASE Applied(Me, k, want) = "conflict" -> Stop("Conflict")
                        [] Applied(Me, k, want) = "refused" -> Stop("RenderFailed")
                        [] OTHER -> GoOn
    /\ UNCHANGED << crs, made, spent, certManager >>

\* deleteIfPresent, for what it no longer asks for.
DeleteIfPresent(kind) ==
    /\ Doing(kind) /\ Desired(kind, work.cr.spec) = None
    /\ Store(Deleted(Me, Key(kind, work.o.name)))
    /\ GoOn
    /\ UNCHANGED << crs, made, spent, certManager >>

ReadyReason(err, deployment) ==
    IF err # "none" THEN err
    ELSE IF deployment = None THEN "AwaitingDeployment"
    ELSE IF "ready" \notin deployment.others THEN "NoReadyReplicas" ELSE "Serving"

CertificateCondition(o, spec) ==
    IF spec.domain = None THEN None
    ELSE IF ~ certManager THEN "CertManagerAbsent"
    ELSE LET cert == Lookup(objs, Key("Certificate", o.name))
         IN  IF cert = None THEN "AwaitingCertificate"
             ELSE IF "issued" \in cert.others THEN "Issued" ELSE "Pending"

StatusOf(o, cr, err) ==
    [gen |-> cr.gen,
     ready |-> ReadyReason(err, Read(Key("Deployment", o.name))),
     tls |-> CertificateCondition(o, cr.spec)]

\* mutant: the error of the render is not returned once it is in the status
Settled(tls, domain, err, wrote) == wrote /\ (domain = None \/ tls = "Issued")

\* Whether the pass leaves the queue without the Workload: an error puts it
\* back, a certificate that is not issued yet puts it back after 30 seconds.
Done(tls, domain, err, wrote) ==
    wrote /\ err = "none" /\ (domain = None \/ tls = "Issued")

\* The status is written over the copy the pass has read, or not at all.
UpdateStatus ==
    /\ Doing("status")
    /\ LET status == StatusOf(work.o, work.cr, work.err)
           wrote == crs[work.o] = work.cr
       IN  /\ crs' = IF wrote THEN [crs EXCEPT ![work.o].status = status] ELSE crs
           /\ queue' = IF Done(status.tls, work.cr.spec.domain, work.err, wrote) /\ crs' = crs
                       THEN queue ELSE queue \union {work.o}
    /\ work' = None
    /\ UNCHANGED << objs, seen, made, spent, certManager >>

Kinds == {Rendered[i] : i \in DOMAIN Rendered}

\* Nothing but a certificate tells a cluster with cert-manager from one without.
WorkloadInit ==
    /\ certManager \in (IF "Certificate" \in Kinds THEN BOOLEAN ELSE {FALSE})
    /\ work = None

WorkloadPass ==
    \/ \E o \in Workloads : Reconcile(o)
    \/ ReconcileClaims
    \/ ReconcileGeneratedSecret
    \/ \E kind \in Kinds : Apply(kind) \/ DeleteIfPresent(kind)
    \/ UpdateStatus

---------------------------------------------------------------------------
(* The other writers of what a Workload renders                            *)

Mark(k, m) ==
    /\ k \in DOMAIN objs /\ m \notin objs[k].others
    /\ Store([objs EXCEPT ![k].others = @ \union {m}])
    /\ UNCHANGED << crs, made, spent, certManager, work >>

\* The deployment controller's revision annotation, and its pods becoming ready.
DeploymentController(o) ==
    \E m \in {"revision", "ready"} : Mark(Key("Deployment", o.name), m)

\* The autoscaler's replica count on the Deployment it targets.
Autoscaler(o) ==
    /\ Key("HorizontalPodAutoscaler", o.name) \in DOMAIN objs
    /\ Mark(Key("Deployment", o.name), "scaled")

CertManager(o) == certManager /\ Mark(Key("Certificate", o.name), "issued")

OtherWriters ==
    \E o \in Workloads : DeploymentController(o) \/ Autoscaler(o) \/ CertManager(o)
=============================================================================
