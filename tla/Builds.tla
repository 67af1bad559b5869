------------------------------- MODULE Builds -------------------------------
(***************************************************************************)
(* From a push or a request to an image: the two endpoints that create a   *)
(* Build (server/builds.go, server/hooks.go), the reconciler that runs one *)
(* job per Build and writes down what it said                              *)
(* (internal/controller/build_controller.go), the two containers of that   *)
(* job (build_job.go), and the collection of finished records              *)
(* (build_gc.go), in one namespace whose quota counts Builds and Jobs      *)
(* (cluster/build-namespace.yaml).                                         *)
(*                                                                         *)
(* The reconciler has one worker.  It reads the pods through a cache that  *)
(* may be behind the Job.  An image's digest is the number of the Build    *)
(* that pushed it.                                                         *)
(***************************************************************************)
EXTENDS Naturals, Sequences, FiniteSets

CONSTANTS
    Triggers,           \* webhooks registered: [owner, repo, secret], in a sequence
    Deliveries,         \* what a forge may send: [repo, secret, branch, after]
    Requests,           \* what POST /builds may ask for: [owner, revision, method]
    KeptPerApp,         \* buildsKeptPerApp
    KeptInNamespace,    \* buildsKeptInNamespace
    BuildQuota,         \* count/builds.platform.damga.co
    JobQuota,           \* count/jobs.batch
    MaxBuilds,          \* bound: Builds ever created
    MaxNow,             \* bound: the clock, in the seconds a timestamp is kept in
    MaxDeaths,          \* bound: containers killed from outside, sweeps that fail
    None

ASSUME BuildsAssumption ==
    /\ KeptPerApp \in Nat \ {0} /\ KeptInNamespace \in Nat \ {0}
    /\ BuildQuota \in Nat /\ JobQuota \in Nat /\ MaxBuilds \in Nat /\ MaxNow \in Nat
    /\ DOMAIN Triggers = 1 .. Len(Triggers) /\ Len(Triggers) \in Nat
    /\ \A q \in Requests : q.method \in {"detect", "dockerfile", "buildpack"}

VARIABLES
    builds,     \* every Build ever created, in the order of creation
    jobs,       \* per Build, its Job, or None
    seen,       \* per Build, the termination messages in the operator's cache
    pushed,     \* the Builds whose image is in the registry
    sweeping,   \* the reconcile that wrote a verdict is about to collect
    hook,       \* the delivery being handled: None or [delivery, todo, made], todo
                \* the numbers of the triggers it has still to build for
    accepted,   \* history: the deliveries answered 202, with the Builds made
    now, deaths

vars == << builds, jobs, seen, pushed, sweeping, hook, accepted, now, deaths >>

Numbers == DOMAIN builds
Alive == {i \in Numbers : builds[i].alive}
Terminal(b) == b.phase \in {"Succeeded", "Failed"}

\* Termination messages: nothing yet or nothing said, not JSON, and a result.
Silent == [digest |-> None]
Result(d) == [digest |-> d]
Unread == << Silent, Silent >>

---------------------------------------------------------------------------
(* The endpoints                                                           *)

\* buildFor: a new object every time, also for a commit built before.
BuildFor(owner, revision, method) ==
    [owner |-> owner, revision |-> revision, method |-> method, dockerfile |-> FALSE,
     phase |-> "Pending", digest |-> 0, ended |-> 0, alive |-> TRUE]

HasRoom == Cardinality(Alive) < BuildQuota /\ Len(builds) < MaxBuilds

Create(b) ==
    /\ HasRoom
    /\ \E d \in IF b.method = "detect" THEN BOOLEAN ELSE {b.method = "dockerfile"} :
         builds' = Append(builds, [b EXCEPT !.dockerfile = d])
    /\ jobs' = Append(jobs, None)
    /\ seen' = Append(seen, Unread)

\* POST /builds; a full quota is a 503 and changes nothing.
CreateBuild(q) ==
    /\ Create(BuildFor(q.owner, q.revision, q.method))
    /\ UNCHANGED << pushed, sweeping, hook, accepted, now, deaths >>

\* mutant: the first trigger of the repository answers for all of them
VerifyGitHubFirst(d) ==
    {k \in {1} : Triggers[k].repo = d.repo /\ Triggers[k].secret = d.secret}

\* TriggersFor and verifyGitHub: every trigger whose secret signs the delivery.
VerifyGitHub(d) ==
    {k \in DOMAIN Triggers : Triggers[k].repo = d.repo /\ Triggers[k].secret = d.secret}

\* An unverified delivery, a deleted branch, another branch: nothing is made.
Builds(d) == VerifyGitHub(d) # {} /\ d.after # None /\ d.branch = "default"

\* A delivery arrives, once or again.
Hooks(d) ==
    /\ hook = None /\ Builds(d)
    /\ hook' = [delivery |-> d, todo |-> VerifyGitHub(d), made |-> {}]
    /\ UNCHANGED << builds, jobs, seen, pushed, sweeping, accepted, now, deaths >>

\* One Build per trigger, in order.
HookCreates ==
    /\ hook # None
    /\ \E k \in hook.todo :
         /\ \A l \in hook.todo : k <= l
         /\ Create(BuildFor(Triggers[k].owner, hook.delivery.after, "detect"))
         /\ hook' = [hook EXCEPT !.todo = @ \ {k}, !.made = @ \union {Len(builds) + 1}]
    /\ UNCHANGED << pushed, sweeping, accepted, now, deaths >>

\* A create that fails, a full quota or any other error, ends the delivery with
\* a 502; what was made stays made.
HookFails ==
    /\ hook # None /\ hook.todo # {}
    /\ hook' = None
    /\ UNCHANGED << builds, jobs, seen, pushed, sweeping, accepted, now, deaths >>

HookAnswers ==
    /\ hook # None /\ hook.todo = {}
    /\ accepted' = accepted \union {[delivery |-> hook.delivery, made |-> hook.made]}
    /\ hook' = None
    /\ UNCHANGED << builds, jobs, seen, pushed, sweeping, now, deaths >>

---------------------------------------------------------------------------
(* The job: one attempt, a clock of its own, and no end of the record      *)
(* while the Build is there.                                               *)

\* A Dockerfile build is one container; the others prepare in an init container
\* and finish in a second one.
DesiredBuildJob(b) ==
    [state |-> "active", at |-> IF b.method = "dockerfile" THEN "only" ELSE "prepare",
     messages |-> Unread]

\* What the clone shows, and buildScript writes where the next container reads.
Ran(b) == IF b.method # "detect" THEN b.method
          ELSE IF b.dockerfile THEN "dockerfile" ELSE "buildpack"

Running(i) == i \in Numbers /\ jobs[i] # None /\ jobs[i].state = "active"
Slot(i) == IF jobs[i].at = "prepare" THEN 1 ELSE 2

Says(i, message, state, at) ==
    jobs' = [jobs EXCEPT ![i] = [state |-> state, at |-> at,
                                 messages |-> [@.messages EXCEPT ![Slot(i)] = message]]]

JobStep == UNCHANGED << builds, seen, sweeping, hook, accepted, now >>

\* buildScript with a Dockerfile: the image is pushed and its digest said; or the
\* push stands and the digest could not be read.
BuildkitSide(i) ==
    /\ Running(i) /\ jobs[i].at \in {"prepare", "only"}
    /\ Ran(builds[i]) = "dockerfile" /\ builds[i].dockerfile
    /\ pushed' = pushed \union {i}
    /\ \/ Says(i, Result(i), IF jobs[i].at = "only" THEN "complete" ELSE "active", "main")
       \/ Says(i, Result(0), "failed", "main")
    /\ UNCHANGED deaths /\ JobStep

\* buildScript without one says nothing, so that the next container is heard.
Prepare(i) ==
    /\ Running(i) /\ jobs[i].at = "prepare" /\ Ran(builds[i]) = "buildpack"
    /\ Says(i, Silent, "active", "main")
    /\ UNCHANGED << pushed, deaths >> /\ JobStep

\* buildpackScript: quiet when the image is built already; the phases otherwise,
\* the last of which pushes.
LifecycleSide(i) ==
    /\ Running(i) /\ jobs[i].at = "main"
    /\ IF Ran(builds[i]) = "dockerfile"
       THEN Says(i, Silent, "complete", "main") /\ UNCHANGED pushed
       ELSE /\ pushed' = pushed \union {i}
            /\ Says(i, Result(i), "complete", "main") \/ Says(i, Result(0), "failed", "main")
    /\ UNCHANGED deaths /\ JobStep

\* fail: the tool's own words and no digest, before anything is pushed.
Fail(i) ==
    /\ Running(i)
    /\ Says(i, Result(0), "failed", jobs[i].at)
    /\ UNCHANGED << pushed, deaths >> /\ JobStep

\* Killed, with nothing said or half of it, and maybe after the push; or the
\* deadline, which takes the pod away with what it had said.
Die(i) ==
    /\ Running(i) /\ deaths < MaxDeaths
    /\ deaths' = deaths + 1
    /\ \/ Says(i, Silent, "failed", jobs[i].at)
       \/ jobs' = [jobs EXCEPT ![i] = [state |-> "failed", at |-> @.at, messages |-> Unread]]
    /\ pushed' \in {pushed, IF builds[i].dockerfile \/ jobs[i].at = "main"
                            THEN pushed \union {i} ELSE pushed}
    /\ JobStep

\* The operator's pod cache catches up; after the verdict nobody looks.
See(i) ==
    /\ i \in Numbers /\ jobs[i] # None /\ ~ Terminal(builds[i]) /\ seen[i] # jobs[i].messages
    /\ seen' = [seen EXCEPT ![i] = jobs[i].messages]
    /\ UNCHANGED << builds, jobs, pushed, sweeping, hook, accepted, now, deaths >>

---------------------------------------------------------------------------
(* The reconciler                                                          *)

Due(i) == i \in Alive /\ ~ Terminal(builds[i]) /\ ~ sweeping

\* No Job yet: it is created, unless the quota refuses it.
StartJob(i) ==
    /\ Due(i) /\ jobs[i] = None
    /\ Cardinality({j \in Numbers : jobs[j] # None}) < JobQuota
    /\ jobs' = [jobs EXCEPT ![i] = DesiredBuildJob(builds[i])]
    /\ builds' = [builds EXCEPT ![i].phase = "Running"]
    /\ UNCHANGED << seen, pushed, sweeping, hook, accepted, now, deaths >>

\* resultFromPods: the first message that parses, the init container's before
\* the main one's.
ResultFromPods(i) ==
    IF seen[i][1] # Silent THEN seen[i][1] ELSE seen[i][2]

\* mutant: a job that completed is a build that succeeded
VerdictOnJob(i) ==
    IF jobs[i].state = "complete"
    THEN [phase |-> "Succeeded", digest |-> ResultFromPods(i).digest]
    ELSE [phase |-> "Failed", digest |-> 0]

\* A success needs a digest; a job that ended well and said nothing failed.
Verdict(i) ==
    IF jobs[i].state = "complete" /\ ResultFromPods(i).digest \notin {None, 0}
    THEN [phase |-> "Succeeded", digest |-> ResultFromPods(i).digest]
    ELSE [phase |-> "Failed", digest |-> 0]

\* observe: the verdict is written once, in this second or a later one, then the
\* collection.  Nobody reads the pods after it.
Observe(i) ==
    /\ Due(i) /\ jobs[i] # None /\ jobs[i].state # "active"
    /\ now' \in now .. MaxNow
    /\ builds' = [builds EXCEPT ![i].phase = Verdict(i).phase,
                                ![i].digest = Verdict(i).digest, ![i].ended = now']
    /\ seen' = [seen EXCEPT ![i] = Unread]
    /\ sweeping' = TRUE
    /\ UNCHANGED << jobs, pushed, hook, accepted, deaths >>

Finished == {i \in Alive : Terminal(builds[i])}

\* mutant: counted from the oldest
OldestFirst(order) ==
    /\ {order[k] : k \in DOMAIN order} = Finished
    /\ \A k, l \in DOMAIN order : k < l => builds[order[k]].ended <= builds[order[l]].ended

\* By endedAt; the order of those that ended in one second is any.
NewestFirst(order) ==
    /\ {order[k] : k \in DOMAIN order} = Finished
    /\ \A k, l \in DOMAIN order : k < l => builds[order[k]].ended >= builds[order[l]].ended

Orders == {order \in [1 .. Cardinality(Finished) -> Finished] : NewestFirst(order)}

\* Past the limit of its app, or past the ceiling among the ones its app keeps.
Doomed(order) ==
    LET app(k) == {l \in 1 .. k : builds[order[l]].owner = builds[order[k]].owner}
        kept == {k \in DOMAIN order : Cardinality(app(k)) <= KeptPerApp}
        under(k) == Cardinality({l \in kept : l <= k}) <= KeptInNamespace
    IN  {order[k] : k \in {x \in DOMAIN order : x \notin kept \/ ~ under(x)}}

\* Newest doomed first; a delete that fails ends the sweep.  Its error comes back
\* to a Build that is finished, and is not looked at again.
CollectBuilds ==
    /\ sweeping
    /\ sweeping' = FALSE
    /\ \E order \in Orders :
         \/ /\ builds' = [i \in Numbers |-> [builds[i] EXCEPT !.alive = @ /\ i \notin Doomed(order)]]
            /\ UNCHANGED deaths
         \/ /\ deaths < MaxDeaths /\ deaths' = deaths + 1
            /\ \E n \in DOMAIN order :
                  builds' = [i \in Numbers |-> [builds[i] EXCEPT !.alive =
                               @ /\ i \notin Doomed(order) \intersect {order[k] : k \in 1 .. n - 1}]]
    /\ UNCHANGED << jobs, seen, pushed, hook, accepted, now >>

\* The garbage collector follows the owner reference.
Garbage(i) ==
    /\ i \in Numbers \ Alive /\ jobs[i] # None
    /\ jobs' = [jobs EXCEPT ![i] = None]
    /\ UNCHANGED << builds, seen, pushed, sweeping, hook, accepted, now, deaths >>

Init ==
    /\ builds = << >> /\ jobs = << >> /\ seen = << >>
    /\ pushed = {} /\ sweeping = FALSE /\ hook = None /\ accepted = {}
    /\ now = 1 /\ deaths = 0

Pod(i) == BuildkitSide(i) \/ Prepare(i) \/ LifecycleSide(i) \/ Fail(i) \/ Die(i)
Reconcile(i) == StartJob(i) \/ Observe(i)

Next ==
    \/ \E q \in Requests : CreateBuild(q)
    \/ \E d \in Deliveries : Hooks(d)
    \/ HookCreates \/ HookFails \/ HookAnswers
    \/ \E i \in 1 .. MaxBuilds : Pod(i) \/ See(i) \/ Reconcile(i) \/ Garbage(i)
    \/ CollectBuilds

\* A Build that is due is reconciled again and again; a container ends, by the
\* deadline if not by itself; the collections happen.
Fairness ==
    /\ \A i \in 1 .. MaxBuilds : WF_vars(Reconcile(i)) /\ WF_vars(Pod(i)) /\ WF_vars(Garbage(i))
    /\ WF_vars(CollectBuilds)

Spec == Init /\ [][Next]_vars /\ Fairness

---------------------------------------------------------------------------
(* Properties                                                              *)

\* A Build that is recorded as succeeded names an image its own pod pushed,
\* whichever container pushed it, however it ended and however far behind the
\* operator's view of the pod is (observe: "an empty digest in a Workload is an
\* image reference that resolves to nothing").
SucceededIsPushed ==
    \A i \in Numbers : builds[i].phase = "Succeeded" =>
        builds[i].digest = i /\ i \in pushed

\* As many finished builds of its app ended no earlier as an app keeps, or as
\* many of the namespace as the ceiling.
Later(i) == {j \in Finished \ {i} : builds[j].ended >= builds[i].ended}
Superseded(i) ==
    /\ i \in Finished
    /\ \/ Cardinality({j \in Later(i) : builds[j].owner = builds[i].owner}) >= KeptPerApp
       \/ Cardinality(Later(i)) >= KeptInNamespace

\* A record is collected only when it is finished and superseded (collectBuilds:
\* "the last ten attempts of an app are always there"; "a build that is running
\* is the one thing here that cannot be reconstructed").
CollectedIsSuperseded ==
    [][\A i \in Alive : i \notin {j \in DOMAIN builds' : builds'[j].alive} => Superseded(i)]_vars

\* A delivery answered 202 has started a build of its commit for every
\* environment whose secret signed it and for no other (verifyGitHub: "Every one
\* and not the first, because one repository legitimately feeds several
\* environments").
AcceptedDeliveryBuildsAll ==
    \A a \in accepted :
        /\ {builds[i].owner : i \in a.made} =
             {Triggers[k].owner : k \in {x \in DOMAIN Triggers :
                 Triggers[x].repo = a.delivery.repo /\ Triggers[x].secret = a.delivery.secret}}
        /\ \A i \in a.made : builds[i].revision = a.delivery.after

\* A build ends: it does not stay pending for ever (collectBuilds, of deleting a
\* Build: it "is also what frees the pod and job counts in the same quota"; the
\* ceiling leaves room so that a burst "still has somewhere to land").
EveryBuildEnds ==
    \A i \in 1 .. MaxBuilds :
        (i \in Numbers /\ ~ Terminal(builds[i])) ~> (i \in Numbers /\ Terminal(builds[i]))
============================================================================
