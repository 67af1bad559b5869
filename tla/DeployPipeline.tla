-------------------------- MODULE DeployPipeline --------------------------
(***************************************************************************)
(* One app in one environment, from the request to the answer: the git     *)
(* writer opens an evidence record and pushes a commit (internal/gitwrite, *)
(* server/deploy.go, server/lifecycle.go); Argo CD and the operator apply  *)
(* it; the deploy observer moves the record as the Deployment is seen      *)
(* (internal/deploywatch/deploywatch.go); the sweep gives up on records    *)
(* nothing came back about (internal/deploywatch/sweep.go).                *)
(*                                                                         *)
(* The writers are HTTP requests on any replica of the control plane.  The *)
(* observer and the sweep run on the leader; the write an old leader had   *)
(* under way may still land after a handover.                              *)
(*                                                                         *)
(* A store call is one step, which is what EvidenceStore shows of it, and  *)
(* a record's ID is its sequence number.                                   *)
(***************************************************************************)
EXTENDS EvidenceRecords, FiniteSets

CONSTANTS
    Writers,     \* the requests made in a behaviour, each at most once
    Asks,        \* what the requests may ask for: functions from Writers to
                 \* [image, replicas], "keep" for what is left as it is
    Nodes,       \* control-plane replicas that can lead
    Troubles,    \* what can befall a rollout: "refused", "late", "restart"
    LossyPush,   \* TRUE when the answer to a push may be lost
    After,       \* the sweep's After
    MaxNow,      \* bound: the clock
    MaxHandover, \* bound: leader handovers
    None

\* What the requests name.  No image is called "none": that is the manifest of
\* an app nobody deployed.
AskedImages == {a[w].image : a \in Asks, w \in Writers}
AskedReplicas == {a[w].replicas : a \in Asks, w \in Writers}

ASSUME PipelineAssumption ==
    /\ LossyPush \in BOOLEAN /\ Troubles \subseteq {"refused", "late", "restart"}
    /\ After \in Nat /\ MaxNow \in Nat /\ MaxHandover \in Nat
    /\ Nodes # {} /\ None \notin Nodes
    /\ Asks \subseteq [Writers -> [image : AskedImages, replicas : AskedReplicas]]
    /\ "none" \notin AskedImages

VARIABLES
    recs,       \* the evidence records, by sequence number
    branch,     \* the commits on the state repository's branch
    ask,        \* what each request asks for, chosen at the start
    wpc,        \* where each request is
    wrec,       \* the sequence number of the record it opened
    wbase,      \* the length of the branch it cloned
    answer,     \* the HTTP status it was given
    depl,       \* the Deployment object
    synced,     \* the last commit Argo CD applied
    leader, handovers,
    dirty,      \* the Deployment is in the leader's work queue
    job,        \* per node, the transition its reconcile is about to write
    sweeping,   \* per node, the records its sweep still has to give up on
    now,
    truth       \* history: what the cluster has been, per rollout id

writerVars  == << ask, wpc, wrec, wbase, answer >>
clusterVars == << depl, synced >>
watchVars   == << leader, handovers, dirty, job, sweeping >>
vars == << recs, branch, writerVars, clusterVars, watchVars, now, truth >>

---------------------------------------------------------------------------
(* The store                                                               *)

Opened(at) == [state |-> "pending", transitions |-> << >>,
               admission |-> "none", createdAt |-> at]

Moved(r, t) ==
    [r EXCEPT !.state = t.to,
              !.transitions = Append(@, [from |-> r.state, to |-> t.to]),
              !.admission = IF t.admission = "keep" THEN @ ELSE t.admission]

\* Transition: the record moves, or ErrConflict and it does not.
Transition(k, t) ==
    recs' = IF Accepts(recs[k], t) THEN [recs EXCEPT ![k] = Moved(@, t)]
            ELSE recs

WriterMove(to) == [from |-> {"pending"}, to |-> to, expect |-> {0},
                   admission |-> "keep"]

---------------------------------------------------------------------------
(* The git writer: Writer.Deploy and the handlers around it.               *)

\* The manifest a render starts from; an app nobody deployed has none.
NoManifest == [image |-> "none", replicas |-> "none"]
ManifestAt(n) == IF n = 0 THEN NoManifest ELSE branch[n].manifest

\* renderDeploy and renderScale: what is not asked for keeps what is committed.
Render(m, a) ==
    [image    |-> IF a.image = "keep" THEN m.image ELSE a.image,
     replicas |-> IF a.replicas = "keep"
                  THEN IF m.replicas = "none" THEN "one" ELSE m.replicas
                  ELSE a.replicas]

\* renderScale on a directory with no manifest: errNothingDeployed.
Renderable(m, a) == a.image # "keep" \/ m # NoManifest

\* Append in StatePending, before anything is cloned.  The bound leaves time
\* for the sweep to reach the record.
Open(w) ==
    /\ wpc[w] = "start" /\ now + After < MaxNow
    /\ recs' = Append(recs, Opened(now))
    /\ wrec' = [wrec EXCEPT ![w] = Len(recs) + 1]
    /\ wpc' = [wpc EXCEPT ![w] = "clone"]
    /\ UNCHANGED << ask, wbase, answer, branch, clusterVars, watchVars, now, truth >>

\* Clone the branch and render onto what it holds; an error of either ends the
\* attempt without a commit.
Clone(w) ==
    /\ wpc[w] = "clone"
    /\ \/ /\ Renderable(ManifestAt(Len(branch)), ask[w])
          /\ wbase' = [wbase EXCEPT ![w] = Len(branch)]
          /\ wpc' = [wpc EXCEPT ![w] = "push"]
       \/ /\ wpc' = [wpc EXCEPT ![w] = "failed"]
          /\ UNCHANGED wbase
    /\ UNCHANGED << ask, recs, wrec, answer, branch, clusterVars, watchVars, now, truth >>

\* mutant: the manifests carry the newest record's id
CommitNewest(w) == [id |-> Len(recs),
                    manifest |-> Render(ManifestAt(wbase[w]), ask[w])]

Commit(w) == [id |-> wrec[w], manifest |-> Render(ManifestAt(wbase[w]), ask[w])]

\* mutant: a forced push, which replaces what was pushed since the clone
PushForced(w) ==
    /\ wpc[w] = "push"
    /\ \/ /\ branch' = Append(branch, Commit(w))
          /\ wpc' = [wpc EXCEPT ![w] = "pushed"]
       \/ /\ wpc' = [wpc EXCEPT ![w] = "failed"]
          /\ UNCHANGED branch
    /\ wbase' = [wbase EXCEPT ![w] = 0]
    /\ UNCHANGED << ask, recs, wrec, answer, clusterVars, watchVars, now, truth >>

\* mutant: an error of the push is taken for "already up to date"
PushUnchecked(w) ==
    /\ wpc[w] = "push"
    /\ wpc' = [wpc EXCEPT ![w] = "pushed"]
    /\ branch' = IF Len(branch) = wbase[w] THEN Append(branch, Commit(w)) ELSE branch
    /\ wbase' = [wbase EXCEPT ![w] = 0]
    /\ UNCHANGED << ask, recs, wrec, answer, clusterVars, watchVars, now, truth >>

\* A push without force: refused when the branch moved since the clone.  A
\* lossy one may take effect and still return an error.
Push(w) ==
    /\ wpc[w] = "push"
    /\ \/ /\ Len(branch) = wbase[w]
          /\ branch' = Append(branch, Commit(w))
          /\ \/ wpc' = [wpc EXCEPT ![w] = "pushed"]
             \/ LossyPush /\ wpc' = [wpc EXCEPT ![w] = "failed"]
       \/ /\ wpc' = [wpc EXCEPT ![w] = "failed"]
          /\ UNCHANGED branch
    /\ wbase' = [wbase EXCEPT ![w] = 0]
    /\ UNCHANGED << ask, recs, wrec, answer, clusterVars, watchVars, now, truth >>

\* After a commit error: pending -> failed, "the commit was never pushed",
\* best effort; the handler answers with the error either way.
RecordFailure(w) ==
    /\ wpc[w] = "failed"
    /\ Transition(wrec[w], WriterMove("failed")) \/ UNCHANGED recs
    /\ wpc' = [wpc EXCEPT ![w] = "done"]
    /\ answer' = [answer EXCEPT ![w] = "could not be pushed"]
    /\ UNCHANGED << ask, wrec, wbase, branch, clusterVars, watchVars, now, truth >>

\* After a push: pending -> syncing with the SHA.  A conflict, or a store that
\* fails, is an error of Deploy, and the handler answers 502.
RecordPush(w) ==
    /\ wpc[w] = "pushed"
    /\ wpc' = [wpc EXCEPT ![w] = "done"]
    /\ \/ /\ Transition(wrec[w], WriterMove("syncing"))
          /\ answer' = [answer EXCEPT ![w] =
                          IF Accepts(recs[wrec[w]], WriterMove("syncing"))
                          THEN "accepted" ELSE "could not be pushed"]
       \/ /\ UNCHANGED recs
          /\ answer' = [answer EXCEPT ![w] = "could not be pushed"]
    /\ UNCHANGED << ask, wrec, wbase, branch, clusterVars, watchVars, now, truth >>

\* The process dies, or the client goes and its context with it.
WriterGone(w) ==
    /\ wpc[w] \in {"clone", "push", "pushed", "failed"}
    /\ wpc' = [wpc EXCEPT ![w] = "done"]
    /\ wbase' = [wbase EXCEPT ![w] = 0]
    /\ UNCHANGED << ask, recs, wrec, answer, branch, clusterVars, watchVars, now, truth >>

---------------------------------------------------------------------------
(* The cluster, as the code in src/ relies on it.                          *)

\* A Deployment: the rollout id it carries, its spec and generation, and its
\* status: how far the pods of this generation are, a ReplicaFailure that is
\* True, a progress deadline exceeded.
NoDeployment == [id |-> 0, spec |-> NoManifest, generation |-> 0,
                 observedGeneration |-> 0, pods |-> "none",
                 refused |-> FALSE, late |-> FALSE]

\* What is true of the rollout the Deployment carries.
Facts(d) ==
    IF d.id = 0 \/ d.observedGeneration # d.generation THEN {}
    ELSE {<<d.id, f>> : f \in (IF d.pods = "ready" THEN {"running"} ELSE {})
                         \union (IF d.refused THEN {"rejected"} ELSE {})
                         \union (IF d.late THEN {"failed"} ELSE {})}

\* Every change of the object is a watch event for the leader.
Becomes(d) ==
    /\ depl' = d
    /\ truth' = truth \union Facts(d)
    /\ dirty' = TRUE

\* Argo CD applies a newer commit, not always the next one, and the operator
\* renders the Deployment: the annotation moves with the spec, and only a
\* change of the spec is a new generation.
Apply ==
    \E k \in synced + 1 .. Len(branch) :
        LET c == branch[k]
        IN  /\ synced' = k
            /\ Becomes([depl EXCEPT !.id = c.id, !.spec = c.manifest,
                          !.generation = IF depl.spec = c.manifest THEN @ ELSE @ + 1])
            /\ UNCHANGED << recs, branch, writerVars, leader, handovers, job,
                            sweeping, now >>

\* The deployment controller looks at the new spec: its pods are not there yet
\* and the conditions of the previous one are gone.
Observe ==
    /\ depl.observedGeneration # depl.generation
    /\ Becomes([depl EXCEPT !.observedGeneration = depl.generation,
                            !.pods = "none", !.refused = FALSE, !.late = FALSE])
    /\ UNCHANGED << recs, branch, writerVars, synced, leader, handovers, job,
                    sweeping, now >>

\* Pods are created, become ready, and restart; admission refuses them before
\* they exist, or stops refusing them; the progress deadline passes, which it
\* can only until the rollout has been complete once.
Status ==
    /\ depl.observedGeneration = depl.generation /\ depl.id # 0
    /\ \/ /\ depl.pods = "none" /\ ~ depl.refused
          /\ Becomes([depl EXCEPT !.pods = "starting"])
       \/ /\ depl.pods \in {"starting", "restarting"}
          /\ Becomes([depl EXCEPT !.pods = "ready", !.late = FALSE])
       \/ /\ "refused" \in Troubles /\ depl.pods = "none"
          /\ Becomes([depl EXCEPT !.refused = ~ @])
       \/ /\ "late" \in Troubles /\ depl.pods \in {"none", "starting"} /\ ~ depl.late
          /\ Becomes([depl EXCEPT !.late = TRUE])
       \/ /\ "restart" \in Troubles /\ depl.pods = "ready"
          /\ Becomes([depl EXCEPT !.pods = "restarting"])
    /\ UNCHANGED << recs, branch, writerVars, synced, leader, handovers, job,
                    sweeping, now >>

---------------------------------------------------------------------------
(* The deploy observer                                                     *)

\* The zero DeployState: nothing is known of the rollout.
NoState == ""

\* mutant: the generation the status describes is not compared
DeriveAnyGeneration(d) ==
    IF d.pods = "ready" THEN "running"
    ELSE IF d.refused THEN "rejected"
    ELSE IF d.late THEN "failed"
    ELSE "applied"

\* derive: a state read out of the Deployment, or none when nothing is known.
\* The replica count of this platform's workloads is never 0.
Derive(d) ==
    IF d.observedGeneration # d.generation THEN NoState
    ELSE IF d.pods = "ready" THEN "running"
    ELSE IF d.refused THEN "rejected"
    ELSE IF d.late THEN "failed"
    ELSE "applied"

\* mutant: a refusal is recorded over applied
AllowedFromAdmitted(to) ==
    IF to = "applied" THEN {"pending", "syncing", "unknown"}
    ELSE {"pending", "syncing", "applied", "unknown"}

\* mutant: unknown is final
AllowedFromOpen(to) == {"pending", "syncing"}

AllowedFrom(to) ==
    CASE to = "applied"  -> {"pending", "syncing", "unknown"}
      [] to = "running"  -> {"pending", "syncing", "applied", "unknown"}
      [] to = "failed"   -> {"pending", "syncing", "applied"}
      [] to = "rejected" -> {"pending", "syncing", "unknown"}

\* admissionOutcome: refused while the condition is True, allowed for the
\* states that mean the objects are there, and nothing otherwise.
AdmissionOutcome(d, want) ==
    IF d.refused THEN "refused"
    ELSE IF want \in {"applied", "running"} THEN "allowed" ELSE "keep"

\* Reconcile, up to the write: the Deployment and then the record are read, and
\* what they imply is fenced on the version read.
ReconcileRead(n) ==
    /\ leader = n /\ dirty /\ job[n] = None
    /\ dirty' = FALSE
    /\ LET want == Derive(depl)
       IN  job' = [job EXCEPT ![n] =
              IF depl.id \notin 1 .. Len(recs) \/ want = NoState THEN None
              ELSE IF recs[depl.id].state = want THEN None
              ELSE [id |-> depl.id,
                    t  |-> [from |-> AllowedFrom(want), to |-> want,
                            expect |-> {Version(recs[depl.id])},
                            admission |-> AdmissionOutcome(depl, want)]]]
    /\ UNCHANGED << recs, branch, writerVars, clusterVars, leader, handovers,
                    sweeping, now, truth >>

\* Reconcile, the write.  ErrConflict ends it: nothing is requeued.
ReconcileWrite(n) ==
    /\ job[n] # None
    /\ Transition(job[n].id, job[n].t)
    /\ job' = [job EXCEPT ![n] = None]
    /\ UNCHANGED << branch, writerVars, clusterVars, leader, handovers, dirty,
                    sweeping, now, truth >>

\* Any other error of the store requeues the key.
ReconcileError(n) ==
    /\ job[n] # None
    /\ job' = [job EXCEPT ![n] = None]
    /\ dirty' = (dirty \/ leader = n)
    /\ UNCHANGED << recs, branch, writerVars, clusterVars, leader, handovers,
                    sweeping, now, truth >>

\* The informer's periodic resync enqueues every object.
Resync ==
    /\ ~ dirty /\ depl.id # 0
    /\ dirty' = TRUE
    /\ UNCHANGED << recs, branch, writerVars, clusterVars, leader, handovers,
                    job, sweeping, now, truth >>

\* Another replica takes the lease and lists everything; the old leader is not
\* drained, so what it is about to write is still there.
Handover(n) ==
    /\ n # leader /\ handovers < MaxHandover
    /\ leader' = n /\ handovers' = handovers + 1 /\ dirty' = TRUE
    /\ UNCHANGED << recs, branch, writerVars, clusterVars, job, sweeping, now, truth >>

\* A replica dies with what it was about to write.
NodeGone(n) ==
    /\ n # leader /\ (job[n] # None \/ sweeping[n] # {})
    /\ job' = [job EXCEPT ![n] = None]
    /\ sweeping' = [sweeping EXCEPT ![n] = {}]
    /\ UNCHANGED << recs, branch, writerVars, clusterVars, leader, handovers,
                    dirty, now, truth >>

---------------------------------------------------------------------------
(* The sweep                                                               *)

\* Opened and not yet answered.
Unanswered == {"pending", "syncing"}

\* mutant: only pending records are listed
SweepListPending(n) ==
    /\ leader = n /\ sweeping[n] = {}
    /\ LET old == {k \in 1 .. Len(recs) : recs[k].createdAt + After < now
                                            /\ recs[k].state = "pending"}
       IN  /\ old # {}
           /\ sweeping' = [sweeping EXCEPT ![n] =
                             {[id |-> k, version |-> Version(recs[k])] : k \in old}]
    /\ UNCHANGED << recs, branch, writerVars, clusterVars, leader, handovers,
                    dirty, job, now, truth >>

\* Sweep.Once, the listing: records that are open and older than the cutoff.
SweepList(n) ==
    /\ leader = n /\ sweeping[n] = {}
    /\ LET old == {k \in 1 .. Len(recs) : recs[k].createdAt + After < now
                                            /\ recs[k].state \in Unanswered}
       IN  /\ old # {}
           /\ sweeping' = [sweeping EXCEPT ![n] =
                             {[id |-> k, version |-> Version(recs[k])] : k \in old}]
    /\ UNCHANGED << recs, branch, writerVars, clusterVars, leader, handovers,
                    dirty, job, now, truth >>

\* One listed record: open -> unknown, fenced on the version listed.  A
\* conflict is lost to the observer and the pass goes on.
SweepWrite(n) ==
    \E s \in sweeping[n] :
        /\ Transition(s.id, [from |-> Unanswered, to |-> "unknown",
                             expect |-> {s.version}, admission |-> "keep"])
        /\ sweeping' = [sweeping EXCEPT ![n] = @ \ {s}]
        /\ UNCHANGED << branch, writerVars, clusterVars, leader, handovers,
                        dirty, job, now, truth >>

\* An error of the store ends the pass.
SweepError(n) ==
    /\ sweeping[n] # {}
    /\ sweeping' = [sweeping EXCEPT ![n] = {}]
    /\ UNCHANGED << recs, branch, writerVars, clusterVars, leader, handovers,
                    dirty, job, now, truth >>

---------------------------------------------------------------------------
Tick ==
    /\ now < MaxNow /\ now' = now + 1
    /\ UNCHANGED << recs, branch, writerVars, clusterVars, watchVars, truth >>

Init ==
    /\ recs = << >> /\ branch = << >> /\ ask \in Asks
    /\ wpc = [w \in Writers |-> "start"]
    /\ wrec = [w \in Writers |-> 0]
    /\ wbase = [w \in Writers |-> 0]
    /\ answer = [w \in Writers |-> "none"]
    /\ depl = NoDeployment /\ synced = 0
    /\ leader \in Nodes /\ handovers = 0 /\ dirty = FALSE
    /\ job = [n \in Nodes |-> None]
    /\ sweeping = [n \in Nodes |-> {}]
    /\ now = 0 /\ truth = {}

Next ==
    \/ \E w \in Writers : \/ Open(w) \/ Clone(w) \/ Push(w) \/ RecordFailure(w)
                          \/ RecordPush(w) \/ WriterGone(w)
    \/ Apply \/ Observe \/ Status \/ Resync \/ Tick
    \/ \E n \in Nodes : \/ ReconcileRead(n) \/ ReconcileWrite(n) \/ ReconcileError(n)
                        \/ Handover(n) \/ NodeGone(n)
                        \/ SweepList(n) \/ SweepWrite(n) \/ SweepError(n)

Spec == Init /\ [][Next]_vars

\* The scheduling the code has: the sweep's ticker and the work queue keep
\* running on the leader, the informer resyncs, time passes, a store call that
\* is retried for ever succeeds in the end, and an old leader's process ends.
\* Nothing is assumed of requests, of Argo CD or of the cluster.
Fairness ==
    /\ WF_vars(Tick) /\ WF_vars(Resync)
    /\ \A n \in Nodes : /\ WF_vars(ReconcileRead(n)) /\ SF_vars(ReconcileWrite(n))
                        /\ WF_vars(SweepList(n)) /\ SF_vars(SweepWrite(n))

FairSpec == Spec /\ Fairness

---------------------------------------------------------------------------
(* Properties                                                              *)

Seqs == 1 .. Len(recs)
OnBranch == {branch[i].id : i \in 1 .. Len(branch)}

\* The type of the state; every record's log is its history, as EvidenceStore
\* shows of the rows that records are here.
TypeOK ==
    /\ \A k \in Seqs : /\ recs[k].state \in States
                       /\ recs[k].admission \in Admissions
                       /\ recs[k].createdAt \in 0 .. now
                       /\ LogIsHistory([initialState |-> "pending", state |-> recs[k].state,
                                        transitions |-> recs[k].transitions])
    /\ wpc \in [Writers -> {"start", "clone", "push", "pushed", "failed", "done"}]
    /\ answer \in [Writers -> {"none", "accepted", "could not be pushed"}]
    /\ \A w \in Writers : wrec[w] \in {0} \union Seqs
    /\ synced \in 0 .. Len(branch)
    /\ leader \in Nodes /\ dirty \in BOOLEAN

\* A record says running only if every replica of its own rollout has been
\* ready, rejected only if admission refused its own pods, and failed only if
\* its rollout missed its deadline or its writer saw the commit fail: an
\* observation is never credited to another deploy's record, nor a status of
\* the previous generation to the new one.
AnswersAreEarned ==
    \A k \in Seqs :
        /\ recs[k].state \in {"running", "rejected"} => <<k, recs[k].state>> \in truth
        /\ recs[k].state = "failed" =>
              \/ <<k, "failed">> \in truth
              \/ \E w \in Writers : wrec[w] = k /\ wpc[w] = "done"
                                    /\ answer[w] # "accepted"

Answers == {"running", "failed", "rejected"}

\* "a deploy with no record at all" does not exist: every commit on the branch
\* carries the id of a record opened before it, whoever died in between, and
\* no two commits carry the same one.
EveryCommitHasItsRecord ==
    /\ OnBranch \subseteq Seqs
    /\ Cardinality(OnBranch) = Len(branch)

\* No update is lost: every commit is what its own request makes of the
\* manifest committed just before it.  And "Scaling it would render a Workload out
\* of nothing": no commit describes an app without an image, whichever of a first
\* deploy and a scale comes first.
EveryCommitBuildsOnTheLast ==
    \A i \in 1 .. Len(branch) : \E w \in Writers :
        /\ wrec[w] = branch[i].id
        /\ branch[i].manifest = Render(ManifestAt(i - 1), ask[w])
        /\ branch[i].manifest.image # "none"

\* A request answered 202 is on the branch and its record knows it.
AcceptedIsPushed ==
    \A w \in Writers : answer[w] = "accepted" =>
        wrec[w] \in OnBranch /\ recs[wrec[w]].state # "pending"

\* "Pending until the sweep gives up": every record opened is answered or given
\* up on in the end, through crashes, handovers and store errors.
OpenRecordsAreAnswered ==
    \A k \in 1 .. Cardinality(Writers) :
        (k \in Seqs /\ recs[k].state \in Unanswered)
            ~> (k \in Seqs /\ recs[k].state \notin Unanswered)

Landed(k) == depl.id = k /\ k \in Seqs /\ Derive(depl) = "running"

\* "an outage costs latency, not a record": a rollout that stays complete is
\* recorded as running in the end, whatever was missed on the way, unless its
\* record was answered before.
LandedIsRecorded ==
    \A k \in 1 .. Cardinality(Writers) :
        <>[]Landed(k) => <>(k \in Seqs /\ recs[k].state \in Answers)

\* The pipeline implements the ledger its readers are promised: writer,
\* observers and sweep together move the records only along its edges.
Ledger == INSTANCE DeployLedger WITH
             ledger <- [k \in 1 .. Len(recs) |-> recs[k].state]
LedgerSpec == Ledger!Spec

Refused(k) == depl.id = k /\ k \in Seqs /\ Derive(depl) = "rejected"

\* "the state the product's whole claim rests on being able to reach": a
\* rollout admission keeps refusing is recorded as rejected in the end, unless
\* its record was answered before.
RefusedIsRecorded ==
    \A k \in 1 .. Cardinality(Writers) :
        <>[]Refused(k) => <>(k \in Seqs /\ recs[k].state \in Answers)
=============================================================================
