----------------------- MODULE DeployPipelineProofs -----------------------
(***************************************************************************)
(* Theorems about DeployPipeline, for every set of requests and replicas,  *)
(* whatever the requests ask for, befalls a rollout or is lost on the way. *)
(***************************************************************************)
EXTENDS DeployPipeline, FiniteSetTheorems, SequenceTheorems, TLAPS

USE PipelineAssumption

---------------------------------------------------------------------------
(* The inductive invariant.                                                *)

EventSet == [from : States, to : States]

RecSet == [state : States, transitions : Seq(EventSet),
           admission : Admissions, createdAt : Nat]

Manifests == [image    : AskedImages \union {"none"},
              replicas : AskedReplicas \union {"none", "one"}]

CommitSet == [id : Nat, manifest : Manifests]

\* The log of a record that opened pending.
History(r) ==
    /\ \A i \in 1 .. Len(r.transitions) :
          r.transitions[i].from = IF i = 1 THEN "pending" ELSE r.transitions[i - 1].to
    /\ r.state = IF Len(r.transitions) = 0 THEN "pending"
                 ELSE r.transitions[Len(r.transitions)].to

RecInv ==
    /\ recs \in Seq(RecSet) /\ now \in Nat
    /\ \A k \in Seqs : History(recs[k]) /\ recs[k].createdAt <= now

\* One request: it has a record once it has begun, which is on the branch once
\* it is pushed and not before; what it cloned is a branch this one extends, and
\* it can be rendered onto; it is answered when it is done, and a 202 only for a
\* record that has left pending.
WriterOK(w) ==
    /\ wpc[w] \in {"start", "clone", "push", "pushed", "failed", "done"}
    /\ answer[w] \in {"none", "accepted", "could not be pushed"}
    /\ wpc[w] = "start" => wrec[w] = 0
    /\ wpc[w] # "start" => wrec[w] \in Seqs
    /\ wpc[w] \in {"clone", "push"} => wrec[w] \notin OnBranch
    /\ wpc[w] = "pushed" => wrec[w] \in OnBranch
    /\ wpc[w] = "push" => /\ wbase[w] \in 0 .. Len(branch)
                          /\ Renderable(ManifestAt(wbase[w]), ask[w])
    /\ wpc[w] # "done" => answer[w] = "none"
    /\ answer[w] = "accepted" =>
          wrec[w] \in OnBranch /\ recs[wrec[w]].state # "pending"

WriterInv ==
    /\ branch \in Seq(CommitSet) /\ ask \in Asks
    /\ wpc = [w \in Writers |-> wpc[w]] /\ wrec = [w \in Writers |-> wrec[w]]
    /\ wbase = [w \in Writers |-> wbase[w]] /\ answer = [w \in Writers |-> answer[w]]
    /\ \A w \in Writers : WriterOK(w)
    /\ \A v, w \in Writers : wrec[v] = wrec[w] /\ wrec[v] # 0 => v = w
    /\ EveryCommitBuildsOnTheLast
    /\ EveryCommitHasItsRecord /\ IsFiniteSet(OnBranch)

\* What a replica is about to write it has seen: the transition is one of the
\* observer's, for a record that exists, and says what the cluster has been.
JobOK(j) ==
    /\ j.id \in Seqs
    /\ j.t.to \in {"applied", "running", "failed", "rejected"}
    /\ j.t.from = AllowedFrom(j.t.to)
    /\ j.t.admission \in Admissions \union {"keep"}
    /\ j.t.to # "applied" => <<j.id, j.t.to>> \in truth

WatchInv ==
    /\ synced \in 0 .. Len(branch) /\ leader \in Nodes /\ dirty \in BOOLEAN
    /\ Facts(depl) \subseteq truth
    /\ job = [n \in Nodes |-> job[n]] /\ sweeping = [n \in Nodes |-> sweeping[n]]
    /\ \A n \in Nodes : /\ job[n] # None => JobOK(job[n])
                        /\ \A s \in sweeping[n] : s.id \in Seqs

IInv == RecInv /\ WriterInv /\ WatchInv /\ AnswersAreEarned

---------------------------------------------------------------------------
(* The records: every step opens one, moves one along an edge of the       *)
(* ledger, or leaves them alone.                                           *)

Edge(s, t) == <<s, t>> \in Ledger!Edges

LEMMA EdgesAre ==
    ASSUME NEW s \in States, NEW t \in States
    PROVE  Edge(s, t) <=>
             \/ s = "pending" /\ t = "syncing"
             \/ s \in {"pending", "syncing"} /\ t \in {"applied", "running", "failed",
                                                       "rejected", "unknown"}
             \/ s = "applied" /\ t \in {"running", "failed"}
             \/ s = "unknown" /\ t \in {"applied", "running", "rejected"}
  BY DEF Edge, Ledger!Edges

Moving(k, t) ==
    /\ k \in Seqs /\ t.to \in States /\ t.admission \in Admissions \union {"keep"}
    /\ Edge(recs[k].state, t.to)
    /\ recs' = [recs EXCEPT ![k] = Moved(recs[k], t)]

RecStep == \/ recs' = recs
           \/ recs' = Append(recs, Opened(now))
           \/ \E k, t : Moving(k, t)

LEMMA MovedType ==
    ASSUME NEW r \in RecSet, NEW t, t.to \in States,
           t.admission \in Admissions \union {"keep"}
    PROVE  /\ Moved(r, t) \in RecSet /\ Moved(r, t).state = t.to
           /\ Moved(r, t).createdAt = r.createdAt
           /\ Moved(r, t).transitions = Append(r.transitions, [from |-> r.state, to |-> t.to])
<1>1. Append(r.transitions, [from |-> r.state, to |-> t.to]) \in Seq(EventSet)
  BY DEF RecSet, EventSet
<1> QED
  BY <1>1 DEF Moved, RecSet

\* Appending the event of a transition keeps the log a history.
LEMMA MovedHistory ==
    ASSUME NEW r \in RecSet, NEW t, t.to \in States,
           t.admission \in Admissions \union {"keep"}, History(r)
    PROVE  History(Moved(r, t))
<1> DEFINE m == Moved(r, t)
           e == [from |-> r.state, to |-> t.to]
           n == Len(r.transitions)
<1>1. m.transitions = Append(r.transitions, e) /\ m.state = t.to
  BY MovedType
<1>2. r.transitions \in Seq(EventSet) /\ n \in Nat /\ e \in EventSet
  BY DEF RecSet, EventSet
<1>3. e.from = r.state /\ e.to = t.to
  OBVIOUS
<1> HIDE DEF m, e
<1>4. /\ Len(m.transitions) = n + 1 /\ m.transitions[n + 1] = e
      /\ \A i \in 1 .. n : m.transitions[i] = r.transitions[i]
  BY <1>1, <1>2
<1>5. ASSUME NEW i \in 1 .. n + 1
      PROVE  m.transitions[i].from =
               IF i = 1 THEN "pending" ELSE m.transitions[i - 1].to
  <2>1. CASE i \in 1 .. n
    <3>1. r.transitions[i].from =
            IF i = 1 THEN "pending" ELSE r.transitions[i - 1].to
      BY <2>1 DEF History
    <3>2. i # 1 => i - 1 \in 1 .. n
      BY <1>2, <2>1
    <3> QED
      BY <1>4, <2>1, <3>1, <3>2
  <2>2. CASE i = n + 1
    <3>1. r.state = IF n = 0 THEN "pending" ELSE r.transitions[n].to
      BY DEF History
    <3> QED
      BY <1>2, <1>3, <1>4, <2>2, <3>1
  <2> QED
    BY <1>2, <2>1, <2>2
<1>6. m.state = m.transitions[n + 1].to /\ n + 1 # 0
  BY <1>1, <1>2, <1>3, <1>4
<1> QED
  BY <1>4, <1>5, <1>6 DEF History, m

\* No record goes away or goes back to pending.
LEMMA RecStepOK ==
    ASSUME RecInv, RecStep
    PROVE  /\ recs' \in Seq(RecSet) /\ Seqs \subseteq Seqs'
           /\ \A k \in Seqs : recs[k].state # "pending" => recs'[k].state # "pending"
           /\ \A k \in Seqs' : History(recs'[k]) /\ recs'[k].createdAt <= now
<1>0. recs \in Seq(RecSet) /\ now \in Nat /\ Len(recs) \in Nat
  BY DEF RecInv
<1>1. CASE recs' = recs
  BY <1>1 DEF RecInv, Seqs
<1>2. CASE recs' = Append(recs, Opened(now))
  <2>1. Opened(now) \in RecSet /\ History(Opened(now)) /\ Opened(now).createdAt <= now
    <3>1. << >> \in Seq(EventSet)
      OBVIOUS
    <3> QED
      BY <1>0, <3>1 DEF Opened, RecSet, History, States, Admissions
  <2>2. /\ recs' \in Seq(RecSet) /\ Len(recs') = Len(recs) + 1
        /\ \A k \in 1 .. Len(recs) : recs'[k] = recs[k]
        /\ recs'[Len(recs) + 1] = Opened(now)
    BY <1>0, <1>2, <2>1, AppendProperties
  <2>3. \A k \in Seqs' : k \in Seqs \/ k = Len(recs) + 1
    BY <1>0, <2>2 DEF Seqs
  <2>4. Seqs \subseteq Seqs'
    BY <1>0, <2>2 DEF Seqs
  <2> QED
    BY <2>1, <2>2, <2>3, <2>4 DEF RecInv, Seqs
<1>3. ASSUME NEW k, NEW t, Moving(k, t)
      PROVE  /\ recs' \in Seq(RecSet) /\ Seqs \subseteq Seqs'
             /\ \A j \in Seqs : recs[j].state # "pending" => recs'[j].state # "pending"
             /\ \A j \in Seqs' : History(recs'[j]) /\ recs'[j].createdAt <= now
  <2>1. /\ k \in 1 .. Len(recs) /\ t.to \in States
        /\ t.admission \in Admissions \union {"keep"} /\ recs[k] \in RecSet
        /\ recs' = [recs EXCEPT ![k] = Moved(recs[k], t)] /\ Edge(recs[k].state, t.to)
    BY <1>0, <1>3, ElementOfSeq DEF Moving, Seqs
  <2>2. /\ Moved(recs[k], t) \in RecSet /\ Moved(recs[k], t).state = t.to
        /\ Moved(recs[k], t).createdAt = recs[k].createdAt /\ History(Moved(recs[k], t))
    BY <2>1, MovedType, MovedHistory DEF RecInv, Seqs
  <2>3. t.to # "pending"
    <3>1. recs[k].state \in States
      BY <2>1 DEF RecSet
    <3> QED
      BY <2>1, <3>1, EdgesAre
  <2>4. /\ recs' \in Seq(RecSet) /\ Len(recs') = Len(recs)
        /\ \A j \in Seqs : recs'[j] = IF j = k THEN Moved(recs[k], t) ELSE recs[j]
    BY <1>0, <2>1, <2>2, ExceptSeq DEF Seqs
  <2> QED
    BY <2>2, <2>3, <2>4 DEF RecInv, Seqs
<1> QED
  BY <1>1, <1>2, <1>3 DEF RecStep

LEMMA RecFrame ==
    ASSUME RecInv, RecStep, now' \in {now, now + 1}
    PROVE  RecInv'
<1>1. now \in Nat
  BY DEF RecInv
<1>2. now' \in Nat /\ now <= now'
  BY <1>1
<1>3. ASSUME NEW k \in Seqs' PROVE recs'[k].createdAt \in Nat
  <2>1. recs' \in Seq(RecSet) /\ k \in 1 .. Len(recs')
    BY RecStepOK DEF Seqs
  <2>2. recs'[k] \in RecSet
    BY <2>1, ElementOfSeq
  <2> QED
    BY <2>2 DEF RecSet
<1>4. \A k \in Seqs' : recs'[k].createdAt <= now'
  BY <1>1, <1>2, <1>3, RecStepOK
<1> QED
  BY <1>2, <1>4, RecStepOK DEF RecInv

\* Transition moves the record along an edge, or refuses and leaves it alone.
LEMMA TransitionIs ==
    ASSUME RecInv, NEW k \in Seqs, NEW t, t.to \in States,
           t.admission \in Admissions \union {"keep"}, t.from # {},
           \A s \in t.from : Edge(s, t.to), Transition(k, t)
    PROVE  recs' = recs \/ (Accepts(recs[k], t) /\ Moving(k, t))
  BY DEF Transition, Accepts, Moving

\* The two moves a request makes itself are edges out of pending.
LEMMA WriterMoves ==
    ASSUME NEW to \in {"failed", "syncing"}
    PROVE  /\ WriterMove(to).to = to /\ to \in States
           /\ WriterMove(to).admission \in Admissions \union {"keep"}
           /\ WriterMove(to).from # {} /\ \A s \in WriterMove(to).from : Edge(s, to)
<1>1. "pending" \in States /\ to \in States
  BY DEF States
<1>2. Edge("pending", to)
  BY <1>1, EdgesAre
<1> QED
  BY <1>1, <1>2 DEF WriterMove

LEMMA RecordFailureMoves ==
    ASSUME IInv, NEW w \in Writers, RecordFailure(w)
    PROVE  recs' = recs \/ Moving(wrec[w], WriterMove("failed"))
<1>1. RecInv /\ wrec[w] \in Seqs
  BY DEF IInv, WriterInv, WriterOK, RecordFailure
<1> QED
  BY <1>1, WriterMoves, TransitionIs DEF RecordFailure

LEMMA RecordPushMoves ==
    ASSUME IInv, NEW w \in Writers, RecordPush(w)
    PROVE  recs' = recs \/ Moving(wrec[w], WriterMove("syncing"))
<1>1. RecInv /\ wrec[w] \in Seqs
  BY DEF IInv, WriterInv, WriterOK, RecordPush
<1> QED
  BY <1>1, WriterMoves, TransitionIs DEF RecordPush

LEMMA ReconcileWriteMoves ==
    ASSUME IInv, NEW n \in Nodes, ReconcileWrite(n)
    PROVE  recs' = recs \/ Moving(job[n].id, job[n].t)
<1> DEFINE j == job[n]
<1>1. RecInv /\ JobOK(j) /\ Transition(j.id, j.t)
  BY DEF IInv, WatchInv, ReconcileWrite
<1> HIDE DEF j
<1>2. /\ j.t.to \in {"applied", "running", "failed", "rejected"}
      /\ j.t.from = AllowedFrom(j.t.to)
      /\ j.id \in Seqs /\ j.t.admission \in Admissions \union {"keep"}
  BY <1>1 DEF JobOK
<1>3. j.t.from # {} /\ j.t.from \subseteq States /\ j.t.to \in States
  BY <1>2 DEF AllowedFrom, States
<1>4. ASSUME NEW s \in j.t.from PROVE Edge(s, j.t.to)
  <2>1. CASE j.t.to = "applied"
    BY <1>2, <1>3, <2>1, EdgesAre DEF AllowedFrom
  <2>2. CASE j.t.to = "running"
    BY <1>2, <1>3, <2>2, EdgesAre DEF AllowedFrom
  <2>3. CASE j.t.to = "failed"
    BY <1>2, <1>3, <2>3, EdgesAre DEF AllowedFrom
  <2>4. CASE j.t.to = "rejected"
    BY <1>2, <1>3, <2>4, EdgesAre DEF AllowedFrom
  <2> QED
    BY <1>2, <2>1, <2>2, <2>3, <2>4
<1>5. recs' = recs \/ Moving(j.id, j.t)
  BY <1>1, <1>2, <1>3, <1>4, TransitionIs
<1> QED
  BY <1>5 DEF j

GiveUp(s) == [from |-> Unanswered, to |-> "unknown",
              expect |-> {s.version}, admission |-> "keep"]

LEMMA SweepWriteMoves ==
    ASSUME IInv, NEW n \in Nodes, SweepWrite(n)
    PROVE  \E s \in sweeping[n] :
              /\ recs' = recs \/ Moving(s.id, GiveUp(s))
              /\ sweeping' = [sweeping EXCEPT ![n] = @ \ {s}]
              /\ UNCHANGED << branch, writerVars, clusterVars, leader, dirty, job, now, truth >>
<1>1. PICK s \in sweeping[n] :
        /\ Transition(s.id, GiveUp(s))
        /\ sweeping' = [sweeping EXCEPT ![n] = @ \ {s}]
        /\ UNCHANGED << branch, writerVars, clusterVars, leader, dirty, job, now, truth >>
  BY DEF SweepWrite, GiveUp
<1>2. RecInv /\ s.id \in Seqs
  BY DEF IInv, WatchInv
<1> DEFINE t == GiveUp(s)
<1>3. /\ t.to = "unknown" /\ t.from # {} /\ t.to \in States /\ t.from = Unanswered
      /\ t.admission \in Admissions \union {"keep"} /\ Transition(s.id, t)
  BY <1>1 DEF GiveUp, Unanswered, States
<1> HIDE DEF t
<1>4. \A q \in t.from : Edge(q, t.to)
  BY <1>3, EdgesAre DEF Unanswered, States
<1>5. recs' = recs \/ Moving(s.id, t)
  BY <1>2, <1>3, <1>4, TransitionIs
<1> QED
  BY <1>1, <1>5 DEF t

\* Every step of the pipeline is one of these three for the records.
LEMMA NextRecs == IInv /\ [Next]_vars => RecStep
<1> SUFFICES ASSUME IInv, [Next]_vars PROVE RecStep
  OBVIOUS
<1>1. ASSUME NEW w \in Writers, Open(w) \/ Clone(w) \/ Push(w) \/ WriterGone(w)
      PROVE  RecStep
  BY <1>1 DEF Open, Clone, Push, WriterGone, RecStep
<1>2. ASSUME NEW w \in Writers, RecordFailure(w) \/ RecordPush(w) PROVE RecStep
  BY <1>2, RecordFailureMoves, RecordPushMoves DEF RecStep
<1>3. CASE Apply \/ Observe \/ Status \/ Resync \/ Tick
  BY <1>3 DEF Apply, Observe, Status, Resync, Tick, RecStep
<1>4. ASSUME NEW n \in Nodes,
             \/ ReconcileRead(n) \/ ReconcileError(n) \/ Handover(n) \/ NodeGone(n)
             \/ SweepList(n) \/ SweepError(n)
      PROVE  RecStep
  BY <1>4 DEF ReconcileRead, ReconcileError, Handover, NodeGone, SweepList, SweepError, RecStep
<1>5. ASSUME NEW n \in Nodes, ReconcileWrite(n) \/ SweepWrite(n) PROVE RecStep
  BY <1>5, ReconcileWriteMoves, SweepWriteMoves DEF RecStep
<1>6. CASE UNCHANGED vars
  BY <1>6 DEF vars, RecStep
<1> QED
  BY <1>1, <1>2, <1>3, <1>4, <1>5, <1>6 DEF Next

---------------------------------------------------------------------------
(* Frames: what a step of one side leaves of the other.                    *)

\* A request that does not move, while records are opened and moved and other
\* requests' commits are pushed.
LEMMA OtherWriter ==
    ASSUME NEW v, WriterOK(v), ask' = ask, wpc'[v] = wpc[v], wrec'[v] = wrec[v],
           wbase'[v] = wbase[v], answer'[v] = answer[v], Seqs \subseteq Seqs',
           \A k \in Seqs : recs[k].state # "pending" => recs'[k].state # "pending",
           OnBranch \subseteq OnBranch',
           wrec[v] \in OnBranch' => wrec[v] \in OnBranch,
           0 .. Len(branch) \subseteq 0 .. Len(branch'),
           \A i \in 0 .. Len(branch) : ManifestAt(i)' = ManifestAt(i)
    PROVE  WriterOK(v)'
<1>1. wpc[v] = "push" => /\ wbase[v] \in 0 .. Len(branch')
                         /\ Renderable(ManifestAt(wbase[v])', ask[v])
  BY DEF WriterOK
<1>2. Renderable(ManifestAt(wbase[v])', ask[v]) => Renderable(ManifestAt(wbase[v]), ask[v])'
  BY DEF Renderable, ManifestAt, NoManifest
<1>3. answer[v] = "accepted" =>
        wrec[v] \in OnBranch' /\ recs'[wrec[v]].state # "pending"
  BY DEF WriterOK
<1> QED
  BY <1>1, <1>2, <1>3 DEF WriterOK

\* The cluster, the observer and the sweep change nothing a request holds.
LEMMA WriterFrame ==
    ASSUME RecInv, WriterInv, RecStep, UNCHANGED << branch, writerVars >>
    PROVE  WriterInv'
<1>1. /\ branch' = branch /\ ask' = ask /\ wpc' = wpc /\ wrec' = wrec
      /\ wbase' = wbase /\ answer' = answer /\ OnBranch' = OnBranch
  BY DEF writerVars, OnBranch
<1>2. /\ Seqs \subseteq Seqs'
      /\ \A k \in Seqs : recs[k].state # "pending" => recs'[k].state # "pending"
  BY RecStepOK
<1>3. ASSUME NEW w \in Writers PROVE WriterOK(w)'
  <2>1. WriterOK(w)
    BY DEF WriterInv
  <2>2. answer[w] = "accepted" => wrec[w] \in Seqs
    BY <2>1 DEF WriterOK
  <2> QED
    BY <1>1, <1>2, <2>1, <2>2 DEF WriterOK, ManifestAt
<1>4. EveryCommitBuildsOnTheLast'
  BY <1>1 DEF WriterInv, EveryCommitBuildsOnTheLast, ManifestAt
<1>5. EveryCommitHasItsRecord' /\ IsFiniteSet(OnBranch)'
  BY <1>1, <1>2 DEF WriterInv, EveryCommitHasItsRecord
<1> QED
  BY <1>1, <1>3, <1>4, <1>5 DEF WriterInv

\* The requests change nothing the leader and the cluster hold.
LEMMA WatchFrame ==
    ASSUME RecInv, WatchInv, RecStep, UNCHANGED << clusterVars, watchVars, truth >>,
           0 .. Len(branch) \subseteq 0 .. Len(branch')
    PROVE  WatchInv'
<1>1. /\ depl' = depl /\ synced' = synced /\ leader' = leader /\ dirty' = dirty
      /\ job' = job /\ sweeping' = sweeping /\ truth' = truth /\ Seqs \subseteq Seqs'
  BY RecStepOK DEF clusterVars, watchVars
<1>2. ASSUME NEW n \in Nodes
      PROVE  /\ job'[n] # None => JobOK(job[n])'
             /\ \A s \in sweeping'[n] : s.id \in Seqs'
  BY <1>1 DEF WatchInv, JobOK
<1>3. Facts(depl)' \subseteq truth'
  BY <1>1 DEF WatchInv, Facts
<1> QED
  BY <1>1, <1>2, <1>3 DEF WatchInv

\* What a finished request was given stays.
Settled == \A w \in Writers : wpc[w] = "done" =>
              wpc'[w] = "done" /\ wrec'[w] = wrec[w] /\ answer'[w] = answer[w]

\* The move of record k to this state is earned.
Earned(k, to) ==
    /\ to \in {"running", "rejected"} => <<k, to>> \in truth'
    /\ to = "failed" =>
          \/ <<k, "failed">> \in truth'
          \/ \E w \in Writers : wrec'[w] = k /\ wpc'[w] = "done" /\ answer'[w] # "accepted"

LEMMA EarnFrame ==
    ASSUME RecInv, AnswersAreEarned, Settled, truth \subseteq truth',
           \/ recs' = recs
           \/ recs' = Append(recs, Opened(now))
           \/ \E k, t : Moving(k, t) /\ Earned(k, t.to)
    PROVE  AnswersAreEarned'
<1> DEFINE Fine(k) == Earned(k, recs'[k].state)
<1>1. ASSUME NEW k \in Seqs, recs'[k].state = recs[k].state PROVE Fine(k)
  <2>1. /\ recs[k].state \in {"running", "rejected"} => <<k, recs[k].state>> \in truth
        /\ recs[k].state = "failed" =>
              \/ <<k, "failed">> \in truth
              \/ \E w \in Writers : wrec[w] = k /\ wpc[w] = "done" /\ answer[w] # "accepted"
    BY DEF AnswersAreEarned
  <2> QED
    BY <1>1, <2>1 DEF Earned, Settled
<1>2. ASSUME NEW k \in Seqs' PROVE Fine(k)
  <2>0. recs \in Seq(RecSet) /\ Len(recs) \in Nat
    BY DEF RecInv
  <2>1. CASE recs' = recs
    BY <1>1, <2>1 DEF Seqs
  <2>2. CASE recs' = Append(recs, Opened(now))
    <3>1. CASE k \in Seqs
      <4>1. recs'[k] = recs[k]
        BY <2>0, <2>2, <3>1 DEF Seqs
      <4> QED
        BY <1>1, <3>1, <4>1
    <3>2. CASE k \notin Seqs
      <4>1. k = Len(recs) + 1 /\ recs'[k] = Opened(now)
        BY <2>0, <2>2, <3>2 DEF Seqs
      <4>2. recs'[k].state = "pending"
        BY <4>1 DEF Opened
      <4> QED
        BY <4>2 DEF Earned
    <3> QED
      BY <3>1, <3>2
  <2>3. ASSUME NEW j, NEW t, Moving(j, t), Earned(j, t.to) PROVE Fine(k)
    <3>1. /\ j \in 1 .. Len(recs) /\ recs' = [recs EXCEPT ![j] = Moved(recs[j], t)]
          /\ recs[j] \in RecSet /\ t.to \in States /\ t.admission \in Admissions \union {"keep"}
      BY <2>0, <2>3, ElementOfSeq DEF Moving, Seqs
    <3>2. Moved(recs[j], t) \in RecSet /\ Moved(recs[j], t).state = t.to
      BY <3>1, MovedType
    <3>3. /\ Len(recs') = Len(recs)
          /\ \A i \in 1 .. Len(recs) :
                recs'[i] = IF i = j THEN Moved(recs[j], t) ELSE recs[i]
      BY <2>0, <3>1, <3>2, ExceptSeq
    <3>4. CASE k = j
      <4>1. recs'[k].state = t.to
        BY <3>1, <3>2, <3>3, <3>4
      <4> QED
        BY <2>3, <3>4, <4>1
    <3>5. CASE k # j
      BY <1>1, <3>3, <3>5 DEF Seqs
    <3> QED
      BY <3>4, <3>5
  <2> QED
    BY <2>1, <2>2, <2>3
<1> QED
  BY <1>2 DEF AnswersAreEarned, Earned

---------------------------------------------------------------------------
(* The requests.                                                           *)

\* A step of one request that neither opens its record nor pushes.
LEMMA OneWriter ==
    ASSUME RecInv, WriterInv, RecStep, NEW w \in Writers, NEW p, NEW b, NEW a,
           wpc' = [wpc EXCEPT ![w] = p], wbase' = [wbase EXCEPT ![w] = b],
           answer' = [answer EXCEPT ![w] = a],
           ask' = ask, wrec' = wrec, branch' = branch, WriterOK(w)'
    PROVE  WriterInv'
<1>1. OnBranch' = OnBranch
  BY DEF OnBranch
<1>2. /\ Seqs \subseteq Seqs'
      /\ \A k \in Seqs : recs[k].state # "pending" => recs'[k].state # "pending"
  BY RecStepOK
<1>3. ASSUME NEW v \in Writers PROVE WriterOK(v)'
  <2>1. CASE v = w
    BY <2>1
  <2>2. CASE v # w
    <3>1. wpc'[v] = wpc[v] /\ wbase'[v] = wbase[v] /\ answer'[v] = answer[v]
      BY <2>2 DEF WriterInv
    <3>2. WriterOK(v)
      BY DEF WriterInv
    <3>3. answer[v] = "accepted" => wrec[v] \in Seqs
      BY <3>2 DEF WriterOK
    <3> QED
      BY <1>1, <1>2, <3>1, <3>2, <3>3 DEF WriterOK, ManifestAt
  <2> QED
    BY <2>1, <2>2
<1>4. EveryCommitBuildsOnTheLast'
  BY DEF WriterInv, EveryCommitBuildsOnTheLast, ManifestAt
<1>5. EveryCommitHasItsRecord' /\ IsFiniteSet(OnBranch)'
  BY <1>1, <1>2 DEF WriterInv, EveryCommitHasItsRecord
<1>6. /\ wpc' = [v \in Writers |-> wpc'[v]] /\ wbase' = [v \in Writers |-> wbase'[v]]
      /\ answer' = [v \in Writers |-> answer'[v]]
  BY DEF WriterInv
<1> QED
  BY <1>3, <1>4, <1>5, <1>6 DEF WriterInv

LEMMA OpenOK ==
    ASSUME IInv, NEW w \in Writers, Open(w)
    PROVE  IInv'
<1> DEFINE k == Len(recs) + 1
<1>1. /\ RecInv /\ WriterInv /\ WatchInv /\ AnswersAreEarned
      /\ wpc[w] = "start" /\ recs' = Append(recs, Opened(now))
      /\ wrec' = [wrec EXCEPT ![w] = k] /\ wpc' = [wpc EXCEPT ![w] = "clone"]
      /\ ask' = ask /\ wbase' = wbase /\ answer' = answer /\ branch' = branch
      /\ UNCHANGED << clusterVars, watchVars, truth >> /\ now' = now /\ truth' = truth
  BY DEF IInv, Open
<1>2. RecStep /\ Len(recs) \in Nat /\ recs \in Seq(RecSet)
  BY <1>1 DEF RecStep, RecInv
<1>3. /\ Seqs \subseteq Seqs' /\ k \notin Seqs /\ k \in Seqs' /\ k # 0
      /\ \A j \in Seqs : recs[j].state # "pending" => recs'[j].state # "pending"
  <2>1. Len(recs') = Len(recs) + 1
    BY <1>1, <1>2
  <2>2. k \notin Seqs /\ k \in Seqs' /\ k # 0
    BY <1>2, <2>1 DEF Seqs
  <2> QED
    BY <1>1, <1>2, <2>2, RecStepOK
<1> HIDE DEF k
<1>4. RecInv'
  BY <1>1, <1>2, RecFrame
<1>5. WatchInv'
  BY <1>1, <1>2, WatchFrame
<1>6. AnswersAreEarned'
  <2>1. Settled
    BY <1>1 DEF Settled, WriterInv
  <2> QED
    BY <1>1, <2>1, EarnFrame
<1>7. OnBranch' = OnBranch /\ OnBranch \subseteq Seqs
  BY <1>1 DEF OnBranch, WriterInv, EveryCommitHasItsRecord
<1>8. /\ wrec'[w] = k /\ wpc'[w] = "clone"
      /\ \A v \in Writers : v # w => wrec'[v] = wrec[v] /\ wpc'[v] = wpc[v]
  BY <1>1 DEF WriterInv
<1>9. \A v \in Writers : WriterOK(v)
  BY <1>1 DEF WriterInv
<1>10. ASSUME NEW v \in Writers PROVE WriterOK(v)'
  <2>1. CASE v = w
    <3>1. answer'[w] = "none"
      BY <1>1, <1>9 DEF WriterOK
    <3>2. k \in Seqs' /\ k \notin OnBranch'
      BY <1>3, <1>7
    <3> QED
      BY <1>8, <2>1, <3>1, <3>2 DEF WriterOK
  <2>2. CASE v # w
    <3>1. /\ wrec'[v] = wrec[v] /\ wpc'[v] = wpc[v] /\ WriterOK(v)
          /\ wbase'[v] = wbase[v] /\ answer'[v] = answer[v]
      BY <1>1, <1>8, <1>9, <2>2
    <3>2. \A i : ManifestAt(i)' = ManifestAt(i)
      BY <1>1 DEF ManifestAt
    <3> QED
      BY <1>1, <1>3, <1>7, <3>1, <3>2, OtherWriter
  <2> QED
    BY <2>1, <2>2
<1>11. ASSUME NEW u \in Writers, NEW v \in Writers, wrec'[u] = wrec'[v], wrec'[u] # 0
       PROVE  u = v
  <2>1. \A x \in Writers : wrec[x] # k
    BY <1>3, <1>9 DEF WriterOK
  <2> QED
    BY <1>1, <1>8, <1>11, <2>1 DEF WriterInv
<1>12. EveryCommitBuildsOnTheLast'
  <2> SUFFICES ASSUME NEW i \in 1 .. Len(branch)
               PROVE  \E v \in Writers : /\ wrec'[v] = branch[i].id
                                         /\ branch[i].manifest = Render(ManifestAt(i - 1), ask[v])
                                         /\ branch[i].manifest.image # "none"
    BY <1>1 DEF EveryCommitBuildsOnTheLast, ManifestAt
  <2>1. PICK v \in Writers : /\ wrec[v] = branch[i].id
                              /\ branch[i].manifest = Render(ManifestAt(i - 1), ask[v])
                              /\ branch[i].manifest.image # "none"
    BY <1>1 DEF WriterInv, EveryCommitBuildsOnTheLast
  <2>2. branch[i].id \in Seqs
    BY <1>7 DEF OnBranch
  <2>3. v # w
    <3>1. wrec[w] = 0
      BY <1>1, <1>9 DEF WriterOK
    <3>2. branch[i].id # 0
      BY <1>2, <2>2 DEF Seqs
    <3> QED
      BY <2>1, <3>1, <3>2
  <2> QED
    BY <1>8, <2>1, <2>3
<1>13. EveryCommitHasItsRecord' /\ IsFiniteSet(OnBranch)'
  BY <1>1, <1>3, <1>7 DEF WriterInv, EveryCommitHasItsRecord
<1>14. wpc' = [v \in Writers |-> wpc'[v]] /\ wrec' = [v \in Writers |-> wrec'[v]]
  BY <1>1 DEF WriterInv
<1>15. WriterInv'
  BY <1>1, <1>10, <1>11, <1>12, <1>13, <1>14 DEF WriterInv
<1> QED
  BY <1>4, <1>5, <1>6, <1>15 DEF IInv

LEMMA WriterStep ==
    ASSUME IInv, NEW w \in Writers, NEW p, NEW b, NEW a, wpc[w] # "done",
           wpc' = [wpc EXCEPT ![w] = p], wbase' = [wbase EXCEPT ![w] = b],
           answer' = [answer EXCEPT ![w] = a],
           UNCHANGED << ask, wrec, branch, clusterVars, watchVars, now, truth >>,
           recs' = recs \/ \E k, t : Moving(k, t) /\ Earned(k, t.to),
           WriterOK(w)'
    PROVE  IInv'
<1>1. RecInv /\ WriterInv /\ WatchInv /\ AnswersAreEarned
  BY DEF IInv
<1>2. RecStep
  BY DEF RecStep
<1>3. RecInv'
  BY <1>1, <1>2, RecFrame
<1>4. WriterInv'
  BY <1>1, <1>2, OneWriter
<1>5. WatchInv'
  BY <1>1, <1>2, WatchFrame
<1>6. Settled
  BY <1>1 DEF Settled, WriterInv
<1>7. AnswersAreEarned'
  BY <1>1, <1>6, EarnFrame
<1> QED
  BY <1>3, <1>4, <1>5, <1>7 DEF IInv

LEMMA CloneOK ==
    ASSUME IInv, NEW w \in Writers, Clone(w)
    PROVE  IInv'
<1>1. /\ WriterInv /\ WriterOK(w) /\ wpc[w] = "clone" /\ RecInv
      /\ answer' = answer /\ recs' = recs
      /\ UNCHANGED << ask, wrec, branch, clusterVars, watchVars, now, truth >>
  BY DEF IInv, WriterInv, Clone
<1>2. /\ answer' = [answer EXCEPT ![w] = answer[w]] /\ Len(branch) \in Nat
      /\ wbase = [wbase EXCEPT ![w] = wbase[w]]
      /\ Seqs' = Seqs /\ OnBranch' = OnBranch
  <2>1. Seqs' = Seqs /\ OnBranch' = OnBranch
    BY <1>1 DEF Seqs, OnBranch
  <2>2. Len(branch) \in Nat
    BY <1>1 DEF WriterInv
  <2>3. answer = [answer EXCEPT ![w] = answer[w]] /\ wbase = [wbase EXCEPT ![w] = wbase[w]]
    BY <1>1 DEF WriterInv
  <2> QED
    BY <1>1, <2>1, <2>2, <2>3
<1>3. CASE /\ Renderable(ManifestAt(Len(branch)), ask[w])
           /\ wbase' = [wbase EXCEPT ![w] = Len(branch)]
           /\ wpc' = [wpc EXCEPT ![w] = "push"]
  <2>1. wpc'[w] = "push" /\ wbase'[w] = Len(branch)
    BY <1>1, <1>3 DEF WriterInv
  <2>2. Renderable(ManifestAt(wbase[w]), ask[w])'
    BY <1>1, <1>3, <2>1 DEF Renderable, ManifestAt, NoManifest
  <2>3. Len(branch') = Len(branch) /\ wbase'[w] \in 0 .. Len(branch')
    BY <1>1, <1>2, <2>1
  <2>4. wrec'[w] \in Seqs' /\ wrec'[w] \notin OnBranch' /\ answer'[w] = "none"
    BY <1>1, <1>2 DEF WriterOK
  <2>5. WriterOK(w)'
    BY <2>1, <2>2, <2>3, <2>4 DEF WriterOK
  <2> QED
    BY <1>1, <1>2, <1>3, <2>5, WriterStep
<1>4. CASE wpc' = [wpc EXCEPT ![w] = "failed"] /\ wbase' = wbase
  <2>1. wpc'[w] = "failed"
    BY <1>1, <1>4 DEF WriterInv
  <2>2. wrec'[w] \in Seqs' /\ answer'[w] = "none"
    BY <1>1, <1>2 DEF WriterOK
  <2>3. WriterOK(w)'
    BY <2>1, <2>2 DEF WriterOK
  <2> QED
    BY <1>1, <1>2, <1>4, <2>3, WriterStep
<1> QED
  BY <1>3, <1>4 DEF Clone

LEMMA WriterGoneOK ==
    ASSUME IInv, NEW w \in Writers, WriterGone(w)
    PROVE  IInv'
<1>1. /\ WriterInv /\ WriterOK(w) /\ wpc[w] \in {"clone", "push", "pushed", "failed"}
      /\ answer' = answer /\ recs' = recs
      /\ wpc' = [wpc EXCEPT ![w] = "done"] /\ wbase' = [wbase EXCEPT ![w] = 0]
      /\ UNCHANGED << ask, wrec, branch, clusterVars, watchVars, now, truth >>
  BY DEF IInv, WriterInv, WriterGone
<1>2. /\ answer' = [answer EXCEPT ![w] = answer[w]]
      /\ Seqs' = Seqs /\ OnBranch' = OnBranch /\ wpc'[w] = "done"
  BY <1>1 DEF WriterInv, Seqs, OnBranch
<1>3. wrec'[w] \in Seqs' /\ answer'[w] = "none"
  BY <1>1, <1>2 DEF WriterOK
<1>4. WriterOK(w)'
  BY <1>2, <1>3 DEF WriterOK
<1> QED
  BY <1>1, <1>2, <1>4, WriterStep

LEMMA RecordFailureOK ==
    ASSUME IInv, NEW w \in Writers, RecordFailure(w)
    PROVE  IInv'
<1> DEFINE t == WriterMove("failed")
<1>1. /\ RecInv /\ WriterInv /\ WriterOK(w) /\ wpc[w] = "failed" /\ wbase' = wbase
      /\ Transition(wrec[w], t) \/ recs' = recs
      /\ wpc' = [wpc EXCEPT ![w] = "done"]
      /\ answer' = [answer EXCEPT ![w] = "could not be pushed"]
      /\ UNCHANGED << ask, wrec, branch, clusterVars, watchVars, now, truth >>
  BY DEF IInv, WriterInv, RecordFailure
<1>2. /\ wbase' = [wbase EXCEPT ![w] = wbase[w]] /\ wpc'[w] = "done"
      /\ answer'[w] = "could not be pushed" /\ wrec[w] \in Seqs
  BY <1>1 DEF WriterInv, WriterOK
<1>3. recs' = recs \/ Moving(wrec[w], t)
  BY RecordFailureMoves
<1>4. RecStep
  BY <1>3 DEF RecStep
<1>5. t.to = "failed"
  BY WriterMoves
<1> HIDE DEF t
<1>6. WriterOK(w)'
  <2>1. wrec'[w] \in Seqs'
    BY <1>1, <1>2, <1>4, RecStepOK
  <2> QED
    BY <1>2, <2>1 DEF WriterOK
<1>7. recs' = recs \/ \E k, u : Moving(k, u) /\ Earned(k, u.to)
  <2>1. Earned(wrec[w], t.to)
    BY <1>1, <1>2, <1>5 DEF Earned
  <2> QED
    BY <1>3, <2>1
<1> QED
  BY <1>1, <1>2, <1>6, <1>7, WriterStep

LEMMA RecordPushOK ==
    ASSUME IInv, NEW w \in Writers, RecordPush(w)
    PROVE  IInv'
<1> DEFINE t == WriterMove("syncing")
<1>1. /\ RecInv /\ WriterInv /\ WriterOK(w) /\ wpc[w] = "pushed" /\ wbase' = wbase
      /\ wpc' = [wpc EXCEPT ![w] = "done"]
      /\ UNCHANGED << ask, wrec, branch, clusterVars, watchVars, now, truth >>
  BY DEF IInv, WriterInv, RecordPush
<1>2. /\ wbase' = [wbase EXCEPT ![w] = wbase[w]] /\ wpc'[w] = "done"
      /\ wrec[w] \in Seqs /\ wrec[w] \in OnBranch /\ OnBranch' = OnBranch
  <2>1. wrec[w] \in Seqs /\ wrec[w] \in OnBranch
    BY <1>1 DEF WriterOK
  <2>2. OnBranch' = OnBranch
    BY <1>1 DEF OnBranch
  <2>3. wbase' = [wbase EXCEPT ![w] = wbase[w]] /\ wpc'[w] = "done"
    BY <1>1 DEF WriterInv
  <2> QED
    BY <2>1, <2>2, <2>3
<1>3. t.to = "syncing"
  BY WriterMoves
<1>4. CASE /\ Transition(wrec[w], t)
           /\ answer' = [answer EXCEPT ![w] = IF Accepts(recs[wrec[w]], t)
                                             THEN "accepted" ELSE "could not be pushed"]
  <2>1. recs' = recs \/ Moving(wrec[w], t)
    BY RecordPushMoves
  <2>2. RecStep
    BY <2>1 DEF RecStep
  <2>3. recs' = recs \/ \E k, u : Moving(k, u) /\ Earned(k, u.to)
    BY <1>3, <2>1 DEF Earned
  <2>4. ASSUME Accepts(recs[wrec[w]], t) PROVE recs'[wrec[w]].state = "syncing"
    <3>1. recs \in Seq(RecSet) /\ wrec[w] \in 1 .. Len(recs) /\ recs[wrec[w]] \in RecSet
      BY <1>1, <1>2, ElementOfSeq DEF RecInv, Seqs
    <3>2. recs' = [recs EXCEPT ![wrec[w]] = Moved(recs[wrec[w]], t)]
      BY <1>4, <2>4 DEF Transition
    <3>3. recs'[wrec[w]] = Moved(recs[wrec[w]], t)
      BY <3>1, <3>2
    <3>4. Moved(recs[wrec[w]], t).state = "syncing"
      BY <1>3, <3>1, WriterMoves, MovedType
    <3> QED
      BY <3>3, <3>4
  <2>5. WriterOK(w)'
    <3>1. wrec'[w] \in Seqs' /\ wrec'[w] \in OnBranch'
      BY <1>1, <1>2, <2>2, RecStepOK
    <3>2. /\ answer'[w] \in {"accepted", "could not be pushed"}
          /\ answer'[w] = "accepted" => recs'[wrec'[w]].state # "pending"
      BY <1>1, <1>4, <2>4 DEF WriterInv
    <3> QED
      BY <1>2, <3>1, <3>2 DEF WriterOK
  <2> HIDE DEF t
  <2> QED
    BY <1>1, <1>2, <1>4, <2>3, <2>5, WriterStep
<1>5. CASE recs' = recs /\ answer' = [answer EXCEPT ![w] = "could not be pushed"]
  <2>1. answer'[w] = "could not be pushed" /\ wrec'[w] \in Seqs'
    BY <1>1, <1>2, <1>5 DEF WriterInv, Seqs
  <2>2. WriterOK(w)'
    BY <1>2, <2>1 DEF WriterOK
  <2> QED
    BY <1>1, <1>2, <1>5, <2>2, WriterStep
<1> QED
  BY <1>4, <1>5 DEF RecordPush

\* What a request pushes is a manifest with an image, made of what it cloned.
LEMMA CommitType ==
    ASSUME RecInv, WriterInv, NEW w \in Writers, wpc[w] = "push"
    PROVE  /\ Commit(w) \in CommitSet /\ Commit(w).id = wrec[w]
           /\ Commit(w).manifest = Render(ManifestAt(wbase[w]), ask[w])
           /\ Commit(w).manifest.image # "none"
<1> DEFINE m == ManifestAt(wbase[w])
           a == ask[w]
<1>1. /\ WriterOK(w) /\ wbase[w] \in 0 .. Len(branch) /\ Renderable(m, a)
      /\ wrec[w] \in Nat /\ branch \in Seq(CommitSet)
  <2>1. WriterOK(w) /\ branch \in Seq(CommitSet)
    BY DEF WriterInv
  <2>2. wbase[w] \in 0 .. Len(branch) /\ Renderable(m, a) /\ wrec[w] \in Seqs
    BY <2>1 DEF WriterOK
  <2> QED
    BY <2>1, <2>2 DEF Seqs
<1>2. a \in [image : AskedImages, replicas : AskedReplicas] /\ a.image # "none"
  BY DEF WriterInv
<1>3. m \in Manifests /\ (m # NoManifest => m.image # "none")
  <2>1. CASE wbase[w] = 0
    BY <2>1 DEF ManifestAt, NoManifest, Manifests
  <2>2. CASE wbase[w] # 0
    <3>1. wbase[w] \in 1 .. Len(branch) /\ branch[wbase[w]] \in CommitSet
      BY <1>1, <2>2, ElementOfSeq
    <3>2. m = branch[wbase[w]].manifest
      BY <2>2 DEF ManifestAt
    <3>3. branch[wbase[w]].manifest.image # "none"
      BY <3>1 DEF WriterInv, EveryCommitBuildsOnTheLast
    <3> QED
      BY <3>1, <3>2, <3>3 DEF CommitSet
  <2> QED
    BY <2>1, <2>2
<1> HIDE DEF m, a
<1>4. Render(m, a) \in Manifests /\ Render(m, a).image # "none"
  BY <1>1, <1>2, <1>3 DEF Render, Renderable, Manifests
<1>5. Commit(w) = [id |-> wrec[w], manifest |-> Render(m, a)]
  BY DEF Commit, m, a
<1> QED
  BY <1>1, <1>4, <1>5 DEF CommitSet, m, a

\* The branch with one more commit.
LEMMA GrownBranch ==
    ASSUME WriterInv, NEW x \in CommitSet, branch' = Append(branch, x)
    PROVE  /\ branch' \in Seq(CommitSet) /\ Len(branch) \in Nat
           /\ Len(branch') = Len(branch) + 1
           /\ 0 .. Len(branch) \subseteq 0 .. Len(branch')
           /\ branch'[Len(branch) + 1] = x
           /\ \A i \in 1 .. Len(branch) : branch'[i] = branch[i]
           /\ \A i \in 0 .. Len(branch) : ManifestAt(i)' = ManifestAt(i)
           /\ OnBranch' = OnBranch \union {x.id}
<1>1. branch \in Seq(CommitSet) /\ Len(branch) \in Nat
  BY DEF WriterInv
<1>2. /\ branch' \in Seq(CommitSet) /\ Len(branch') = Len(branch) + 1
      /\ branch'[Len(branch) + 1] = x
      /\ \A i \in 1 .. Len(branch) : branch'[i] = branch[i]
  BY <1>1, AppendProperties
<1>3. 0 .. Len(branch) \subseteq 0 .. Len(branch')
  BY <1>1, <1>2
<1>4. ASSUME NEW i \in 0 .. Len(branch) PROVE ManifestAt(i)' = ManifestAt(i)
  <2>1. CASE i = 0
    BY <2>1 DEF ManifestAt
  <2>2. CASE i # 0
    <3>1. branch'[i] = branch[i]
      BY <1>1, <1>2, <2>2
    <3> QED
      BY <2>2, <3>1 DEF ManifestAt
  <2> QED
    BY <2>1, <2>2
<1>5. OnBranch' = OnBranch \union {x.id}
  <2>1. ASSUME NEW y \in OnBranch' PROVE y \in OnBranch \union {x.id}
    <3>1. PICK i \in 1 .. Len(branch') : y = branch'[i].id
      BY <2>1 DEF OnBranch
    <3>2. i \in 1 .. Len(branch) \/ i = Len(branch) + 1
      BY <1>1, <1>2, <3>1
    <3> QED
      BY <1>2, <3>1, <3>2 DEF OnBranch
  <2>2. ASSUME NEW y \in OnBranch PROVE y \in OnBranch'
    <3>1. PICK i \in 1 .. Len(branch) : y = branch[i].id
      BY <2>2 DEF OnBranch
    <3>2. i \in 1 .. Len(branch') /\ y = branch'[i].id
      BY <1>1, <1>2, <3>1
    <3> QED
      BY <3>2 DEF OnBranch
  <2>3. x.id \in OnBranch'
    <3>1. Len(branch) + 1 \in 1 .. Len(branch')
      BY <1>1, <1>2
    <3> QED
      BY <1>2, <3>1 DEF OnBranch
  <2> QED
    BY <2>1, <2>2, <2>3
<1> QED
  BY <1>1, <1>2, <1>3, <1>4, <1>5

LEMMA PushOK ==
    ASSUME IInv, NEW w \in Writers, Push(w)
    PROVE  IInv'
<1>1. /\ RecInv /\ WriterInv /\ WatchInv /\ AnswersAreEarned /\ WriterOK(w)
      /\ wpc[w] = "push" /\ wbase' = [wbase EXCEPT ![w] = 0]
      /\ recs' = recs /\ answer' = answer /\ wrec' = wrec /\ ask' = ask /\ now' = now
      /\ UNCHANGED << clusterVars, watchVars, truth >> /\ truth' = truth
  BY DEF IInv, WriterInv, Push
<1>2. /\ answer' = [answer EXCEPT ![w] = answer[w]] /\ answer[w] = "none"
      /\ wrec[w] \in Seqs /\ wrec[w] \notin OnBranch /\ Seqs' = Seqs
  <2>1. answer[w] = "none" /\ wrec[w] \in Seqs /\ wrec[w] \notin OnBranch
    BY <1>1 DEF WriterOK
  <2>2. answer' = [answer EXCEPT ![w] = answer[w]]
    BY <1>1 DEF WriterInv
  <2> QED
    BY <1>1, <2>1, <2>2 DEF Seqs
<1>3. CASE wpc' = [wpc EXCEPT ![w] = "failed"] /\ branch' = branch
  <2>1. wpc'[w] = "failed" /\ wrec'[w] \in Seqs' /\ answer'[w] = "none"
    BY <1>1, <1>2, <1>3 DEF WriterInv
  <2>2. WriterOK(w)'
    BY <2>1 DEF WriterOK
  <2> QED
    BY <1>1, <1>2, <1>3, <2>2, WriterStep
<1>4. ASSUME NEW p \in {"pushed", "failed"}, wpc' = [wpc EXCEPT ![w] = p],
             Len(branch) = wbase[w], branch' = Append(branch, Commit(w))
      PROVE  IInv'
  <2> DEFINE x == Commit(w)
  <2>1. /\ x \in CommitSet /\ x.id = wrec[w] /\ x.manifest.image # "none"
        /\ x.manifest = Render(ManifestAt(Len(branch)), ask[w])
    BY <1>1, <1>4, CommitType
  <2>2. branch' = Append(branch, x)
    BY <1>4
  <2> HIDE DEF x
  <2>3. /\ branch' \in Seq(CommitSet) /\ Len(branch) \in Nat
        /\ Len(branch') = Len(branch) + 1
        /\ 0 .. Len(branch) \subseteq 0 .. Len(branch')
        /\ branch'[Len(branch) + 1] = x
        /\ \A i \in 1 .. Len(branch) : branch'[i] = branch[i]
        /\ \A i \in 0 .. Len(branch) : ManifestAt(i)' = ManifestAt(i)
        /\ OnBranch' = OnBranch \union {wrec[w]}
    BY <1>1, <2>1, <2>2, GrownBranch
  <2>4. RecStep
    BY <1>1 DEF RecStep
  <2>5. RecInv'
    BY <1>1, <2>4, RecFrame
  <2>6. WatchInv'
    BY <1>1, <2>3, <2>4, WatchFrame
  <2>7. AnswersAreEarned'
    <3>1. Settled
      BY <1>1, <1>4 DEF Settled, WriterInv
    <3> QED
      BY <1>1, <3>1, EarnFrame
  <2>8. ASSUME NEW v \in Writers PROVE WriterOK(v)'
    <3>1. CASE v = w
      <4>1. wpc'[w] = p /\ wrec'[w] \in Seqs' /\ wrec'[w] \in OnBranch' /\ answer'[w] = "none"
        BY <1>1, <1>2, <1>4, <2>3 DEF WriterInv
      <4> QED
        BY <1>4, <3>1, <4>1 DEF WriterOK
    <3>2. CASE v # w
      <4>1. /\ WriterOK(v) /\ wpc'[v] = wpc[v] /\ wbase'[v] = wbase[v]
            /\ wrec'[v] = wrec[v] /\ answer'[v] = answer[v]
        BY <1>1, <1>4, <3>2 DEF WriterInv
      <4>2. wrec[v] # wrec[w]
        <5>1. wrec[w] # 0
          BY <1>1, <1>2 DEF Seqs, RecInv
        <5> QED
          BY <1>1, <3>2, <5>1 DEF WriterInv
      <4> QED
        BY <1>1, <1>2, <2>3, <4>1, <4>2, OtherWriter
    <3> QED
      BY <3>1, <3>2
  <2>9. EveryCommitBuildsOnTheLast'
    <3> SUFFICES ASSUME NEW i \in 1 .. Len(branch')
                 PROVE  \E v \in Writers :
                           /\ wrec[v] = branch'[i].id
                           /\ branch'[i].manifest = Render(ManifestAt(i - 1)', ask[v])
                           /\ branch'[i].manifest.image # "none"
      BY <1>1 DEF EveryCommitBuildsOnTheLast, ManifestAt, NoManifest, Render
    <3>1. CASE i = Len(branch) + 1
      <4>1. i - 1 = Len(branch) /\ Len(branch) \in 0 .. Len(branch)
        BY <2>3, <3>1
      <4>2. ManifestAt(i - 1)' = ManifestAt(Len(branch))
        BY <2>3, <4>1
      <4> QED
        BY <2>1, <2>3, <3>1, <4>2
    <3>2. CASE i \in 1 .. Len(branch)
      <4>1. i - 1 \in 0 .. Len(branch)
        BY <2>3, <3>2
      <4>2. ManifestAt(i - 1)' = ManifestAt(i - 1) /\ branch'[i] = branch[i]
        BY <2>3, <3>2, <4>1
      <4> QED
        BY <1>1, <3>2, <4>2 DEF WriterInv, EveryCommitBuildsOnTheLast
    <3> QED
      BY <2>3, <3>1, <3>2
  <2>10. EveryCommitHasItsRecord' /\ IsFiniteSet(OnBranch)'
    <3>1. /\ OnBranch \subseteq Seqs /\ Cardinality(OnBranch) = Len(branch)
          /\ IsFiniteSet(OnBranch)
      BY <1>1 DEF WriterInv, EveryCommitHasItsRecord
    <3>2. /\ IsFiniteSet(OnBranch \union {wrec[w]})
          /\ Cardinality(OnBranch \union {wrec[w]}) = Cardinality(OnBranch) + 1
      BY <1>2, <3>1, FS_AddElement
    <3> QED
      BY <1>2, <2>3, <3>1, <3>2 DEF EveryCommitHasItsRecord
  <2>11. /\ wpc' = [v \in Writers |-> wpc'[v]] /\ wbase' = [v \in Writers |-> wbase'[v]]
    BY <1>1, <1>4 DEF WriterInv
  <2>12. WriterInv'
    BY <1>1, <2>3, <2>8, <2>9, <2>10, <2>11 DEF WriterInv
  <2> QED
    BY <2>5, <2>6, <2>7, <2>12 DEF IInv
<1> QED
  BY <1>3, <1>4 DEF Push

---------------------------------------------------------------------------
(* The cluster, the observer and the sweep.                                *)

LEMMA WatchStep ==
    ASSUME IInv, UNCHANGED << branch, writerVars >>, now' \in {now, now + 1},
           truth \subseteq truth',
           recs' = recs \/ \E k, t : Moving(k, t) /\ Earned(k, t.to),
           WatchInv'
    PROVE  IInv'
<1>1. RecInv /\ WriterInv /\ AnswersAreEarned /\ RecStep
  BY DEF IInv, RecStep
<1>2. RecInv'
  BY <1>1, RecFrame
<1>3. WriterInv'
  BY <1>1, WriterFrame
<1>4. Settled
  BY DEF Settled, writerVars
<1>5. AnswersAreEarned'
  BY <1>1, <1>4, EarnFrame
<1> QED
  BY <1>2, <1>3, <1>5 DEF IInv

\* A change of the Deployment is credited to the rollout it carries.
LEMMA BecomesOK ==
    ASSUME IInv, NEW d, Becomes(d), synced' \in 0 .. Len(branch),
           UNCHANGED << recs, branch, writerVars, leader, handovers, job, sweeping, now >>
    PROVE  IInv'
<1>1. /\ WatchInv /\ depl' = d /\ truth' = truth \union Facts(d) /\ dirty' = TRUE
      /\ recs' = recs /\ leader' = leader /\ job' = job /\ sweeping' = sweeping
      /\ now' = now /\ branch' = branch
  BY DEF IInv, Becomes
<1>2. Facts(depl)' = Facts(d)
  BY <1>1 DEF Facts
<1>3. Seqs' = Seqs /\ truth \subseteq truth'
  BY <1>1 DEF Seqs
<1>4. ASSUME NEW n \in Nodes
      PROVE  /\ job'[n] # None => JobOK(job[n])'
             /\ \A s \in sweeping'[n] : s.id \in Seqs'
  <2>1. job[n] # None => JobOK(job[n])
    BY <1>1 DEF WatchInv
  <2>2. job'[n] # None => JobOK(job[n])'
    BY <1>1, <1>3, <2>1 DEF JobOK, AllowedFrom
  <2>3. \A s \in sweeping'[n] : s.id \in Seqs'
    BY <1>1, <1>3 DEF WatchInv
  <2> QED
    BY <2>2, <2>3
<1>5. WatchInv'
  <2>1. Facts(depl)' \subseteq truth'
    BY <1>1, <1>2
  <2> QED
    BY <1>1, <1>4, <2>1 DEF WatchInv
<1> QED
  BY <1>1, <1>3, <1>5, WatchStep

LEMMA ApplyOK == IInv /\ Apply => IInv'
<1> SUFFICES ASSUME IInv, Apply PROVE IInv'
  OBVIOUS
<1>1. PICK k \in synced + 1 .. Len(branch) :
        LET c == branch[k]
        IN  /\ synced' = k
            /\ Becomes([depl EXCEPT !.id = c.id, !.spec = c.manifest,
                          !.generation = IF depl.spec = c.manifest THEN @ ELSE @ + 1])
            /\ UNCHANGED << recs, branch, writerVars, leader, handovers, job,
                            sweeping, now >>
  BY DEF Apply
<1> DEFINE d == [depl EXCEPT !.id = branch[k].id, !.spec = branch[k].manifest,
                   !.generation = IF depl.spec = branch[k].manifest THEN @ ELSE @ + 1]
<1>2. /\ synced' = k /\ Becomes(d)
      /\ UNCHANGED << recs, branch, writerVars, leader, handovers, job, sweeping, now >>
  BY <1>1
<1>3. k \in 0 .. Len(branch)
  <2>1. synced \in 0 .. Len(branch) /\ Len(branch) \in Nat
    BY DEF IInv, WatchInv, WriterInv
  <2> QED
    BY <2>1
<1> HIDE DEF d
<1> QED
  BY <1>2, <1>3, BecomesOK

LEMMA ObserveOK == IInv /\ Observe => IInv'
<1> SUFFICES ASSUME IInv, Observe PROVE IInv'
  OBVIOUS
<1> DEFINE d == [depl EXCEPT !.observedGeneration = depl.generation,
                             !.pods = "none", !.refused = FALSE, !.late = FALSE]
<1>1. /\ Becomes(d) /\ synced' = synced
      /\ UNCHANGED << recs, branch, writerVars, leader, handovers, job, sweeping, now >>
  BY DEF Observe
<1>2. synced' \in 0 .. Len(branch)
  BY <1>1 DEF IInv, WatchInv
<1> HIDE DEF d
<1> QED
  BY <1>1, <1>2, BecomesOK

LEMMA StatusOK == IInv /\ Status => IInv'
<1> SUFFICES ASSUME IInv, Status PROVE IInv'
  OBVIOUS
<1>1. /\ \E d : Becomes(d)
      /\ synced' = synced
      /\ UNCHANGED << recs, branch, writerVars, leader, handovers, job, sweeping, now >>
  <2>1. /\ synced' = synced
        /\ UNCHANGED << recs, branch, writerVars, leader, handovers, job, sweeping, now >>
    BY DEF Status
  <2>2. \/ Becomes([depl EXCEPT !.pods = "starting"])
        \/ Becomes([depl EXCEPT !.pods = "ready", !.late = FALSE])
        \/ Becomes([depl EXCEPT !.refused = ~ @])
        \/ Becomes([depl EXCEPT !.late = TRUE])
        \/ Becomes([depl EXCEPT !.pods = "restarting"])
    BY DEF Status
  <2> QED
    BY <2>1, <2>2
<1>2. synced' \in 0 .. Len(branch)
  BY <1>1 DEF IInv, WatchInv
<1> QED
  BY <1>1, <1>2, BecomesOK

\* A step that touches neither the Deployment nor the records, and leaves only
\* writes that were planned before or are planned rightly now.
LEMMA LeaderStep ==
    ASSUME IInv, UNCHANGED << recs, branch, writerVars, clusterVars, truth >>,
           now' \in {now, now + 1}, leader' \in Nodes, dirty' \in BOOLEAN,
           job' = [n \in Nodes |-> job'[n]], sweeping' = [n \in Nodes |-> sweeping'[n]],
           \A n \in Nodes : /\ job'[n] \in {job[n], None} \/ JobOK(job'[n])
                            /\ \/ sweeping'[n] \subseteq sweeping[n]
                               \/ \A s \in sweeping'[n] : s.id \in Seqs
    PROVE  IInv'
<1>1. /\ WatchInv /\ recs' = recs /\ branch' = branch /\ depl' = depl
      /\ synced' = synced /\ truth' = truth
  BY DEF IInv, clusterVars
<1>2. Seqs' = Seqs /\ Facts(depl)' = Facts(depl)
  BY <1>1 DEF Seqs, Facts
<1>3. ASSUME NEW n \in Nodes
      PROVE  /\ job'[n] # None => JobOK(job[n])'
             /\ \A s \in sweeping'[n] : s.id \in Seqs'
  <2>1. job'[n] # None => JobOK(job'[n])
    BY <1>1 DEF WatchInv
  <2>2. job'[n] # None => JobOK(job[n])'
    BY <1>1, <1>2, <2>1 DEF JobOK, AllowedFrom
  <2>3. \A s \in sweeping'[n] : s.id \in Seqs'
    BY <1>1, <1>2 DEF WatchInv
  <2> QED
    BY <2>2, <2>3
<1>4. WatchInv'
  BY <1>1, <1>2, <1>3 DEF WatchInv
<1> QED
  BY <1>1, <1>4, WatchStep

\* What Reconcile plans from the Deployment it read is true of that rollout.
LEMMA ReconcileReadOK ==
    ASSUME IInv, NEW n \in Nodes, ReconcileRead(n)
    PROVE  IInv'
<1> DEFINE want == Derive(depl)
           j == [id |-> depl.id,
                 t  |-> [from |-> AllowedFrom(want), to |-> want,
                         expect |-> {Version(recs[depl.id])},
                         admission |-> AdmissionOutcome(depl, want)]]
           v == IF depl.id \notin 1 .. Len(recs) \/ want = NoState THEN None
                ELSE IF recs[depl.id].state = want THEN None ELSE j
<1>1. /\ WatchInv /\ RecInv /\ dirty' = FALSE /\ job' = [job EXCEPT ![n] = v]
      /\ UNCHANGED << recs, branch, writerVars, clusterVars, truth >>
      /\ leader' = leader /\ sweeping' = sweeping /\ now' = now
  BY DEF IInv, ReconcileRead
<1>2. v = None \/ JobOK(v)
  <2> HIDE DEF j
  <2> SUFFICES ASSUME depl.id \in 1 .. Len(recs), want # NoState PROVE JobOK(j)
    OBVIOUS
  <2> HIDE DEF v
  <2>1. depl.observedGeneration = depl.generation /\ depl.id # 0
    <3>1. Len(recs) \in Nat
      BY <1>1 DEF RecInv
    <3>2. depl.id # 0
      BY <3>1
    <3>3. depl.observedGeneration # depl.generation => want = NoState
      BY DEF Derive
    <3> QED
      BY <3>2, <3>3
  <2>2. want \in {"applied", "running", "failed", "rejected"}
    BY DEF Derive
  <2>3. want # "applied" => <<depl.id, want>> \in Facts(depl)
    BY <2>1 DEF Derive, Facts
  <2>4. want # "applied" => <<depl.id, want>> \in truth
    BY <1>1, <2>3 DEF WatchInv
  <2>5. AdmissionOutcome(depl, want) \in Admissions \union {"keep"}
    BY DEF AdmissionOutcome, Admissions
  <2> HIDE DEF want
  <2> QED
    BY <2>2, <2>4, <2>5 DEF JobOK, Seqs, j
<1> HIDE DEF v
<1>3. /\ job' = [m \in Nodes |-> job'[m]] /\ sweeping' = [m \in Nodes |-> sweeping'[m]]
      /\ leader' \in Nodes
  BY <1>1 DEF WatchInv
<1>4. \A m \in Nodes : /\ job'[m] \in {job[m], None} \/ JobOK(job'[m])
                       /\ sweeping'[m] \subseteq sweeping[m]
  BY <1>1, <1>2 DEF WatchInv
<1> QED
  BY <1>1, <1>3, <1>4, LeaderStep

LEMMA ReconcileErrorOK ==
    ASSUME IInv, NEW n \in Nodes, ReconcileError(n)
    PROVE  IInv'
<1>1. /\ WatchInv /\ job' = [job EXCEPT ![n] = None] /\ dirty' = (dirty \/ leader = n)
      /\ UNCHANGED << recs, branch, writerVars, clusterVars, truth >>
      /\ leader' = leader /\ sweeping' = sweeping /\ now' = now
  BY DEF IInv, ReconcileError
<1>2. /\ job' = [m \in Nodes |-> job'[m]] /\ sweeping' = [m \in Nodes |-> sweeping'[m]]
      /\ leader' \in Nodes
  BY <1>1 DEF WatchInv
<1>3. \A m \in Nodes : job'[m] \in {job[m], None} /\ sweeping'[m] \subseteq sweeping[m]
  BY <1>1 DEF WatchInv
<1>4. dirty' \in BOOLEAN
  BY <1>1
<1> QED
  BY <1>1, <1>2, <1>3, <1>4, LeaderStep

LEMMA NodeGoneOK ==
    ASSUME IInv, NEW n \in Nodes, NodeGone(n)
    PROVE  IInv'
<1>1. /\ WatchInv /\ job' = [job EXCEPT ![n] = None] /\ sweeping' = [sweeping EXCEPT ![n] = {}]
      /\ UNCHANGED << recs, branch, writerVars, clusterVars, truth >>
      /\ leader' = leader /\ dirty' = dirty /\ now' = now
  BY DEF IInv, NodeGone
<1>2. /\ job' = [m \in Nodes |-> job'[m]] /\ sweeping' = [m \in Nodes |-> sweeping'[m]]
      /\ leader' \in Nodes /\ dirty' \in BOOLEAN
  BY <1>1 DEF WatchInv
<1>3. \A m \in Nodes : job'[m] \in {job[m], None} /\ sweeping'[m] \subseteq sweeping[m]
  BY <1>1 DEF WatchInv
<1> QED
  BY <1>1, <1>2, <1>3, LeaderStep

\* The steps that plan nothing.
LEMMA QuietOK ==
    ASSUME IInv, Resync \/ Tick \/ \E n \in Nodes : Handover(n)
    PROVE  IInv'
<1>1. /\ WatchInv /\ job' = job /\ sweeping' = sweeping
      /\ UNCHANGED << recs, branch, writerVars, clusterVars, truth >>
      /\ (leader' = leader \/ leader' \in Nodes)
      /\ dirty' \in {dirty, TRUE} /\ now' \in {now, now + 1}
  BY DEF IInv, Resync, Tick, Handover, watchVars
<1>2. /\ job' = [m \in Nodes |-> job'[m]] /\ sweeping' = [m \in Nodes |-> sweeping'[m]]
      /\ leader' \in Nodes /\ dirty' \in BOOLEAN
  BY <1>1 DEF WatchInv
<1>3. \A m \in Nodes : job'[m] \in {job[m], None} /\ sweeping'[m] \subseteq sweeping[m]
  BY <1>1
<1> QED
  BY <1>1, <1>2, <1>3, LeaderStep

LEMMA SweepListOK ==
    ASSUME IInv, NEW n \in Nodes, SweepList(n) \/ SweepError(n)
    PROVE  IInv'
<1>1. /\ WatchInv /\ job' = job
      /\ UNCHANGED << recs, branch, writerVars, clusterVars, truth >>
      /\ leader' = leader /\ dirty' = dirty /\ now' = now
  BY DEF IInv, SweepList, SweepError
<1>2. \E v : sweeping' = [sweeping EXCEPT ![n] = v] /\ \A s \in v : s.id \in Seqs
  <2>1. CASE SweepError(n)
    <3>1. sweeping' = [sweeping EXCEPT ![n] = {}]
      BY <2>1 DEF SweepError
    <3> DEFINE v == {}
    <3>2. \A s \in v : s.id \in Seqs
      OBVIOUS
    <3>3. sweeping' = [sweeping EXCEPT ![n] = v]
      BY <3>1
    <3> HIDE DEF v
    <3> QED
      BY <3>2, <3>3
  <2>2. CASE SweepList(n)
    <3> DEFINE old == {k \in 1 .. Len(recs) : recs[k].createdAt + After < now
                                                 /\ recs[k].state \in Unanswered}
               v == {[id |-> k, version |-> Version(recs[k])] : k \in old}
    <3>1. sweeping' = [sweeping EXCEPT ![n] = v]
      BY <2>2 DEF SweepList
    <3>2. \A s \in v : s.id \in Seqs
      BY DEF Seqs
    <3> HIDE DEF v
    <3> QED
      BY <3>1, <3>2
  <2> QED
    BY <2>1, <2>2
<1>3. /\ job' = [m \in Nodes |-> job'[m]] /\ sweeping' = [m \in Nodes |-> sweeping'[m]]
      /\ leader' \in Nodes /\ dirty' \in BOOLEAN
  BY <1>1, <1>2 DEF WatchInv
<1>4. \A m \in Nodes : /\ job'[m] \in {job[m], None}
                       /\ \/ sweeping'[m] \subseteq sweeping[m]
                          \/ \A s \in sweeping'[m] : s.id \in Seqs
  BY <1>1, <1>2 DEF WatchInv
<1> QED
  BY <1>1, <1>3, <1>4, LeaderStep

\* A write of the observer or of the sweep: what is left to write is a part of
\* what was.
LEMMA WriteStep ==
    ASSUME IInv, UNCHANGED << branch, writerVars, clusterVars, leader, dirty, now, truth >>,
           job' = [n \in Nodes |-> job'[n]], sweeping' = [n \in Nodes |-> sweeping'[n]],
           \A n \in Nodes : job'[n] \in {job[n], None} /\ sweeping'[n] \subseteq sweeping[n],
           recs' = recs \/ \E k, t : Moving(k, t) /\ Earned(k, t.to)
    PROVE  IInv'
<1>1. /\ WatchInv /\ RecInv /\ RecStep /\ branch' = branch /\ depl' = depl
      /\ synced' = synced /\ truth' = truth /\ leader' = leader /\ dirty' = dirty /\ now' = now
  BY DEF IInv, RecStep, clusterVars
<1>2. Seqs \subseteq Seqs' /\ Facts(depl)' = Facts(depl)
  BY <1>1, RecStepOK DEF Facts
<1>3. ASSUME NEW n \in Nodes
      PROVE  /\ job'[n] # None => JobOK(job[n])'
             /\ \A s \in sweeping'[n] : s.id \in Seqs'
  <2>1. job'[n] # None => JobOK(job'[n])
    BY <1>1 DEF WatchInv
  <2>2. job'[n] # None => JobOK(job[n])'
    BY <1>1, <1>2, <2>1 DEF JobOK, AllowedFrom
  <2>3. \A s \in sweeping'[n] : s.id \in Seqs'
    BY <1>1, <1>2 DEF WatchInv
  <2> QED
    BY <2>2, <2>3
<1>4. WatchInv'
  BY <1>1, <1>2, <1>3 DEF WatchInv
<1> QED
  BY <1>1, <1>4, WatchStep

LEMMA ReconcileWriteOK ==
    ASSUME IInv, NEW n \in Nodes, ReconcileWrite(n)
    PROVE  IInv'
<1> DEFINE j == job[n]
<1>1. /\ WatchInv /\ RecInv /\ j # None /\ Transition(j.id, j.t)
      /\ job' = [job EXCEPT ![n] = None] /\ sweeping' = sweeping
      /\ UNCHANGED << branch, writerVars, clusterVars, leader, dirty, now, truth >>
  BY DEF IInv, ReconcileWrite
<1>2. JobOK(j)
  BY <1>1 DEF WatchInv
<1>3. /\ job' = [m \in Nodes |-> job'[m]] /\ sweeping' = [m \in Nodes |-> sweeping'[m]]
      /\ \A m \in Nodes : job'[m] \in {job[m], None} /\ sweeping'[m] \subseteq sweeping[m]
  BY <1>1 DEF WatchInv
<1>5. recs' = recs \/ Moving(j.id, j.t)
  BY ReconcileWriteMoves
<1> HIDE DEF j
<1>6. Earned(j.id, j.t.to)
  BY <1>1, <1>2 DEF JobOK, Earned
<1> QED
  BY <1>1, <1>3, <1>5, <1>6, WriteStep

LEMMA SweepWriteOK ==
    ASSUME IInv, NEW n \in Nodes, SweepWrite(n)
    PROVE  IInv'
<1>1. PICK s \in sweeping[n] :
        /\ recs' = recs \/ Moving(s.id, GiveUp(s))
        /\ sweeping' = [sweeping EXCEPT ![n] = @ \ {s}]
        /\ UNCHANGED << branch, writerVars, clusterVars, leader, dirty, job, now, truth >>
  BY SweepWriteMoves
<1>2. /\ job' = [m \in Nodes |-> job'[m]] /\ sweeping' = [m \in Nodes |-> sweeping'[m]]
      /\ \A m \in Nodes : job'[m] \in {job[m], None} /\ sweeping'[m] \subseteq sweeping[m]
  BY <1>1 DEF IInv, WatchInv
<1>3. Earned(s.id, GiveUp(s).to)
  BY DEF Earned, GiveUp
<1> QED
  BY <1>1, <1>2, <1>3, WriteStep

LEMMA InitOK == Init => IInv
<1> SUFFICES ASSUME Init PROVE IInv
  OBVIOUS
<1>1. /\ recs = << >> /\ branch = << >> /\ Len(recs) = 0 /\ Len(branch) = 0
      /\ recs \in Seq(RecSet) /\ branch \in Seq(CommitSet)
  BY DEF Init
<1>2. Seqs = {} /\ OnBranch = {}
  BY <1>1 DEF Seqs, OnBranch
<1>3. RecInv
  BY <1>1, <1>2 DEF Init, RecInv
<1>4. \A w \in Writers : WriterOK(w)
  BY <1>1, <1>2 DEF Init, WriterOK
<1>5. EveryCommitBuildsOnTheLast
  BY <1>1 DEF EveryCommitBuildsOnTheLast
<1>6. EveryCommitHasItsRecord /\ IsFiniteSet(OnBranch)
  BY <1>1, <1>2, FS_EmptySet DEF EveryCommitHasItsRecord
<1>7. WriterInv
  <2>1. /\ ask \in Asks /\ wpc = [w \in Writers |-> wpc[w]] /\ wrec = [w \in Writers |-> wrec[w]]
        /\ wbase = [w \in Writers |-> wbase[w]] /\ answer = [w \in Writers |-> answer[w]]
        /\ \A w \in Writers : wrec[w] = 0
    BY DEF Init
  <2> QED
    BY <1>1, <1>4, <1>5, <1>6, <2>1 DEF WriterInv
<1>8. WatchInv
  <2>1. Facts(depl) = {}
    <3>1. depl.id = 0
      BY DEF Init, NoDeployment
    <3> QED
      BY <3>1 DEF Facts
  <2>2. /\ synced = 0 /\ leader \in Nodes /\ dirty = FALSE
        /\ job = [n \in Nodes |-> None] /\ sweeping = [n \in Nodes |-> {}]
    BY DEF Init
  <2>3. 0 \in 0 .. Len(branch)
    BY <1>1
  <2> QED
    BY <2>1, <2>2, <2>3 DEF WatchInv
<1>9. AnswersAreEarned
  BY <1>2 DEF AnswersAreEarned
<1> QED
  BY <1>3, <1>7, <1>8, <1>9 DEF IInv

LEMMA NextOK == IInv /\ [Next]_vars => IInv'
<1> SUFFICES ASSUME IInv, [Next]_vars PROVE IInv'
  OBVIOUS
<1>1. ASSUME NEW w \in Writers,
             \/ Open(w) \/ Clone(w) \/ Push(w) \/ RecordFailure(w)
             \/ RecordPush(w) \/ WriterGone(w)
      PROVE  IInv'
  BY <1>1, OpenOK, CloneOK, PushOK, RecordFailureOK, RecordPushOK, WriterGoneOK
<1>2. CASE Apply \/ Observe \/ Status
  BY <1>2, ApplyOK, ObserveOK, StatusOK
<1>3. CASE Resync \/ Tick
  BY <1>3, QuietOK
<1>4. ASSUME NEW n \in Nodes,
             \/ ReconcileRead(n) \/ ReconcileWrite(n) \/ ReconcileError(n)
             \/ Handover(n) \/ NodeGone(n) \/ SweepList(n) \/ SweepWrite(n) \/ SweepError(n)
      PROVE  IInv'
  BY <1>4, ReconcileReadOK, ReconcileWriteOK, ReconcileErrorOK, QuietOK, NodeGoneOK,
     SweepListOK, SweepWriteOK
<1>5. CASE UNCHANGED vars
  <2>1. /\ UNCHANGED << recs, branch, writerVars, clusterVars, truth >>
        /\ UNCHANGED << leader, dirty, job, sweeping >> /\ now' = now
    BY <1>5 DEF vars, watchVars
  <2>2. WatchInv
    BY DEF IInv
  <2>3. /\ job' = [m \in Nodes |-> job'[m]] /\ sweeping' = [m \in Nodes |-> sweeping'[m]]
        /\ leader' \in Nodes /\ dirty' \in BOOLEAN
    BY <2>1, <2>2 DEF WatchInv
  <2>4. \A m \in Nodes : job'[m] \in {job[m], None} /\ sweeping'[m] \subseteq sweeping[m]
    BY <2>1
  <2> QED
    BY <2>1, <2>3, <2>4, LeaderStep
<1> QED
  BY <1>1, <1>2, <1>3, <1>4, <1>5 DEF Next

---------------------------------------------------------------------------
(* The theorems.                                                           *)

\* The invariant holds in every reachable state.
THEOREM Invariance == Spec => []IInv
<1>1. Init => IInv
  BY InitOK
<1>2. IInv /\ [Next]_vars => IInv'
  BY NextOK
<1> QED
  BY <1>1, <1>2, PTL DEF Spec

\* A record says running, rejected or failed only of its own rollout and only
\* after it was so, or because its own writer gave the commit up: whatever old
\* leaders still write, and however the status lags the generation.
THEOREM AnswersAreAlwaysEarned == Spec => []AnswersAreEarned
<1>1. IInv => AnswersAreEarned
  BY DEF IInv
<1> QED
  BY <1>1, Invariance, PTL

\* Every commit carries the id of a record opened before it, and no two carry
\* the same one, whoever died between the Append and the push.
THEOREM CommitsHaveRecords == Spec => []EveryCommitHasItsRecord
<1>1. IInv => EveryCommitHasItsRecord
  BY DEF IInv, WriterInv
<1> QED
  BY <1>1, Invariance, PTL

\* Every commit is what its request makes of the commit before it, and none is
\* of an app without an image.
THEOREM CommitsBuildOnTheLast == Spec => []EveryCommitBuildsOnTheLast
<1>1. IInv => EveryCommitBuildsOnTheLast
  BY DEF IInv, WriterInv
<1> QED
  BY <1>1, Invariance, PTL

\* A request that was answered 202 is on the branch, and its record says so.
THEOREM AcceptedWasPushed == Spec => []AcceptedIsPushed
<1>1. IInv => AcceptedIsPushed
  BY DEF IInv, WriterInv, WriterOK, AcceptedIsPushed
<1> QED
  BY <1>1, Invariance, PTL

\* The state has its type, and every record's log is its history.
THEOREM TypeCorrect == Spec => []TypeOK
<1>1. IInv => TypeOK
  <2> SUFFICES ASSUME IInv PROVE TypeOK
    OBVIOUS
  <2>1. RecInv /\ WriterInv /\ WatchInv
    BY DEF IInv
  <2>2. ASSUME NEW k \in Seqs
        PROVE  /\ recs[k].state \in States /\ recs[k].admission \in Admissions
               /\ recs[k].createdAt \in 0 .. now
               /\ LogIsHistory([initialState |-> "pending", state |-> recs[k].state,
                                transitions |-> recs[k].transitions])
    <3>1. recs[k] \in RecSet /\ History(recs[k]) /\ recs[k].createdAt <= now /\ now \in Nat
      BY <2>1, ElementOfSeq DEF RecInv, Seqs
    <3> DEFINE r == recs[k]
               q == [initialState |-> "pending", state |-> recs[k].state,
                     transitions |-> recs[k].transitions]
    <3>2. q.initialState = "pending" /\ q.transitions = r.transitions /\ q.state = r.state
      OBVIOUS
    <3> HIDE DEF r, q
    <3>3. LogIsHistory(q)
      BY <3>1, <3>2 DEF LogIsHistory, History, Version, r
    <3> QED
      BY <3>1, <3>3 DEF RecSet, q
  <2>3. /\ wpc \in [Writers -> {"start", "clone", "push", "pushed", "failed", "done"}]
        /\ answer \in [Writers -> {"none", "accepted", "could not be pushed"}]
        /\ \A w \in Writers : wrec[w] \in {0} \union Seqs
    BY <2>1 DEF WriterInv, WriterOK
  <2> QED
    BY <2>1, <2>2, <2>3 DEF TypeOK, WatchInv
<1> QED
  BY <1>1, Invariance, PTL

RecordStates == [k \in 1 .. Len(recs) |-> recs[k].state]

\* A step that the records take is a step of the ledger, or none.
LEMMA RecStepIsLedgerStep ==
    ASSUME RecInv, RecStep
    PROVE  [Ledger!Next]_(RecordStates)
<1> DEFINE L == RecordStates
           M == RecordStates'
<1>0. recs \in Seq(RecSet) /\ Len(recs) \in Nat
  BY DEF RecInv
<1>1. CASE recs' = recs
  <2>1. RecordStates' = RecordStates
    BY <1>1 DEF RecordStates
  <2> QED
    BY <2>1
<1>2. CASE recs' = Append(recs, Opened(now))
  <2>1. /\ Len(recs') = Len(recs) + 1 /\ recs'[Len(recs) + 1].state = "pending"
        /\ \A k \in 1 .. Len(recs) : recs'[k] = recs[k]
    BY <1>0, <1>2 DEF Opened
  <2>2. L \in Seq(States) /\ Len(L) = Len(recs)
    <3>1. ASSUME NEW k \in 1 .. Len(recs) PROVE recs[k].state \in States
      <4>1. recs[k] \in RecSet
        BY <1>0, ElementOfSeq
      <4> QED
        BY <4>1 DEF RecSet
    <3> QED
      BY <1>0, <3>1 DEF RecordStates
  <2>3. M = Append(L, "pending")
    <3>1. M = [k \in 1 .. Len(recs) + 1 |-> recs'[k].state]
      BY <2>1 DEF RecordStates
    <3>2. "pending" \in States
      BY DEF States
    <3>3. \A k \in 1 .. Len(recs) : L[k] = recs[k].state
      BY DEF RecordStates
    <3> HIDE DEF L, M
    <3>4. /\ Append(L, "pending") \in Seq(States) /\ Len(Append(L, "pending")) = Len(recs) + 1
          /\ \A k \in 1 .. Len(recs) : Append(L, "pending")[k] = L[k]
          /\ Append(L, "pending")[Len(recs) + 1] = "pending"
      BY <2>2, <3>2, AppendProperties
    <3>5. ASSUME NEW k \in 1 .. Len(recs) + 1 PROVE M[k] = Append(L, "pending")[k]
      BY <1>0, <2>1, <3>1, <3>3, <3>4
    <3>6. M \in Seq(States) /\ Len(M) = Len(recs) + 1
      <4>1. \A k \in 1 .. Len(recs) + 1 : recs'[k].state \in States
        BY <1>0, <2>1, <2>2, <3>2, <3>3, ElementOfSeq
      <4> QED
        BY <1>0, <3>1, <4>1
    <3> QED
      BY <3>4, <3>5, <3>6, SeqEqual
  <2>4. Ledger!Open
    BY <2>3 DEF Ledger!Open, RecordStates
  <2> QED
    BY <2>4 DEF Ledger!Next
<1>3. ASSUME NEW k, NEW t, Moving(k, t) PROVE Ledger!Move
  <2>1. /\ k \in 1 .. Len(recs) /\ t.to \in States /\ Edge(recs[k].state, t.to)
        /\ t.admission \in Admissions \union {"keep"} /\ recs[k] \in RecSet
        /\ recs' = [recs EXCEPT ![k] = Moved(recs[k], t)]
    BY <1>0, <1>3, ElementOfSeq DEF Moving, Seqs
  <2>2. Moved(recs[k], t) \in RecSet /\ Moved(recs[k], t).state = t.to
    BY <2>1, MovedType
  <2>3. /\ Len(recs') = Len(recs)
        /\ \A i \in 1 .. Len(recs) :
              recs'[i] = IF i = k THEN Moved(recs[k], t) ELSE recs[i]
    BY <1>0, <2>1, <2>2, ExceptSeq
  <2>4. M = [L EXCEPT ![k] = t.to]
    <3>1. /\ L = [i \in 1 .. Len(recs) |-> recs[i].state]
          /\ M = [i \in 1 .. Len(recs) |-> recs'[i].state]
      BY <2>3 DEF RecordStates
    <3>2. \A i \in 1 .. Len(recs) : recs'[i].state = IF i = k THEN t.to ELSE recs[i].state
      BY <2>2, <2>3
    <3> HIDE DEF L, M
    <3> QED
      BY <2>1, <3>1, <3>2
  <2>5. k \in 1 .. Len(L) /\ L[k] = recs[k].state
    BY <1>0, <2>1 DEF RecordStates
  <2>6. t.to \in {e[2] : e \in Ledger!Edges} /\ <<L[k], t.to>> \in Ledger!Edges
    <3>1. <<recs[k].state, t.to>> \in Ledger!Edges
      BY <2>1 DEF Edge
    <3>2. <<recs[k].state, t.to>>[2] = t.to
      OBVIOUS
    <3> QED
      BY <2>5, <3>1, <3>2
  <2> QED
    BY <2>4, <2>5, <2>6 DEF Ledger!Move, RecordStates
<1> QED
  BY <1>1, <1>2, <1>3 DEF RecStep, Ledger!Next

\* The pipeline implements the ledger: whatever requests, old and new leaders
\* and the sweep do together, records are numbered without a gap, open pending
\* and move only along the ledger's edges.
THEOREM ImplementsLedger == Spec => LedgerSpec
<1>1. Init => Ledger!Init
  BY DEF Init, Ledger!Init
<1>2. IInv /\ [Next]_vars => [Ledger!Next]_(RecordStates)
  BY NextRecs, RecStepIsLedgerStep DEF IInv
<1> QED
  BY <1>1, <1>2, Invariance, PTL DEF Spec, LedgerSpec, Ledger!Spec, RecordStates
=============================================================================
