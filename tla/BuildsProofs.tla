---------------------------- MODULE BuildsProofs ----------------------------
(***************************************************************************)
(* Builds, for any triggers, deliveries, requests, limits and quotas: what *)
(* is recorded as succeeded was pushed, an accepted delivery has a build   *)
(* for every environment it is for, and only what is superseded goes.      *)
(***************************************************************************)
EXTENDS Builds, FiniteSetTheorems, FunctionTheorems, SequenceTheorems, TLAPS

OwnersOfBuilds == {q.owner : q \in Requests} \cup {Triggers[k].owner : k \in DOMAIN Triggers}
Revisions == {q.revision : q \in Requests} \cup {d.after : d \in Deliveries}
Methods == {"detect", "dockerfile", "buildpack"}
Phases == {"Pending", "Running", "Succeeded", "Failed"}

BuildSet == [owner : OwnersOfBuilds, revision : Revisions, method : Methods,
             dockerfile : BOOLEAN, phase : Phases, digest : Nat, ended : Nat, alive : BOOLEAN]
Message == [digest : Nat \cup {None}]
Messages == [1 .. 2 -> Message]
JobSet == [state : {"active", "complete", "failed"}, at : {"only", "prepare", "main"},
           messages : Messages]
HookSet == [delivery : Deliveries, todo : SUBSET DOMAIN Triggers, made : SUBSET Nat]

TypeInv ==
    /\ builds \in Seq(BuildSet)
    /\ jobs \in Seq(JobSet \cup {None}) /\ Len(jobs) = Len(builds)
    /\ seen \in Seq(Messages) /\ Len(seen) = Len(builds)
    /\ pushed \subseteq Nat
    /\ hook # None => hook \in HookSet
    /\ accepted \subseteq [delivery : Deliveries, made : SUBSET Nat]
    /\ now \in Nat

\* A message that names an image names the image its own Build pushed.
Truthful(m, i, images) == m.digest \notin {None, 0} => m.digest = i /\ i \in images

\* So it is of everything a pod has said and of everything the operator has seen.
VoiceInv ==
    \A i \in Numbers : \A s \in 1 .. 2 :
        /\ jobs[i] # None => Truthful(jobs[i].messages[s], i, pushed)
        /\ Truthful(seen[i][s], i, pushed)

\* Among these records, the Builds made so far stand for these triggers of the
\* delivery.
StandFor(table, made, d, ks) ==
    /\ made \subseteq DOMAIN table
    /\ {table[i].owner : i \in made} = {Triggers[k].owner : k \in ks}
    /\ \A i \in made : table[i].revision = d.after

\* Half a delivery has half its Builds; an accepted one has them all.
HookInv ==
    /\ hook # None =>
         /\ hook.todo \subseteq VerifyGitHub(hook.delivery)
         /\ StandFor(builds, hook.made, hook.delivery, VerifyGitHub(hook.delivery) \ hook.todo)
    /\ \A a \in accepted : StandFor(builds, a.made, a.delivery, VerifyGitHub(a.delivery))

IInv == TypeInv /\ VoiceInv /\ SucceededIsPushed /\ HookInv

---------------------------------------------------------------------------
(* Sequences                                                               *)

LEMMA SeqOf ==
    ASSUME NEW S, NEW s \in Seq(S)
    PROVE  /\ Len(s) \in Nat /\ DOMAIN s = 1 .. Len(s)
           /\ \A i \in DOMAIN s : s[i] \in S
OBVIOUS

\* One entry replaced.
LEMMA Replaced ==
    ASSUME NEW S, NEW s \in Seq(S), NEW i \in DOMAIN s, NEW v \in S,
           NEW t, t = [s EXCEPT ![i] = v]
    PROVE  /\ t \in Seq(S) /\ Len(t) = Len(s) /\ DOMAIN t = DOMAIN s
           /\ t[i] = v /\ \A j \in DOMAIN s : j # i => t[j] = s[j]
BY ExceptSeq

\* One entry added.
LEMMA Added ==
    ASSUME NEW S, NEW s \in Seq(S), NEW v \in S
    PROVE  /\ Append(s, v) \in Seq(S) /\ Len(Append(s, v)) = Len(s) + 1
           /\ DOMAIN Append(s, v) = DOMAIN s \cup {Len(s) + 1}
           /\ Append(s, v)[Len(s) + 1] = v
           /\ \A j \in DOMAIN s : Append(s, v)[j] = s[j]
           /\ Len(s) + 1 \notin DOMAIN s
BY AppendProperties

---------------------------------------------------------------------------
(* What a step does to the records                                         *)

\* No record goes, and none changes whose it is or what it is of.
Lasting(old, new) ==
    /\ DOMAIN old \subseteq DOMAIN new
    /\ \A i \in DOMAIN old : new[i].owner = old[i].owner /\ new[i].revision = old[i].revision

LEMMA StandsStill ==
    ASSUME NEW old, NEW new, NEW made, NEW d, NEW ks,
           Lasting(old, new), StandFor(old, made, d, ks)
    PROVE  StandFor(new, made, d, ks)
<1>1. /\ made \subseteq DOMAIN old
      /\ \A i \in made : new[i].owner = old[i].owner /\ new[i].revision = old[i].revision
  BY DEF Lasting, StandFor
<1>2. {new[i].owner : i \in made} = {old[i].owner : i \in made}
  BY <1>1
<1>3. made \subseteq DOMAIN new
  BY DEF Lasting, StandFor
<1> QED
  BY <1>1, <1>2, <1>3 DEF StandFor

\* A record is added, and nothing else of what the pods and the operator know.
Adds(b) ==
    /\ b \in BuildSet /\ b.phase = "Pending"
    /\ builds' = Append(builds, b) /\ jobs' = Append(jobs, None) /\ seen' = Append(seen, Unread)

LEMMA CreateAdds ==
    ASSUME TypeInv, NEW owner \in OwnersOfBuilds, NEW revision \in Revisions,
           NEW method \in Methods, Create(BuildFor(owner, revision, method))
    PROVE  \E b : Adds(b) /\ b.owner = owner /\ b.revision = revision
<1> DEFINE b0 == BuildFor(owner, revision, method)
<1>1. PICK d \in IF b0.method = "detect" THEN BOOLEAN ELSE {b0.method = "dockerfile"} :
        builds' = Append(builds, [b0 EXCEPT !.dockerfile = d])
  BY DEF Create
<1>2. d \in BOOLEAN
  BY <1>1
<1>3. /\ b0 \in BuildSet /\ b0.phase = "Pending" /\ b0.owner = owner /\ b0.revision = revision
  BY DEF BuildFor, BuildSet, Phases, Methods
<1> HIDE DEF b0
<1> DEFINE b == [b0 EXCEPT !.dockerfile = d]
<1>4. /\ b \in BuildSet /\ b.phase = "Pending" /\ b.owner = owner /\ b.revision = revision
  BY <1>2, <1>3 DEF BuildSet
<1> HIDE DEF b
<1>5. Adds(b)
  BY <1>1, <1>4 DEF Adds, Create, b
<1> QED
  BY <1>4, <1>5

LEMMA UnreadIs == Unread \in Messages /\ \A s \in 1 .. 2 : Unread[s].digest = None
BY DEF Unread, Messages, Message, Silent

\* What a new record leaves of the invariant.
LEMMA AddsKeeps ==
    ASSUME TypeInv, VoiceInv, SucceededIsPushed, NEW b, Adds(b), UNCHANGED pushed
    PROVE  /\ builds' \in Seq(BuildSet) /\ jobs' \in Seq(JobSet \cup {None})
           /\ seen' \in Seq(Messages)
           /\ Len(jobs') = Len(builds') /\ Len(seen') = Len(builds')
           /\ VoiceInv' /\ SucceededIsPushed' /\ Lasting(builds, builds')
           /\ DOMAIN builds' = DOMAIN builds \cup {Len(builds) + 1}
           /\ builds'[Len(builds) + 1] = b
           /\ Len(builds) + 1 \notin DOMAIN builds /\ Len(builds) + 1 \in Nat
<1> DEFINE n == Len(builds) + 1
<1>1. /\ builds' = Append(builds, b) /\ jobs' = Append(jobs, None)
      /\ seen' = Append(seen, Unread) /\ b \in BuildSet /\ b.phase = "Pending"
  BY DEF Adds
<1>2. /\ builds' \in Seq(BuildSet) /\ Len(builds') = n
      /\ DOMAIN builds' = DOMAIN builds \cup {n} /\ builds'[n] = b
      /\ \A j \in DOMAIN builds : builds'[j] = builds[j]
      /\ n \notin DOMAIN builds /\ n \in Nat
  BY <1>1, Added DEF TypeInv
<1>3. /\ jobs' \in Seq(JobSet \cup {None}) /\ Len(jobs') = n /\ jobs'[n] = None
      /\ \A j \in DOMAIN jobs : jobs'[j] = jobs[j]
  BY <1>1, Added DEF TypeInv
<1>4. /\ seen' \in Seq(Messages) /\ Len(seen') = n /\ seen'[n] = Unread
      /\ \A j \in DOMAIN seen : seen'[j] = seen[j]
  BY <1>1, UnreadIs, Added DEF TypeInv
<1>5. DOMAIN jobs = DOMAIN builds /\ DOMAIN seen = DOMAIN builds
  BY SeqOf DEF TypeInv
<1>6. Lasting(builds, builds')
  BY <1>2 DEF Lasting
<1> HIDE DEF n
<1>7. VoiceInv'
  <2> SUFFICES ASSUME NEW i \in DOMAIN builds', NEW s \in 1 .. 2
               PROVE  /\ jobs'[i] # None => Truthful(jobs'[i].messages[s], i, pushed')
                      /\ Truthful(seen'[i][s], i, pushed')
    BY DEF VoiceInv, Numbers
  <2>1. CASE i = n
    BY <2>1, <1>3, <1>4, UnreadIs DEF Truthful
  <2>2. CASE i \in DOMAIN builds
    BY <2>2, <1>3, <1>4, <1>5 DEF VoiceInv, Numbers, Truthful
  <2> QED
    BY <2>1, <2>2, <1>2
<1>8. SucceededIsPushed'
  BY <1>1, <1>2 DEF SucceededIsPushed, Numbers
<1> QED
  BY <1>2, <1>3, <1>4, <1>6, <1>7, <1>8 DEF n

---------------------------------------------------------------------------
(* What a pod's step does                                                  *)

\* One Job has said or stopped saying something, all of it true of what is pushed.
Speaks(i) ==
    /\ i \in Numbers /\ jobs[i] # None
    /\ pushed \subseteq pushed' /\ pushed' \subseteq pushed \cup {i}
    /\ UNCHANGED << builds, seen, hook, accepted, now >>
    /\ \E j \in JobSet :
         /\ jobs' = [jobs EXCEPT ![i] = j]
         /\ \A s \in 1 .. 2 : Truthful(j.messages[s], i, pushed')

\* Whatever is said in either place, when it is true.
LEMMA SaysSpeaks ==
    ASSUME TypeInv, VoiceInv, NEW i, Running(i), NEW m \in Message,
           NEW state \in {"active", "complete", "failed"}, NEW at \in {"only", "prepare", "main"},
           Says(i, m, state, at), JobStep,
           pushed \subseteq pushed', pushed' \subseteq pushed \cup {i},
           Truthful(m, i, pushed')
    PROVE  Speaks(i)
<1> DEFINE j == [state |-> state, at |-> at,
                 messages |-> [jobs[i].messages EXCEPT ![Slot(i)] = m]]
<1>1. /\ i \in Numbers /\ jobs[i] # None
      /\ \A s \in 1 .. 2 : Truthful(jobs[i].messages[s], i, pushed)
  BY DEF Running, VoiceInv
<1>2. jobs[i] \in JobSet
  BY <1>1, SeqOf DEF TypeInv, Numbers
<1>3. jobs[i].messages \in Messages /\ Slot(i) \in 1 .. 2
  BY <1>2 DEF JobSet, Slot
<1>4. /\ [jobs[i].messages EXCEPT ![Slot(i)] = m] \in Messages
      /\ \A s \in 1 .. 2 : [jobs[i].messages EXCEPT ![Slot(i)] = m][s] \in {m, jobs[i].messages[s]}
  BY <1>3 DEF Messages
<1>5. j \in JobSet
  BY <1>4 DEF JobSet
<1>6. \A s \in 1 .. 2 : Truthful(j.messages[s], i, pushed')
  BY <1>1, <1>4 DEF Truthful
<1>7. jobs' = [jobs EXCEPT ![i] = j]
  BY DEF Says
<1> HIDE DEF j
<1>8. \E x \in JobSet : jobs' = [jobs EXCEPT ![i] = x] /\ \A s \in 1 .. 2 : Truthful(x.messages[s], i, pushed')
  BY <1>5, <1>6, <1>7
<1> QED
  BY <1>1, <1>8 DEF Speaks, JobStep

LEMMA SaidIsTrue ==
    ASSUME NEW i \in Nat, NEW images, i \in images
    PROVE  /\ Result(i) \in Message /\ Truthful(Result(i), i, images)
           /\ Result(0) \in Message /\ Silent \in Message
BY DEF Result, Silent, Message, Truthful

LEMMA NothingSaid ==
    ASSUME NEW i, NEW images
    PROVE  /\ Truthful(Result(0), i, images) /\ Truthful(Silent, i, images)
           /\ Result(0) \in Message /\ Silent \in Message
BY DEF Result, Silent, Message, Truthful

LEMMA RunningIs ==
    ASSUME TypeInv, NEW i, Running(i)
    PROVE  /\ i \in Nat /\ jobs[i] # None /\ jobs[i] \in JobSet
           /\ jobs[i].at \in {"only", "prepare", "main"}
<1>1. i \in Numbers /\ jobs[i] # None /\ i \in DOMAIN jobs
  BY SeqOf DEF Running, TypeInv, Numbers
<1>2. jobs[i] \in JobSet
  BY <1>1, SeqOf DEF TypeInv
<1>3. i \in Nat
  BY <1>1, SeqOf DEF TypeInv, Numbers
<1> QED
  BY <1>1, <1>2, <1>3 DEF JobSet

LEMMA PodSpeaks ==
    ASSUME TypeInv, VoiceInv, NEW i, Pod(i)
    PROVE  Speaks(i)
<1>0. Running(i)
  BY DEF Pod, BuildkitSide, Prepare, LifecycleSide, Fail, Die
<1>1. /\ i \in Nat /\ jobs[i] \in JobSet /\ jobs[i].at \in {"only", "prepare", "main"}
  BY <1>0, RunningIs
<1>2. CASE BuildkitSide(i)
  <2>1. i \in pushed' /\ pushed' = pushed \cup {i} /\ JobStep
    BY <1>2 DEF BuildkitSide
  <2>2. CASE Says(i, Result(i), IF jobs[i].at = "only" THEN "complete" ELSE "active", "main")
    BY <1>0, <1>1, <2>1, <2>2, SaidIsTrue, SaysSpeaks
  <2>3. CASE Says(i, Result(0), "failed", "main")
    BY <1>0, <1>1, <2>1, <2>3, NothingSaid, SaysSpeaks
  <2> QED
    BY <1>2, <2>2, <2>3 DEF BuildkitSide
<1>3. CASE Prepare(i)
  BY <1>0, <1>1, <1>3, NothingSaid, SaysSpeaks DEF Prepare
<1>4. CASE LifecycleSide(i)
  <2>1. CASE Says(i, Silent, "complete", "main") /\ UNCHANGED pushed
    BY <1>0, <1>1, <1>4, <2>1, NothingSaid, SaysSpeaks DEF LifecycleSide
  <2>2. CASE pushed' = pushed \cup {i} /\ Says(i, Result(i), "complete", "main")
    BY <1>0, <1>1, <1>4, <2>2, SaidIsTrue, SaysSpeaks DEF LifecycleSide
  <2>3. CASE pushed' = pushed \cup {i} /\ Says(i, Result(0), "failed", "main")
    BY <1>0, <1>1, <1>4, <2>3, NothingSaid, SaysSpeaks DEF LifecycleSide
  <2> QED
    BY <1>4, <2>1, <2>2, <2>3 DEF LifecycleSide
<1>5. CASE Fail(i)
  BY <1>0, <1>1, <1>5, NothingSaid, SaysSpeaks DEF Fail
<1>6. CASE Die(i)
  <2>1. pushed \subseteq pushed' /\ pushed' \subseteq pushed \cup {i} /\ JobStep
    BY <1>6 DEF Die
  <2>2. CASE Says(i, Silent, "failed", jobs[i].at)
    BY <1>0, <1>1, <2>1, <2>2, NothingSaid, SaysSpeaks
  <2>3. CASE jobs' = [jobs EXCEPT ![i] = [state |-> "failed", at |-> @.at, messages |-> Unread]]
    <3> DEFINE j == [state |-> "failed", at |-> jobs[i].at, messages |-> Unread]
    <3>1. j \in JobSet
      BY <1>1, UnreadIs DEF JobSet
    <3>2. \A s \in 1 .. 2 : Truthful(j.messages[s], i, pushed')
      BY UnreadIs DEF Truthful
    <3>3. jobs' = [jobs EXCEPT ![i] = j]
      BY <2>3
    <3> HIDE DEF j
    <3>4. \E x \in JobSet : jobs' = [jobs EXCEPT ![i] = x] /\ \A s \in 1 .. 2 : Truthful(x.messages[s], i, pushed')
      BY <3>1, <3>2, <3>3
    <3> QED
      BY <1>0, <2>1, <3>4 DEF Speaks, JobStep, Running
  <2> QED
    BY <1>6, <2>2, <2>3 DEF Die
<1> QED
  BY <1>2, <1>3, <1>4, <1>5, <1>6 DEF Pod
LEMMA SpeaksKeeps ==
    ASSUME IInv, NEW i, Speaks(i)
    PROVE  IInv'
<1>1. PICK j \in JobSet : /\ jobs' = [jobs EXCEPT ![i] = j]
                          /\ \A s \in 1 .. 2 : Truthful(j.messages[s], i, pushed')
  BY DEF Speaks
<1>2. /\ i \in DOMAIN builds /\ DOMAIN jobs = DOMAIN builds /\ DOMAIN builds \subseteq Nat
      /\ pushed \subseteq pushed' /\ pushed' \subseteq pushed \cup {i}
      /\ UNCHANGED << builds, seen, hook, accepted, now >>
  BY SeqOf DEF Speaks, Numbers, IInv, TypeInv
<1>3. /\ jobs' \in Seq(JobSet \cup {None}) /\ Len(jobs') = Len(jobs)
      /\ jobs'[i] = j /\ \A k \in DOMAIN jobs : k # i => jobs'[k] = jobs[k]
  BY <1>1, <1>2, Replaced DEF IInv, TypeInv
<1>4. TypeInv'
  BY <1>2, <1>3 DEF IInv, TypeInv
<1>5. VoiceInv'
  BY <1>1, <1>2, <1>3 DEF IInv, VoiceInv, Numbers, Truthful
<1>6. SucceededIsPushed'
  BY <1>2 DEF IInv, SucceededIsPushed, Numbers
<1>7. HookInv'
  BY <1>2 DEF IInv, HookInv
<1> QED
  BY <1>4, <1>5, <1>6, <1>7 DEF IInv

---------------------------------------------------------------------------
(* The reconciler's steps                                                  *)

LEMMA SeeKeeps ==
    ASSUME IInv, NEW i, See(i)
    PROVE  IInv'
<1>1. /\ i \in DOMAIN builds /\ jobs[i] # None /\ seen' = [seen EXCEPT ![i] = jobs[i].messages]
      /\ UNCHANGED << builds, jobs, pushed, hook, accepted, now >>
  BY DEF See, Numbers
<1>2. DOMAIN jobs = DOMAIN builds /\ DOMAIN seen = DOMAIN builds
  BY SeqOf DEF IInv, TypeInv
<1>3. jobs[i] \in JobSet
  BY <1>1, <1>2, SeqOf DEF IInv, TypeInv
<1>4. jobs[i].messages \in Messages
  BY <1>3 DEF JobSet
<1>5. /\ seen' \in Seq(Messages) /\ Len(seen') = Len(seen)
      /\ seen'[i] = jobs[i].messages /\ \A k \in DOMAIN seen : k # i => seen'[k] = seen[k]
  <2>1. seen \in Seq(Messages) /\ i \in DOMAIN seen
    BY <1>1, <1>2 DEF IInv, TypeInv
  <2> QED
    BY <1>1, <1>4, <2>1, Replaced
<1>6. TypeInv'
  BY <1>1, <1>5 DEF IInv, TypeInv
<1>7. VoiceInv'
  BY <1>1, <1>2, <1>5 DEF IInv, VoiceInv, Numbers, Truthful
<1>8. SucceededIsPushed' /\ HookInv'
  BY <1>1 DEF IInv, SucceededIsPushed, Numbers, HookInv
<1> QED
  BY <1>6, <1>7, <1>8 DEF IInv

LEMMA GarbageKeeps ==
    ASSUME IInv, NEW i, Garbage(i)
    PROVE  IInv'
<1>1. /\ i \in DOMAIN builds /\ jobs' = [jobs EXCEPT ![i] = None]
      /\ UNCHANGED << builds, seen, pushed, hook, accepted, now >>
  BY DEF Garbage, Numbers
<1>2. DOMAIN jobs = DOMAIN builds
  BY SeqOf DEF IInv, TypeInv
<1>3. /\ jobs' \in Seq(JobSet \cup {None}) /\ Len(jobs') = Len(jobs)
      /\ jobs'[i] = None /\ \A k \in DOMAIN jobs : k # i => jobs'[k] = jobs[k]
  BY <1>1, <1>2, Replaced DEF IInv, TypeInv
<1>4. TypeInv'
  BY <1>1, <1>3 DEF IInv, TypeInv
<1>5. VoiceInv'
  BY <1>1, <1>2, <1>3 DEF IInv, VoiceInv, Numbers, Truthful
<1>6. SucceededIsPushed' /\ HookInv'
  BY <1>1 DEF IInv, SucceededIsPushed, Numbers, HookInv
<1> QED
  BY <1>4, <1>5, <1>6 DEF IInv

\* One record moves on: another phase, and a digest that is the Build's own image
\* when it is a success.
MovesOn(i, b) ==
    /\ i \in Numbers /\ b \in BuildSet /\ builds' = [builds EXCEPT ![i] = b]
    /\ b.owner = builds[i].owner /\ b.revision = builds[i].revision
    /\ b.alive = builds[i].alive
    /\ b.phase = "Succeeded" => b.digest = i /\ i \in pushed
    /\ UNCHANGED << pushed, hook, accepted >>

LEMMA MovesOnKeeps ==
    ASSUME IInv, NEW i, NEW b, MovesOn(i, b)
    PROVE  /\ builds' \in Seq(BuildSet) /\ Len(builds') = Len(builds)
           /\ DOMAIN builds' = DOMAIN builds
           /\ \A k \in DOMAIN builds : builds'[k].alive = builds[k].alive
           /\ SucceededIsPushed' /\ HookInv'
<1>1. /\ i \in DOMAIN builds /\ b \in BuildSet /\ builds' = [builds EXCEPT ![i] = b]
      /\ b.owner = builds[i].owner /\ b.revision = builds[i].revision
      /\ b.alive = builds[i].alive
      /\ b.phase = "Succeeded" => b.digest = i /\ i \in pushed
      /\ UNCHANGED << pushed, hook, accepted >>
  BY DEF MovesOn, Numbers
<1>2. /\ builds' \in Seq(BuildSet) /\ Len(builds') = Len(builds) /\ DOMAIN builds' = DOMAIN builds
      /\ builds'[i] = b /\ \A k \in DOMAIN builds : k # i => builds'[k] = builds[k]
  BY <1>1, Replaced DEF IInv, TypeInv
<1>3. SucceededIsPushed'
  BY <1>1, <1>2 DEF IInv, SucceededIsPushed, Numbers
<1>4. Lasting(builds, builds')
  BY <1>1, <1>2 DEF Lasting
<1>5. HookInv'
  BY <1>1, <1>4, StandsStill DEF IInv, HookInv
<1> QED
  BY <1>1, <1>2, <1>3, <1>5

LEMMA StartMoves ==
    ASSUME IInv, NEW i, StartJob(i)
    PROVE  MovesOn(i, [builds[i] EXCEPT !.phase = "Running"])
<1>1. /\ i \in DOMAIN builds /\ builds' = [builds EXCEPT ![i].phase = "Running"]
      /\ UNCHANGED << pushed, hook, accepted >>
  BY DEF StartJob, Due, Alive, Numbers
<1>2. builds[i] \in BuildSet
  BY <1>1, SeqOf DEF IInv, TypeInv
<1> DEFINE b == [builds[i] EXCEPT !.phase = "Running"]
<1>3. /\ b \in BuildSet /\ b.owner = builds[i].owner /\ b.revision = builds[i].revision
      /\ b.alive = builds[i].alive /\ b.phase # "Succeeded"
  BY <1>2 DEF BuildSet, Phases
<1>4. builds' = [builds EXCEPT ![i] = b]
  BY <1>1
<1> HIDE DEF b
<1>5. MovesOn(i, b)
  BY <1>1, <1>3, <1>4 DEF MovesOn, Numbers
<1> QED
  BY <1>5 DEF b

LEMMA StartKeeps ==
    ASSUME IInv, NEW i, StartJob(i)
    PROVE  IInv'
<1>1. /\ i \in DOMAIN builds /\ jobs' = [jobs EXCEPT ![i] = DesiredBuildJob(builds[i])]
      /\ UNCHANGED << seen, pushed, hook, accepted, now >>
  BY DEF StartJob, Due, Alive, Numbers
<1>2. DOMAIN jobs = DOMAIN builds /\ DOMAIN seen = DOMAIN builds
  BY SeqOf DEF IInv, TypeInv
<1> DEFINE j == DesiredBuildJob(builds[i])
<1>3. j \in JobSet /\ \A s \in 1 .. 2 : j.messages[s].digest = None
  BY UnreadIs DEF DesiredBuildJob, JobSet
<1> HIDE DEF j
<1>4. /\ jobs' \in Seq(JobSet \cup {None}) /\ Len(jobs') = Len(jobs)
      /\ jobs'[i] = j /\ \A k \in DOMAIN jobs : k # i => jobs'[k] = jobs[k]
  BY <1>1, <1>2, <1>3, Replaced DEF IInv, TypeInv, j
<1>5. /\ builds' \in Seq(BuildSet) /\ Len(builds') = Len(builds) /\ DOMAIN builds' = DOMAIN builds
      /\ SucceededIsPushed' /\ HookInv'
  BY StartMoves, MovesOnKeeps
<1>6. TypeInv'
  BY <1>1, <1>4, <1>5 DEF IInv, TypeInv
<1>7. VoiceInv'
  BY <1>1, <1>2, <1>3, <1>4, <1>5 DEF IInv, VoiceInv, Numbers, Truthful
<1> QED
  BY <1>5, <1>6, <1>7 DEF IInv

\* The verdict names the Build's own image or none.
LEMMA VerdictIs ==
    ASSUME IInv, NEW i \in Numbers
    PROVE  /\ Verdict(i).phase \in {"Succeeded", "Failed"} /\ Verdict(i).digest \in Nat
           /\ Verdict(i).phase = "Succeeded" => Verdict(i).digest = i /\ i \in pushed
<1>1. seen[i] \in Messages /\ i \in Nat
  BY SeqOf DEF IInv, TypeInv, Numbers
<1>2. \A s \in 1 .. 2 : Truthful(seen[i][s], i, pushed)
  BY DEF IInv, VoiceInv
<1>3. ResultFromPods(i) \in {seen[i][1], seen[i][2]}
  BY DEF ResultFromPods
<1>4. Truthful(ResultFromPods(i), i, pushed)
  BY <1>2, <1>3
<1> QED
  BY <1>1, <1>4 DEF Verdict, Truthful

LEMMA ObserveMoves ==
    ASSUME IInv, NEW i, Observe(i)
    PROVE  MovesOn(i, [builds[i] EXCEPT !.phase = Verdict(i).phase,
                                       !.digest = Verdict(i).digest, !.ended = now'])
<1>1. /\ i \in DOMAIN builds /\ now' \in now .. MaxNow
      /\ builds' = [builds EXCEPT ![i].phase = Verdict(i).phase,
                                  ![i].digest = Verdict(i).digest, ![i].ended = now']
      /\ UNCHANGED << pushed, hook, accepted >>
  BY DEF Observe, Due, Alive, Numbers
<1>2. builds[i] \in BuildSet /\ now' \in Nat
  BY <1>1, SeqOf, BuildsAssumption DEF IInv, TypeInv
<1> DEFINE p == Verdict(i).phase
           d == Verdict(i).digest
           b == [builds[i] EXCEPT !.phase = p, !.digest = d, !.ended = now']
<1>3. p \in Phases /\ d \in Nat /\ (p = "Succeeded" => d = i /\ i \in pushed)
  BY <1>1, VerdictIs DEF Numbers, Phases
<1>4. builds' = [builds EXCEPT ![i] = b]
  BY <1>1
<1> HIDE DEF p, d
<1>5. /\ b \in BuildSet /\ b.owner = builds[i].owner /\ b.revision = builds[i].revision
      /\ b.alive = builds[i].alive /\ b.phase = p /\ b.digest = d
  BY <1>2, <1>3 DEF BuildSet
<1> HIDE DEF b
<1>6. MovesOn(i, b)
  BY <1>1, <1>3, <1>4, <1>5 DEF MovesOn, Numbers
<1> QED
  BY <1>6 DEF b, p, d

LEMMA ObserveKeeps ==
    ASSUME IInv, NEW i, Observe(i)
    PROVE  IInv'
<1>1. /\ i \in DOMAIN builds /\ now' \in now .. MaxNow /\ seen' = [seen EXCEPT ![i] = Unread]
      /\ UNCHANGED << jobs, pushed, hook, accepted >>
  BY DEF Observe, Due, Alive, Numbers
<1>2. DOMAIN jobs = DOMAIN builds /\ DOMAIN seen = DOMAIN builds
  BY SeqOf DEF IInv, TypeInv
<1>3. /\ seen' \in Seq(Messages) /\ Len(seen') = Len(seen)
      /\ seen'[i] = Unread /\ \A k \in DOMAIN seen : k # i => seen'[k] = seen[k]
  <2>1. seen \in Seq(Messages) /\ i \in DOMAIN seen
    BY <1>1, <1>2 DEF IInv, TypeInv
  <2> QED
    BY <1>1, <2>1, UnreadIs, Replaced
<1>4. /\ builds' \in Seq(BuildSet) /\ Len(builds') = Len(builds) /\ DOMAIN builds' = DOMAIN builds
      /\ SucceededIsPushed' /\ HookInv'
  BY ObserveMoves, MovesOnKeeps
<1>5. now' \in Nat
  BY <1>1, BuildsAssumption DEF IInv, TypeInv
<1>6. TypeInv'
  BY <1>1, <1>3, <1>4, <1>5 DEF IInv, TypeInv
<1>7. VoiceInv'
  BY <1>1, <1>2, <1>3, <1>4, UnreadIs DEF IInv, VoiceInv, Numbers, Truthful
<1> QED
  BY <1>4, <1>6, <1>7 DEF IInv

---------------------------------------------------------------------------
(* The collection                                                          *)

\* A sweep marks some of what this order dooms and touches nothing else.
Sweeps(gone) ==
    /\ builds' = [i \in Numbers |-> [builds[i] EXCEPT !.alive = @ /\ i \notin gone]]
    /\ \E order \in Orders : gone \subseteq Doomed(order)

LEMMA CollectSweeps ==
    ASSUME CollectBuilds
    PROVE  \E gone : Sweeps(gone)
<1>1. PICK order \in Orders :
        \/ builds' = [i \in Numbers |-> [builds[i] EXCEPT !.alive = @ /\ i \notin Doomed(order)]]
        \/ \E n \in DOMAIN order :
              builds' = [i \in Numbers |-> [builds[i] EXCEPT !.alive =
                           @ /\ i \notin Doomed(order) \intersect {order[k] : k \in 1 .. n - 1}]]
  BY DEF CollectBuilds
<1>2. CASE builds' = [i \in Numbers |-> [builds[i] EXCEPT !.alive = @ /\ i \notin Doomed(order)]]
  <2>1. Sweeps(Doomed(order))
    BY <1>2 DEF Sweeps
  <2> QED
    BY <2>1
<1>3. ASSUME NEW n \in DOMAIN order,
             builds' = [i \in Numbers |-> [builds[i] EXCEPT !.alive =
                           @ /\ i \notin Doomed(order) \intersect {order[k] : k \in 1 .. n - 1}]]
      PROVE  \E gone : Sweeps(gone)
  <2> DEFINE gone == Doomed(order) \intersect {order[k] : k \in 1 .. n - 1}
  <2>1. gone \subseteq Doomed(order)
    OBVIOUS
  <2>2. builds' = [i \in Numbers |-> [builds[i] EXCEPT !.alive = @ /\ i \notin gone]]
    BY <1>3
  <2> HIDE DEF gone
  <2>3. Sweeps(gone)
    BY <2>1, <2>2 DEF Sweeps
  <2> QED
    BY <2>3
<1> QED
  BY <1>1, <1>2, <1>3

LEMMA SweptAre ==
    ASSUME TypeInv, NEW gone, Sweeps(gone)
    PROVE  /\ builds' \in Seq(BuildSet) /\ Len(builds') = Len(builds)
           /\ DOMAIN builds' = DOMAIN builds
           /\ \A i \in DOMAIN builds :
                /\ builds'[i].owner = builds[i].owner /\ builds'[i].revision = builds[i].revision
                /\ builds'[i].phase = builds[i].phase /\ builds'[i].digest = builds[i].digest
                /\ builds'[i].alive = (builds[i].alive /\ i \notin gone)
<1>1. /\ Len(builds) \in Nat /\ DOMAIN builds = 1 .. Len(builds)
      /\ \A i \in DOMAIN builds : builds[i] \in BuildSet
  BY SeqOf DEF TypeInv
<1>2. builds' = [i \in 1 .. Len(builds) |-> [builds[i] EXCEPT !.alive = @ /\ i \notin gone]]
  BY <1>1 DEF Sweeps, Numbers
<1>3. ASSUME NEW i \in DOMAIN builds
      PROVE  LET b == [builds[i] EXCEPT !.alive = @ /\ i \notin gone]
             IN  /\ b \in BuildSet /\ b.owner = builds[i].owner /\ b.revision = builds[i].revision
                 /\ b.phase = builds[i].phase /\ b.digest = builds[i].digest
                 /\ b.alive = (builds[i].alive /\ i \notin gone)
  BY <1>1 DEF BuildSet
<1>4. \A i \in 1 .. Len(builds) : builds'[i] \in BuildSet
  BY <1>1, <1>2, <1>3
<1>5. builds' \in Seq(BuildSet) /\ Len(builds') = Len(builds) /\ DOMAIN builds' = DOMAIN builds
  BY <1>1, <1>2, <1>4, IsASeq
<1> QED
  BY <1>1, <1>2, <1>3, <1>5

LEMMA CollectKeeps ==
    ASSUME IInv, CollectBuilds
    PROVE  IInv'
<1>1. PICK gone : Sweeps(gone)
  BY CollectSweeps
<1>2. /\ builds' \in Seq(BuildSet) /\ Len(builds') = Len(builds)
      /\ DOMAIN builds' = DOMAIN builds
      /\ \A i \in DOMAIN builds :
           /\ builds'[i].owner = builds[i].owner /\ builds'[i].revision = builds[i].revision
           /\ builds'[i].phase = builds[i].phase /\ builds'[i].digest = builds[i].digest
  BY <1>1, SweptAre DEF IInv
<1>3. UNCHANGED << jobs, seen, pushed, hook, accepted, now >>
  BY DEF CollectBuilds
<1>4. TypeInv' /\ VoiceInv' /\ SucceededIsPushed'
  BY <1>2, <1>3 DEF IInv, TypeInv, VoiceInv, SucceededIsPushed, Numbers
<1>5. Lasting(builds, builds')
  BY <1>2 DEF Lasting
<1>6. HookInv'
  BY <1>3, <1>5, StandsStill DEF IInv, HookInv
<1> QED
  BY <1>4, <1>6 DEF IInv

---------------------------------------------------------------------------
(* The endpoints                                                           *)

LEMMA RequestKeeps ==
    ASSUME IInv, NEW q \in Requests, CreateBuild(q)
    PROVE  IInv'
<1>1. q.owner \in OwnersOfBuilds /\ q.revision \in Revisions /\ q.method \in Methods
  BY BuildsAssumption DEF OwnersOfBuilds, Revisions, Methods
<1>2. Create(BuildFor(q.owner, q.revision, q.method)) /\ UNCHANGED << pushed, hook, accepted, now >>
  BY DEF CreateBuild
<1>3. PICK b : Adds(b)
  BY <1>1, <1>2, CreateAdds DEF IInv
<1>4. /\ builds' \in Seq(BuildSet) /\ jobs' \in Seq(JobSet \cup {None}) /\ seen' \in Seq(Messages)
      /\ Len(jobs') = Len(builds') /\ Len(seen') = Len(builds')
      /\ VoiceInv' /\ SucceededIsPushed' /\ Lasting(builds, builds')
  BY <1>2, <1>3, AddsKeeps DEF IInv
<1>5. TypeInv'
  BY <1>2, <1>4 DEF IInv, TypeInv
<1>6. HookInv'
  BY <1>2, <1>4, StandsStill DEF IInv, HookInv
<1> QED
  BY <1>4, <1>5, <1>6 DEF IInv

LEMMA HooksKeeps ==
    ASSUME IInv, NEW d \in Deliveries, Hooks(d)
    PROVE  IInv'
<1>1. /\ hook' = [delivery |-> d, todo |-> VerifyGitHub(d), made |-> {}]
      /\ UNCHANGED << builds, jobs, seen, pushed, accepted, now >>
  BY DEF Hooks
<1>2. hook' \in HookSet
  BY <1>1 DEF HookSet, VerifyGitHub
<1>3. TypeInv'
  BY <1>1, <1>2 DEF IInv, TypeInv
<1>4. /\ hook'.todo = VerifyGitHub(d) /\ hook'.delivery = d /\ hook'.made = {}
      /\ StandFor(builds, {}, d, {})
  BY <1>1 DEF StandFor
<1>5. VerifyGitHub(d) \ VerifyGitHub(d) = {} /\ VerifyGitHub(d)' = VerifyGitHub(d)
  BY DEF VerifyGitHub
<1>6. HookInv'
  BY <1>1, <1>4, <1>5 DEF IInv, HookInv
<1> QED
  BY <1>1, <1>3, <1>6 DEF IInv, VoiceInv, SucceededIsPushed, Numbers

\* One more Build stands for one more trigger.
LEMMA StandsForOneMore ==
    ASSUME NEW old, NEW new, NEW made, NEW d, NEW ks, NEW n, NEW k,
           Lasting(old, new), StandFor(old, made, d, ks), n \in DOMAIN new,
           new[n].owner = Triggers[k].owner, new[n].revision = d.after
    PROVE  StandFor(new, made \cup {n}, d, ks \cup {k})
<1>1. StandFor(new, made, d, ks)
  BY StandsStill
<1>2. /\ {new[i].owner : i \in made \cup {n}} = {new[i].owner : i \in made} \cup {new[n].owner}
      /\ {Triggers[x].owner : x \in ks \cup {k}} =
            {Triggers[x].owner : x \in ks} \cup {Triggers[k].owner}
  OBVIOUS
<1>3. /\ made \cup {n} \subseteq DOMAIN new
      /\ \A i \in made \cup {n} : new[i].revision = d.after
      /\ {new[i].owner : i \in made} = {Triggers[x].owner : x \in ks}
  BY <1>1 DEF StandFor
<1> QED
  BY <1>2, <1>3 DEF StandFor

LEMMA HookCreatesKeeps ==
    ASSUME IInv, HookCreates
    PROVE  IInv'
<1>1. PICK k \in hook.todo :
         /\ Create(BuildFor(Triggers[k].owner, hook.delivery.after, "detect"))
         /\ hook' = [hook EXCEPT !.todo = @ \ {k}, !.made = @ \union {Len(builds) + 1}]
  BY DEF HookCreates
<1>2. hook # None /\ hook \in HookSet /\ UNCHANGED << pushed, accepted, now >>
  BY DEF HookCreates, IInv, TypeInv
<1> DEFINE n == Len(builds) + 1
           d == hook.delivery
<1>3. /\ d \in Deliveries /\ k \in DOMAIN Triggers
      /\ hook.todo \subseteq DOMAIN Triggers /\ hook.made \subseteq Nat
  BY <1>2 DEF HookSet
<1>4. /\ hook'.delivery = d /\ hook'.todo = hook.todo \ {k} /\ hook'.made = hook.made \cup {n}
      /\ hook' = [delivery |-> d, todo |-> hook.todo \ {k}, made |-> hook.made \cup {n}]
  BY <1>1, <1>2 DEF HookSet
<1>5. /\ Triggers[k].owner \in OwnersOfBuilds /\ d.after \in Revisions /\ "detect" \in Methods
  BY <1>3 DEF OwnersOfBuilds, Revisions, Methods
<1>6. PICK b : Adds(b) /\ b.owner = Triggers[k].owner /\ b.revision = d.after
  BY <1>1, <1>5, CreateAdds DEF IInv
<1>7. /\ builds' \in Seq(BuildSet) /\ jobs' \in Seq(JobSet \cup {None}) /\ seen' \in Seq(Messages)
      /\ Len(jobs') = Len(builds') /\ Len(seen') = Len(builds')
      /\ VoiceInv' /\ SucceededIsPushed' /\ Lasting(builds, builds')
      /\ DOMAIN builds' = DOMAIN builds \cup {n} /\ builds'[n] = b /\ n \in Nat
  BY <1>2, <1>6, AddsKeeps DEF IInv
<1> HIDE DEF n, d
<1>8. hook' \in HookSet
  BY <1>3, <1>4, <1>7 DEF HookSet
<1>9. TypeInv'
  BY <1>2, <1>7, <1>8 DEF IInv, TypeInv
<1> DEFINE all == VerifyGitHub(d)
<1>10. /\ hook.todo \subseteq all /\ StandFor(builds, hook.made, d, all \ hook.todo)
  BY <1>2 DEF IInv, HookInv, d
<1>11. StandFor(builds', hook.made \cup {n}, d, (all \ hook.todo) \cup {k})
  BY <1>6, <1>7, <1>10, StandsForOneMore
<1>12. /\ (all \ hook.todo) \cup {k} = all \ (hook.todo \ {k})
       /\ hook.todo \ {k} \subseteq all
  BY <1>1, <1>10
<1>13. VerifyGitHub(hook.delivery)' = all
  BY <1>4 DEF VerifyGitHub
<1> HIDE DEF all
<1>14. /\ hook'.todo \subseteq VerifyGitHub(hook.delivery)'
       /\ StandFor(builds', hook'.made, hook'.delivery, VerifyGitHub(hook.delivery)' \ hook'.todo)
  BY <1>4, <1>11, <1>12, <1>13
<1>15. \A a \in accepted' : StandFor(builds', a.made, a.delivery, VerifyGitHub(a.delivery))
  BY <1>2, <1>7, StandsStill DEF IInv, HookInv
<1>16. HookInv'
  BY <1>14, <1>15 DEF HookInv, VerifyGitHub
<1> QED
  BY <1>7, <1>9, <1>16 DEF IInv

LEMMA HookEndsKeeps ==
    ASSUME IInv, HookFails \/ HookAnswers
    PROVE  IInv'
<1>1. hook # None /\ hook' = None /\ UNCHANGED << builds, jobs, seen, pushed, now >>
  BY DEF HookFails, HookAnswers
<1>2. VoiceInv' /\ SucceededIsPushed'
  BY <1>1 DEF IInv, VoiceInv, SucceededIsPushed, Numbers
<1>3. CASE HookFails
  <2>1. UNCHANGED accepted
    BY <1>3 DEF HookFails
  <2> QED
    BY <1>1, <1>2, <2>1 DEF IInv, TypeInv, HookInv
<1>4. CASE HookAnswers
  <2> DEFINE a == [delivery |-> hook.delivery, made |-> hook.made]
  <2>1. hook.todo = {} /\ accepted' = accepted \cup {a} /\ hook \in HookSet
    BY <1>4 DEF HookAnswers, IInv, TypeInv
  <2>2. a \in [delivery : Deliveries, made : SUBSET Nat] /\ a.made = hook.made /\ a.delivery = hook.delivery
    BY <2>1 DEF HookSet
  <2>3. StandFor(builds, hook.made, hook.delivery, VerifyGitHub(hook.delivery) \ hook.todo)
    BY <1>1 DEF IInv, HookInv
  <2>4. VerifyGitHub(hook.delivery) \ hook.todo = VerifyGitHub(hook.delivery)
    BY <2>1
  <2> HIDE DEF a
  <2>5. StandFor(builds, a.made, a.delivery, VerifyGitHub(a.delivery))
    BY <2>2, <2>3, <2>4
  <2>6. HookInv'
    BY <1>1, <2>1, <2>5 DEF IInv, HookInv, VerifyGitHub
  <2>7. TypeInv'
    BY <1>1, <2>1, <2>2 DEF IInv, TypeInv
  <2> QED
    BY <1>2, <2>6, <2>7 DEF IInv
<1> QED
  BY <1>3, <1>4

---------------------------------------------------------------------------
(* The theorems                                                            *)

LEMMA InitHolds ==
    ASSUME Init
    PROVE  IInv
<1>1. /\ builds = << >> /\ jobs = << >> /\ seen = << >> /\ pushed = {} /\ hook = None
      /\ accepted = {} /\ now = 1
  BY DEF Init
<1>2. \A S : << >> \in Seq(S)
  OBVIOUS
<1>3. DOMAIN builds = {} /\ Len(builds) = 0 /\ Len(jobs) = 0 /\ Len(seen) = 0
  BY <1>1
<1> QED
  BY <1>1, <1>2, <1>3 DEF IInv, TypeInv, VoiceInv, SucceededIsPushed, HookInv, Numbers

LEMMA StepKeeps ==
    ASSUME IInv, [Next]_vars
    PROVE  IInv'
<1>1. CASE UNCHANGED vars
  BY <1>1 DEF IInv, TypeInv, VoiceInv, SucceededIsPushed, HookInv, Numbers, vars
<1>2. ASSUME NEW i \in 1 .. MaxBuilds, Pod(i) \/ See(i) \/ Reconcile(i) \/ Garbage(i)
      PROVE  IInv'
  <2>1. CASE Pod(i)
    BY <2>1, PodSpeaks, SpeaksKeeps DEF IInv
  <2> QED
    BY <1>2, <2>1, SeeKeeps, StartKeeps, ObserveKeeps, GarbageKeeps DEF Reconcile
<1> QED
  BY <1>1, <1>2, RequestKeeps, HooksKeeps, HookCreatesKeeps, HookEndsKeeps, CollectKeeps DEF Next

\* The records, the pods and the deliveries under way always agree: whatever has
\* been said or seen of an image is said by the pod that pushed it.
THEOREM Invariance == Spec => []IInv
<1>1. Init => IInv
  BY InitHolds
<1>2. IInv /\ [Next]_vars => IInv'
  BY StepKeeps
<1> QED
  BY <1>1, <1>2, PTL DEF Spec

\* A Build recorded as succeeded names an image that its own pod pushed (observe,
\* resultFromPods).
THEOREM SuccessesWerePushed == Spec => []SucceededIsPushed
<1>1. IInv => SucceededIsPushed
  BY DEF IInv
<1> QED
  BY <1>1, Invariance, PTL

\* A delivery answered 202 has made a Build of its commit for every environment
\* whose secret signed it, and for no other (verifyGitHub, the hook handler).
THEOREM AcceptedDeliveriesBuild == Spec => []AcceptedDeliveryBuildsAll
<1>1. IInv => AcceptedDeliveryBuildsAll
  BY DEF IInv, HookInv, StandFor, VerifyGitHub, AcceptedDeliveryBuildsAll
<1> QED
  BY <1>1, Invariance, PTL

---------------------------------------------------------------------------
(* What a sweep dooms is superseded                                        *)

LEMMA FinishedIsFinite ==
    ASSUME TypeInv
    PROVE  IsFiniteSet(Finished) /\ Cardinality(Finished) \in Nat
<1>1. Finished \in SUBSET (1 .. Len(builds)) /\ Len(builds) \in Int
  BY SeqOf DEF TypeInv, Finished, Alive, Numbers
<1>2. IsFiniteSet(1 .. Len(builds))
  BY <1>1, FS_Interval
<1>3. IsFiniteSet(Finished)
  BY <1>1, <1>2, FS_Subset
<1> QED
  BY <1>3, FS_CardinalityType

\* Each finished Build is once in the order.
LEMMA OrderIsInjective ==
    ASSUME TypeInv, NEW order \in Orders
    PROVE  /\ DOMAIN order = 1 .. Cardinality(Finished) /\ NewestFirst(order)
           /\ \A k \in DOMAIN order : order[k] \in Finished
           /\ \A k, l \in DOMAIN order : order[k] = order[l] => k = l
<1> DEFINE n == Cardinality(Finished)
<1>1. n \in Nat /\ IsFiniteSet(Finished)
  BY FinishedIsFinite
<1>2. /\ order \in [1 .. n -> Finished] /\ NewestFirst(order)
      /\ {order[k] : k \in DOMAIN order} = Finished
  BY DEF Orders, NewestFirst
<1>3. order \in Surjection(1 .. n, Finished)
  BY <1>2 DEF Surjection
<1>4. IsFiniteSet(1 .. n) /\ Cardinality(1 .. n) = n
  BY <1>1, FS_Interval
<1> HIDE DEF n
<1>5. Cardinality(1 .. n) = Cardinality(Finished)
  BY <1>4 DEF n
<1>6. order \in Injection(1 .. n, Finished)
  BY <1>3, <1>4, <1>5, FS_SurjSameCardinalityImpliesInj
<1>7. \A k, l \in DOMAIN order : order[k] = order[l] => k = l
  BY <1>2, <1>6 DEF Injection, IsInjective
<1> QED
  BY <1>2, <1>7 DEF n

\* The places of a finite set of places, but one, hold as many Builds as that.
LEMMA Counted ==
    ASSUME NEW order, NEW places, IsFiniteSet(places), NEW k \in places, NEW m \in Nat,
           Cardinality(places) > m, places \subseteq DOMAIN order,
           \A x, y \in DOMAIN order : order[x] = order[y] => x = y,
           NEW later, IsFiniteSet(later), \A x \in places : x # k => order[x] \in later
    PROVE  Cardinality(later) >= m
<1> DEFINE S == places \ {k}
           T == {order[x] : x \in S}
           f == [x \in S |-> order[x]]
<1>1. IsFiniteSet(S) /\ Cardinality(S) = Cardinality(places) - 1
  BY FS_RemoveElement
<1>2. f \in Bijection(S, T)
  BY DEF Bijection, Injection, Surjection, IsInjective
<1>3. ExistsBijection(S, T)
  BY <1>2 DEF ExistsBijection
<1>4. T \in SUBSET later
  OBVIOUS
<1>5. Cardinality(places) \in Nat
  BY FS_CardinalityType
<1> HIDE DEF S, T, f
<1>6. IsFiniteSet(T) /\ Cardinality(T) = Cardinality(S)
  BY <1>1, <1>3, FS_Bijection
<1>7. Cardinality(T) <= Cardinality(later) /\ Cardinality(later) \in Nat
  BY <1>4, FS_Subset, FS_CardinalityType
<1> QED
  BY <1>1, <1>5, <1>6, <1>7

LEMMA DoomedIsSuperseded ==
    ASSUME TypeInv, NEW order \in Orders, NEW i \in Doomed(order)
    PROVE  Superseded(i)
<1> DEFINE app(k) == {l \in 1 .. k : builds[order[l]].owner = builds[order[k]].owner}
           kept == {k \in DOMAIN order : Cardinality(app(k)) <= KeptPerApp}
           first(k) == {l \in kept : l <= k}
<1>1. /\ DOMAIN order = 1 .. Cardinality(Finished) /\ Cardinality(Finished) \in Nat
      /\ \A k \in DOMAIN order : order[k] \in Finished
      /\ \A k, l \in DOMAIN order : order[k] = order[l] => k = l
      /\ \A k, l \in DOMAIN order : k < l => builds[order[k]].ended >= builds[order[l]].ended
  BY OrderIsInjective, FinishedIsFinite DEF NewestFirst
<1>2. PICK k \in DOMAIN order :
        i = order[k] /\ (k \notin kept \/ ~ (Cardinality(first(k)) <= KeptInNamespace))
  BY DEF Doomed
<1>3. k \in Nat /\ IsFiniteSet(1 .. k) /\ 1 .. k \subseteq DOMAIN order
  BY <1>1, FS_Interval
<1>4. \A l \in 1 .. k : l # k => order[l] \in Later(i)
  BY <1>1, <1>2, <1>3 DEF Later
<1>5. IsFiniteSet(Later(i)) /\ IsFiniteSet({j \in Later(i) : builds[j].owner = builds[i].owner})
  BY FinishedIsFinite, FS_Subset DEF Later
<1>6. CASE k \notin kept
  <2>1. Cardinality(app(k)) > KeptPerApp /\ app(k) \in SUBSET (1 .. k) /\ k \in app(k)
    <3>1. app(k) \in SUBSET (1 .. k) /\ k \in app(k)
      BY <1>1, <1>3
    <3>2. Cardinality(app(k)) \in Nat
      BY <1>3, <3>1, FS_Subset, FS_CardinalityType
    <3> QED
      BY <1>6, <3>1, <3>2, BuildsAssumption
  <2>2. \A l \in app(k) : l # k => order[l] \in {j \in Later(i) : builds[j].owner = builds[i].owner}
    BY <1>2, <1>4
  <2>3. IsFiniteSet(app(k))
    BY <1>3, <2>1, FS_Subset
  <2> HIDE DEF app, kept, first
  <2>4. Cardinality({j \in Later(i) : builds[j].owner = builds[i].owner}) >= KeptPerApp
    BY <1>1, <1>3, <1>5, <2>1, <2>2, <2>3, Counted, BuildsAssumption
  <2> QED
    BY <1>1, <1>2, <2>4 DEF Superseded
<1>7. CASE k \in kept /\ ~ (Cardinality(first(k)) <= KeptInNamespace)
  <2>1. first(k) \in SUBSET (1 .. k) /\ k \in first(k)
    BY <1>1, <1>3, <1>7
  <2>2. IsFiniteSet(first(k)) /\ Cardinality(first(k)) > KeptInNamespace
    <3>1. IsFiniteSet(first(k)) /\ Cardinality(first(k)) \in Nat
      BY <1>3, <2>1, FS_Subset, FS_CardinalityType
    <3> QED
      BY <1>7, <3>1, BuildsAssumption
  <2>3. \A l \in first(k) : l # k => order[l] \in Later(i)
    BY <1>4, <2>1
  <2> HIDE DEF app, kept, first
  <2>4. Cardinality(Later(i)) >= KeptInNamespace
    BY <1>1, <1>3, <1>5, <2>1, <2>2, <2>3, Counted, BuildsAssumption
  <2> QED
    BY <1>1, <1>2, <2>4 DEF Superseded
<1> QED
  BY <1>2, <1>6, <1>7

\* A step takes a record away only when it is superseded.
LEMMA StepTakesSuperseded ==
    ASSUME IInv, [Next]_vars, NEW i \in Alive, i \notin {j \in DOMAIN builds' : builds'[j].alive}
    PROVE  Superseded(i)
<1>0. i \in DOMAIN builds /\ builds[i].alive /\ TypeInv
  BY DEF Alive, Numbers, IInv
<1>1. CASE CollectBuilds
  <2>1. PICK gone : Sweeps(gone)
    BY <1>1, CollectSweeps
  <2>2. DOMAIN builds' = DOMAIN builds /\ builds'[i].alive = (builds[i].alive /\ i \notin gone)
    BY <1>0, <2>1, SweptAre
  <2>3. i \in gone
    BY <1>0, <2>2
  <2>4. PICK order \in Orders : gone \subseteq Doomed(order)
    BY <2>1 DEF Sweeps
  <2> QED
    BY <1>0, <2>3, <2>4, DoomedIsSuperseded
<1>2. CASE UNCHANGED builds
  BY <1>0, <1>2
<1>3. ASSUME NEW b, Adds(b)
      PROVE  FALSE
  <2>1. /\ DOMAIN builds \subseteq DOMAIN builds' /\ builds'[i] = builds[i]
    BY <1>0, <1>3, Added DEF Adds, TypeInv
  <2> QED
    BY <1>0, <2>1
<1>4. ASSUME NEW x, NEW b, MovesOn(x, b)
      PROVE  FALSE
  <2>1. DOMAIN builds' = DOMAIN builds /\ builds'[i].alive = builds[i].alive
    BY <1>0, <1>4, MovesOnKeeps
  <2> QED
    BY <1>0, <2>1
<1>5. CASE \E q \in Requests : CreateBuild(q)
  <2>1. PICK q \in Requests : CreateBuild(q)
    BY <1>5
  <2>2. q.owner \in OwnersOfBuilds /\ q.revision \in Revisions /\ q.method \in Methods
    BY BuildsAssumption DEF OwnersOfBuilds, Revisions, Methods
  <2> QED
    BY <1>0, <1>3, <2>1, <2>2, CreateAdds DEF CreateBuild
<1>6. CASE HookCreates
  <2>1. PICK k \in hook.todo : Create(BuildFor(Triggers[k].owner, hook.delivery.after, "detect"))
    BY <1>6 DEF HookCreates
  <2>2. hook \in HookSet
    BY <1>0, <1>6 DEF HookCreates, TypeInv
  <2>3. Triggers[k].owner \in OwnersOfBuilds /\ hook.delivery.after \in Revisions /\ "detect" \in Methods
    BY <2>1, <2>2 DEF HookSet, OwnersOfBuilds, Revisions, Methods
  <2> QED
    BY <1>0, <1>3, <2>1, <2>3, CreateAdds
<1>7. ASSUME NEW x, Reconcile(x)
      PROVE  FALSE
  BY <1>4, <1>7, StartMoves, ObserveMoves DEF Reconcile
<1>8. ASSUME NEW x, Pod(x) \/ See(x) \/ Garbage(x)
      PROVE  UNCHANGED builds
  BY <1>8 DEF Pod, BuildkitSide, Prepare, LifecycleSide, Fail, Die, See, Garbage, JobStep
<1>9. ASSUME (\E d \in Deliveries : Hooks(d)) \/ HookFails \/ HookAnswers \/ UNCHANGED vars
      PROVE  UNCHANGED builds
  BY <1>9 DEF Hooks, HookFails, HookAnswers, vars
<1> QED
  BY <1>1, <1>2, <1>5, <1>6, <1>7, <1>8, <1>9 DEF Next

\* A record goes only when it is finished and enough of its app, or of the
\* namespace, ended no earlier, in whatever order those of one second come and
\* wherever a sweep fails (collectBuilds).
THEOREM OnlySupersededGoes == Spec => CollectedIsSuperseded
<1>1. IInv /\ [Next]_vars =>
        [\A i \in Alive : i \notin {j \in DOMAIN builds' : builds'[j].alive} => Superseded(i)]_vars
  BY StepTakesSuperseded
<1> QED
  BY <1>1, Invariance, PTL DEF Spec, CollectedIsSuperseded
============================================================================
