--------------------------- MODULE OperatorProofs ---------------------------
(***************************************************************************)
(* The operator, for any resources, specs, kinds rendered and caches that  *)
(* lag: what the status calls a rehearsal restored, no pass rewrites what  *)
(* is not its own, and what a Deployment names is there and stays.         *)
(***************************************************************************)
EXTENDS Operator, SequenceTheorems, NaturalsInduction, WellFoundedInduction, TLAPS

\* The shape of what the variables hold; what is in it does not matter here.
IsCr(c) == c = [inc |-> c.inc, gen |-> c.gen, spec |-> c.spec, status |-> c.status]
IsWork(w) == w = [o |-> w.o, cr |-> w.cr, step |-> w.step, err |-> w.err]
IsJob(j) == j = [o |-> j.o, cr |-> j.cr, step |-> j.step, err |-> j.err, secret |-> j.secret]

\* The last restore of a copy of a Database is a run that restored.
LastOk(runs, c) ==
    c.status # None /\ c.status.last # 0 =>
        c.status.last \in DOMAIN runs /\ runs[c.status.last]

CrGood(table, runs) ==
    /\ DOMAIN table = Owners
    /\ \A o \in Owners : table[o] # None =>
         IsCr(table[o]) /\ (o \in Databases => LastOk(runs[o], table[o]))

\* A pass holds a copy, which may be older than what is stored.
JobGood(j, runs) ==
    j # None => j.o \in Databases /\ IsJob(j) /\ IsCr(j.cr) /\ LastOk(runs[j.o], j.cr)

WorkGood(w) ==
    w # None => w.o \in Workloads /\ IsWork(w) /\ IsCr(w.cr) /\ w.step \in 1 .. Len(Steps)

RunsGood(runs, reported) ==
    /\ DOMAIN runs = Databases /\ DOMAIN reported = Databases
    /\ \A o \in Databases : (\E T : runs[o] \in Seq(T)) /\ reported[o] \subseteq DOMAIN runs[o]

IInv == CrGood(crs, ran) /\ JobGood(job, ran) /\ WorkGood(work) /\ RunsGood(ran, pods)

---------------------------------------------------------------------------
(* Sequences and numbers                                                   *)

\* A bounded set of numbers that is not empty has a largest.
LEMMA LargestExists ==
    ASSUME NEW S \in SUBSET Nat, S # {},
           NEW b \in Nat, \A s \in S : s <= b
    PROVE  \E m \in S : \A s \in S : s <= m
<1> DEFINE B == {n \in Nat : \A s \in S : s <= n}
           R == OpToRel(<, Nat)
<1>1. B \subseteq Nat /\ B # {}
  OBVIOUS
<1>2. PICK m \in B : \A y \in B : <<y, m>> \notin R
  <2> HIDE DEF B
  <2> QED
    BY <1>1, NatLessThanWellFounded, WFMin
<1>3. m \in Nat /\ \A s \in S : s <= m
  OBVIOUS
<1>4. ASSUME m \notin S PROVE FALSE
  <2>1. PICK x \in S : TRUE
    OBVIOUS
  <2>2. m - 1 \in Nat /\ m - 1 < m
    BY <1>3, <1>4, <2>1
  <2>3. \A s \in S : s <= m - 1
    BY <1>3, <1>4, <2>2
  <2>4. m - 1 \in B
    BY <2>2, <2>3
  <2>5. <<m - 1, m>> \in R
    BY <1>3, <2>2 DEF OpToRel
  <2> QED
    BY <1>2, <2>4, <2>5
<1> QED
  BY <1>3, <1>4

\* A sequence with one more.
LEMMA Appended ==
    ASSUME NEW T, NEW s \in Seq(T), NEW x
    PROVE  /\ Append(s, x) \in Seq(T \cup {x})
           /\ DOMAIN s = 1 .. Len(s) /\ Len(s) \in Nat
           /\ DOMAIN Append(s, x) = 1 .. Len(s) + 1
           /\ \A i \in DOMAIN s : Append(s, x)[i] = s[i]
<1>1. s \in Seq(T \cup {x})
  BY SeqMonotonic
<1> QED
  BY <1>1, AppendProperties, LenProperties

\* The steps of a pass: the claims, the values, what is rendered, the status.
LEMMA StepsAre ==
    /\ Len(Steps) \in Nat /\ Len(Steps) >= 3
    /\ Steps[1] = "claims" /\ Steps[2] = "generated" /\ Steps[Len(Steps)] = "status"
    /\ \A i \in 1 .. Len(Steps) : i # 1 /\ i # 2 /\ i # Len(Steps) => Steps[i] \in OwnedKinds
    /\ Kinds \subseteq OwnedKinds
<1> DEFINE S == OwnedKinds \cup {"claims", "generated", "status"}
           a == << "claims", "generated" >>
           c == << "status" >>
<1>1. a \in Seq(S) /\ c \in Seq(S) /\ Len(a) = 2 /\ Len(c) = 1
      /\ a[1] = "claims" /\ a[2] = "generated" /\ c[1] = "status"
  OBVIOUS
<1>2. Rendered \in Seq(S) /\ Len(Rendered) \in Nat /\ \A i \in 1 .. Len(Rendered) : Rendered[i] \in OwnedKinds
  BY WorkloadAssumption, SeqMonotonic, ElementOfSeq, LenProperties
<1>3. Kinds \subseteq OwnedKinds
  BY <1>2, LenProperties, WorkloadAssumption DEF Kinds
<1> HIDE DEF S, a, c
<1> DEFINE ab == a \o Rendered
<1>4. /\ ab \in Seq(S) /\ Len(ab) = 2 + Len(Rendered)
      /\ \A i \in 1 .. 2 + Len(Rendered) : ab[i] = IF i <= 2 THEN a[i] ELSE Rendered[i - 2]
  <2>1. /\ ab \in Seq(S) /\ Len(ab) = Len(a) + Len(Rendered)
        /\ \A i \in 1 .. Len(a) + Len(Rendered) :
             ab[i] = IF i <= Len(a) THEN a[i] ELSE Rendered[i - Len(a)]
    BY <1>1, <1>2, ConcatProperties
  <2> QED
    BY <1>1, <2>1
<1> HIDE DEF ab
<1>5. /\ Len(ab \o c) = 3 + Len(Rendered)
      /\ \A i \in 1 .. 3 + Len(Rendered) : (ab \o c)[i] = IF i <= 2 + Len(Rendered) THEN ab[i]
                                                       ELSE c[i - (2 + Len(Rendered))]
  <2>1. /\ Len(ab \o c) = Len(ab) + Len(c)
        /\ \A i \in 1 .. Len(ab) + Len(c) :
             (ab \o c)[i] = IF i <= Len(ab) THEN ab[i] ELSE c[i - Len(ab)]
    BY <1>1, <1>4, ConcatProperties
  <2>2. Len(ab) + Len(c) = 3 + Len(Rendered)
    BY <1>1, <1>2, <1>4
  <2> QED
    BY <1>1, <1>2, <1>4, <2>1, <2>2
<1>6. Steps = ab \o c
  BY DEF Steps, ab, a, c
<1>7. \A i \in 1 .. Len(Steps) : i # 1 /\ i # 2 /\ i # Len(Steps) => Steps[i] \in OwnedKinds
  BY <1>2, <1>4, <1>5, <1>6
<1> QED
  BY <1>1, <1>2, <1>3, <1>4, <1>5, <1>6, <1>7
---------------------------------------------------------------------------
(* What the steps do to the resources                                      *)

\* One resource becomes a copy that is good.
LEMMA OneCr ==
    ASSUME NEW table, NEW runs, CrGood(table, runs), NEW o \in Owners, NEW c,
           c # None => IsCr(c) /\ (o \in Databases => LastOk(runs[o], c)),
           NEW new, new = [table EXCEPT ![o] = c]
    PROVE  CrGood(new, runs)
BY DEF CrGood

LEMMA OwnersWrite ==
    ASSUME IInv, NEW o \in Owners, NEW spec,
           CreateOwner(o, spec) \/ EditOwner(o, spec) \/ DeleteOwner(o)
    PROVE  CrGood(crs', ran) /\ UNCHANGED objs
<1>0. CrGood(crs, ran)
  BY DEF IInv
<1>1. CASE CreateOwner(o, spec)
  <2> DEFINE c == [inc |-> made[o] + 1, gen |-> 1, spec |-> spec, status |-> None]
  <2>1. IsCr(c) /\ LastOk(ran[o], c)
    BY DEF IsCr, LastOk
  <2>2. crs' = [crs EXCEPT ![o] = c] /\ UNCHANGED objs
    BY <1>1 DEF CreateOwner
  <2> HIDE DEF c
  <2> QED
    BY <1>0, <2>1, <2>2, OneCr
<1>2. CASE EditOwner(o, spec)
  <2>1. crs[o] # None /\ IsCr(crs[o]) /\ (o \in Databases => LastOk(ran[o], crs[o]))
    BY <1>0, <1>2 DEF EditOwner, CrGood
  <2> DEFINE g == crs[o].gen + 1
             c == [crs[o] EXCEPT !.spec = spec, !.gen = g]
  <2>3. IsCr(c) /\ c.status = crs[o].status
    <3> DEFINE x == crs[o]
    <3>1. IsCr(x) /\ c = [x EXCEPT !.spec = spec, !.gen = g]
      BY <2>1
    <3> HIDE DEF g, x, c
    <3>2. c = [inc |-> x.inc, gen |-> g, spec |-> spec, status |-> x.status]
      BY <3>1 DEF IsCr
    <3>3. IsCr(c) /\ c.status = x.status
      BY <3>2 DEF IsCr
    <3> QED
      BY <3>3 DEF x
  <2>4. crs' = [crs EXCEPT ![o] = c] /\ UNCHANGED objs
    BY <1>2 DEF EditOwner
  <2> HIDE DEF c
  <2>5. o \in Databases => LastOk(ran[o], c)
    BY <2>1, <2>3 DEF LastOk
  <2> QED
    BY <1>0, <2>3, <2>4, <2>5, OneCr
<1>3. CASE DeleteOwner(o)
  <2>1. crs' = [crs EXCEPT ![o] = None] /\ UNCHANGED objs
    BY <1>3 DEF DeleteOwner
  <2> QED
    BY <1>0, <2>1, OneCr
<1> QED
  BY <1>1, <1>2, <1>3

\* The workload reconciler writes no Database's status.
LEMMA WorkloadStatusWrite ==
    ASSUME IInv, UpdateStatus
    PROVE  CrGood(crs', ran)
<1>0. CrGood(crs, ran) /\ work # None /\ work.o \in Workloads
  BY DEF IInv, UpdateStatus, Doing, WorkGood
<1>1. work.o \in Owners /\ work.o \notin Databases
  BY <1>0 DEF Workloads, Databases
<1> DEFINE status == StatusOf(work.o, work.cr, work.err)
<1>2. crs' = IF crs[work.o] = work.cr THEN [crs EXCEPT ![work.o].status = status] ELSE crs
  BY DEF UpdateStatus
<1> HIDE DEF status
<1>3. CASE crs[work.o] = work.cr
  <2> DEFINE c == [crs[work.o] EXCEPT !.status = status]
  <2>1. IsCr(crs[work.o])
    BY <1>0, <1>3 DEF IInv, WorkGood
  <2>2. c = [inc |-> crs[work.o].inc, gen |-> crs[work.o].gen, spec |-> crs[work.o].spec,
             status |-> status]
    BY <2>1 DEF IsCr
  <2>3. IsCr(c)
    BY <2>2 DEF IsCr
  <2>4. crs' = [crs EXCEPT ![work.o] = c]
    BY <1>2, <1>3
  <2> HIDE DEF c
  <2> QED
    BY <1>0, <1>1, <2>3, <2>4, OneCr
<1> QED
  BY <1>0, <1>2, <1>3

\* latestRehearsal answers a run that restored, or what was said before.
LEMMA LatestRestored ==
    ASSUME IInv, NEW o \in Databases, NEW last, last # 0 => last \in DOMAIN ran[o] /\ ran[o][last]
    PROVE  LatestRehearsal(o, last) # 0 =>
             LatestRehearsal(o, last) \in DOMAIN ran[o] /\ ran[o][LatestRehearsal(o, last)]
<1> DEFINE runs == {p \in pods[o] : ran[o][p]}
           best == CHOOSE n \in runs : \A m \in runs : m <= n
<1>1. LatestRehearsal(o, last) = IF runs = {} THEN last ELSE best
  BY DEF LatestRehearsal
<1>2. CASE runs = {}
  BY <1>1, <1>2
<1>3. CASE runs # {}
  <2>1. PICK T : ran[o] \in Seq(T)
    BY DEF IInv, RunsGood
  <2>2. DOMAIN ran[o] = 1 .. Len(ran[o]) /\ Len(ran[o]) \in Nat
    BY <2>1, LenProperties
  <2>3. runs \subseteq DOMAIN ran[o]
    BY DEF IInv, RunsGood
  <2>4. runs \in SUBSET Nat /\ \A x \in runs : x <= Len(ran[o])
    BY <2>2, <2>3
  <2>5. \E m \in runs : \A x \in runs : x <= m
    <3> HIDE DEF runs
    <3> QED
      BY <1>3, <2>2, <2>4, LargestExists
  <2>6. best \in runs
    BY <2>5
  <2> QED
    BY <1>1, <1>3, <2>3, <2>6
<1> QED
  BY <1>2, <1>3

LEMMA DatabaseStatusWrite ==
    ASSUME IInv, UpdateDatabaseStatus
    PROVE  CrGood(crs', ran)
<1>0. /\ CrGood(crs, ran) /\ job # None /\ job.o \in Databases /\ IsCr(job.cr)
      /\ LastOk(ran[job.o], job.cr)
  BY DEF IInv, UpdateDatabaseStatus, JobAt, JobGood
<1>1. job.o \in Owners
  BY <1>0 DEF Databases
<1> DEFINE status == DatabaseStatus(job.o, job.cr, job.err)
           before == IF job.cr.status = None THEN 0 ELSE job.cr.status.last
<1>2. crs' = IF crs[job.o] = job.cr THEN [crs EXCEPT ![job.o].status = status] ELSE crs
  BY DEF UpdateDatabaseStatus
<1>3. status.last = LatestRehearsal(job.o, before)
  BY DEF DatabaseStatus
<1>4. before # 0 => before \in DOMAIN ran[job.o] /\ ran[job.o][before]
  BY <1>0 DEF LastOk
<1> HIDE DEF status, before
<1>5. status.last # 0 => status.last \in DOMAIN ran[job.o] /\ ran[job.o][status.last]
  BY <1>0, <1>3, <1>4, LatestRestored
<1>6. CASE crs[job.o] = job.cr
  <2> DEFINE c == [crs[job.o] EXCEPT !.status = status]
  <2>1. IsCr(crs[job.o])
    BY <1>0, <1>6
  <2>2. c = [inc |-> crs[job.o].inc, gen |-> crs[job.o].gen, spec |-> crs[job.o].spec,
             status |-> status]
    BY <2>1 DEF IsCr
  <2>3. IsCr(c) /\ c.status = status
    BY <2>2 DEF IsCr
  <2>4. crs' = [crs EXCEPT ![job.o] = c]
    BY <1>2, <1>6
  <2> HIDE DEF c
  <2>5. LastOk(ran[job.o], c)
    BY <1>5, <2>3 DEF LastOk
  <2> QED
    BY <1>0, <1>1, <2>3, <2>4, <2>5, OneCr
<1> QED
  BY <1>0, <1>2, <1>6

---------------------------------------------------------------------------
(* What the steps do to the passes                                         *)

LEMMA WorkMoves ==
    ASSUME WorkGood(work), work # None, Steps[work.step] # "status",
           GoOn \/ \E err : Stop(err)
    PROVE  /\ WorkGood(work') /\ work'.o = work.o /\ work'.cr = work.cr
           /\ work'.step \in {work.step + 1, Len(Steps)}
           /\ GoOn => work'.step = work.step + 1
<1>1. /\ IsWork(work) /\ work.step \in 1 .. Len(Steps) /\ work.o \in Workloads /\ IsCr(work.cr)
      /\ Len(Steps) \in Nat /\ work.step # Len(Steps)
  BY StepsAre DEF WorkGood
<1>2. CASE GoOn
  <2>1. work' = [o |-> work.o, cr |-> work.cr, step |-> work.step + 1, err |-> work.err]
    BY <1>1, <1>2 DEF IsWork, GoOn
  <2>2. /\ IsWork(work') /\ work'.o = work.o /\ work'.cr = work.cr /\ work'.step = work.step + 1
    BY <2>1 DEF IsWork
  <2> QED
    BY <1>1, <2>2 DEF WorkGood
<1>3. ASSUME NEW err, Stop(err), ~ GoOn
      PROVE  /\ WorkGood(work') /\ work'.o = work.o /\ work'.cr = work.cr
             /\ work'.step \in {work.step + 1, Len(Steps)}
  <2>1. work' = [o |-> work.o, cr |-> work.cr, step |-> Len(Steps), err |-> err]
    BY <1>1, <1>3 DEF IsWork, Stop
  <2>2. /\ IsWork(work') /\ work'.o = work.o /\ work'.cr = work.cr /\ work'.step = Len(Steps)
    BY <2>1 DEF IsWork
  <2> QED
    BY <1>1, <2>2, StepsAre DEF WorkGood
<1> QED
  BY <1>2, <1>3

\* A pass begins, goes on, stops early, or ends.
LEMMA WorkloadPassIs ==
    ASSUME IInv, WorkloadPass
    PROVE  /\ WorkGood(work')
           /\ CrGood(crs', ran)
<1>1. ASSUME NEW o \in Workloads, Reconcile(o)
      PROVE  WorkGood(work') /\ UNCHANGED crs
  <2>1. /\ work' = IF crs[o] = None THEN None
                   ELSE [o |-> o, cr |-> crs[o], step |-> 1, err |-> "none"]
        /\ UNCHANGED crs
    BY <1>1 DEF Reconcile
  <2>2. CASE crs[o] = None
    BY <2>1, <2>2 DEF WorkGood
  <2>3. CASE crs[o] # None
    <3>1. IsCr(crs[o])
      BY <2>3 DEF IInv, CrGood, Workloads
    <3>2. work' = [o |-> o, cr |-> crs[o], step |-> 1, err |-> "none"]
      BY <2>1, <2>3
    <3>3. work'.o = o /\ work'.cr = crs[o] /\ work'.step = 1 /\ IsWork(work')
      BY <3>2 DEF IsWork
    <3>4. work'.step \in 1 .. Len(Steps)
      BY <3>3, StepsAre
    <3> QED
      BY <2>1, <3>1, <3>3, <3>4 DEF WorkGood
  <2> QED
    BY <2>2, <2>3
<1>2. ASSUME work # None, Steps[work.step] # "status", GoOn \/ \E err : Stop(err)
      PROVE  WorkGood(work')
  BY <1>2, WorkMoves DEF IInv
<1>3. CASE ReconcileClaims
  <2>1. work # None /\ Steps[work.step] = "claims" /\ GoOn /\ UNCHANGED crs
    BY <1>3 DEF ReconcileClaims, Doing
  <2> QED
    BY <1>2, <2>1 DEF IInv
<1>4. CASE ReconcileGeneratedSecret
  <2>1. /\ work # None /\ Steps[work.step] = "generated" /\ UNCHANGED crs
        /\ GoOn \/ Stop("RenderFailed")
    BY <1>4 DEF ReconcileGeneratedSecret, Doing
  <2> QED
    BY <1>2, <2>1 DEF IInv
<1>5. ASSUME NEW kind \in Kinds, Apply(kind) \/ DeleteIfPresent(kind)
      PROVE  WorkGood(work') /\ UNCHANGED crs
  <2>1. /\ work # None /\ Steps[work.step] = kind /\ UNCHANGED crs
        /\ GoOn \/ Stop("RenderFailed") \/ Stop("Conflict")
    BY <1>5 DEF Apply, DeleteIfPresent, Doing
  <2>2. kind # "status"
    BY StepsAre DEF OwnedKinds
  <2> QED
    BY <1>2, <2>1, <2>2
<1>6. CASE UpdateStatus
  BY <1>6, WorkloadStatusWrite DEF UpdateStatus, WorkGood
<1> QED
  BY <1>1, <1>3, <1>4, <1>5, <1>6 DEF WorkloadPass, IInv

LEMMA JobMoves ==
    ASSUME JobGood(job, ran), job # None, NEW step, NEW err, NEW secret,
           job' = [job EXCEPT !.step = step, !.err = err, !.secret = secret]
    PROVE  JobGood(job', ran) /\ job'.o = job.o /\ job'.cr = job.cr
<1>1. IsJob(job) /\ job.o \in Databases /\ IsCr(job.cr) /\ LastOk(ran[job.o], job.cr)
  BY DEF JobGood
<1>2. job' = [o |-> job.o, cr |-> job.cr, step |-> step, err |-> err, secret |-> secret]
  BY <1>1 DEF IsJob
<1>3. IsJob(job') /\ job'.o = job.o /\ job'.cr = job.cr
  BY <1>2 DEF IsJob
<1> QED
  BY <1>1, <1>3 DEF JobGood

LEMMA DatabasePassIs ==
    ASSUME IInv, DatabasePass
    PROVE  /\ JobGood(job', ran) /\ CrGood(crs', ran)
           /\ UNCHANGED << disk, pods, ran >>
<1>0. CrGood(crs, ran) /\ JobGood(job, ran)
  BY DEF IInv
<1>1. ASSUME NEW o \in Databases, ReconcileDatabase(o)
      PROVE  JobGood(job', ran) /\ UNCHANGED << crs, disk, pods, ran >>
  <2>1. /\ job' = IF crs[o] = None THEN None
                  ELSE [o |-> o, cr |-> crs[o], step |-> 1, err |-> "none", secret |-> None]
        /\ UNCHANGED << crs, disk, pods, ran >>
    BY <1>1 DEF ReconcileDatabase
  <2>2. CASE crs[o] = None
    BY <2>1, <2>2 DEF JobGood
  <2>3. CASE crs[o] # None
    <3>1. IsCr(crs[o]) /\ LastOk(ran[o], crs[o])
      BY <1>0, <2>3 DEF CrGood, Databases
    <3>2. job' = [o |-> o, cr |-> crs[o], step |-> 1, err |-> "none", secret |-> None]
      BY <2>1, <2>3
    <3>3. job'.o = o /\ job'.cr = crs[o] /\ IsJob(job')
      BY <3>2 DEF IsJob
    <3> QED
      BY <2>1, <3>1, <3>3 DEF JobGood
  <2> QED
    BY <2>2, <2>3
<1>2. ASSUME job # None, Advance \/ \E err : Abandon(err)
      PROVE  JobGood(job', ran)
  <2>1. CASE Advance
    <3>1. job' = [job EXCEPT !.step = job.step + 1, !.err = job.err, !.secret = job.secret]
      BY <1>0, <1>2, <2>1 DEF Advance, JobGood, IsJob
    <3> QED
      BY <1>0, <1>2, <3>1, JobMoves
  <2>2. ASSUME NEW err, Abandon(err)
        PROVE  JobGood(job', ran)
    <3>1. job' = [job EXCEPT !.step = Len(JobSteps), !.err = err, !.secret = job.secret]
      BY <1>0, <1>2, <2>2 DEF Abandon, JobGood, IsJob
    <3> QED
      BY <1>0, <1>2, <3>1, JobMoves
  <2> QED
    BY <1>2, <2>1, <2>2
<1>3. CASE ReadCredentials
  <2>1. PICK secret : job' = [job EXCEPT !.step = @ + 1, !.secret = secret]
    BY <1>3 DEF ReadCredentials
  <2>2. job # None /\ UNCHANGED << crs, disk, pods, ran >>
    BY <1>3 DEF ReadCredentials, JobAt
  <2>3. job' = [job EXCEPT !.step = job.step + 1, !.err = job.err, !.secret = secret]
    BY <1>0, <2>1, <2>2 DEF JobGood, IsJob
  <2> QED
    BY <1>0, <2>2, <2>3, JobMoves
<1>4. ASSUME NEW kind, ApplyDatabase(kind)
      PROVE  JobGood(job', ran) /\ UNCHANGED << crs, disk, pods, ran >>
  BY <1>2, <1>4 DEF ApplyDatabase, JobAt
<1>5. CASE ApplyClaim \/ DeleteDatabaseChild
  <2>1. job # None /\ (Advance \/ Abandon("RenderFailed")) /\ UNCHANGED << crs, disk, pods, ran >>
    BY <1>5 DEF ApplyClaim, DeleteDatabaseChild, JobAt
  <2> QED
    BY <1>0, <1>2, <2>1
<1>6. CASE UpdateDatabaseStatus
  BY <1>6, DatabaseStatusWrite DEF UpdateDatabaseStatus, JobGood
<1> QED
  BY <1>0, <1>1, <1>3, <1>4, <1>5, <1>6 DEF DatabasePass

---------------------------------------------------------------------------
(* What the servers, the others and a restart do                           *)

\* A run that is added leaves what is said of the earlier ones.
LEMMA RunAdded ==
    ASSUME IInv, NEW o \in Databases, NEW x, ran' = [ran EXCEPT ![o] = Append(@, x)],
           pods' = [pods EXCEPT ![o] = @ \union {Len(ran[o]) + 1}],
           UNCHANGED << crs, job, work >>
    PROVE  IInv'
<1>0. CrGood(crs, ran) /\ JobGood(job, ran) /\ RunsGood(ran, pods) /\ WorkGood(work)
  BY DEF IInv
<1>1. PICK T : ran[o] \in Seq(T)
  BY <1>0 DEF RunsGood
<1>2. /\ Append(ran[o], x) \in Seq(T \cup {x})
      /\ DOMAIN ran[o] = 1 .. Len(ran[o]) /\ Len(ran[o]) \in Nat
      /\ DOMAIN Append(ran[o], x) = 1 .. Len(ran[o]) + 1
      /\ \A i \in DOMAIN ran[o] : Append(ran[o], x)[i] = ran[o][i]
  BY <1>1, Appended
<1>3. /\ DOMAIN ran' = Databases /\ DOMAIN pods' = Databases
      /\ ran'[o] = Append(ran[o], x) /\ pods'[o] = pods[o] \cup {Len(ran[o]) + 1}
      /\ \A d \in Databases : d # o => ran'[d] = ran[d] /\ pods'[d] = pods[d]
  BY <1>0 DEF RunsGood
<1>4. \A d \in Databases :
        /\ DOMAIN ran[d] \subseteq DOMAIN ran'[d]
        /\ \A i \in DOMAIN ran[d] : ran'[d][i] = ran[d][i]
  BY <1>2, <1>3
<1>5. \A d \in Databases : \A c : LastOk(ran[d], c) => LastOk(ran'[d], c)
  BY <1>4 DEF LastOk
<1>6. CrGood(crs, ran')
  BY <1>0, <1>5 DEF CrGood
<1>7. JobGood(job, ran')
  BY <1>0, <1>5 DEF JobGood
<1>8. RunsGood(ran', pods')
  <2>1. ASSUME NEW d \in Databases
        PROVE  (\E U : ran'[d] \in Seq(U)) /\ pods'[d] \subseteq DOMAIN ran'[d]
    <3>1. CASE d = o
      <4>1. pods[o] \subseteq DOMAIN ran[o]
        BY <1>0 DEF RunsGood
      <4> QED
        BY <1>2, <1>3, <3>1, <4>1
    <3>2. CASE d # o
      BY <1>0, <1>3, <3>2 DEF RunsGood
    <3> QED
      BY <3>1, <3>2
  <2> QED
    BY <1>3, <2>1 DEF RunsGood
<1> QED
  BY <1>0, <1>6, <1>7, <1>8 DEF IInv

LEMMA ServersKeep ==
    ASSUME IInv, NEW o \in Databases, UNCHANGED workload, ServerStarts(o) \/ Backup(o) \/ PodGone(o)
    PROVE  IInv'
<1>0. UNCHANGED << crs, job, work >>
  BY DEF ServerStarts, Backup, PodGone, workload
<1>1. CASE ServerStarts(o)
  BY <1>0, <1>1 DEF ServerStarts, IInv
<1>2. CASE Backup(o)
  <2>1. /\ ran' = [ran EXCEPT ![o] = Append(@, objs[KeyOf("CronJob", o)].mine.content)]
        /\ pods' = [pods EXCEPT ![o] = @ \union {Len(ran[o]) + 1}]
    BY <1>2 DEF Backup
  <2> QED
    BY <1>0, <2>1, RunAdded
<1>3. CASE PodGone(o)
  <2>1. PICK p \in pods[o] : pods' = [pods EXCEPT ![o] = @ \ {p}]
    BY <1>3 DEF PodGone
  <2>2. UNCHANGED ran
    BY <1>3 DEF PodGone
  <2>3. RunsGood(ran, pods')
    BY <2>1 DEF IInv, RunsGood
  <2> QED
    BY <1>0, <2>2, <2>3 DEF IInv
<1> QED
  BY <1>1, <1>2, <1>3

LEMMA StepKeeps ==
    ASSUME IInv, [Next]_vars
    PROVE  IInv'
<1>1. CASE UNCHANGED vars
  BY <1>1 DEF vars, cluster, workload, database, IInv
<1>2. CASE WorkloadStep
  <2>1. WorkGood(work') /\ CrGood(crs', ran)
    BY <1>2, WorkloadPassIs DEF WorkloadStep
  <2>2. UNCHANGED << job, ran, pods >>
    BY <1>2 DEF WorkloadStep, database
  <2> QED
    BY <2>1, <2>2 DEF IInv
<1>3. CASE DatabaseStep
  <2>1. JobGood(job', ran) /\ CrGood(crs', ran) /\ UNCHANGED << pods, ran >>
    BY <1>3, DatabasePassIs DEF DatabaseStep
  <2>2. UNCHANGED work
    BY <1>3 DEF DatabaseStep, workload
  <2> QED
    BY <2>1, <2>2 DEF IInv
<1>4. CASE ClusterStep
  <2>1. UNCHANGED << job, work, ran, pods >> /\ External
    BY <1>4 DEF ClusterStep, workload, database
  <2>2. CrGood(crs', ran)
    <3>1. ASSUME UNCHANGED crs PROVE CrGood(crs', ran)
      BY <3>1 DEF IInv
    <3>2. CASE \E o \in Owners : \E s \in SpecsOf(o) : CreateOwner(o, s) \/ EditOwner(o, s)
      BY <3>2, OwnersWrite
    <3>3. CASE \E o \in Owners : DeleteOwner(o)
      BY <3>3, OwnersWrite
    <3>4. CASE \/ \E k \in DOMAIN objs : Collect(k)
               \/ \E k \in Tampered : Tamper(k)
               \/ \E kind \in Lagging : See(kind)
      BY <3>1, <3>4 DEF Collect, Tamper, See
    <3> QED
      BY <2>1, <3>2, <3>3, <3>4 DEF External
  <2> QED
    BY <2>1, <2>2 DEF IInv
<1>5. CASE OthersStep
  <2>1. UNCHANGED << job, ran, pods, crs, work >>
    BY <1>5 DEF OthersStep, OtherWriters, DeploymentController, Autoscaler, CertManager, Mark,
                database
  <2> QED
    BY <2>1 DEF IInv
<1>6. CASE ServersStep
  BY <1>6, ServersKeep DEF ServersStep, Servers
<1>7. CASE Restart
  <2>1. UNCHANGED << crs, ran, pods >> /\ work' = None /\ job' = None
    BY <1>7 DEF Restart
  <2> QED
    BY <2>1 DEF IInv, WorkGood, JobGood
<1> QED
  BY <1>1, <1>2, <1>3, <1>4, <1>5, <1>6, <1>7 DEF Next

LEMMA InitHolds ==
    ASSUME Init
    PROVE  IInv
<1>1. /\ crs = [o \in Owners |-> None] /\ work = None /\ job = None
      /\ pods = [o \in Databases |-> {}] /\ ran = [o \in Databases |-> << >>]
  BY DEF Init, ClusterInit, WorkloadInit, DatabaseInit
<1>2. << >> \in Seq({})
  OBVIOUS
<1>3. RunsGood(ran, pods)
  BY <1>1, <1>2 DEF RunsGood
<1> QED
  BY <1>1, <1>3 DEF IInv, CrGood, JobGood, WorkGood

\* The resources, the passes and the runs always have their shape, and every copy
\* of a Database, stored or held by a pass, has a last restore that restored.
THEOREM Invariance == Spec => []IInv
<1>1. Init => IInv
  BY InitHolds
<1>2. IInv /\ [Next]_vars => IInv'
  BY StepKeeps
<1> QED
  BY <1>1, <1>2, PTL DEF Spec

\* What a Database's status calls its last restore is a run that restored, for any
\* edits, lost pods, restarts and lagging caches (latestRehearsal).
THEOREM RehearsalsRestored == Spec => []LastRestoreDidRestore
<1>1. IInv => LastRestoreDidRestore
  BY DEF IInv, CrGood, LastOk, LastRestoreDidRestore, Databases
<1> QED
  BY <1>1, Invariance, PTL
---------------------------------------------------------------------------
(* Nobody's object is rewritten                                            *)

\* A write under the ownership check changes one object, which is its own.
LEMMA WritesItsOwn ==
    ASSUME NEW ref, NEW k, NEW want, objs' = Written(ref, k, want), NEW x \in Rewritten
    PROVE  x = k /\ objs[x].ctrl = ref
<1> DEFINE a == Applied(ref, k, want)
<1>1. x \in DOMAIN objs /\ objs'[x] # objs[x]
  BY DEF Rewritten
<1>2. CASE a = "created"
  <2>1. objs' = With(objs, k, [ctrl |-> ref, mine |-> want, others |-> {}])
    BY <1>2 DEF Written
  <2>2. k \notin DOMAIN objs
    BY <1>2 DEF Applied
  <2> QED
    BY <1>1, <2>1, <2>2 DEF With
<1>3. CASE a = "updated"
  <2>1. objs' = With(objs, k, Mutated(Read(k), want))
    BY <1>3 DEF Written
  <2>2. Read(k) # None /\ ~ Foreign(Read(k), ref) /\ Lookup(objs, k) = Read(k)
    BY <1>3 DEF Applied
  <2>3. x = k
    BY <1>1, <2>1 DEF With
  <2>4. objs[k].ctrl = ref
    BY <1>1, <2>2, <2>3 DEF Foreign, Lookup
  <2> QED
    BY <2>3, <2>4
<1>4. CASE a # "created" /\ a # "updated"
  BY <1>1, <1>4 DEF Written
<1> QED
  BY <1>2, <1>3, <1>4

LEMMA DeletesRewriteNothing ==
    ASSUME NEW ref, NEW k, objs' = Deleted(ref, k)
    PROVE  Rewritten = {}
BY DEF Deleted, Without, Rewritten

LEMMA WorkloadRewritesItsOwn ==
    ASSUME work # None, WorkloadPass, NEW x \in Rewritten, x.kind \in Kinds
    PROVE  objs[x].ctrl = Ref(work.o, work.cr.inc)
<1>0. x \in DOMAIN objs /\ x \in DOMAIN objs' /\ objs'[x] # objs[x]
  BY DEF Rewritten
<1>1. CASE \E o \in Workloads : Reconcile(o)
  BY <1>0, <1>1 DEF Reconcile
<1>2. CASE ReconcileClaims
  BY <1>0, <1>2 DEF ReconcileClaims, Store
<1>3. CASE ReconcileGeneratedSecret
  <2> DEFINE k == GeneratedKey(work.o)
  <2>1. x # k
    BY StepsAre DEF GeneratedKey, Key, OwnedKinds
  <2>2. PICK v : objs' = objs \/ objs' = With(objs, k, v) \/ objs' = [objs EXCEPT ![k].mine = v]
    BY <1>3 DEF ReconcileGeneratedSecret, Store
  <2> HIDE DEF k
  <2> QED
    BY <1>0, <2>1, <2>2 DEF With
<1>4. ASSUME NEW kind \in Kinds, Apply(kind)
      PROVE  objs[x].ctrl = Ref(work.o, work.cr.inc)
  <2>1. \/ objs' = objs
        \/ objs' = Written(Me, Key(kind, work.o.name), Desired(kind, work.cr.spec))
    BY <1>4 DEF Apply, Store
  <2> QED
    BY <1>0, <2>1, WritesItsOwn DEF Me
<1>5. ASSUME NEW kind \in Kinds, DeleteIfPresent(kind)
      PROVE  FALSE
  <2>1. objs' = Deleted(Me, Key(kind, work.o.name))
    BY <1>5 DEF DeleteIfPresent, Store
  <2> QED
    BY <2>1, DeletesRewriteNothing
<1>6. CASE UpdateStatus
  BY <1>0, <1>6 DEF UpdateStatus
<1> QED
  BY <1>1, <1>2, <1>3, <1>4, <1>5, <1>6 DEF WorkloadPass

LEMMA DatabaseRewritesItsOwn ==
    ASSUME job # None, DatabasePass, NEW x \in Rewritten
    PROVE  objs[x].ctrl = Ref(job.o, job.cr.inc)
<1>0. x \in DOMAIN objs /\ x \in DOMAIN objs' /\ objs'[x] # objs[x]
  BY DEF Rewritten
<1>1. CASE (\E o \in Databases : ReconcileDatabase(o)) \/ ReadCredentials \/ UpdateDatabaseStatus
  BY <1>0, <1>1 DEF ReconcileDatabase, ReadCredentials, UpdateDatabaseStatus
<1>2. ASSUME NEW kind, ApplyDatabase(kind)
      PROVE  objs[x].ctrl = Ref(job.o, job.cr.inc)
  <2>1. objs' = Written(Self, KeyOf(kind, job.o), Child(kind))
    BY <1>2 DEF ApplyDatabase, Store
  <2> QED
    BY <2>1, WritesItsOwn DEF Self
<1>3. CASE ApplyClaim
  <2> DEFINE k == BackupClaim(job.o)
             v == [ctrl |-> None, mine |-> "claim", others |-> {}]
  <2>1. objs' = objs \/ (k \notin DOMAIN objs /\ objs' = With(objs, k, v))
    BY <1>3 DEF ApplyClaim, Store
  <2> HIDE DEF k, v
  <2> QED
    BY <1>0, <2>1 DEF With
<1>4. CASE DeleteDatabaseChild
  <2>1. objs' = Deleted(Self, KeyOf("CronJob", job.o))
    BY <1>4 DEF DeleteDatabaseChild, Store
  <2> QED
    BY <2>1, DeletesRewriteNothing
<1> QED
  BY <1>1, <1>2, <1>3, <1>4 DEF DatabasePass

\* No pass of either reconciler rewrites an object it does not control, whatever
\* made the object and however old the copy in the cache is (apply and
\* applyDatabase: left "exactly as it was found").
THEOREM ForeignStaysAsFound == Spec => ForeignIsNeverRewritten
<1>1. [Next]_vars =>
        [objs' # objs =>
           /\ (work # None /\ WorkloadPass) =>
                 \A k \in Rewritten : k.kind \in Kinds => objs[k].ctrl = Ref(work.o, work.cr.inc)
           /\ (job # None /\ DatabasePass) =>
                 \A k \in Rewritten : objs[k].ctrl = Ref(job.o, job.cr.inc)]_vars
  BY WorkloadRewritesItsOwn, DatabaseRewritesItsOwn
<1> QED
  BY <1>1, PTL DEF Spec, ForeignIsNeverRewritten
---------------------------------------------------------------------------
(* What a Deployment names is there                                        *)

\* The claims and the minted values belong to nobody and are never taken away,
\* as long as nobody takes them away by hand.
Loose == {"PersistentVolumeClaim", "GeneratedSecret"}
HandsOff == \A k \in Tampered : k.kind \notin Loose

IsObject(x) == x = [ctrl |-> x.ctrl, mine |-> x.mine, others |-> x.others]

ObjGood(table) ==
    \A k \in DOMAIN table : IsObject(table[k]) /\ (k.kind \in Loose => table[k].ctrl = None)

\* The cache knows of no claim and no minted value that is not there.
SeenGood(cache, table) == \A k \in DOMAIN cache : k.kind \in Loose => k \in DOMAIN table

ClaimsThere(table, name, spec) ==
    \A v \in spec.volumes : Key("PersistentVolumeClaim", name \o v) \in DOMAIN table
ValuesThere(table, name, spec) ==
    spec.secrets # {} => Key("GeneratedSecret", name \o << "generated" >>) \in DOMAIN table

\* A pass that is past a step, and has not stopped, has what the step makes.
PassGood(w, table) ==
    w # None =>
        /\ w.step \notin {1, Len(Steps)} => ClaimsThere(table, w.o.name, w.cr.spec)
        /\ w.step \notin {1, 2, Len(Steps)} => ValuesThere(table, w.o.name, w.cr.spec)

Mounted(table, name, mine) ==
    /\ \A v \in mine.content.template.volumes :
          Key("PersistentVolumeClaim", name \o v) \in DOMAIN table
    /\ mine.content.template.generated =>
          Key("GeneratedSecret", name \o << "generated" >>) \in DOMAIN table

MountsGood(table) ==
    \A k \in DOMAIN table :
        k.kind = "Deployment" /\ table[k].mine # None => Mounted(table, k.name, table[k].mine)

MInv == ObjGood(objs) /\ SeenGood(seen, objs) /\ PassGood(work, objs) /\ MountsGood(objs)

---------------------------------------------------------------------------
(* What a step may do to the objects                                       *)

Holds(a, b) == \A n \in DOMAIN a : n \in DOMAIN b /\ b[n] = a[n]

\* No claim goes and no minted value changes; a Deployment says what it said, or
\* nothing, or what is there to be mounted.
Careful(old, new) ==
    /\ ObjGood(new)
    /\ \A k \in DOMAIN old : k.kind \in Loose => k \in DOMAIN new
    /\ \A k \in DOMAIN old : k.kind = "GeneratedSecret" => Holds(old[k].mine, new[k].mine)
    /\ \A k \in DOMAIN new : k.kind = "Deployment" /\ new[k].mine # None =>
          (k \in DOMAIN old /\ new[k].mine = old[k].mine) \/ Mounted(old, k.name, new[k].mine)

LEMMA Unchanged ==
    ASSUME NEW old, ObjGood(old)
    PROVE  Careful(old, old)
BY DEF Careful, Holds, Loose

\* One object written.
LEMMA OneWritten ==
    ASSUME NEW old, ObjGood(old), NEW k, NEW v, IsObject(v), k.kind \in Loose => v.ctrl = None,
           k \in DOMAIN old /\ k.kind = "GeneratedSecret" => Holds(old[k].mine, v.mine),
           k.kind = "Deployment" /\ v.mine # None =>
               (k \in DOMAIN old /\ v.mine = old[k].mine) \/ Mounted(old, k.name, v.mine),
           NEW new, new = With(old, k, v)
    PROVE  Careful(old, new)
<1>1. /\ DOMAIN new = DOMAIN old \cup {k} /\ new[k] = v
      /\ \A x \in DOMAIN old : x # k => new[x] = old[x]
  BY DEF With
<1>2. ObjGood(new)
  BY <1>1 DEF ObjGood
<1>3. \A x \in DOMAIN old : x.kind = "GeneratedSecret" => Holds(old[x].mine, new[x].mine)
  BY <1>1 DEF Holds
<1>4. \A x \in DOMAIN new : x.kind = "Deployment" /\ new[x].mine # None =>
         (x \in DOMAIN old /\ new[x].mine = old[x].mine) \/ Mounted(old, x.name, new[x].mine)
  BY <1>1
<1> QED
  BY <1>1, <1>2, <1>3, <1>4 DEF Careful

\* One object, of another kind, gone.
LEMMA OneGone ==
    ASSUME NEW old, ObjGood(old), NEW k, k.kind \notin Loose, NEW new, new = Without(old, k)
    PROVE  Careful(old, new)
<1>1. DOMAIN new = DOMAIN old \ {k} /\ \A x \in DOMAIN new : new[x] = old[x]
  BY DEF Without
<1> QED
  BY <1>1 DEF Careful, ObjGood, Holds, Loose

\* One field of one object replaced.
LEMMA FieldWritten ==
    ASSUME NEW old, NEW k \in DOMAIN old, IsObject(old[k]), NEW v
    PROVE  [old EXCEPT ![k].mine = v] =
              With(old, k, [ctrl |-> old[k].ctrl, mine |-> v, others |-> old[k].others])
<1> DEFINE x == old[k]
           m == [ctrl |-> x.ctrl, mine |-> v, others |-> x.others]
<1>1. [x EXCEPT !.mine = v] = m
  <2> HIDE DEF x
  <2> QED
    BY DEF IsObject, x
<1>2. [old EXCEPT ![k].mine = v] = [old EXCEPT ![k] = m]
  BY <1>1
<1> HIDE DEF m
<1>3. [old EXCEPT ![k] = m] = With(old, k, m)
  BY DEF With
<1> QED
  BY <1>2, <1>3 DEF m

\* A write under the ownership check, to an object of another kind.
LEMMA WriteIsCareful ==
    ASSUME ObjGood(objs), NEW ref, NEW k, k.kind \notin Loose, NEW want,
           k.kind = "Deployment" => Mounted(objs, k.name, want),
           objs' = Written(ref, k, want)
    PROVE  Careful(objs, objs')
<1>0. k.kind # "GeneratedSecret"
  BY DEF Loose
<1> DEFINE a == Applied(ref, k, want)
<1>1. CASE a = "created"
  <2> DEFINE v == [ctrl |-> ref, mine |-> want, others |-> {}]
  <2>1. objs' = With(objs, k, v) /\ IsObject(v) /\ v.mine = want
    BY <1>1 DEF Written, IsObject
  <2> HIDE DEF v
  <2> QED
    BY <1>0, <2>1, OneWritten
<1>2. CASE a = "updated"
  <2>1. objs' = With(objs, k, Mutated(Read(k), want))
    BY <1>2 DEF Written
  <2>2. Read(k) # None /\ Lookup(objs, k) = Read(k)
    BY <1>2 DEF Applied
  <2>3. k \in DOMAIN objs /\ objs[k] = Read(k)
    BY <2>2 DEF Lookup
  <2>4. IsObject(Read(k))
    BY <2>3 DEF ObjGood
  <2> DEFINE x == Read(k)
             kept == x.others \ want.takes
             v == [x EXCEPT !.mine = want, !.others = kept]
  <2>5. Mutated(Read(k), want) = v /\ IsObject(x)
    BY <2>4 DEF Mutated
  <2> HIDE DEF x, kept
  <2>6. v = [ctrl |-> x.ctrl, mine |-> want, others |-> kept]
    BY <2>5 DEF IsObject
  <2>7. IsObject(v) /\ v.mine = want
    BY <2>6 DEF IsObject
  <2> HIDE DEF v
  <2> QED
    BY <1>0, <2>1, <2>5, <2>7, OneWritten
<1>3. CASE a # "created" /\ a # "updated"
  BY <1>3, Unchanged DEF Written
<1> QED
  BY <1>1, <1>2, <1>3

LEMMA DeleteIsCareful ==
    ASSUME ObjGood(objs), NEW ref, NEW k, k.kind \notin Loose, objs' = Deleted(ref, k)
    PROVE  Careful(objs, objs')
BY OneGone, Unchanged DEF Deleted

\* What a careful step leaves of the invariant.
LEMMA CarefulKeeps ==
    ASSUME MInv, NEW new, Careful(objs, new)
    PROVE  ObjGood(new) /\ SeenGood(seen, new) /\ PassGood(work, new) /\ MountsGood(new)
<1>1. \A k \in DOMAIN objs : k.kind \in Loose => k \in DOMAIN new
  BY DEF Careful
<1>2. /\ \A name, v : Key("PersistentVolumeClaim", name \o v) \in DOMAIN objs =>
           Key("PersistentVolumeClaim", name \o v) \in DOMAIN new
      /\ \A name : Key("GeneratedSecret", name \o << "generated" >>) \in DOMAIN objs =>
           Key("GeneratedSecret", name \o << "generated" >>) \in DOMAIN new
  BY <1>1 DEF Key, Loose
<1>3. \A name, mine : Mounted(objs, name, mine) => Mounted(new, name, mine)
  BY <1>2 DEF Mounted
<1>4. MountsGood(new)
  BY <1>3 DEF MInv, MountsGood, Careful
<1>5. PassGood(work, new)
  BY <1>2 DEF MInv, PassGood, ClaimsThere, ValuesThere
<1>6. SeenGood(seen, new)
  BY <1>1 DEF MInv, SeenGood
<1> QED
  BY <1>4, <1>5, <1>6 DEF Careful

---------------------------------------------------------------------------
(* The steps of the others                                                 *)

LEMMA ExternalIsCareful ==
    ASSUME HandsOff, MInv, External
    PROVE  Careful(objs, objs') /\ SeenGood(seen', objs')
<1>0. ObjGood(objs) /\ SeenGood(seen, objs)
  BY DEF MInv
<1>1. ASSUME Careful(objs, objs'), UNCHANGED seen
      PROVE  SeenGood(seen', objs')
  BY <1>1, CarefulKeeps
<1>2. ASSUME NEW o \in Owners, NEW s, CreateOwner(o, s) \/ EditOwner(o, s) \/ DeleteOwner(o)
      PROVE  Careful(objs, objs') /\ UNCHANGED seen
  BY <1>0, <1>2, Unchanged DEF CreateOwner, EditOwner, DeleteOwner
<1>3. ASSUME NEW k \in DOMAIN objs, Collect(k)
      PROVE  Careful(objs, objs') /\ UNCHANGED seen
  <2>1. objs' = Without(objs, k) /\ UNCHANGED seen /\ k.kind \notin Loose
    BY <1>0, <1>3 DEF Collect, Store, ObjGood
  <2> QED
    BY <1>0, <2>1, OneGone
<1>4. ASSUME NEW k \in Tampered, Tamper(k)
      PROVE  Careful(objs, objs') /\ UNCHANGED seen
  <2>1. k.kind \notin Loose /\ k.kind # "GeneratedSecret" /\ UNCHANGED seen
    BY <1>4 DEF HandsOff, Loose, Tamper, Store
  <2> DEFINE u == [ctrl |-> None, mine |-> None, others |-> {"admin"}]
  <2>2. CASE objs' = With(objs, k, u)
    <3>1. IsObject(u) /\ u.mine = None
      BY DEF IsObject
    <3> HIDE DEF u
    <3> QED
      BY <1>0, <2>1, <2>2, <3>1, OneWritten
  <2>3. CASE k \in DOMAIN objs /\ objs' = [objs EXCEPT ![k].mine = None]
    <3> DEFINE v == [ctrl |-> objs[k].ctrl, mine |-> None, others |-> objs[k].others]
    <3>1. objs' = With(objs, k, v)
      BY <1>0, <2>3, FieldWritten DEF ObjGood
    <3>2. IsObject(v) /\ v.mine = None
      BY DEF IsObject
    <3> HIDE DEF v
    <3> QED
      BY <1>0, <2>1, <3>1, <3>2, OneWritten
  <2>4. CASE objs' = Without(objs, k)
    BY <1>0, <2>1, <2>4, OneGone
  <2> QED
    BY <1>4, <2>1, <2>2, <2>3, <2>4 DEF Tamper, Store
<1>5. ASSUME NEW kind \in Lagging, See(kind)
      PROVE  Careful(objs, objs') /\ SeenGood(seen', objs')
  <2>1. /\ UNCHANGED objs
        /\ \A k \in DOMAIN seen' : k \in DOMAIN seen \/ k \in DOMAIN objs
    BY <1>5 DEF See
  <2> QED
    BY <1>0, <2>1, Unchanged DEF SeenGood
<1> QED
  BY <1>1, <1>2, <1>3, <1>4, <1>5 DEF External

\* A mark beside what was rendered.
LEMMA MarkIsCareful ==
    ASSUME ObjGood(objs), NEW k \in DOMAIN objs, k.kind \notin Loose, NEW marks,
           objs' = [objs EXCEPT ![k].others = marks]
    PROVE  Careful(objs, objs')
<1> DEFINE v == [ctrl |-> objs[k].ctrl, mine |-> objs[k].mine, others |-> marks]
<1>1. objs' = With(objs, k, v)
  <2> DEFINE x == objs[k]
  <2>1. IsObject(x)
    BY DEF ObjGood
  <2>2. [x EXCEPT !.others = marks] = [ctrl |-> x.ctrl, mine |-> x.mine, others |-> marks]
    <3> HIDE DEF x
    <3> QED
      BY <2>1 DEF IsObject
  <2>3. objs' = [objs EXCEPT ![k] = v]
    BY <2>2
  <2> HIDE DEF v
  <2> QED
    BY <2>3 DEF With
<1>2. IsObject(v) /\ v.mine = objs[k].mine
  BY DEF IsObject
<1>3. k.kind # "GeneratedSecret"
  BY DEF Loose
<1> HIDE DEF v
<1> QED
  BY <1>1, <1>2, <1>3, OneWritten

LEMMA OthersAreCareful ==
    ASSUME ObjGood(objs), OtherWriters
    PROVE  Careful(objs, objs') /\ UNCHANGED << seen, work >>
<1>1. PICK k, m : Mark(k, m) /\ k.kind \notin Loose
  BY DEF OtherWriters, DeploymentController, Autoscaler, CertManager, Key, Loose
<1>2. /\ k \in DOMAIN objs /\ objs' = [objs EXCEPT ![k].others = @ \union {m}]
      /\ UNCHANGED << seen, work >>
  BY <1>1 DEF Mark, Store
<1> QED
  BY <1>1, <1>2, MarkIsCareful

LEMMA ServersAreCareful ==
    ASSUME ObjGood(objs), NEW o, ServerStarts(o) \/ Backup(o) \/ PodGone(o)
    PROVE  Careful(objs, objs') /\ UNCHANGED seen
<1>1. CASE ServerStarts(o)
  <2> DEFINE k == Key("StatefulSet", o.name)
  <2>1. /\ k \in DOMAIN objs /\ objs' = [objs EXCEPT ![k].others = @ \union {"ready"}]
        /\ UNCHANGED seen
    BY <1>1 DEF ServerStarts, Store
  <2>2. k.kind \notin Loose
    BY DEF Key, Loose
  <2> HIDE DEF k
  <2> QED
    BY <2>1, <2>2, MarkIsCareful
<1>2. CASE Backup(o) \/ PodGone(o)
  BY <1>2, Unchanged DEF Backup, PodGone
<1> QED
  BY <1>1, <1>2

---------------------------------------------------------------------------
(* The database reconciler's steps                                         *)

LEMMA DatabaseIsCareful ==
    ASSUME ObjGood(objs), DatabasePass
    PROVE  Careful(objs, objs') /\ UNCHANGED seen
<1>1. CASE (\E o \in Databases : ReconcileDatabase(o)) \/ ReadCredentials \/ UpdateDatabaseStatus
  BY <1>1, Unchanged DEF ReconcileDatabase, ReadCredentials, UpdateDatabaseStatus
<1>2. ASSUME NEW kind \in {"Secret", "Service", "StatefulSet", "CronJob"}
      PROVE  KeyOf(kind, job.o).kind \notin Loose /\ KeyOf(kind, job.o).kind # "Deployment"
  BY DEF KeyOf, Key, Loose
<1>3. ASSUME NEW kind \in {"Secret", "Service", "StatefulSet", "CronJob"}, ApplyDatabase(kind)
      PROVE  Careful(objs, objs') /\ UNCHANGED seen
  <2>1. objs' = Written(Self, KeyOf(kind, job.o), Child(kind)) /\ UNCHANGED seen
    BY <1>3 DEF ApplyDatabase, Store
  <2> QED
    BY <1>2, <2>1, WriteIsCareful
<1>4. CASE ApplyClaim
  <2> DEFINE k == BackupClaim(job.o)
             v == [ctrl |-> None, mine |-> "claim", others |-> {}]
  <2>1. /\ objs' = objs \/ (k \notin DOMAIN objs /\ objs' = With(objs, k, v))
        /\ UNCHANGED seen
    BY <1>4 DEF ApplyClaim, Store
  <2>2. IsObject(v) /\ v.ctrl = None /\ k.kind = "PersistentVolumeClaim"
    BY DEF IsObject, BackupClaim, Key
  <2> HIDE DEF k, v
  <2> QED
    BY <2>1, <2>2, OneWritten, Unchanged
<1>5. CASE DeleteDatabaseChild
  <2>1. objs' = Deleted(Self, KeyOf("CronJob", job.o)) /\ UNCHANGED seen
    BY <1>5 DEF DeleteDatabaseChild, Store
  <2> QED
    BY <1>2, <2>1, DeleteIsCareful
<1> QED
  BY <1>1, <1>3, <1>4, <1>5 DEF DatabasePass

---------------------------------------------------------------------------
(* The workload reconciler's steps                                         *)

\* What the cache has of the loose kinds is there.
LEMMA ReadIsThere ==
    ASSUME SeenGood(seen, objs), NEW k, k.kind \in Loose, Read(k) # None
    PROVE  k \in DOMAIN objs
BY DEF SeenGood, Read, Lookup

LEMMA ClaimsAreCareful ==
    ASSUME IInv, MInv, ReconcileClaims
    PROVE  Careful(objs, objs') /\ UNCHANGED seen /\ PassGood(work', objs')
<1> DEFINE mine == {ClaimKey(work.o, v) : v \in work.cr.spec.volumes}
           absent == {k \in mine : Read(k) = None /\ k \notin DOMAIN objs}
           claim == [ctrl |-> None, mine |-> "claim", others |-> {}]
<1>1. /\ objs' = [k \in DOMAIN objs \union absent |-> IF k \in absent THEN claim ELSE objs[k]]
      /\ UNCHANGED seen /\ work # None /\ Steps[work.step] = "claims" /\ GoOn
  BY DEF ReconcileClaims, Store, Doing
<1>2. \A k \in mine : k.kind = "PersistentVolumeClaim"
  BY DEF ClaimKey, Key
<1>3. IsObject(claim) /\ claim.ctrl = None
  BY DEF IsObject
<1>4. /\ DOMAIN objs' = DOMAIN objs \cup absent
      /\ \A k \in DOMAIN objs : objs'[k] = objs[k]
      /\ \A k \in absent : objs'[k] = claim /\ k.kind = "PersistentVolumeClaim"
  BY <1>1, <1>2
<1>5. mine \subseteq DOMAIN objs'
  BY <1>2, <1>4, ReadIsThere DEF MInv, Loose
<1>6. \A v \in work.cr.spec.volumes : Key("PersistentVolumeClaim", work.o.name \o v) \in DOMAIN objs'
  BY <1>5 DEF ClaimKey
<1> HIDE DEF mine, absent, claim
<1>7. Careful(objs, objs')
  BY <1>3, <1>4 DEF MInv, ObjGood, Careful, Holds, Loose
<1>8. /\ work'.o = work.o /\ work'.cr = work.cr /\ work'.step = work.step + 1
  BY <1>1, WorkMoves DEF IInv
<1>9. work.step \in 1 .. Len(Steps) /\ (work.step # 1 => work.step \notin {2, Len(Steps)})
  BY <1>1, StepsAre DEF IInv, WorkGood
<1>10. work.step = 1
  BY <1>1, <1>9, StepsAre DEF OwnedKinds
<1>11. PassGood(work', objs')
  BY <1>6, <1>8, <1>10 DEF PassGood, ClaimsThere
<1> QED
  BY <1>1, <1>7, <1>11

LEMMA MintKeeps ==
    ASSUME NEW names, NEW have
    PROVE  Holds(have, DesiredGenerated(names, have))
BY DEF Holds, DesiredGenerated

LEMMA GeneratedIsCareful ==
    ASSUME IInv, MInv, ReconcileGeneratedSecret
    PROVE  Careful(objs, objs') /\ UNCHANGED seen /\ PassGood(work', objs')
<1> DEFINE k == GeneratedKey(work.o)
           names == work.cr.spec.secrets
           have == Read(k)
           want == DesiredGenerated(names, IF have = None THEN << >> ELSE have.mine)
           fresh == [ctrl |-> None, mine |-> want, others |-> {}]
<1>0. ObjGood(objs) /\ SeenGood(seen, objs) /\ PassGood(work, objs)
  BY DEF MInv
<1>1. work # None /\ Steps[work.step] = "generated" /\ UNCHANGED seen
  BY DEF ReconcileGeneratedSecret, Doing, Store
<1>2. k.kind \in Loose /\ k.kind = "GeneratedSecret" /\ k = Key("GeneratedSecret", work.o.name \o << "generated" >>)
  BY DEF GeneratedKey, Key, Loose
<1>3. \/ GoOn /\ objs' = objs /\ (names = {} \/ have # None)
      \/ GoOn /\ have = None /\ objs' = IF k \in DOMAIN objs THEN objs ELSE With(objs, k, fresh)
      \/ GoOn /\ have # None /\ Lookup(objs, k) = have /\ objs' = [objs EXCEPT ![k].mine = want]
      \/ Stop("RenderFailed") /\ objs' = objs
  BY DEF ReconcileGeneratedSecret, Store
<1>4. have # None => Holds(have.mine, want)
  BY MintKeeps
<1>5. IsObject(fresh) /\ fresh.ctrl = None
  BY DEF IsObject
<1>6. have # None => k \in DOMAIN objs
  BY <1>0, <1>2, ReadIsThere
<1> HIDE DEF k, names, have, want, fresh
<1>7. \/ Careful(objs, objs') /\ (names # {} => k \in DOMAIN objs')
      \/ Stop("RenderFailed") /\ objs' = objs
  <2>1. CASE objs' = objs
    BY <1>0, <1>3, <1>6, <2>1, Unchanged DEF With
  <2>2. CASE GoOn /\ have = None /\ k \notin DOMAIN objs /\ objs' = With(objs, k, fresh)
    <3>1. Careful(objs, objs')
      BY <1>0, <1>2, <1>5, <2>2, OneWritten
    <3> QED
      BY <2>2, <3>1 DEF With
  <2>3. CASE GoOn /\ have # None /\ Lookup(objs, k) = have /\ objs' = [objs EXCEPT ![k].mine = want]
    <3>1. k \in DOMAIN objs /\ objs[k] = have /\ IsObject(objs[k]) /\ objs[k].ctrl = None
      BY <1>0, <1>2, <1>6, <2>3 DEF Lookup, ObjGood
    <3> DEFINE v == [ctrl |-> objs[k].ctrl, mine |-> want, others |-> objs[k].others]
    <3>2. objs' = With(objs, k, v)
      BY <2>3, <3>1, FieldWritten
    <3>3. IsObject(v) /\ v.ctrl = None /\ Holds(objs[k].mine, v.mine)
      BY <1>4, <2>3, <3>1 DEF IsObject
    <3> HIDE DEF v
    <3>4. Careful(objs, objs')
      BY <1>0, <1>2, <3>2, <3>3, OneWritten
    <3> QED
      BY <3>1, <3>2, <3>4 DEF With
  <2> QED
    BY <1>3, <2>1, <2>2, <2>3
<1>8. Careful(objs, objs')
  BY <1>0, <1>7, Unchanged
<1>9. /\ work'.o = work.o /\ work'.cr = work.cr /\ work'.step \in {work.step + 1, Len(Steps)}
      /\ GoOn => work'.step = work.step + 1
      /\ GoOn \/ Stop("RenderFailed")
  BY <1>1, <1>3, WorkMoves DEF IInv
<1>10. work.step \in 1 .. Len(Steps) /\ (work.step # 2 => work.step \notin {1, Len(Steps)})
  BY <1>1, StepsAre DEF IInv, WorkGood
<1>11. work.step = 2 /\ Len(Steps) \in Nat /\ Len(Steps) >= 3
  BY <1>1, <1>10, StepsAre DEF OwnedKinds
<1>12. PassGood(work, objs')
  BY <1>8, CarefulKeeps
<1>13. PassGood(work', objs')
  <2>1. CASE work'.step = Len(Steps)
    BY <1>9, <1>11, <2>1 DEF PassGood
  <2>2. CASE work'.step # Len(Steps)
    <3>1. GoOn /\ work'.step = 3 /\ Careful(objs, objs')
      <4>1. ~ Stop("RenderFailed")
        BY <1>1, <2>2 DEF Stop, IInv, WorkGood, IsWork
      <4> QED
        BY <1>8, <1>9, <1>11, <4>1
    <3>2. ClaimsThere(objs', work.o.name, work.cr.spec)
      <4>1. work.step # 1 /\ work.step # Len(Steps)
        <5> DEFINE n == Len(Steps)
        <5>1. work.step = 2 /\ n \in Nat /\ n >= 3
          BY <1>11
        <5> HIDE DEF n
        <5>2. work.step # 1 /\ work.step # n
          BY <5>1
        <5> QED
          BY <5>2 DEF n
      <4> QED
        BY <1>1, <1>12, <4>1 DEF PassGood
    <3>3. ValuesThere(objs', work.o.name, work.cr.spec)
      <4>1. ~ Stop("RenderFailed")
        BY <1>1, <2>2 DEF Stop, IInv, WorkGood, IsWork
      <4>2. names # {} => k \in DOMAIN objs'
        BY <1>7, <3>1, <4>1
      <4> QED
        BY <1>2, <4>2 DEF ValuesThere, names
    <3> QED
      BY <1>9, <3>2, <3>3 DEF PassGood
  <2> QED
    BY <2>1, <2>2
<1> QED
  BY <1>1, <1>8, <1>13

\* What a pass renders as a Deployment is there to be mounted.
LEMMA DeploymentIsMounted ==
    ASSUME IInv, MInv, work # None, Steps[work.step] = "Deployment"
    PROVE  Mounted(objs, work.o.name, Desired("Deployment", work.cr.spec))
<1>1. work.step \notin {1, 2, Len(Steps)}
  BY StepsAre
<1>2. ClaimsThere(objs, work.o.name, work.cr.spec) /\ ValuesThere(objs, work.o.name, work.cr.spec)
  BY <1>1 DEF MInv, PassGood
<1> DEFINE d == Desired("Deployment", work.cr.spec)
<1>3. /\ d.content.template.volumes = work.cr.spec.volumes
      /\ d.content.template.generated = (work.cr.spec.secrets # {})
  BY DEF Desired, DesiredDeployment, Want, PodTemplate
<1> HIDE DEF d
<1>4. Mounted(objs, work.o.name, d)
  BY <1>2, <1>3 DEF Mounted, ClaimsThere, ValuesThere
<1> QED
  BY <1>4 DEF d

LEMMA ApplyIsCareful ==
    ASSUME IInv, MInv, NEW kind \in Kinds, Apply(kind) \/ DeleteIfPresent(kind)
    PROVE  Careful(objs, objs') /\ UNCHANGED seen /\ PassGood(work', objs')
<1> DEFINE k == Key(kind, work.o.name)
<1>1. /\ work # None /\ Steps[work.step] = kind /\ UNCHANGED seen
      /\ GoOn \/ Stop("RenderFailed") \/ Stop("Conflict")
      /\ \/ objs' = objs
         \/ objs' = Written(Me, k, Desired(kind, work.cr.spec))
         \/ objs' = Deleted(Me, k)
  BY DEF Apply, DeleteIfPresent, Doing, Store
<1>2. /\ k.kind = kind /\ k.name = work.o.name /\ k.kind \notin Loose
      /\ kind \notin {"claims", "generated", "status"}
  BY StepsAre DEF Key, Loose, OwnedKinds
<1>3. ObjGood(objs)
  BY DEF MInv
<1>4. k.kind = "Deployment" => Mounted(objs, k.name, Desired(kind, work.cr.spec))
  BY <1>1, <1>2, DeploymentIsMounted
<1> HIDE DEF k
<1>5. Careful(objs, objs')
  <2>1. CASE objs' = objs
    BY <1>3, <2>1, Unchanged
  <2>2. CASE objs' = Written(Me, k, Desired(kind, work.cr.spec))
    BY <1>2, <1>3, <1>4, <2>2, WriteIsCareful
  <2>3. CASE objs' = Deleted(Me, k)
    BY <1>2, <1>3, <2>3, DeleteIsCareful
  <2> QED
    BY <1>1, <2>1, <2>2, <2>3
<1>6. /\ work'.o = work.o /\ work'.cr = work.cr /\ work'.step \in {work.step + 1, Len(Steps)}
  BY <1>1, <1>2, WorkMoves DEF IInv
<1>7. work.step \notin {1, 2, Len(Steps)}
  BY <1>1, <1>2, StepsAre
<1>8. PassGood(work, objs')
  BY <1>5, CarefulKeeps
<1>9. PassGood(work', objs')
  BY <1>1, <1>6, <1>7, <1>8 DEF PassGood
<1> QED
  BY <1>1, <1>5, <1>9

LEMMA WorkloadIsCareful ==
    ASSUME IInv, MInv, WorkloadPass
    PROVE  Careful(objs, objs') /\ UNCHANGED seen /\ PassGood(work', objs')
<1>1. CASE \E o \in Workloads : Reconcile(o)
  <2>1. PICK o \in Workloads : Reconcile(o)
    BY <1>1
  <2>2. /\ UNCHANGED << objs, seen >>
        /\ work' = IF crs[o] = None THEN None
                   ELSE [o |-> o, cr |-> crs[o], step |-> 1, err |-> "none"]
    BY <2>1 DEF Reconcile
  <2>3. work' # None => work'.step = 1
    BY <2>2
  <2> QED
    BY <2>2, <2>3, Unchanged DEF PassGood, MInv
<1>2. CASE UpdateStatus
  <2>1. work' = None /\ UNCHANGED << objs, seen >>
    BY <1>2 DEF UpdateStatus
  <2> QED
    BY <2>1, Unchanged DEF PassGood, MInv
<1> QED
  BY <1>1, <1>2, ClaimsAreCareful, GeneratedIsCareful, ApplyIsCareful DEF WorkloadPass

---------------------------------------------------------------------------
(* The theorems about the objects                                          *)

LEMMA StepIsCareful ==
    ASSUME HandsOff, IInv, MInv, [Next]_vars
    PROVE  Careful(objs, objs') /\ SeenGood(seen', objs') /\ PassGood(work', objs')
<1>0. ObjGood(objs)
  BY DEF MInv
<1>1. ASSUME Careful(objs, objs'), UNCHANGED seen PROVE SeenGood(seen', objs')
  BY <1>1, CarefulKeeps
<1>2. ASSUME Careful(objs, objs'), UNCHANGED work PROVE PassGood(work', objs')
  BY <1>2, CarefulKeeps
<1>3. CASE UNCHANGED vars
  BY <1>0, <1>1, <1>2, <1>3, Unchanged DEF vars, cluster, workload
<1>4. CASE WorkloadStep
  BY <1>1, <1>4, WorkloadIsCareful DEF WorkloadStep
<1>5. CASE DatabaseStep
  BY <1>0, <1>1, <1>2, <1>5, DatabaseIsCareful DEF DatabaseStep, workload
<1>6. CASE ClusterStep
  BY <1>2, <1>6, ExternalIsCareful DEF ClusterStep, workload
<1>7. CASE OthersStep
  BY <1>0, <1>1, <1>2, <1>7, OthersAreCareful DEF OthersStep
<1>8. CASE ServersStep
  BY <1>0, <1>1, <1>2, <1>8, ServersAreCareful DEF ServersStep, Servers, workload
<1>9. CASE Restart
  <2>1. UNCHANGED objs /\ work' = None /\ DOMAIN seen' \subseteq DOMAIN objs
    BY <1>9 DEF Restart
  <2> QED
    BY <1>0, <2>1, Unchanged DEF PassGood, SeenGood
<1> QED
  BY <1>3, <1>4, <1>5, <1>6, <1>7, <1>8, <1>9 DEF Next

LEMMA ObjectsStart ==
    ASSUME Init
    PROVE  MInv
<1>1. objs = << >> /\ seen = objs /\ work = None
  BY DEF Init, ClusterInit, WorkloadInit
<1>2. DOMAIN objs = {} /\ DOMAIN seen = {}
  BY <1>1
<1> QED
  BY <1>1, <1>2 DEF MInv, ObjGood, SeenGood, PassGood, MountsGood

\* The objects, the cache and the pass under way always agree about the claims and
\* the minted values.
THEOREM ObjectsInvariance == ASSUME HandsOff PROVE Spec => []MInv
<1>1. Init => MInv
  BY ObjectsStart
<1>2. IInv /\ MInv /\ [Next]_vars => MInv'
  <2> SUFFICES ASSUME IInv, MInv, [Next]_vars PROVE MInv'
    OBVIOUS
  <2>1. Careful(objs, objs') /\ SeenGood(seen', objs') /\ PassGood(work', objs')
    BY StepIsCareful
  <2>2. ObjGood(objs') /\ MountsGood(objs')
    BY <2>1, CarefulKeeps
  <2> QED
    BY <2>1, <2>2 DEF MInv
<1> QED
  BY <1>1, <1>2, Invariance, PTL DEF Spec

\* Whatever Deployment stands, the claims and the generated values it names are
\* there, unless somebody removes one by hand: for stale caches, passes cut short,
\* restarts, and Workloads deleted and made again (reconcileOwned's order).
THEOREM MountsAlwaysExist == ASSUME HandsOff PROVE Spec => []MountsExist
<1>1. MInv => MountsExist
  <2> SUFFICES ASSUME MInv, NEW o \in Workloads,
                      Lookup(objs, Key("Deployment", o.name)) # None,
                      Lookup(objs, Key("Deployment", o.name)).mine # None
               PROVE  LET d == Lookup(objs, Key("Deployment", o.name)) IN
                      /\ \A v \in d.mine.content.template.volumes : ClaimKey(o, v) \in DOMAIN objs
                      /\ d.mine.content.template.generated => GeneratedKey(o) \in DOMAIN objs
    BY DEF MountsExist
  <2> DEFINE k == Key("Deployment", o.name)
  <2>1. k \in DOMAIN objs /\ objs[k] = Lookup(objs, k)
    BY DEF Lookup
  <2>2. k.kind = "Deployment" /\ k.name = o.name
    BY DEF Key
  <2> HIDE DEF k
  <2>3. Mounted(objs, o.name, objs[k].mine)
    BY <2>1, <2>2 DEF MInv, MountsGood, k
  <2> QED
    BY <2>1, <2>3 DEF Mounted, ClaimKey, GeneratedKey, k
<1> QED
  BY <1>1, ObjectsInvariance, PTL

\* A value in a generated Secret is never replaced and never lost, unless somebody
\* changes that Secret by hand (desiredGeneratedSecret, and the update that a
\* stale copy loses).
THEOREM MintedValuesStay == ASSUME HandsOff PROVE Spec => GeneratedValuesAreKept
<1>1. IInv /\ MInv /\ [Next]_vars =>
        [\A k \in DOMAIN objs : k.kind = "GeneratedSecret" =>
          /\ k \in DOMAIN objs'
          /\ \A n \in DOMAIN objs[k].mine :
                n \in DOMAIN objs'[k].mine /\ objs'[k].mine[n] = objs[k].mine[n]]_vars
  BY StepIsCareful DEF Careful, Holds, Loose
<1> QED
  BY <1>1, Invariance, ObjectsInvariance, PTL DEF Spec, GeneratedValuesAreKept
============================================================================
