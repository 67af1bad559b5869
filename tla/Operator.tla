----------------------------- MODULE Operator -----------------------------
(***************************************************************************)
(* The operator: the workload and the database reconcilers side by side    *)
(* over one namespace (cmd/operator/main.go), the other writers of the     *)
(* same objects, and restarts.                                             *)
(***************************************************************************)
EXTENDS WorkloadController, DatabaseController

vars == << cluster, workload, database >>

Init == ClusterInit /\ WorkloadInit /\ DatabaseInit

\* The passes under way are lost; the caches are listed anew and every resource
\* that exists is queued.
Restart ==
    /\ Disrupt
    /\ work' = None /\ job' = None
    /\ seen' = [k \in {x \in DOMAIN objs : x.kind \in Lagging} |-> objs[k]]
    /\ queue' = {o \in Owners : crs[o] # None}
    /\ UNCHANGED << crs, objs, made, certManager, disk, pods, ran >>

WorkloadStep == UNCHANGED database /\ WorkloadPass
DatabaseStep == UNCHANGED workload /\ DatabasePass
ClusterStep == UNCHANGED << workload, database >> /\ External
OthersStep == OtherWriters /\ UNCHANGED database
ServersStep == Servers /\ UNCHANGED workload

Next ==
    \/ WorkloadStep
    \/ DatabaseStep
    \/ ClusterStep
    \/ OthersStep
    \/ ServersStep
    \/ Restart

NoGarbage == \A k \in DOMAIN objs : objs[k].ctrl = None \/ Alive(objs[k].ctrl)

\* A worker with a pass under way or something queued for it goes on, the collector
\* does its work, the watches deliver; nobody has to edit, tamper or restart, and
\* no other writer has to write.  The first three are weak fairness of a step with
\* what disables it written out.
Fairness ==
    /\ []<>(work = None /\ queue \intersect Workloads = {}) \/ []<><<WorkloadStep>>_vars
    /\ []<>(job = None /\ queue \intersect Databases = {}) \/ []<><<DatabaseStep>>_vars
    /\ []<>NoGarbage \/ []<><<UNCHANGED << workload, database >> /\ \E k \in DOMAIN objs : Collect(k)>>_vars
    /\ \A kind \in Lagging : WF_vars(UNCHANGED << workload, database >> /\ See(kind))

Spec == Init /\ [][Next]_vars /\ Fairness

---------------------------------------------------------------------------
(* Properties                                                              *)

\* The objects that are there before and after a step, and differ.
Rewritten == {k \in DOMAIN objs \intersect DOMAIN objs' : objs'[k] # objs[k]}

\* "an object that already exists and is not controlled by this Workload is left
\* exactly as it was found. Not deleted, not adopted": whoever made it, an
\* administrator or the other reconciler, and whatever the cache says, no pass
\* rewrites an object that is not its own.
ForeignIsNeverRewritten ==
    [][objs' # objs =>
         /\ (work # None /\ WorkloadPass) =>
               \A k \in Rewritten : k.kind \in Kinds => objs[k].ctrl = Ref(work.o, work.cr.inc)
         /\ (job # None /\ DatabasePass) =>
               \A k \in Rewritten : objs[k].ctrl = Ref(job.o, job.cr.inc)]_vars

\* "mints what the workload asked for, once": a value in the generated Secret is
\* never replaced, not by a pass that read a stale cache, not after a restart,
\* and not when the Workload is deleted and made again.
GeneratedValuesAreKept ==
    [][\A k \in DOMAIN objs : k.kind = "GeneratedSecret" =>
          /\ k \in DOMAIN objs'
          /\ \A n \in DOMAIN objs[k].mine :
                n \in DOMAIN objs'[k].mine /\ objs'[k].mine[n] = objs[k].mine[n]]_vars

\* "a pod referring to a claim that does not exist stays Pending without saying
\* why": whatever Deployment stands, the claims and the generated values it names
\* are there.
MountsExist ==
    \A o \in Workloads :
        LET d == Lookup(objs, Key("Deployment", o.name)) IN
        (d # None /\ d.mine # None) =>
            /\ \A v \in d.mine.content.template.volumes : ClaimKey(o, v) \in DOMAIN objs
            /\ d.mine.content.template.generated => GeneratedKey(o) \in DOMAIN objs

\* "A run that only took a backup is not a rehearsal, and reporting it as one
\* would put "restored" on a page for a tenant who turned the rehearsal off": what
\* the status calls the last restore is a run that restored, whatever the spec
\* said when the run ended, when its pod went and when the status was written.
LastRestoreDidRestore ==
    \A o \in Databases :
        (crs[o] # None /\ crs[o].status # None /\ crs[o].status.last # 0)
            => ran[o][crs[o].status.last]

\* "PostgreSQL bakes the password into the data directory when it first
\* initialises, so a value that changes afterwards locks the application out of
\* its own database": the password a Database hands out opens the data on its disk,
\* whatever was deleted and made again.
PasswordOpensData ==
    \A o \in Databases :
        LET s == Lookup(objs, Key("Secret", o.name)) IN
        (/\ crs[o] # None /\ s # None /\ s.mine # None /\ disk[o] # None
         /\ s.ctrl = Ref(o, crs[o].inc)) => s.mine.content = disk[o]

\* What this resource renders: the object of every kind, and what it should be.
\* A certificate is rendered where there is a cert-manager; a Database's Secret
\* holds whatever password it holds.
Renders(o) ==
    IF o.kind = "Workload"
    THEN {[key |-> Key(kind, o.name), want |-> Desired(kind, crs[o].spec)] :
             kind \in Kinds \ (IF certManager THEN {} ELSE {"Certificate"})}
    ELSE {[key |-> Key("Service", o.name), want |-> DesiredDatabaseService],
          [key |-> Key("StatefulSet", o.name), want |-> DesiredDatabaseStatefulSet(crs[o].spec)],
          [key |-> KeyOf("CronJob", o), want |-> DesiredBackupCronJob(crs[o].spec)]}

Clear(o) ==
    \A r \in Renders(o) : LET x == Lookup(objs, r.key) IN x = None \/ x.ctrl = Ref(o, crs[o].inc)

IsRendered(x, want) ==
    IF want = None THEN x = None
    ELSE x # None /\ x.mine = want /\ x.others \intersect want.takes = {}

\* However the specs are edited, the resources deleted and made again, the
\* objects spoiled and the operator restarted: once that ends, what a resource
\* asks for and nothing else is rendered, unless somebody holds one of the names.
Converges ==
    <>[](\A o \in Owners : (crs[o] # None /\ Clear(o)) =>
            \A r \in Renders(o) : IsRendered(Lookup(objs, r.key), r.want))

\* "the two rewrite one object without pause": the operator and the other writers
\* of the same objects come to rest.
Settles == <>[][UNCHANGED << crs, objs >>]_vars
=============================================================================
