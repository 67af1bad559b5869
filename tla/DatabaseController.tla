------------------------ MODULE DatabaseController ------------------------
(***************************************************************************)
(* The database reconciler (internal/controller/database_controller.go):   *)
(* the credentials first, read and then written, then the Service, the     *)
(* StatefulSet and the backup schedule, which is removed when the spec     *)
(* stops asking for one.  The data volume and the backup volume outlive    *)
(* the Database; everything else is its own and goes with it.              *)
(***************************************************************************)
EXTENDS ClusterObjects

CONSTANTS
    MaxBackups      \* how often a backup runs

VARIABLES
    job,            \* the pass under way: None or [o, cr, step, err, secret]
    disk,           \* database -> the password its data directory was made with
    pods,           \* database -> the runs its backup pods still report
    ran             \* database -> its backup runs in order, whether each restored

database == << job, disk, pods, ran >>

Databases == {o \in Owners : o.kind = "Database"}

\* The engine, its image, whether a backup is scheduled, and whether a run
\* restores what it took.
DatabaseSpec ==
    [engine : {"postgres", "redis"}, image : Nat, backup : BOOLEAN, rehearse : BOOLEAN]

ASSUME DatabaseAssumption == \A o \in Databases : SpecsOf(o) \subseteq DatabaseSpec

\* mutant: the pass forgets the backup schedule
JobStepsNoBackup == << "read", "Secret", "Service", "StatefulSet", "claim", "status" >>

JobSteps == << "read", "Secret", "Service", "StatefulSet", "claim", "CronJob", "status" >>
JobAt(step) == job # None /\ JobSteps[job.step] = step
Self == Ref(job.o, job.cr.inc)

BackupName(o) == o.name \o << "backup" >>
BackupClaim(o) == Key("PersistentVolumeClaim", BackupName(o))
KeyOf(kind, o) == Key(kind, IF kind = "CronJob" THEN BackupName(o) ELSE o.name)

DesiredDatabaseService == [content |-> "headless", takes |-> {}]
DesiredDatabaseStatefulSet(spec) ==
    [content |-> [engine |-> spec.engine, image |-> spec.image], takes |-> {}]

\* pg_dump has nothing to say to Redis.
BacksUp(spec) == spec.backup /\ spec.engine # "redis"

\* The whole spec of the schedule is assigned.
DesiredBackupCronJob(spec) ==
    IF BacksUp(spec) THEN [content |-> spec.rehearse, takes |-> {"admin"}] ELSE None
DesiredDatabaseSecret(password) == [content |-> password, takes |-> {}]

Child(kind) ==
    CASE kind = "Secret" -> DesiredDatabaseSecret(job.secret)
      [] kind = "Service" -> DesiredDatabaseService
      [] kind = "StatefulSet" -> DesiredDatabaseStatefulSet(job.cr.spec)
      [] kind = "CronJob" -> DesiredBackupCronJob(job.cr.spec)

\* A random password is nobody's yet: not the Secret's, not a data directory's.
Minted(o) ==
    LET live == Lookup(objs, Key("Secret", o.name))
        used == {disk[d] : d \in Databases} \union
                (IF live = None \/ live.mine = None THEN {} ELSE {live.mine.content})
    IN  CHOOSE n \in 1 .. 1 + Cardinality(used) : n \notin used

Advance == job' = [job EXCEPT !.step = @ + 1]
Abandon(err) == job' = [job EXCEPT !.step = Len(JobSteps), !.err = err]

ReconcileDatabase(o) ==
    /\ job = None /\ o \in queue
    /\ queue' = queue \ {o}
    /\ job' = IF crs[o] = None THEN None
              ELSE [o |-> o, cr |-> crs[o], step |-> 1, err |-> "none", secret |-> None]
    /\ UNCHANGED << crs, objs, seen, made, spent, disk, pods, ran >>

\* desiredDatabaseSecret: the password that is there, or a new one.
ReadCredentials ==
    /\ JobAt("read")
    /\ LET live == Read(Key("Secret", job.o.name))
       IN  job' = [job EXCEPT !.step = @ + 1,
                     !.secret = IF live = None \/ live.mine = None THEN Minted(job.o)
                                ELSE live.mine.content]
    /\ UNCHANGED << crs, objs, seen, queue, made, spent, disk, pods, ran >>

\* applyDatabase, which reads again before it writes.
ApplyDatabase(kind) ==
    /\ JobAt(kind) /\ Child(kind) # None
    /\ Store(Written(Self, KeyOf(kind, job.o), Child(kind)))
    /\ IF Applied(Self, KeyOf(kind, job.o), Child(kind)) \in {"conflict", "refused"}
       THEN Abandon("RenderFailed") ELSE Advance
    /\ UNCHANGED << crs, made, spent, disk, pods, ran >>

\* The backup volume is made once, by nobody's leave, and never removed.
ApplyClaim ==
    /\ JobAt("claim")
    /\ LET k == BackupClaim(job.o) IN
       IF ~ BacksUp(job.cr.spec) \/ Read(k) # None THEN Advance /\ Store(objs)
       ELSE IF k \in DOMAIN objs THEN Abandon("RenderFailed") /\ Store(objs)
       ELSE /\ Store(With(objs, k, [ctrl |-> None, mine |-> "claim", others |-> {}]))
            /\ Advance
    /\ UNCHANGED << crs, made, spent, disk, pods, ran >>

\* Removed when the spec stops asking for it.
DeleteDatabaseChild ==
    /\ JobAt("CronJob") /\ Child("CronJob") = None
    /\ Store(Deleted(Self, KeyOf("CronJob", job.o)))
    /\ Advance
    /\ UNCHANGED << crs, made, spent, disk, pods, ran >>

\* mutant: a run that only took a backup is reported as a rehearsal
LatestOfAll(o, last) ==
    LET runs == pods[o]
    IN  IF runs = {} THEN last ELSE CHOOSE n \in runs : \A m \in runs : m <= n

\* latestRehearsal: the newest run that restored, or what the status said before.
LatestRehearsal(o, last) ==
    LET runs == {p \in pods[o] : ran[o][p]}
    IN  IF runs = {} THEN last ELSE CHOOSE n \in runs : \A m \in runs : m <= n

DatabaseStatus(o, cr, err) ==
    LET set == Read(Key("StatefulSet", o.name)) IN
    [gen |-> cr.gen,
     last |-> LatestRehearsal(o, IF cr.status = None THEN 0 ELSE cr.status.last),
     ready |-> IF err # "none" THEN err
               ELSE IF set = None THEN "AwaitingStatefulSet"
               ELSE IF "ready" \notin set.others THEN "NotAcceptingConnections"
               ELSE "Serving"]

UpdateDatabaseStatus ==
    /\ JobAt("status")
    /\ LET wrote == crs[job.o] = job.cr
       IN  /\ crs' = IF wrote
                     THEN [crs EXCEPT ![job.o].status = DatabaseStatus(job.o, job.cr, job.err)]
                     ELSE crs
           /\ queue' = IF wrote /\ job.err = "none" /\ crs' = crs THEN queue ELSE queue \union {job.o}
    /\ job' = None
    /\ UNCHANGED << objs, seen, made, spent, disk, pods, ran >>

DatabaseInit ==
    /\ job = None
    /\ disk = [o \in Databases |-> None]
    /\ pods = [o \in Databases |-> {}]
    /\ ran = [o \in Databases |-> << >>]

DatabasePass ==
    \/ \E o \in Databases : ReconcileDatabase(o)
    \/ ReadCredentials
    \/ \E kind \in {"Secret", "Service", "StatefulSet", "CronJob"} : ApplyDatabase(kind)
    \/ ApplyClaim
    \/ DeleteDatabaseChild
    \/ UpdateDatabaseStatus

---------------------------------------------------------------------------
(* What the server and its backup do                                       *)

\* The pod starts with the Secret's password.  PostgreSQL bakes it into an empty
\* data directory and keeps the one it has otherwise; Redis takes what it is given.
ServerStarts(o) ==
    LET set == Key("StatefulSet", o.name)
        secret == Key("Secret", o.name)
    IN  /\ set \in DOMAIN objs /\ "ready" \notin objs[set].others
        /\ secret \in DOMAIN objs /\ objs[secret].mine # None
        /\ disk' = [disk EXCEPT ![o] =
                      IF @ = None /\ objs[set].mine # None /\ objs[set].mine.content.engine = "postgres"
                      THEN objs[secret].mine.content ELSE @]
        /\ Store([objs EXCEPT ![set].others = @ \union {"ready"}])
        /\ UNCHANGED << crs, made, spent, job, pods, ran >>

\* backupScript: dump with the Secret's password, and restore what was dumped when
\* the schedule says so; a run that fails reports nothing.
\* The run changes the CronJob's status, which wakes the owner.
Backup(o) ==
    LET cron == KeyOf("CronJob", o)
        secret == Lookup(objs, Key("Secret", o.name))
    IN
    /\ cron \in DOMAIN objs /\ objs[cron].mine # None
    /\ BackupClaim(o) \in DOMAIN objs /\ Len(ran[o]) < MaxBackups
    /\ disk[o] # None /\ secret # None /\ secret.mine = DesiredDatabaseSecret(disk[o])
    /\ ran' = [ran EXCEPT ![o] = Append(@, objs[cron].mine.content)]
    /\ pods' = [pods EXCEPT ![o] = @ \union {Len(ran[o]) + 1}]
    /\ queue' = queue \union OwnersOf(objs[cron])
    /\ UNCHANGED << crs, objs, seen, made, spent, job, disk >>

\* The history limit, a drained node: a pod goes, and the run it reported.
PodGone(o) ==
    /\ \E p \in pods[o] : pods' = [pods EXCEPT ![o] = @ \ {p}]
    /\ UNCHANGED << crs, objs, seen, queue, made, spent, job, disk, ran >>

Servers == \E o \in Databases : ServerStarts(o) \/ Backup(o) \/ PodGone(o)
=============================================================================
