--------------------------- MODULE AppDirectory ---------------------------
(***************************************************************************)
(* The directory of one app in its state repository, which holds several   *)
(* manifests, under everything that writes to it: the catalogue install    *)
(* (server/catalog.go), deploy, rollback, scale and settings               *)
(* (server/deploy.go, lifecycle.go, settings.go), and the databases beside *)
(* the app (server/databases.go), all through the git writer               *)
(* (internal/gitwrite/gitwrite.go).                                        *)
(*                                                                         *)
(* A request is a thread of its own.  The git writer's record is here for  *)
(* what a rollback reads of it; what becomes of it is DeployPipeline's.    *)
(***************************************************************************)
EXTENDS ComposeCatalog

CONSTANTS
    Requests,   \* the requests made in a behaviour, each at most once
    Asks,       \* what they may ask for: functions from Requests to operations
    Registries, \* what the registry answers
    App,        \* the app's name in its placement
    Starts      \* what the directory holds at first, with or without a placement

VARIABLES
    ask, registry,
    placed,     \* the placement exists
    branch,     \* the commits, oldest first: [by, files]
    recs,       \* the records the writer opened: [image, state]
    pc,
    rec,        \* the record each request opened
    base,       \* the length of the branch it cloned
    out,        \* the directory it is about to push
    answer,
    delivered   \* an Argo CD Application watches the directory

vars == << ask, registry, placed, branch, recs, pc, rec, base, out, answer, delivered >>

---------------------------------------------------------------------------
(* Files                                                                   *)

\* manifest.File is the app's own; the others are named after their object.
File == << "Workload", << >> >>
FileFor(kind, name) == << kind, name >>

\* Four core/v1 objects: the namespace, its quota, and the platform's access.
FenceFiles == {<< "Fence", << f >> >> : f \in {"namespace", "quota", "role", "rolebinding"}}
Fence == [f \in FenceFiles |-> [kind |-> "Fence"]]

\* manifest.Owns: by content, the platform's own API group.
Owns(body) == body.kind \in {"Workload", "Database"}

Over(f, g) == [x \in DOMAIN f \union DOMAIN g |-> IF x \in DOMAIN g THEN g[x] ELSE f[x]]

\* carryForward: what is not rendered and is the platform's, byte for byte.
CarryForward(files, current) ==
    Over([f \in {x \in DOMAIN current : Owns(current[x])} |-> current[f]], files)

Current == branch[Len(branch)].files
Started == [kind |-> "Workload", service |-> None, group |-> None, name |-> App,
            image |-> None, port |-> 8080, database |-> None, hosts |-> {}, volumes |-> 0,
            replicas |-> 1, settings |-> None, generated |-> {}, id |-> 0]

\* A file is its object's: kind and name agree with it, the app's file holds the
\* app, and a fence file the fence.
Filed(files) ==
    \A f \in DOMAIN files :
        /\ files[f].kind = f[1]
        /\ f[1] = "Database" => files[f].name = f[2]
        /\ f = File => files[f].name = App /\ {"kind", "name"} \subseteq DOMAIN files[f]
        /\ f \in FenceFiles => files[f] = Fence[f]

\* The services of a template are a map, sorted by name.
IsTemplate(t) ==
    /\ t.name \in STRING
    /\ Len(t.services) \in Nat /\ DOMAIN t.services = 1 .. Len(t.services)
    /\ \A i \in DOMAIN t.services :
          /\ t.services[i].name \in DOMAIN Clean
          /\ \A j \in DOMAIN t.services : t.services[i].name = t.services[j].name => i = j
          /\ AsDatabase(t.services[i]) \in BOOLEAN
          /\ \A k \in DOMAIN t.services[i].env : IsFiniteSet(t.services[i].env[k].sources)

IsAsk(a) ==
    /\ a.op \in {"install", "deploy", "rollback", "scale", "save",
                 "createDatabase", "deleteDatabase"}
    /\ a.op = "install" => IsTemplate(a.template)

ASSUME DirectoryAssumption ==
    /\ None \notin Requests \union {"image", "replicas", "settings"}
    /\ \A a \in Asks : DOMAIN a = Requests /\ \A r \in Requests : IsAsk(a[r])
    /\ \A s \in Starts : Filed(s.files)

\* Identity comes from the placement; of the object's metadata the annotations
\* stay and the labels do not.
Identified(w, id) == [w EXCEPT !.name = App, !.group = None, !.id = id]

---------------------------------------------------------------------------
(* The renders: what each operation makes of the directory it cloned.  No  *)
(* file at all is an error, of the render or of the writer.                *)

NothingRendered == << >>

\* One of the workloads is the app: the placement's name, the fixed file, the
\* rollout id.  The others keep their names.
WorkloadFiles(p) ==
    [i \in DOMAIN p.workloads |->
        IF i = p.primary THEN File ELSE FileFor("Workload", p.workloads[i].name)]
DatabaseFiles(p) == [i \in DOMAIN p.databases |-> FileFor("Database", p.databases[i].name)]

Installed(p, i, id) ==
    IF i = p.primary THEN [p.workloads[i] EXCEPT !.name = App, !.id = id] ELSE p.workloads[i]

\* Two objects of one name are one file, and the later is in it.
LastAt(g, f) == CHOOSE i \in DOMAIN g : g[i] = f /\ \A j \in DOMAIN g : g[j] = f => j <= i

\* renderInstall: not over an app.  The planned Secrets are dropped.
RenderInstall(a, id, current) ==
    LET p == a.plan
        wfiles == WorkloadFiles(p)
        dfiles == DatabaseFiles(p)
    IN  IF File \in DOMAIN current THEN NothingRendered
        ELSE Over(Over(Fence,
               [f \in Elements(wfiles) |-> Installed(p, LastAt(wfiles, f), id)]),
               [f \in Elements(dfiles) |-> p.databases[LastAt(dfiles, f)]])

\* An app nobody deployed is rendered from nothing.
RenderDeploy(a, id, current) ==
    LET w == IF File \in DOMAIN current THEN current[File] ELSE Started
    IN  CarryForward(Over(Fence, [f \in {File} |-> [Identified(w, id) EXCEPT !.image = a.image]]),
                     current)

\* Not over an app that keeps data: it runs one replica.
RenderScale(a, id, current) ==
    IF File \notin DOMAIN current THEN NothingRendered
    ELSE IF current[File].volumes > 0 THEN NothingRendered
    ELSE CarryForward([f \in {File} |-> [Identified(current[File], id)
                                           EXCEPT !.replicas = a.replicas]], current)

RenderSettings(a, id, current) ==
    IF File \notin DOMAIN current THEN NothingRendered
    ELSE CarryForward(Over(Fence, [f \in {File} |-> [Identified(current[File], id)
                                                       EXCEPT !.settings = a.settings]]), current)

\* databaseFrom has refused what the API would.  No two Databases of one name.
RenderCreateDatabase(a, current) ==
    IF \E f \in DOMAIN current : current[f].kind = "Database" /\ current[f].name = a.name
    THEN NothingRendered
    ELSE Over(current, [f \in {FileFor("Database", a.name)} |-> Database(a.name, None, None)])

RenderDeleteDatabase(a, current) ==
    IF FileFor("Database", a.name) \notin DOMAIN current THEN NothingRendered
    ELSE [f \in DOMAIN current \ {FileFor("Database", a.name)} |-> current[f]]

Render(a, id, current) ==
    CASE a.op = "install" -> RenderInstall(a, id, current)
      [] a.op \in {"deploy", "rollback"} -> RenderDeploy(a, id, current)
      [] a.op = "scale" -> RenderScale(a, id, current)
      [] a.op = "save" -> RenderSettings(a, id, current)
      [] a.op = "createDatabase" -> RenderCreateDatabase(a, current)
      [] a.op = "deleteDatabase" -> RenderDeleteDatabase(a, current)

\* Only an install and the removal of a database ask for removals.
MayRemove(a) == a.op \in {"install", "deleteDatabase"}

\* The tree to commit: what was rendered, and what it does not replace or remove.
Written(a, files, current) ==
    Over([f \in {x \in DOMAIN current : ~ (MayRemove(a) /\ Owns(current[x]))} |-> current[f]],
         files)

---------------------------------------------------------------------------
(* The requests                                                            *)

Goes(r, to) == pc' = [pc EXCEPT ![r] = to]
Answers(r, status) ==
    /\ Goes(r, "done")
    /\ answer' = [answer EXCEPT ![r] = status]

\* Deploy opens the record first, with the image when the request names one.
Opens(r, image) ==
    /\ recs' = Append(recs, [image |-> image, state |-> "pending"])
    /\ rec' = [rec EXCEPT ![r] = Len(recs) + 1]
    /\ Goes(r, "clone")

Closes(r, state) == recs' = [recs EXCEPT ![rec[r]].state = state]

\* installFromCatalog up to the placement: the plan, its refusals, and a look for
\* an app that exists, which two installs may both not find.
Install(r) ==
    /\ pc[r] = "start" /\ ask[r].op = "install"
    /\ \/ /\ ~ Converts(ask[r].template)
          /\ Answers(r, "no plan")
          /\ UNCHANGED ask
       \/ /\ Converts(ask[r].template)
          /\ \E p \in {PlanOf(ask[r].template, registry)} :
               \/ /\ WhyRefused(p)
                  /\ Answers(r, "refused")
                  /\ UNCHANGED ask
               \/ /\ ~ WhyRefused(p) /\ placed
                  /\ Answers(r, "exists")
                  /\ UNCHANGED ask
               \/ /\ ~ WhyRefused(p) /\ ~ placed
                  /\ ask' = [ask EXCEPT ![r] = [op |-> "install", template |-> @.template,
                                               plan |-> p]]
                  /\ Goes(r, "put")
                  /\ UNCHANGED answer
    /\ UNCHANGED << registry, placed, branch, recs, rec, base, out, delivered >>

\* The placement is written before anything is committed, and stays when there is
\* no credential for the repository or the record cannot be opened.
Put(r) ==
    /\ pc[r] = "put"
    /\ placed' = TRUE
    /\ \/ Opens(r, None) /\ UNCHANGED answer
       \/ Answers(r, "not committed") /\ UNCHANGED << recs, rec >>
    /\ UNCHANGED << ask, registry, branch, base, out, delivered >>

\* commitChange and the deploy handler: no placement, no repository.
Change(r) ==
    /\ pc[r] = "start" /\ ask[r].op \notin {"install", "rollback"}
    /\ IF placed
       THEN /\ Opens(r, CASE ask[r].op = "deploy" -> ask[r].image
                          [] ask[r].op = "save" /\ File \in DOMAIN Current -> Current[File].image
                          [] OTHER -> None)
            /\ UNCHANGED answer
       ELSE Answers(r, "no repository") /\ UNCHANGED << recs, rec >>
    /\ UNCHANGED << ask, registry, placed, branch, base, out, delivered >>

\* recordBySeq, and what it found did run and names an image.
MayRestore(n) == n \in DOMAIN recs /\ recs[n].state # "failed" /\ recs[n].image # None

\* rollbackRoute: the image of a record, committed forward as a deploy.
Rollback(r) ==
    /\ pc[r] = "start" /\ ask[r].op = "rollback"
    /\ IF placed /\ MayRestore(ask[r].to)
       THEN /\ ask' = [ask EXCEPT ![r] = [op |-> "rollback", to |-> ask[r].to,
                                          image |-> recs[ask[r].to].image]]
            /\ Opens(r, None)
            /\ UNCHANGED answer
       ELSE Answers(r, "nothing to restore") /\ UNCHANGED << ask, recs, rec >>
    /\ UNCHANGED << registry, placed, branch, base, out, delivered >>

\* Clone, render, and compare: a render that fails or changes nothing ends it.
Clone(r) ==
    /\ pc[r] = "clone"
    /\ \E files \in {Render(ask[r], rec[r], Current)} :
       \E tree \in {Written(ask[r], files, Current)} :
          \/ /\ files # NothingRendered /\ tree # Current
             /\ out' = [out EXCEPT ![r] = tree]
             /\ base' = [base EXCEPT ![r] = Len(branch)]
             /\ Goes(r, "push")
             /\ UNCHANGED << recs, answer >>
          \/ /\ Closes(r, "failed")
             /\ Answers(r, IF files = NothingRendered THEN "not rendered"
                           ELSE IF tree = Current THEN "no change" ELSE "not committed")
             /\ UNCHANGED << out, base >>
    /\ UNCHANGED << ask, registry, placed, branch, rec, delivered >>

\* mutant: a forced push
PushForced(r) ==
    /\ pc[r] = "push"
    /\ branch' = Append(branch, [by |-> r, files |-> out[r]])
    /\ Closes(r, "syncing")
    /\ Answers(r, "accepted")
    /\ UNCHANGED << ask, registry, placed, rec, base, out, delivered >>

\* A push without force.
Push(r) ==
    /\ pc[r] = "push"
    /\ \/ /\ Len(branch) = base[r]
          /\ branch' = Append(branch, [by |-> r, files |-> out[r]])
          /\ Closes(r, "syncing")
          /\ IF ask[r].op = "install" THEN Goes(r, "deliver") /\ UNCHANGED answer
             ELSE Answers(r, "accepted")
       \/ /\ Closes(r, "failed")
          /\ Answers(r, "not committed")
          /\ UNCHANGED branch
    /\ UNCHANGED << ask, registry, placed, rec, base, out, delivered >>

\* The install is answered whether or not something will apply it.
Deliver(r) ==
    /\ pc[r] = "deliver"
    /\ delivered' \in {delivered, TRUE}
    /\ Answers(r, "created")
    /\ UNCHANGED << ask, registry, placed, branch, recs, rec, base, out >>

Init ==
    /\ ask \in Asks /\ registry \in Registries
    /\ \E s \in Starts : placed = s.placed /\ branch = << [by |-> None, files |-> s.files] >>
    /\ recs = << >>
    /\ pc = [r \in Requests |-> "start"]
    /\ rec = [r \in Requests |-> 0]
    /\ base = [r \in Requests |-> 0]
    /\ out = [r \in Requests |-> << >>]
    /\ answer = [r \in Requests |-> None]
    /\ delivered = FALSE

Next == \E r \in Requests : \/ Install(r) \/ Put(r) \/ Change(r) \/ Rollback(r)
                            \/ Clone(r) \/ Push(r) \/ Deliver(r)

Spec == Init /\ [][Next]_vars

---------------------------------------------------------------------------
(* Properties                                                              *)

InstalledBy(c) == c.by # None /\ ask[c.by].op = "install"
ObjectsOf(c, kind) == {f \in DOMAIN c.files : c.files[f].kind = kind}

\* Two services of a kind whose names come out as one share a file.
Distinct(t) ==
    \A i, j \in DOMAIN t.services :
        i # j /\ AsDatabase(t.services[i]) = AsDatabase(t.services[j]) =>
            NameOf(t, t.services[i].name) # NameOf(t, t.services[j].name)

\* An address that was rewritten names an object of the same commit.
AddressesResolve(c) ==
    \A f \in ObjectsOf(c, "Workload") : \A h \in c.files[f].hosts :
        \/ Len(h) = 1
        \/ \E g \in ObjectsOf(c, "Workload") \union ObjectsOf(c, "Database") :
              c.files[g].name = h

\* The service the template puts in front is not one that becomes a Database.
FrontDoorRuns(t) == \E i \in Apps(t) : t.services[i].name = PrimaryService(t)

EntryIsWhole(t, c) ==
    Distinct(t) =>
        /\ \A svc \in Elements(t.services) :
              Cardinality({f \in ObjectsOf(c, "Workload") \union ObjectsOf(c, "Database") :
                             c.files[f].service = svc.name}) = 1
        /\ \A f \in ObjectsOf(c, "Workload") :
              c.files[f].database # None =>
                  FileFor("Database", c.files[f].database) \in DOMAIN c.files
        /\ FrontDoorRuns(t) => AddressesResolve(c)

\* An entry arrives whole, in one commit: every service of the template has its
\* own manifest, a workload that names a database has that database beside it,
\* and, where the service in front is a workload, an address that was rewritten
\* names an object of the same commit
\* (renderInstall: "Renaming the others would break the one reference that
\* exists between these objects"; repointSiblings: a convert-time name for the
\* application "would produce a value that resolves to nothing while looking
\* repaired").
InstallIsWhole ==
    \A i \in DOMAIN branch : LET c == branch[i] IN
        InstalledBy(c) => EntryIsWhole(ask[c.by].template, c)

\* The same of the addresses whatever service is in front.  When it is a
\* Database the first workload becomes the app and is renamed by the install,
\* and the others were repointed at the name it had
\* (compose/convert.go:268: "The template's front door is the database itself.
\* Rare, and the remaining services still have to name it").
RepointedAddressesResolve ==
    \A i \in DOMAIN branch :
        InstalledBy(branch[i]) /\ Distinct(ask[branch[i].by].template) =>
            AddressesResolve(branch[i])

\* The variables of a template that have to be given a generated value.
Takers(t, source) ==
    UNION {{<< svc.name, k >> : k \in {x \in DOMAIN svc.env :
                                        /\ source \in SourcesIn(x, svc.env[x])
                                        /\ AsDatabase(svc) \/ ~ svc.env[x].url}} :
           svc \in Elements(t.services)}

\* The operator mints one value per variable of one Workload.  So no committed
\* entry has a generated value that two variables have to share, that the
\* template's database mints for itself, or that is a part of a string; a
\* variable that asks for the public URL is dropped and gets none
\* (plannedSecrets: "they would receive two"; attachSecrets: "a password the
\* server does not have").
SharedValuesAreNeverMintedTwice ==
    \A i \in DOMAIN branch : LET c == branch[i] IN
        InstalledBy(c) =>
            \A f \in ObjectsOf(c, "Workload") : \A g \in c.files[f].generated :
                \E source \in g.sources :
                    /\ g.sources = {source}
                    /\ Cardinality(Takers(ask[c.by].template, source)) = 1

\* A commit changes what its request is about and nothing else of what was
\* committed before it, whatever was pushed while it was under way: an image, a
\* replica count, the settings, one database.  An install may take the place of
\* manifests of this platform in a directory with no app, and of nothing else
\* (carryForward: "A render that forgets a sibling is a deploy that deletes a
\* database"; manifest.Owns keeps a removal from "anything else committed here").
Part(a) == CASE a.op \in {"deploy", "rollback"} -> "image"
             [] a.op = "scale" -> "replicas"
             [] a.op = "save" -> "settings"
             [] OTHER -> None

StandsIn(a, f, old, new) ==
    \/ a.op = "deleteDatabase" /\ f = FileFor("Database", a.name)
    \/ a.op = "install" /\ old[f].kind # "Foreign" /\ File \notin DOMAIN old
    \/ f \in DOMAIN new /\ new[f] = old[f]
    \/ /\ f = File /\ f \in DOMAIN new /\ Part(a) # None
       /\ \A x \in DOMAIN old[f] \ {"id", "group", Part(a)} : new[f][x] = old[f][x]

ChangesItsPartOnly ==
    [][branch' # branch =>
         LET c == branch'[Len(branch')]
         IN  \A f \in DOMAIN Current : StandsIn(ask[c.by], f, Current, c.files)]_vars

\* What an entry installed stays joined: an object that came from a compose
\* service carries the label the operator's east-west rule selects on
\* (server/catalog.go: "an entry whose objects lose it gets a NetworkPolicy that
\* admits ingress-nginx and nothing else - and its own second workload cannot
\* reach it").
EntryStaysJoined ==
    \A f \in ObjectsOf(branch[Len(branch)], "Workload") :
        Current[f].service # None => Current[f].group # None

\* An install that registered the app and did not commit can be asked again
\* (server/catalog.go: "asking again is what fixes it"): in a directory nobody
\* registered before, an install is refused as existing only when the app has a
\* manifest or another install may still commit one.
AskingAgainIsNotRefused ==
    \A r \in Requests :
        pc[r] = "start" /\ ask[r].op = "install" /\ placed =>
            \/ File \in DOMAIN Current
            \/ \E q \in Requests : ask[q].op = "install" /\ pc[q] \in {"clone", "push"}
============================================================================
