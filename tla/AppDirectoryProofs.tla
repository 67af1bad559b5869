------------------------- MODULE AppDirectoryProofs -------------------------
(***************************************************************************)
(* Proofs about AppDirectory, for every set of requests, templates,        *)
(* registries and directories to start from: a commit changes the part its *)
(* request is about and nothing else, an entry arrives whole, and no value *)
(* that has to be shared is minted twice.                                  *)
(***************************************************************************)
EXTENDS AppDirectory, TLAPS, FiniteSetTheorems, WellFoundedInduction, NaturalsInduction

---------------------------------------------------------------------------
(* Places in a template                                                    *)

\* A bounded, nonempty set of numbers has a greatest element, so that a file two
\* objects share has a last one.
LEMMA BoundedHasMax ==
    ASSUME NEW S \in SUBSET Nat, S # {},
           NEW b \in Nat, \A s \in S : s <= b
    PROVE  \E m \in S : \A s \in S : s <= m
<1> DEFINE B == {n \in Nat : \A s \in S : s <= n}
           R == OpToRel(<, Nat)
<1>1. B \subseteq Nat /\ B # {}
  OBVIOUS
<1>2. PICK m \in B : \A y \in B : <<y, m>> \notin R
  <2> HIDE DEF B
  <2> QED
    BY <1>1, NatLessThanWellFounded, WFMin
<1>3. m \in Nat /\ \A s \in S : s <= m
  OBVIOUS
<1>4. ASSUME m \notin S PROVE FALSE
  <2>1. PICK x \in S : TRUE
    OBVIOUS
  <2>2. m - 1 \in Nat /\ m - 1 < m
    BY <1>3, <1>4, <2>1
  <2>3. \A s \in S : s <= m - 1
    BY <1>3, <1>4, <2>2
  <2>4. m - 1 \in B
    BY <2>2, <2>3
  <2>5. <<m - 1, m>> \in R
    BY <1>3, <2>2 DEF OpToRel
  <2> QED
    BY <1>2, <2>4, <2>5
<1> QED
  BY <1>3, <1>4

\* What is in a file that a plan names is one of the plan's objects.
LEMMA LastIsThere ==
    ASSUME NEW g, NEW n \in Nat, DOMAIN g \subseteq 1 .. n, NEW f \in Elements(g)
    PROVE  /\ LastAt(g, f) \in DOMAIN g
           /\ g[LastAt(g, f)] = f
<1> DEFINE S == {i \in DOMAIN g : g[i] = f}
<1>1. S \in SUBSET Nat /\ S # {} /\ \A s \in S : s <= n
  BY DEF Elements
<1>2. PICK m \in S : \A s \in S : s <= m
  <2> HIDE DEF S
  <2> QED
    BY <1>1, BoundedHasMax
<1>3. \E i \in DOMAIN g : g[i] = f /\ \A j \in DOMAIN g : g[j] = f => j <= i
  BY <1>2
<1> QED
  BY <1>3 DEF LastAt

\* The one element of a set of places is the first.
LEMMA FirstOfOne ==
    ASSUME NEW i \in Nat
    PROVE  First({i}) = i
BY DEF First

\* A name of an object has at least the part that is the template's.
LEMMA CutHasParts ==
    ASSUME NEW S, NEW parts \in Seq(S), Len(parts) >= 1
    PROVE  ObjectName(parts) # << >>
<1>1. AtMost(MaxName, Len(parts)) \in 1 .. Len(parts)
  BY ComposeAssumption DEF AtMost
<1>2. Len(ObjectName(parts)) >= 1
  BY <1>1 DEF ObjectName
<1>3. Len(<< >>) = 0
  OBVIOUS
<1> QED
  BY <1>2, <1>3

LEMMA JoinHasParts ==
    ASSUME NEW S, NEW n \in S, NEW s \in Seq(S)
    PROVE  ObjectName(<< n >>) # << >> /\ ObjectName(<< n >> \o s) # << >>
<1>1. << n >> \in Seq(S) /\ Len(<< n >>) >= 1
  OBVIOUS
<1>2. (<< n >> \o s) \in Seq(S) /\ Len(<< n >> \o s) >= 1
  OBVIOUS
<1> QED
  BY <1>1, <1>2, CutHasParts

LEMMA NamesHaveParts ==
    ASSUME NEW t, IsTemplate(t), NEW i \in DOMAIN t.services
    PROVE  /\ NameOf(t, t.services[i].name) # << >>
           /\ ObjectName(<< t.name >>) # << >>
<1>1. t.name \in STRING /\ Clean[t.services[i].name] \in Seq(STRING)
  BY ComposeAssumption DEF IsTemplate
<1> QED
  BY <1>1, JoinHasParts DEF NameOf
---------------------------------------------------------------------------
(* What a plan holds                                                       *)

\* The fields of a Workload that the conversion, the plan and the install write.
IsWorkload(w) ==
    {"kind", "service", "name", "image", "port", "database", "hosts", "id", "generated"}
        \subseteq DOMAIN w

WorkloadName(t, i) ==
    IF Len(t.services) = 1 THEN ObjectName(<< t.name >>) ELSE NameOf(t, t.services[i].name)

\* The variables of a service that ask for a generated value, as asked.
AskedBy(svc) ==
    {[key |-> k, sources |-> SourcesIn(k, svc.env[k]), around |-> svc.env[k].around] :
        k \in {x \in DOMAIN svc.env : SourcesIn(x, svc.env[x]) # {} /\ ~ svc.env[x].url}}

\* What the conversion and the plan make of the i-th service.
IsWorkloadOf(w, t, i) ==
    /\ IsWorkload(w)
    /\ w.kind = "Workload" /\ w.service = t.services[i].name
    /\ w.name = WorkloadName(t, i)
    /\ \A h \in w.hosts : \E host : h = RewriteSiblings(t, t.services[i].name, host)

LEMMA ConvertedWorkload ==
    ASSUME NEW t, NEW i
    PROVE  /\ IsWorkloadOf(AsWorkload(t, t.services[i]), t, i)
           /\ AsWorkload(t, t.services[i]).generated = AskedBy(t.services[i])
<1> DEFINE w == AsWorkload(t, t.services[i])
<1>1. IsWorkload(w)
  BY DEF AsWorkload, IsWorkload
<1>2. w.kind = "Workload" /\ w.service = t.services[i].name /\ w.name = WorkloadName(t, i)
  BY DEF AsWorkload, WorkloadName
<1>3. w.generated = AskedBy(t.services[i])
  BY DEF AsWorkload, AskedBy
<1>4. \A h \in w.hosts : \E host : h = RewriteSiblings(t, t.services[i].name, host)
  BY DEF AsWorkload
<1> QED
  BY <1>1, <1>2, <1>3, <1>4 DEF IsWorkloadOf

\* Every service that runs is a workload of the plan, and every other a database.
LEMMA PlanShape ==
    ASSUME NEW t, NEW reg
    PROVE  LET p == PlanOf(t, reg)
           IN  /\ p.primary = Front(t)
               /\ DOMAIN p.workloads = Apps(t) /\ DOMAIN p.databases = Dbs(t)
               /\ \A i \in Apps(t) :
                     /\ IsWorkloadOf(p.workloads[i], t, i)
                     /\ p.workloads[i].database = LinkedDatabase(t, i)
                     /\ p.workloads[i].generated = {g \in AskedBy(t.services[i]) :
                                                      ~ OwnedByDatabase(g, Convert(t))}
               /\ \A i \in Dbs(t) : p.databases[i] =
                     Database(NameOf(t, t.services[i].name), t.name, t.services[i].name)
               /\ ~ p.blocked => \A i \in Apps(t) : \A g \in AskedBy(t.services[i]) :
                                    ~ OwnedByDatabase(g, Convert(t))
<1> DEFINE p == PlanOf(t, reg)
           res == Convert(t)
           c(i) == [AsWorkload(t, t.services[i]) EXCEPT !.database = LinkedDatabase(t, i)]
           planned(w) == [w EXCEPT !.image = Pinned(@, reg), !.port = Listens(w, reg),
                                   !.generated = {g \in @ : ~ OwnedByDatabase(g, res)}]
<1>1. /\ res.workloads = [i \in Apps(t) |-> c(i)]
      /\ res.databases = [i \in Dbs(t) |-> Database(NameOf(t, t.services[i].name), t.name,
                                                    t.services[i].name)]
      /\ res.primary = Front(t)
  BY DEF Convert
<1>2. /\ p.workloads = [i \in DOMAIN res.workloads |-> planned(res.workloads[i])]
      /\ p.databases = res.databases /\ p.primary = res.primary
      /\ ~ p.blocked => \A w \in Elements(res.workloads) : \A g \in w.generated :
                           ~ OwnedByDatabase(g, res)
  BY DEF PlanOf
<1>3. \A i \in Apps(t) : c(i).generated = AskedBy(t.services[i])
  BY ConvertedWorkload DEF IsWorkloadOf, IsWorkload
<1>4. ASSUME NEW i \in Apps(t)
      PROVE  /\ IsWorkloadOf(p.workloads[i], t, i)
             /\ p.workloads[i].database = LinkedDatabase(t, i)
             /\ p.workloads[i].generated = {g \in AskedBy(t.services[i]) :
                                              ~ OwnedByDatabase(g, res)}
  <2>1. p.workloads[i] =
          [c(i) EXCEPT !.image = Pinned(@, reg), !.port = Listens(c(i), reg),
                       !.generated = {g \in @ : ~ OwnedByDatabase(g, res)}]
    BY <1>1, <1>2
  <2>2. p.workloads[i] =
          [c(i) EXCEPT !.image = Pinned(c(i).image, reg), !.port = Listens(c(i), reg),
                       !.generated = {g \in AskedBy(t.services[i]) : ~ OwnedByDatabase(g, res)}]
    <3> HIDE DEF p, res, c
    <3> QED
      BY <2>1, <1>3
  <2>3. IsWorkloadOf(AsWorkload(t, t.services[i]), t, i)
    BY ConvertedWorkload
  <2> DEFINE w == AsWorkload(t, t.services[i])
             db == LinkedDatabase(t, i)
             im == Pinned(c(i).image, reg)
             po == Listens(c(i), reg)
             ge == {g \in AskedBy(t.services[i]) : ~ OwnedByDatabase(g, res)}
             u == [w EXCEPT !.database = db]
             v == [u EXCEPT !.image = im, !.port = po, !.generated = ge]
  <2>4. p.workloads[i] = v
    BY <2>2
  <2> HIDE DEF p, w, db, im, po, ge
  <2>5. IsWorkload(w)
    BY <2>3 DEF IsWorkloadOf, w
  <2>6. DOMAIN u = DOMAIN w /\ u.database = db /\ \A x \in DOMAIN w \ {"database"} : u[x] = w[x]
    BY <2>5 DEF IsWorkload
  <2> HIDE DEF u
  <2>7. /\ DOMAIN v = DOMAIN u /\ v.generated = ge
        /\ \A x \in DOMAIN u \ {"image", "port", "generated"} : v[x] = u[x]
    BY <2>5, <2>6 DEF IsWorkload
  <2> HIDE DEF v
  <2>8. /\ IsWorkload(v) /\ v.database = db
        /\ v.kind = w.kind /\ v.service = w.service /\ v.name = w.name /\ v.hosts = w.hosts
    BY <2>5, <2>6, <2>7 DEF IsWorkload
  <2>9. IsWorkloadOf(v, t, i)
    BY <2>3, <2>8 DEF IsWorkloadOf, w
  <2> QED
    BY <2>4, <2>7, <2>8, <2>9 DEF db, ge
<1>5. ASSUME ~ p.blocked, NEW i \in Apps(t), NEW g \in AskedBy(t.services[i])
      PROVE  ~ OwnedByDatabase(g, res)
  <2>1. res.workloads[i] = c(i) /\ res.workloads[i] \in Elements(res.workloads)
    BY <1>1 DEF Elements
  <2> HIDE DEF p, res, c
  <2> QED
    BY <1>2, <1>3, <1>5, <2>1
<1>6. DOMAIN p.workloads = Apps(t) /\ DOMAIN p.databases = Dbs(t)
  BY <1>1, <1>2
<1>7. ASSUME NEW i \in Dbs(t)
      PROVE  p.databases[i] =
               Database(NameOf(t, t.services[i].name), t.name, t.services[i].name)
  <2>1. p.databases = [j \in Dbs(t) |-> Database(NameOf(t, t.services[j].name), t.name,
                                                 t.services[j].name)]
    BY <1>1, <1>2
  <2> HIDE DEF p
  <2> QED
    BY <2>1
<1> HIDE DEF p, res
<1> QED
  BY <1>1, <1>2, <1>4, <1>5, <1>6, <1>7 DEF p, res

---------------------------------------------------------------------------
(* What an install commits                                                 *)

\* The plan an install goes on with.
IsPlanned(a, reg) ==
    /\ IsTemplate(a.template)
    /\ a.plan = PlanOf(a.template, reg)
    /\ ~ WhyRefused(a.plan)

\* The front workload is the app; the rest of a workload is the plan's.
IsInstalled(w, t, p, i) ==
    /\ {"kind", "name"} \subseteq DOMAIN w
    /\ w.kind = "Workload" /\ w.service = t.services[i].name
    /\ w.name = IF i = p.primary THEN App ELSE WorkloadName(t, i)
    /\ w.database = p.workloads[i].database
    /\ w.hosts = p.workloads[i].hosts
    /\ w.generated = p.workloads[i].generated

LEMMA InstalledIs ==
    ASSUME NEW t, NEW i, NEW p, IsWorkloadOf(p.workloads[i], t, i), NEW id
    PROVE  IsInstalled(Installed(p, i, id), t, p, i)
<1> DEFINE q == p.workloads[i]
           w == [q EXCEPT !.name = App, !.id = id]
<1> HIDE DEF q
<1>1. /\ IsWorkload(q) /\ q.kind = "Workload" /\ q.service = t.services[i].name
      /\ q.name = WorkloadName(t, i)
  BY DEF IsWorkloadOf, q
<1>2. /\ DOMAIN w = DOMAIN q /\ {"kind", "name"} \subseteq DOMAIN q
      /\ w.name = App /\ \A x \in DOMAIN q \ {"name", "id"} : w[x] = q[x]
  BY <1>1 DEF IsWorkload
<1> HIDE DEF w
<1>3. /\ w.kind = q.kind /\ w.service = q.service /\ w.database = q.database
      /\ w.hosts = q.hosts /\ w.generated = q.generated
  BY <1>1, <1>2 DEF IsWorkload
<1>4. Installed(p, i, id) = IF i = p.primary THEN w ELSE q
  BY DEF Installed, w, q
<1> QED
  BY <1>1, <1>2, <1>3, <1>4 DEF q, IsInstalled

\* A file says what is in it.
LEMMA FileSays ==
    /\ \A kind, name : FileFor(kind, name)[1] = kind /\ FileFor(kind, name)[2] = name
    /\ File[1] = "Workload" /\ File = FileFor("Workload", << >>)
BY DEF File, FileFor

\* The three kinds of file an install writes are named apart.
LEMMA FilesApart ==
    ASSUME NEW p
    PROVE  /\ \A f \in Elements(WorkloadFiles(p)) : f[1] = "Workload"
           /\ \A f \in Elements(DatabaseFiles(p)) : f[1] = "Database"
           /\ \A f \in FenceFiles : f[1] = "Fence"
           /\ File[1] = "Workload"
<1>1. ASSUME NEW f \in Elements(WorkloadFiles(p)) PROVE f[1] = "Workload"
  <2>1. PICK i \in DOMAIN WorkloadFiles(p) : f = WorkloadFiles(p)[i]
    BY DEF Elements
  <2>2. f \in {File, FileFor("Workload", p.workloads[i].name)}
    BY <2>1 DEF WorkloadFiles
  <2> QED
    BY <2>2, FileSays
<1>2. ASSUME NEW f \in Elements(DatabaseFiles(p)) PROVE f[1] = "Database"
  <2>1. PICK i \in DOMAIN DatabaseFiles(p) : f = DatabaseFiles(p)[i]
    BY DEF Elements
  <2>2. f = FileFor("Database", p.databases[i].name)
    BY <2>1 DEF DatabaseFiles
  <2> QED
    BY <2>2, FileSays
<1>3. \A f \in FenceFiles : f[1] = "Fence"
  BY DEF FenceFiles
<1> QED
  BY <1>1, <1>2, <1>3, FileSays

\* A Database as it is written.
LEMMA DatabaseIs ==
    \A name, group, service :
        LET d == Database(name, group, service)
        IN  d.kind = "Database" /\ d.name = name /\ d.service = service
BY DEF Database

\* What is there and is not the platform's.
Alien(cur) == {f \in DOMAIN cur : ~ Owns(cur[f])}

\* The tree of an install: the plan's objects, the fence, and what was there and
\* is not the platform's.
IsInstallTree(tree, p, id, cur) ==
    LET wf == WorkloadFiles(p)
        df == DatabaseFiles(p)
    IN  /\ DOMAIN tree = Alien(cur) \union FenceFiles
                            \union Elements(wf) \union Elements(df)
        /\ \A f \in Elements(wf) : tree[f] = Installed(p, LastAt(wf, f), id)
        /\ \A f \in Elements(df) : tree[f] = p.databases[LastAt(df, f)]
        /\ \A f \in FenceFiles : tree[f] = Fence[f]
        /\ \A f \in Alien(cur) \ (FenceFiles \union Elements(wf) \union Elements(df)) :
              tree[f] = cur[f]

LEMMA InstallTree ==
    ASSUME NEW a, a.op = "install", NEW id, NEW cur, File \notin DOMAIN cur,
           NEW tree, tree = Written(a, RenderInstall(a, id, cur), cur)
    PROVE  IsInstallTree(tree, a.plan, id, cur)
<1> DEFINE p == a.plan
           wf == WorkloadFiles(p)
           df == DatabaseFiles(p)
           ws == [f \in Elements(wf) |-> Installed(p, LastAt(wf, f), id)]
           ds == [f \in Elements(df) |-> p.databases[LastAt(df, f)]]
           files == Over(Over(Fence, ws), ds)
<1>1. RenderInstall(a, id, cur) = files
  BY DEF RenderInstall
<1>2. tree = Over([f \in Alien(cur) |-> cur[f]], files)
  BY <1>1 DEF Written, MayRemove, Alien
<1>3. /\ \A f \in Elements(wf) : f[1] = "Workload"
      /\ \A f \in Elements(df) : f[1] = "Database"
      /\ \A f \in FenceFiles : f[1] = "Fence"
  BY FilesApart
<1>4. /\ DOMAIN ws = Elements(wf) /\ DOMAIN ds = Elements(df) /\ DOMAIN Fence = FenceFiles
      /\ \A f \in Elements(wf) : ws[f] = Installed(p, LastAt(wf, f), id)
      /\ \A f \in Elements(df) : ds[f] = p.databases[LastAt(df, f)]
  BY DEF Fence
<1> HIDE DEF ws, ds, wf, df
<1>5. /\ DOMAIN files = FenceFiles \union Elements(wf) \union Elements(df)
      /\ \A f \in DOMAIN files : files[f] = IF f \in Elements(df) THEN ds[f]
                                            ELSE IF f \in Elements(wf) THEN ws[f] ELSE Fence[f]
  BY <1>4 DEF Over
<1> HIDE DEF files
<1>6. /\ DOMAIN tree = Alien(cur) \union DOMAIN files
      /\ \A f \in DOMAIN files : tree[f] = files[f]
      /\ \A f \in Alien(cur) \ DOMAIN files : tree[f] = cur[f]
  BY <1>2 DEF Over
<1>7. DOMAIN tree = Alien(cur) \union FenceFiles \union Elements(wf) \union Elements(df)
  BY <1>5, <1>6
<1>8. \A f \in Elements(wf) : tree[f] = Installed(p, LastAt(wf, f), id)
  BY <1>3, <1>4, <1>5, <1>6
<1>9. \A f \in Elements(df) : tree[f] = p.databases[LastAt(df, f)]
  BY <1>3, <1>4, <1>5, <1>6
<1>10. \A f \in FenceFiles : tree[f] = Fence[f]
  BY <1>3, <1>4, <1>5, <1>6
<1>11. \A f \in Alien(cur) \ (FenceFiles \union Elements(wf) \union Elements(df)) :
          tree[f] = cur[f]
  BY <1>5, <1>6
<1> QED
  BY <1>7, <1>8, <1>9, <1>10, <1>11 DEF wf, df, IsInstallTree

\* The files of a plan, each with the service it is for.
LEMMA PlanFiles ==
    ASSUME NEW a, NEW reg, IsPlanned(a, reg)
    PROVE  LET t == a.template
               p == a.plan
               wf == WorkloadFiles(p)
               df == DatabaseFiles(p)
           IN  /\ \A f \in Elements(wf) : LastAt(wf, f) \in Apps(t) /\ wf[LastAt(wf, f)] = f
               /\ \A f \in Elements(df) : LastAt(df, f) \in Dbs(t) /\ df[LastAt(df, f)] = f
               /\ \A i \in Apps(t) :
                     /\ wf[i] \in Elements(wf)
                     /\ wf[i] = IF i = p.primary THEN File
                                ELSE FileFor("Workload", WorkloadName(t, i))
                     /\ wf[i] = File => i = p.primary
               /\ \A i \in Dbs(t) :
                     /\ df[i] \in Elements(df)
                     /\ df[i] = FileFor("Database", NameOf(t, t.services[i].name))
<1> DEFINE t == a.template
           p == a.plan
           wf == WorkloadFiles(p)
           df == DatabaseFiles(p)
<1>1. IsTemplate(t) /\ p = PlanOf(t, reg)
  BY DEF IsPlanned
<1>2. /\ DOMAIN p.workloads = Apps(t) /\ DOMAIN p.databases = Dbs(t)
      /\ \A i \in Apps(t) : IsWorkloadOf(p.workloads[i], t, i)
      /\ \A i \in Dbs(t) : p.databases[i] =
            Database(NameOf(t, t.services[i].name), t.name, t.services[i].name)
  BY <1>1, PlanShape
<1> HIDE DEF t, p
<1>3. /\ Len(t.services) \in Nat
      /\ Apps(t) \subseteq 1 .. Len(t.services) /\ Dbs(t) \subseteq 1 .. Len(t.services)
  BY <1>1 DEF Apps, Dbs, IsTemplate
<1>4. DOMAIN wf = Apps(t) /\ DOMAIN df = Dbs(t)
  BY <1>2 DEF WorkloadFiles, DatabaseFiles
<1>5. ASSUME NEW i \in Apps(t)
      PROVE  /\ wf[i] \in Elements(wf)
             /\ wf[i] = IF i = p.primary THEN File ELSE FileFor("Workload", WorkloadName(t, i))
             /\ wf[i] = File => i = p.primary
  <2>1. wf[i] \in Elements(wf)
    BY <1>4 DEF Elements
  <2>2. p.workloads[i].name = WorkloadName(t, i)
    BY <1>2 DEF IsWorkloadOf
  <2>3. wf[i] = IF i = p.primary THEN File ELSE FileFor("Workload", WorkloadName(t, i))
    BY <1>2, <2>2 DEF WorkloadFiles
  <2>4. WorkloadName(t, i) # << >>
    BY <1>1, NamesHaveParts DEF WorkloadName, Apps
  <2>5. FileFor("Workload", WorkloadName(t, i)) # File
    BY <2>4, FileSays
  <2> QED
    BY <2>1, <2>3, <2>5
<1>6. ASSUME NEW i \in Dbs(t)
      PROVE  /\ df[i] \in Elements(df)
             /\ df[i] = FileFor("Database", NameOf(t, t.services[i].name))
  <2>1. df[i] \in Elements(df)
    BY <1>4 DEF Elements
  <2>2. p.databases[i].name = NameOf(t, t.services[i].name)
    BY <1>2, DatabaseIs
  <2> QED
    BY <1>2, <2>1, <2>2 DEF DatabaseFiles
<1> HIDE DEF wf, df
<1>7. \A f \in Elements(wf) : LastAt(wf, f) \in Apps(t) /\ wf[LastAt(wf, f)] = f
  BY <1>3, <1>4, LastIsThere
<1>8. \A f \in Elements(df) : LastAt(df, f) \in Dbs(t) /\ df[LastAt(df, f)] = f
  BY <1>3, <1>4, LastIsThere
<1> QED
  BY <1>5, <1>6, <1>7, <1>8 DEF wf, df, t, p

\* What an entry's commit holds, object by object: the app's own commit is a
\* tree with these.
Holds(t, p, tree) ==
    /\ \A f \in DOMAIN tree : tree[f].kind = "Workload" =>
          \E i \in Apps(t) :
             f = WorkloadFiles(p)[i] /\ IsInstalled(tree[f], t, p, i)
    /\ \A f \in DOMAIN tree : tree[f].kind = "Database" =>
          \E i \in Dbs(t) : /\ f = DatabaseFiles(p)[i]
                            /\ tree[f] = p.databases[i]
    /\ \A i \in Apps(t) : LET f == WorkloadFiles(p)[i]
                          IN  f \in DOMAIN tree /\ tree[f].kind = "Workload"
    /\ \A i \in Dbs(t) : LET f == DatabaseFiles(p)[i]
                         IN  f \in DOMAIN tree /\ tree[f].kind = "Database"

LEMMA InstallHolds ==
    ASSUME NEW a, NEW reg, a.op = "install", IsPlanned(a, reg),
           NEW id, NEW cur, File \notin DOMAIN cur, Filed(cur),
           NEW tree, tree = Written(a, RenderInstall(a, id, cur), cur)
    PROVE  Holds(a.template, a.plan, tree) /\ Filed(tree)
<1> DEFINE t == a.template
           p == a.plan
           wf == WorkloadFiles(p)
           df == DatabaseFiles(p)
<1>1. /\ DOMAIN tree = Alien(cur) \union FenceFiles \union Elements(wf) \union Elements(df)
      /\ \A f \in Elements(wf) : tree[f] = Installed(p, LastAt(wf, f), id)
      /\ \A f \in Elements(df) : tree[f] = p.databases[LastAt(df, f)]
      /\ \A f \in FenceFiles : tree[f] = Fence[f]
      /\ \A f \in Alien(cur) \ (FenceFiles \union Elements(wf) \union Elements(df)) : tree[f] = cur[f]
  <2>1. IsInstallTree(tree, a.plan, id, cur)
    BY InstallTree
  <2> QED
    BY <2>1 DEF IsInstallTree
<1>2. /\ \A f \in Elements(wf) : LastAt(wf, f) \in Apps(t) /\ wf[LastAt(wf, f)] = f
      /\ \A f \in Elements(df) : LastAt(df, f) \in Dbs(t) /\ df[LastAt(df, f)] = f
      /\ \A i \in Apps(t) : wf[i] \in Elements(wf) /\ (wf[i] = File => i = p.primary)
      /\ \A i \in Dbs(t) : /\ df[i] \in Elements(df)
                           /\ df[i] = FileFor("Database", NameOf(t, t.services[i].name))
  BY PlanFiles
<1>3. /\ \A i \in Apps(t) : IsWorkloadOf(p.workloads[i], t, i)
      /\ \A i \in Dbs(t) : p.databases[i] =
            Database(NameOf(t, t.services[i].name), t.name, t.services[i].name)
  BY PlanShape DEF IsPlanned
<1>4. /\ \A f \in Elements(wf) : f[1] = "Workload"
      /\ \A f \in Elements(df) : f[1] = "Database"
      /\ \A f \in FenceFiles : f[1] = "Fence"
  BY FilesApart
<1>5. \A f \in FenceFiles : Fence[f].kind = "Fence"
  BY DEF Fence
<1>6. \A f \in Alien(cur) : cur[f].kind = f[1] /\ f[1] \notin {"Workload", "Database"}
                      /\ (f \in FenceFiles => cur[f] = Fence[f])
  BY DEF Filed, Owns, Alien
<1> HIDE DEF t, p, wf, df
<1>7. ASSUME NEW f \in Elements(wf)
      PROVE  \E i \in Apps(t) :
                f = wf[i] /\ tree[f].kind = "Workload" /\ IsInstalled(tree[f], t, p, i)
  <2> DEFINE i == LastAt(wf, f)
  <2>1. i \in Apps(t) /\ wf[i] = f /\ tree[f] = Installed(p, i, id)
    BY <1>1, <1>2
  <2>2. IsWorkloadOf(p.workloads[i], t, i)
    BY <1>3, <2>1
  <2> HIDE DEF i
  <2>3. IsInstalled(tree[f], t, p, i)
    BY <2>1, <2>2, InstalledIs
  <2> QED
    BY <2>1, <2>3 DEF IsInstalled
<1>8. ASSUME NEW f \in Elements(df)
      PROVE  \E i \in Dbs(t) :
                /\ f = df[i] /\ tree[f] = p.databases[i]
                /\ tree[f].kind = "Database" /\ tree[f].name = f[2]
  <2> DEFINE i == LastAt(df, f)
  <2>1. i \in Dbs(t) /\ df[i] = f /\ tree[f] = p.databases[i]
    BY <1>1, <1>2
  <2> HIDE DEF i
  <2>2. p.databases[i].kind = "Database" /\ p.databases[i].name = NameOf(t, t.services[i].name)
    BY <1>3, <2>1, DatabaseIs
  <2> QED
    BY <1>2, <2>1, <2>2, FileSays
<1>9. ASSUME NEW f \in DOMAIN tree, f \notin Elements(wf), f \notin Elements(df)
      PROVE  /\ tree[f].kind = f[1] /\ f[1] \notin {"Workload", "Database"}
             /\ f \in FenceFiles => tree[f] = Fence[f]
  <2>1. CASE f \in FenceFiles
    BY <2>1, <1>1, <1>4, <1>5
  <2>2. CASE f \notin FenceFiles
    BY <2>2, <1>1, <1>6, <1>9
  <2> QED
    BY <2>1, <2>2
<1>10. Holds(t, p, tree)
  <2>1. \A f \in DOMAIN tree : tree[f].kind = "Workload" => f \in Elements(wf)
    BY <1>8, <1>9
  <2>2. \A f \in DOMAIN tree : tree[f].kind = "Database" => f \in Elements(df)
    BY <1>7, <1>9
  <2>3. \A i \in Apps(t) : wf[i] \in DOMAIN tree /\ tree[wf[i]].kind = "Workload"
    BY <1>1, <1>2, <1>7
  <2>4. \A i \in Dbs(t) : df[i] \in DOMAIN tree /\ tree[df[i]].kind = "Database"
    BY <1>1, <1>2, <1>8
  <2> QED
    BY <1>7, <1>8, <2>1, <2>2, <2>3, <2>4 DEF Holds, wf, df
<1>11. ASSUME NEW f \in DOMAIN tree
       PROVE  /\ tree[f].kind = f[1]
              /\ f[1] = "Database" => tree[f].name = f[2]
              /\ f = File => tree[f].name = App /\ {"kind", "name"} \subseteq DOMAIN tree[f]
              /\ f \in FenceFiles => tree[f] = Fence[f]
  <2>1. CASE f \in Elements(wf)
    BY <2>1, <1>2, <1>4, <1>7 DEF IsInstalled
  <2>2. CASE f \in Elements(df)
    BY <2>2, <1>4, <1>8, FileSays
  <2>3. CASE f \notin Elements(wf) /\ f \notin Elements(df)
    BY <2>3, <1>9, FileSays
  <2> QED
    BY <2>1, <2>2, <2>3
<1> QED
  BY <1>10, <1>11 DEF Filed, t, p

---------------------------------------------------------------------------
(* An entry is whole                                                       *)

\* Services whose names come out apart have files of their own.
LEMMA FilesDiffer ==
    ASSUME NEW a, NEW reg, IsPlanned(a, reg), Distinct(a.template)
    PROVE  LET t == a.template
               wf == WorkloadFiles(a.plan)
               df == DatabaseFiles(a.plan)
           IN  /\ \A i, j \in Apps(t) : wf[i] = wf[j] => i = j
               /\ \A i, j \in Dbs(t) : df[i] = df[j] => i = j
<1> DEFINE t == a.template
           p == a.plan
           wf == WorkloadFiles(p)
           df == DatabaseFiles(p)
<1>1. /\ \A i \in Apps(t) :
            /\ wf[i] = IF i = p.primary THEN File ELSE FileFor("Workload", WorkloadName(t, i))
            /\ wf[i] = File => i = p.primary
      /\ \A i \in Dbs(t) : df[i] = FileFor("Database", NameOf(t, t.services[i].name))
  BY PlanFiles
<1>2. /\ IsTemplate(t) /\ Distinct(t)
  BY DEF IsPlanned
<1> HIDE DEF t, p, wf, df
<1>3. /\ \A i, j \in Apps(t) : AsDatabase(t.services[i]) = AsDatabase(t.services[j])
      /\ \A i, j \in Dbs(t) : AsDatabase(t.services[i]) = AsDatabase(t.services[j])
      /\ Apps(t) \subseteq DOMAIN t.services /\ Dbs(t) \subseteq DOMAIN t.services
      /\ DOMAIN t.services = 1 .. Len(t.services)
  BY <1>2 DEF IsTemplate, Apps, Dbs
<1>4. ASSUME NEW i \in Apps(t), NEW j \in Apps(t), wf[i] = wf[j] PROVE i = j
  <2>1. CASE wf[i] = File
    BY <2>1, <1>1, <1>4
  <2>2. CASE wf[i] # File
    <3>1. FileFor("Workload", WorkloadName(t, i)) = FileFor("Workload", WorkloadName(t, j))
      BY <2>2, <1>1, <1>4
    <3>2. WorkloadName(t, i) = WorkloadName(t, j)
      BY <3>1, FileSays
    <3>3. CASE Len(t.services) = 1
      BY <3>3, <1>3
    <3>4. CASE Len(t.services) # 1
      <4>1. NameOf(t, t.services[i].name) = NameOf(t, t.services[j].name)
        BY <3>2, <3>4 DEF WorkloadName
      <4> QED
        BY <4>1, <1>2, <1>3 DEF Distinct
    <3> QED
      BY <3>3, <3>4
  <2> QED
    BY <2>1, <2>2
<1>5. ASSUME NEW i \in Dbs(t), NEW j \in Dbs(t), df[i] = df[j] PROVE i = j
  <2>1. NameOf(t, t.services[i].name) = NameOf(t, t.services[j].name)
    BY <1>1, <1>5, FileSays
  <2> QED
    BY <2>1, <1>2, <1>3 DEF Distinct
<1> QED
  BY <1>4, <1>5 DEF t, p, wf, df

\* Each service has one manifest, of its kind.
LEMMA OneManifestEach ==
    ASSUME NEW a, NEW reg, IsPlanned(a, reg), Distinct(a.template),
           NEW c, Holds(a.template, a.plan, c.files), NEW svc \in Elements(a.template.services)
    PROVE  Cardinality({f \in ObjectsOf(c, "Workload") \union ObjectsOf(c, "Database") :
                          c.files[f].service = svc.name}) = 1
<1> DEFINE t == a.template
           p == a.plan
           wf == WorkloadFiles(p)
           df == DatabaseFiles(p)
           tree == c.files
           S == {f \in ObjectsOf(c, "Workload") \union ObjectsOf(c, "Database") :
                   tree[f].service = svc.name}
<1>1. PICK i \in DOMAIN t.services : svc = t.services[i]
  BY DEF Elements
<1>2. \A j \in DOMAIN t.services : t.services[j].name = svc.name => j = i
  BY <1>1 DEF IsPlanned, IsTemplate
<1>3. /\ \A j, k \in Apps(t) : wf[j] = wf[k] => j = k
      /\ \A j, k \in Dbs(t) : df[j] = df[k] => j = k
  BY FilesDiffer
<1>4. \A j \in Dbs(t) : p.databases[j].service = t.services[j].name
  BY PlanShape, DatabaseIs DEF IsPlanned
<1>5. /\ \A f \in ObjectsOf(c, "Workload") :
            \E j \in Apps(t) : f = wf[j] /\ tree[f].service = t.services[j].name
      /\ \A f \in ObjectsOf(c, "Database") :
            \E j \in Dbs(t) : f = df[j] /\ tree[f].service = t.services[j].name
      /\ \A j \in Apps(t) : wf[j] \in ObjectsOf(c, "Workload")
      /\ \A j \in Dbs(t) : df[j] \in ObjectsOf(c, "Database")
  BY <1>4 DEF Holds, ObjectsOf, IsInstalled
<1>6. Apps(t) \subseteq DOMAIN t.services /\ Dbs(t) \subseteq DOMAIN t.services
      /\ Apps(t) \intersect Dbs(t) = {} /\ i \in Apps(t) \union Dbs(t)
  BY <1>1 DEF Apps, Dbs
<1> HIDE DEF t, p, wf, df, tree
<1>7. \E f : S = {f}
  <2>1. CASE i \in Apps(t)
    <3>1. wf[i] \in S
      BY <2>1, <1>1, <1>3, <1>5
    <3>2. \A f \in S : f = wf[i]
      BY <2>1, <1>2, <1>5, <1>6
    <3> QED
      BY <3>1, <3>2
  <2>2. CASE i \in Dbs(t)
    <3>1. df[i] \in S
      BY <2>2, <1>1, <1>3, <1>5
    <3>2. \A f \in S : f = df[i]
      BY <2>2, <1>2, <1>5, <1>6
    <3> QED
      BY <3>1, <3>2
  <2> QED
    BY <1>6, <2>1, <2>2
<1> HIDE DEF S
<1>8. Cardinality(S) = 1
  BY <1>7, FS_Singleton
<1> QED
  BY <1>8 DEF S, tree

\* The database a workload names is beside it.
LEMMA DatabaseIsBeside ==
    ASSUME NEW a, NEW reg, IsPlanned(a, reg),
           NEW c, Holds(a.template, a.plan, c.files),
           NEW f \in ObjectsOf(c, "Workload"), c.files[f].database # None
    PROVE  FileFor("Database", c.files[f].database) \in DOMAIN c.files
<1> DEFINE t == a.template
           p == a.plan
<1>1. PICK i \in Apps(t) : c.files[f].database = p.workloads[i].database
  BY DEF Holds, ObjectsOf, IsInstalled
<1>2. p.workloads[i].database = LinkedDatabase(t, i)
  BY PlanShape DEF IsPlanned
<1>3. Cardinality(Dbs(t)) = 1 /\ LinkedDatabase(t, i) = NameOf(t, t.services[First(Dbs(t))].name)
  BY <1>1, <1>2 DEF LinkedDatabase
<1>4. /\ Len(t.services) \in Nat /\ Dbs(t) \subseteq 1 .. Len(t.services)
  BY DEF IsPlanned, IsTemplate, Dbs
<1>5. IsFiniteSet(Dbs(t))
  <2>1. IsFiniteSet(1 .. Len(t.services))
    BY <1>4, FS_Interval
  <2> QED
    BY <2>1, <1>4, FS_Subset
<1>6. PICK d : Dbs(t) = {d}
  BY <1>3, <1>5, FS_Singleton
<1>7. d \in Nat /\ d \in Dbs(t)
  BY <1>4, <1>6
<1>8. First(Dbs(t)) = d
  BY <1>6, <1>7, FirstOfOne
<1>9. DatabaseFiles(p)[d] = FileFor("Database", NameOf(t, t.services[d].name))
  BY <1>7, PlanFiles
<1>10. DatabaseFiles(p)[d] \in DOMAIN c.files
  BY <1>7 DEF Holds
<1> QED
  BY <1>1, <1>2, <1>3, <1>8, <1>9, <1>10

\* The service in front is the app, when it runs.
LEMMA FrontIsPrimary ==
    ASSUME NEW t, IsTemplate(t), FrontDoorRuns(t)
    PROVE  Front(t) \in Apps(t) /\ t.services[Front(t)].name = PrimaryService(t)
<1> DEFINE fronts == {i \in Apps(t) : t.services[i].name = PrimaryService(t)}
<1>1. PICK i \in Apps(t) : t.services[i].name = PrimaryService(t)
  BY DEF FrontDoorRuns
<1>2. i \in Nat
  BY DEF Apps, IsTemplate
<1>3. fronts = {i}
  BY <1>1 DEF IsTemplate, Apps
<1>4. First(fronts) = i
  BY <1>2, <1>3, FirstOfOne
<1>5. Front(t) = i
  BY <1>3, <1>4 DEF Front
<1> QED
  BY <1>1, <1>5

\* An address that was rewritten is the name of an object of the commit.
LEMMA RepointedResolve ==
    ASSUME NEW a, NEW reg, IsPlanned(a, reg), FrontDoorRuns(a.template),
           NEW c, Holds(a.template, a.plan, c.files)
    PROVE  AddressesResolve(c)
<1> DEFINE t == a.template
           p == a.plan
           wf == WorkloadFiles(p)
           df == DatabaseFiles(p)
           objects == ObjectsOf(c, "Workload") \union ObjectsOf(c, "Database")
<1> SUFFICES ASSUME NEW f \in ObjectsOf(c, "Workload"), NEW h \in c.files[f].hosts, Len(h) # 1
             PROVE  \E g \in objects : c.files[g].name = h
  BY DEF AddressesResolve
<1>1. PICK i \in Apps(t) : c.files[f].hosts = p.workloads[i].hosts
  BY DEF Holds, ObjectsOf, IsInstalled
<1>2. IsTemplate(t) /\ p.primary = Front(t) /\ IsWorkloadOf(p.workloads[i], t, i)
  BY PlanShape DEF IsPlanned
<1>3. PICK host : h = RewriteSiblings(t, t.services[i].name, host)
  BY <1>1, <1>2 DEF IsWorkloadOf
<1>4. \A x : Len(<< x >>) = 1
  OBVIOUS
<1>5. /\ host \notin {t.services[i].name, PrimaryService(t)}
      /\ host \in {s.name : s \in Elements(t.services)}
      /\ h = NameOf(t, host)
  BY <1>3, <1>4 DEF RewriteSiblings
<1>6. PICK k \in DOMAIN t.services : host = t.services[k].name
  BY <1>5 DEF Elements
<1>7. k \in Apps(t) \union Dbs(t) /\ i \in DOMAIN t.services
  BY <1>6 DEF Apps, Dbs
<1>8. /\ \A j \in Apps(t) :
            /\ wf[j] = IF j = p.primary THEN File ELSE FileFor("Workload", WorkloadName(t, j))
            /\ wf[j] = File => j = p.primary
      /\ \A j \in Dbs(t) : df[j] = FileFor("Database", NameOf(t, t.services[j].name))
  BY PlanFiles
<1>9. CASE k \in Dbs(t)
  <2>1. df[k] \in DOMAIN c.files /\ c.files[df[k]].kind = "Database"
    BY <1>9 DEF Holds
  <2>2. PICK j \in Dbs(t) : df[k] = df[j] /\ c.files[df[k]] = p.databases[j]
    BY <2>1 DEF Holds
  <2>3. NameOf(t, t.services[j].name) = NameOf(t, t.services[k].name)
    BY <1>8, <1>9, <2>2, FileSays
  <2>4. p.databases[j].name = NameOf(t, t.services[j].name)
    BY <2>2, PlanShape, DatabaseIs DEF IsPlanned
  <2>5. c.files[df[k]].name = h
    BY <1>5, <1>6, <2>2, <2>3, <2>4
  <2> QED
    BY <2>1, <2>5 DEF ObjectsOf
<1>10. CASE k \in Apps(t)
  <2>1. wf[k] \in DOMAIN c.files /\ c.files[wf[k]].kind = "Workload"
    BY <1>10 DEF Holds
  <2>2. PICK j \in Apps(t) : wf[k] = wf[j] /\ IsInstalled(c.files[wf[k]], t, p, j)
    BY <2>1 DEF Holds
  <2>3. k # p.primary
    BY <1>2, <1>5, <1>6, FrontIsPrimary
  <2>4. wf[k] # File /\ j # p.primary
    BY <1>8, <1>10, <2>2, <2>3
  <2>5. WorkloadName(t, j) = WorkloadName(t, k)
    BY <1>8, <1>10, <2>2, <2>3, <2>4, FileSays
  <2>6. Len(t.services) # 1
    BY <1>2, <1>5, <1>6, <1>7 DEF IsTemplate
  <2>7. WorkloadName(t, k) = h
    BY <1>5, <1>6, <2>6 DEF WorkloadName
  <2>8. c.files[wf[k]].name = h
    BY <2>2, <2>4, <2>5, <2>7 DEF IsInstalled
  <2> QED
    BY <2>1, <2>8 DEF ObjectsOf
<1> QED
  BY <1>7, <1>9, <1>10

---------------------------------------------------------------------------
(* A value has one taker                                                   *)

\* What a variable asks for is finite.
LEMMA SourcesAreFinite ==
    ASSUME NEW t, IsTemplate(t), NEW i \in DOMAIN t.services,
           NEW g \in AskedBy(t.services[i])
    PROVE  IsFiniteSet(g.sources)
<1> DEFINE env == t.services[i].env
<1>1. PICK k \in DOMAIN env : g = [key |-> k, sources |-> SourcesIn(k, env[k]),
                                   around |-> env[k].around]
  BY DEF AskedBy
<1>2. g.sources = SourcesIn(k, env[k])
  BY <1>1
<1>3. IsFiniteSet(env[k].sources)
  BY DEF IsTemplate
<1>4. IsFiniteSet({k})
  BY FS_Singleton
<1> QED
  BY <1>2, <1>3, <1>4 DEF SourcesIn

\* What is committed to be minted has one source, and one variable that takes it.
LEMMA OneTaker ==
    ASSUME NEW a, NEW reg, IsPlanned(a, reg),
           NEW i \in Apps(a.template), NEW g \in a.plan.workloads[i].generated
    PROVE  \E source \in g.sources :
              g.sources = {source} /\ Cardinality(Takers(a.template, source)) = 1
<1> DEFINE t == a.template
           p == a.plan
           asked(j) == AskedBy(t.services[j])
<1>1. IsTemplate(t) /\ p = PlanOf(t, reg) /\ ~ p.blocked /\ PlannedSecrets(p) = {}
  BY DEF IsPlanned, WhyRefused
<1>2. /\ DOMAIN p.workloads = Apps(t)
      /\ \A j \in Apps(t) : p.workloads[j].generated =
            {e \in asked(j) : ~ OwnedByDatabase(e, Convert(t))}
      /\ \A j \in Apps(t) : \A e \in asked(j) : ~ OwnedByDatabase(e, Convert(t))
  BY <1>1, PlanShape
<1>3. \A j \in Apps(t) : p.workloads[j].generated = asked(j)
  BY <1>2
<1>4. Apps(t) \subseteq DOMAIN t.services /\ Dbs(t) \subseteq DOMAIN t.services
      /\ DOMAIN t.services \subseteq Apps(t) \union Dbs(t)
  BY DEF Apps, Dbs
<1> HIDE DEF t, p
<1>5. \A j \in Apps(t) : \A e \in asked(j) : << j, e >> \in Asked(p)
  BY <1>2, <1>3 DEF Asked
<1>6. ASSUME NEW j \in Apps(t), NEW e \in asked(j)
      PROVE  /\ \E s : e.sources = {s}
             /\ \A k \in Apps(t) : \A d \in asked(k) :
                   d.sources = e.sources => << k, d >> = << j, e >>
  <2>1. << j, e >> \in Asked(p) /\ << j, e >> \notin PlannedSecrets(p)
    BY <1>1, <1>5
  <2>2. << j, e >>[2] = e
    OBVIOUS
  <2>3. Mintable(e) /\ ~ \E l \in Asked(p) \ {<< j, e >>} : l[2].sources = e.sources
    BY <2>1, <2>2 DEF PlannedSecrets
  <2>4. IsFiniteSet(e.sources)
    BY <1>1, <1>4, SourcesAreFinite
  <2>5. \E s : e.sources = {s}
    BY <2>3, <2>4, FS_Singleton DEF Mintable
  <2>6. ASSUME NEW k \in Apps(t), NEW d \in asked(k), d.sources = e.sources
        PROVE  << k, d >> = << j, e >>
    <3>1. << k, d >> \in Asked(p) /\ << k, d >>[2].sources = e.sources
      BY <1>5, <2>6
    <3> QED
      BY <2>3, <3>1
  <2> QED
    BY <2>5, <2>6
<1>7. g \in asked(i) /\ i \in Apps(t)
  BY <1>3 DEF t, p
<1>8. PICK source : g.sources = {source}
  BY <1>6, <1>7
<1>9. PICK k \in DOMAIN t.services[i].env :
         /\ g = [key |-> k, sources |-> SourcesIn(k, t.services[i].env[k]),
                 around |-> t.services[i].env[k].around]
         /\ ~ t.services[i].env[k].url
  BY <1>7 DEF AskedBy
<1> DEFINE one == << t.services[i].name, k >>
<1>10. one \in Takers(t, source)
  <2>1. t.services[i] \in Elements(t.services)
    BY <1>4, <1>7 DEF Elements
  <2>2. source \in SourcesIn(k, t.services[i].env[k])
    BY <1>8, <1>9
  <2> QED
    BY <1>9, <2>1, <2>2 DEF Takers
<1>11. ASSUME NEW x \in Takers(t, source) PROVE x = one
  <2>1. PICK svc \in Elements(t.services) : \E y \in DOMAIN svc.env :
           /\ x = << svc.name, y >> /\ source \in SourcesIn(y, svc.env[y])
           /\ AsDatabase(svc) \/ ~ svc.env[y].url
    BY DEF Takers
  <2>2. PICK j \in DOMAIN t.services : svc = t.services[j]
    BY DEF Elements
  <2>3. PICK y \in DOMAIN svc.env :
           /\ x = << svc.name, y >> /\ source \in SourcesIn(y, svc.env[y])
           /\ AsDatabase(svc) \/ ~ svc.env[y].url
    BY <2>1
  <2>4. CASE j \in Dbs(t)
    <3>1. source \in DeclaredSources(t.services[j])
      BY <2>2, <2>3 DEF DeclaredSources
    <3>2. source \in Convert(t).owned
      BY <2>4, <3>1 DEF Convert
    <3>3. OwnedByDatabase(g, Convert(t))
      BY <1>8, <3>2 DEF OwnedByDatabase
    <3> QED
      BY <1>2, <1>7, <3>3
  <2>5. CASE j \in Apps(t)
    <3>1. ~ AsDatabase(svc)
      BY <2>2, <2>5 DEF Apps, Dbs
    <3> DEFINE e == [key |-> y, sources |-> SourcesIn(y, svc.env[y]), around |-> svc.env[y].around]
    <3>2. e \in asked(j)
      BY <2>2, <2>3, <3>1 DEF AskedBy
    <3>3. e.sources = SourcesIn(y, svc.env[y]) /\ e.key = y
      OBVIOUS
    <3> HIDE DEF e
    <3>4. \E s : e.sources = {s}
      BY <1>6, <2>5, <3>2
    <3>5. e.sources = g.sources
      BY <1>8, <2>3, <3>3, <3>4
    <3>6. << j, e >> = << i, g >>
      BY <1>6, <1>7, <2>5, <3>2, <3>5
    <3>7. j = i /\ e = g /\ g.key = k
      BY <1>9, <3>6
    <3> QED
      BY <2>2, <2>3, <3>3, <3>7
  <2> QED
    BY <1>4, <2>4, <2>5
<1>12. Takers(t, source) = {one}
  BY <1>10, <1>11
<1>13. Cardinality(Takers(t, source)) = 1
  BY <1>12, FS_Singleton
<1> QED
  BY <1>8, <1>13 DEF t

---------------------------------------------------------------------------
(* The other renders                                                       *)

\* Nothing that was there is lost by a render that asks for no removals.
IsCarried(tree, files, cur) ==
    /\ DOMAIN tree = DOMAIN cur \union DOMAIN files
    /\ \A f \in DOMAIN files : tree[f] = files[f]
    /\ \A f \in DOMAIN cur \ DOMAIN files : tree[f] = cur[f]

LEMMA CarriedTree ==
    ASSUME NEW a, ~ MayRemove(a), NEW files, NEW cur,
           NEW tree, tree = Written(a, CarryForward(files, cur), cur)
    PROVE  IsCarried(tree, files, cur)
<1> DEFINE own == [f \in {x \in DOMAIN cur : Owns(cur[x])} |-> cur[f]]
           carried == Over(own, files)
<1>1. /\ DOMAIN own \subseteq DOMAIN cur
      /\ \A f \in DOMAIN own : own[f] = cur[f]
  OBVIOUS
<1> HIDE DEF own
<1>2. /\ DOMAIN carried = DOMAIN own \union DOMAIN files
      /\ \A f \in DOMAIN files : carried[f] = files[f]
      /\ \A f \in DOMAIN own \ DOMAIN files : carried[f] = own[f]
  BY DEF Over
<1> HIDE DEF carried
<1>3. CarryForward(files, cur) = carried
  BY DEF CarryForward, carried, own
<1> DEFINE all == [f \in {x \in DOMAIN cur : ~ (MayRemove(a) /\ Owns(cur[x]))} |-> cur[f]]
<1>4. DOMAIN all = DOMAIN cur /\ \A f \in DOMAIN cur : all[f] = cur[f]
  OBVIOUS
<1>5. tree = Over(all, carried)
  BY <1>3 DEF Written
<1> HIDE DEF all
<1>6. /\ DOMAIN tree = DOMAIN all \union DOMAIN carried
      /\ \A f \in DOMAIN carried : tree[f] = carried[f]
      /\ \A f \in DOMAIN all \ DOMAIN carried : tree[f] = all[f]
  BY <1>5 DEF Over
<1> QED
  BY <1>1, <1>2, <1>4, <1>6 DEF IsCarried

\* A workload with the app's identity and one part of it new.
IsAppWith(new, old, part) ==
    /\ {"kind", "name"} \subseteq DOMAIN new
    /\ new.kind = "Workload" /\ new.name = App
    /\ \A x \in DOMAIN old \ {"id", "group", part} : new[x] = old[x]

IsApp(w) == {"kind", "name"} \subseteq DOMAIN w /\ w.kind = "Workload" /\ w.name = App

LEMMA IdentifiedIs ==
    ASSUME NEW w, IsApp(w), NEW id
    PROVE  LET u == Identified(w, id)
           IN  /\ DOMAIN u = DOMAIN w
               /\ \A x \in DOMAIN w \ {"id", "group"} : u[x] = w[x]
<1> DEFINE u == [w EXCEPT !.name = App, !.group = None, !.id = id]
<1>1. DOMAIN u = DOMAIN w /\ u.name = App /\ \A x \in DOMAIN w \ {"name", "id", "group"} : u[x] = w[x]
  BY DEF IsApp
<1>2. Identified(w, id) = u
  BY DEF Identified
<1> HIDE DEF u
<1>3. \A x \in DOMAIN w \ {"id", "group"} : u[x] = w[x]
  BY <1>1 DEF IsApp
<1> QED
  BY <1>1, <1>2, <1>3

LEMMA RenderedApp ==
    ASSUME NEW w, IsApp(w), NEW id, NEW v
    PROVE  /\ IsAppWith([Identified(w, id) EXCEPT !.image = v], w, "image")
           /\ IsAppWith([Identified(w, id) EXCEPT !.replicas = v], w, "replicas")
           /\ IsAppWith([Identified(w, id) EXCEPT !.settings = v], w, "settings")
<1> DEFINE u == Identified(w, id)
           i == [u EXCEPT !.image = v]
           r == [u EXCEPT !.replicas = v]
           s == [u EXCEPT !.settings = v]
<1>1. DOMAIN u = DOMAIN w /\ \A x \in DOMAIN w \ {"id", "group"} : u[x] = w[x]
  BY IdentifiedIs
<1> HIDE DEF u
<1>2. DOMAIN i = DOMAIN w /\ \A x \in DOMAIN w \ {"image"} : i[x] = u[x]
  BY <1>1
<1>3. DOMAIN r = DOMAIN w /\ \A x \in DOMAIN w \ {"replicas"} : r[x] = u[x]
  BY <1>1
<1>4. DOMAIN s = DOMAIN w /\ \A x \in DOMAIN w \ {"settings"} : s[x] = u[x]
  BY <1>1
<1> HIDE DEF i, r, s
<1>5. IsAppWith(i, w, "image")
  BY <1>1, <1>2 DEF IsApp, IsAppWith
<1>6. IsAppWith(r, w, "replicas")
  BY <1>1, <1>3 DEF IsApp, IsAppWith
<1>7. IsAppWith(s, w, "settings")
  BY <1>1, <1>4 DEF IsApp, IsAppWith
<1> QED
  BY <1>5, <1>6, <1>7 DEF i, r, s, u

\* What a render may do to a directory, and still leave it in order.
Keeps(a, cur, tree) ==
    /\ Filed(tree)
    /\ \A f \in DOMAIN cur : StandsIn(a, f, cur, tree)

\* A render of the app alone, or of the app and the fence.
LEMMA AppRender ==
    ASSUME NEW a, ~ MayRemove(a), Part(a) # None, NEW cur, Filed(cur),
           NEW files, DOMAIN files \subseteq FenceFiles \union {File}, File \in DOMAIN files,
           \A f \in FenceFiles \intersect DOMAIN files : files[f] = Fence[f],
           NEW new, files[File] = new,
           \/ File \in DOMAIN cur /\ IsAppWith(new, cur[File], Part(a))
           \/ File \notin DOMAIN cur /\ IsApp(new),
           NEW tree, tree = Written(a, CarryForward(files, cur), cur)
    PROVE  Keeps(a, cur, tree)
<1>1. /\ DOMAIN tree = DOMAIN cur \union DOMAIN files
      /\ \A f \in DOMAIN files : tree[f] = files[f]
      /\ \A f \in DOMAIN cur \ DOMAIN files : tree[f] = cur[f]
  <2>1. IsCarried(tree, files, cur)
    BY CarriedTree
  <2> QED
    BY <2>1 DEF IsCarried
<1>2. IsApp(new)
  BY DEF IsApp, IsAppWith
<1>3. \A f \in FenceFiles : f[1] = "Fence" /\ Fence[f].kind = "Fence"
  BY DEF FenceFiles, Fence
<1>4. File[1] = "Workload" /\ File \notin FenceFiles
  BY <1>3, FileSays
<1>5. ASSUME NEW f \in DOMAIN tree
      PROVE  /\ tree[f].kind = f[1]
             /\ f[1] = "Database" => tree[f].name = f[2]
             /\ f = File => tree[f].name = App /\ {"kind", "name"} \subseteq DOMAIN tree[f]
             /\ f \in FenceFiles => tree[f] = Fence[f]
  <2>1. CASE f = File
    BY <2>1, <1>1, <1>2, <1>4 DEF IsApp
  <2>2. CASE f # File /\ f \in DOMAIN files
    BY <2>2, <1>1, <1>3
  <2>3. CASE f \notin DOMAIN files
    BY <2>3, <1>1 DEF Filed
  <2> QED
    BY <2>1, <2>2, <2>3
<1>6. ASSUME NEW f \in DOMAIN cur PROVE StandsIn(a, f, cur, tree)
  <2>1. CASE f = File
    <3>1. IsAppWith(new, cur[File], Part(a)) /\ tree[File] = new /\ File \in DOMAIN tree
      BY <2>1, <1>1
    <3>2. \A x \in DOMAIN cur[f] \ {"id", "group", Part(a)} : tree[f][x] = cur[f][x]
      BY <2>1, <3>1 DEF IsAppWith
    <3> QED
      BY <2>1, <3>1, <3>2 DEF StandsIn
  <2>2. CASE f # File /\ f \in DOMAIN files
    <3>1. f \in DOMAIN tree /\ tree[f] = cur[f]
      BY <2>2, <1>1 DEF Filed
    <3> QED
      BY <3>1 DEF StandsIn
  <2>3. CASE f \notin DOMAIN files
    <3>1. f \in DOMAIN tree /\ tree[f] = cur[f]
      BY <2>3, <1>1
    <3> QED
      BY <3>1 DEF StandsIn
  <2> QED
    BY <2>1, <2>2, <2>3
<1> QED
  BY <1>5, <1>6 DEF Keeps, Filed

\* A deploy or a rollback, of an app or of nothing yet.
LEMMA DeployKeeps ==
    ASSUME NEW a, a.op \in {"deploy", "rollback"}, NEW id, NEW cur, Filed(cur),
           NEW tree, tree = Written(a, RenderDeploy(a, id, cur), cur)
    PROVE  Keeps(a, cur, tree)
<1> DEFINE w == IF File \in DOMAIN cur THEN cur[File] ELSE Started
           new == [Identified(w, id) EXCEPT !.image = a.image]
           app == [f \in {File} |-> new]
           files == Over(Fence, app)
<1>1. ~ MayRemove(a) /\ Part(a) = "image" /\ Part(a) # None
  BY DirectoryAssumption DEF MayRemove, Part
<1>2. IsApp(w)
  <2>1. CASE File \in DOMAIN cur
    BY <2>1, FileSays DEF Filed, IsApp
  <2>2. CASE File \notin DOMAIN cur
    BY <2>2 DEF Started, IsApp
  <2> QED
    BY <2>1, <2>2
<1>3. RenderDeploy(a, id, cur) = CarryForward(files, cur)
  BY DEF RenderDeploy
<1>4. DOMAIN app = {File} /\ app[File] = new /\ DOMAIN Fence = FenceFiles
  BY DEF Fence
<1> HIDE DEF w
<1>5. IsAppWith(new, w, "image")
  BY <1>2, RenderedApp
<1>6. IsApp(new) /\ (File \in DOMAIN cur => w = cur[File])
  BY <1>5 DEF IsApp, IsAppWith, w
<1>7. File \notin FenceFiles
  BY FilesApart
<1> HIDE DEF new, app
<1>8. /\ DOMAIN files = FenceFiles \union {File} /\ files[File] = new
      /\ \A f \in FenceFiles \intersect DOMAIN files : files[f] = Fence[f]
  BY <1>4, <1>7 DEF Over
<1> HIDE DEF files
<1> QED
  BY <1>1, <1>3, <1>5, <1>6, <1>8, AppRender

LEMMA ScaleKeeps ==
    ASSUME NEW a, a.op = "scale", NEW id, NEW cur, Filed(cur),
           RenderScale(a, id, cur) # NothingRendered,
           NEW tree, tree = Written(a, RenderScale(a, id, cur), cur)
    PROVE  Keeps(a, cur, tree)
<1> DEFINE new == [Identified(cur[File], id) EXCEPT !.replicas = a.replicas]
           app == [f \in {File} |-> new]
<1>1. ~ MayRemove(a) /\ Part(a) = "replicas" /\ Part(a) # None
  BY DirectoryAssumption DEF MayRemove, Part
<1>2. File \in DOMAIN cur /\ RenderScale(a, id, cur) = CarryForward(app, cur)
  BY DEF RenderScale
<1>3. IsApp(cur[File])
  BY <1>2, FileSays DEF Filed, IsApp
<1>4. IsAppWith(new, cur[File], "replicas")
  BY <1>3, RenderedApp
<1>5. DOMAIN app = {File} /\ app[File] = new /\ File \notin FenceFiles
  BY FilesApart
<1> HIDE DEF new, app
<1> QED
  BY <1>1, <1>2, <1>4, <1>5, AppRender

LEMMA SaveKeeps ==
    ASSUME NEW a, a.op = "save", NEW id, NEW cur, Filed(cur),
           RenderSettings(a, id, cur) # NothingRendered,
           NEW tree, tree = Written(a, RenderSettings(a, id, cur), cur)
    PROVE  Keeps(a, cur, tree)
<1> DEFINE new == [Identified(cur[File], id) EXCEPT !.settings = a.settings]
           app == [f \in {File} |-> new]
           files == Over(Fence, app)
<1>1. ~ MayRemove(a) /\ Part(a) = "settings" /\ Part(a) # None
  BY DirectoryAssumption DEF MayRemove, Part
<1>2. File \in DOMAIN cur /\ RenderSettings(a, id, cur) = CarryForward(files, cur)
  BY DEF RenderSettings
<1>3. IsApp(cur[File])
  BY <1>2, FileSays DEF Filed, IsApp
<1>4. IsAppWith(new, cur[File], "settings")
  BY <1>3, RenderedApp
<1>5. DOMAIN app = {File} /\ app[File] = new /\ DOMAIN Fence = FenceFiles /\ File \notin FenceFiles
  BY FilesApart DEF Fence
<1> HIDE DEF new, app
<1>6. /\ DOMAIN files = FenceFiles \union {File} /\ files[File] = new
      /\ \A f \in FenceFiles \intersect DOMAIN files : files[f] = Fence[f]
  BY <1>5 DEF Over
<1> HIDE DEF files
<1> QED
  BY <1>1, <1>2, <1>4, <1>6, AppRender

\* A database is added under a name that is free, and removed alone.
LEMMA CreateKeeps ==
    ASSUME NEW a, a.op = "createDatabase", NEW cur, Filed(cur),
           RenderCreateDatabase(a, cur) # NothingRendered,
           NEW tree, tree = Written(a, RenderCreateDatabase(a, cur), cur)
    PROVE  Keeps(a, cur, tree)
<1> DEFINE d == FileFor("Database", a.name)
           db == Database(a.name, None, None)
           one == [f \in {d} |-> db]
           files == Over(cur, one)
           all == [f \in {x \in DOMAIN cur : ~ (MayRemove(a) /\ Owns(cur[x]))} |-> cur[f]]
<1>1. /\ \A f \in DOMAIN cur : ~ (cur[f].kind = "Database" /\ cur[f].name = a.name)
      /\ RenderCreateDatabase(a, cur) = files
  BY DEF RenderCreateDatabase
<1>2. ~ MayRemove(a)
  BY DEF MayRemove
<1>3. DOMAIN all = DOMAIN cur /\ tree = Over(all, files)
  BY <1>1, <1>2 DEF Written
<1>4. DOMAIN one = {d} /\ one[d] = db /\ db.kind = "Database" /\ db.name = a.name
  BY DatabaseIs
<1>5. d[1] = "Database" /\ d[2] = a.name /\ d \notin FenceFiles /\ d # File
  BY FileSays, FilesApart
<1> HIDE DEF d, db, one, all
<1>6. d \notin DOMAIN cur
  BY <1>1, <1>5 DEF Filed
<1>7. /\ DOMAIN files = DOMAIN cur \union {d} /\ files[d] = db
      /\ \A f \in DOMAIN cur : files[f] = cur[f]
  BY <1>4, <1>6 DEF Over
<1> HIDE DEF files
<1>8. /\ DOMAIN tree = DOMAIN cur \union {d} /\ tree[d] = db
      /\ \A f \in DOMAIN cur : tree[f] = cur[f]
  BY <1>3, <1>7 DEF Over
<1>9. Filed(tree)
  BY <1>4, <1>5, <1>8 DEF Filed
<1>10. \A f \in DOMAIN cur : StandsIn(a, f, cur, tree)
  BY <1>8 DEF StandsIn
<1> QED
  BY <1>9, <1>10 DEF Keeps

LEMMA DeleteKeeps ==
    ASSUME NEW a, a.op = "deleteDatabase", NEW cur, Filed(cur),
           RenderDeleteDatabase(a, cur) # NothingRendered,
           NEW tree, tree = Written(a, RenderDeleteDatabase(a, cur), cur)
    PROVE  Keeps(a, cur, tree)
<1> DEFINE d == FileFor("Database", a.name)
           files == [f \in DOMAIN cur \ {d} |-> cur[f]]
           left == [f \in {x \in DOMAIN cur : ~ (MayRemove(a) /\ Owns(cur[x]))} |-> cur[f]]
<1>1. RenderDeleteDatabase(a, cur) = files
  BY DEF RenderDeleteDatabase
<1>2. tree = Over(left, files)
  BY <1>1 DEF Written
<1>3. /\ DOMAIN left \subseteq DOMAIN cur /\ \A f \in DOMAIN left : left[f] = cur[f]
      /\ DOMAIN files = DOMAIN cur \ {d} /\ \A f \in DOMAIN files : files[f] = cur[f]
  OBVIOUS
<1> HIDE DEF d, files, left
<1>4. /\ DOMAIN tree = DOMAIN left \union DOMAIN files
      /\ \A f \in DOMAIN tree : tree[f] = IF f \in DOMAIN files THEN files[f] ELSE left[f]
  BY <1>2 DEF Over
<1>5. /\ DOMAIN tree \subseteq DOMAIN cur /\ DOMAIN cur \ {d} \subseteq DOMAIN tree
      /\ \A f \in DOMAIN tree : tree[f] = cur[f]
  BY <1>3, <1>4
<1>6. Filed(tree)
  BY <1>5 DEF Filed
<1>7. \A f \in DOMAIN cur : StandsIn(a, f, cur, tree)
  BY <1>5 DEF StandsIn, d
<1> QED
  BY <1>6, <1>7 DEF Keeps

\* An install takes the place of what is the platform's, where there is no app.
LEMMA InstallKeeps ==
    ASSUME NEW a, NEW reg, a.op = "install", IsPlanned(a, reg),
           NEW id, NEW cur, File \notin DOMAIN cur, Filed(cur),
           NEW tree, tree = Written(a, RenderInstall(a, id, cur), cur)
    PROVE  Keeps(a, cur, tree)
<1>1. Filed(tree)
  BY InstallHolds
<1>2. IsInstallTree(tree, a.plan, id, cur)
  BY InstallTree
<1>3. ASSUME NEW f \in DOMAIN cur PROVE StandsIn(a, f, cur, tree)
  <2>1. CASE cur[f].kind # "Foreign"
    BY <2>1 DEF StandsIn
  <2>2. CASE cur[f].kind = "Foreign"
    <3>1. f[1] = "Foreign" /\ f \in Alien(cur)
      BY <2>2 DEF Filed, Alien, Owns
    <3>2. f \in DOMAIN tree /\ tree[f] = cur[f]
      BY <1>2, <3>1, FilesApart DEF IsInstallTree
    <3> QED
      BY <3>2 DEF StandsIn
  <2> QED
    BY <2>1, <2>2
<1> QED
  BY <1>1, <1>3 DEF Keeps

\* What a request may push of a directory it cloned.
Rendered(a, cur, tree) ==
    \E id : /\ Render(a, id, cur) # NothingRendered
            /\ tree = Written(a, Render(a, id, cur), cur)

LEMMA RenderKeeps ==
    ASSUME NEW a, IsAsk(a), NEW reg, a.op = "install" => IsPlanned(a, reg),
           NEW cur, Filed(cur), NEW tree, Rendered(a, cur, tree)
    PROVE  /\ Keeps(a, cur, tree)
           /\ a.op = "install" => Holds(a.template, a.plan, tree)
<1>1. PICK id : /\ Render(a, id, cur) # NothingRendered
                /\ tree = Written(a, Render(a, id, cur), cur)
  BY DEF Rendered
<1>2. CASE a.op = "install"
  <2>1. Render(a, id, cur) = RenderInstall(a, id, cur)
    BY <1>2 DEF Render
  <2>2. File \notin DOMAIN cur
    BY <1>1, <2>1 DEF RenderInstall
  <2> QED
    BY <1>1, <1>2, <2>1, <2>2, InstallKeeps, InstallHolds
<1>3. CASE a.op \in {"deploy", "rollback"}
  <2>1. Render(a, id, cur) = RenderDeploy(a, id, cur)
    BY <1>3 DEF Render
  <2> QED
    BY <1>1, <1>3, <2>1, DeployKeeps
<1>4. CASE a.op = "scale"
  <2>1. Render(a, id, cur) = RenderScale(a, id, cur)
    BY <1>4 DEF Render
  <2> QED
    BY <1>1, <1>4, <2>1, ScaleKeeps
<1>5. CASE a.op = "save"
  <2>1. Render(a, id, cur) = RenderSettings(a, id, cur)
    BY <1>5 DEF Render
  <2> QED
    BY <1>1, <1>5, <2>1, SaveKeeps
<1>6. CASE a.op = "createDatabase"
  <2>1. Render(a, id, cur) = RenderCreateDatabase(a, cur)
    BY <1>6 DEF Render
  <2> QED
    BY <1>1, <1>6, <2>1, CreateKeeps
<1>7. CASE a.op = "deleteDatabase"
  <2>1. Render(a, id, cur) = RenderDeleteDatabase(a, cur)
    BY <1>7 DEF Render
  <2> QED
    BY <1>1, <1>7, <2>1, DeleteKeeps
<1> QED
  BY <1>2, <1>3, <1>4, <1>5, <1>6, <1>7 DEF IsAsk

---------------------------------------------------------------------------
(* The invariant                                                           *)

IsSequence(s) == \E S : s \in Seq(S)

TypeInv ==
    /\ DOMAIN ask = Requests /\ DOMAIN pc = Requests
    /\ DOMAIN base = Requests /\ DOMAIN out = Requests
    /\ IsSequence(branch) /\ Len(branch) >= 1

\* A request asks for something, and an install that goes on has its plan.
AskOK(a, at, reg) ==
    /\ IsAsk(a)
    /\ a.op = "install" /\ at \in {"put", "clone", "push"} => IsPlanned(a, reg)

\* What is about to be pushed was rendered from a commit of the branch.
PushOK(a, at, from, tree, commits) ==
    at = "push" =>
        /\ from \in 1 .. Len(commits)
        /\ Rendered(a, commits[from].files, tree)

\* A commit is a directory in order, of a request that is past its push; an
\* install's holds what was planned.
CommitOK(c, asks, at, reg) ==
    /\ Filed(c.files)
    /\ c.by # None =>
          /\ c.by \in Requests /\ at[c.by] \in {"deliver", "done"}
          /\ asks[c.by].op = "install" =>
                /\ IsPlanned(asks[c.by], reg)
                /\ Holds(asks[c.by].template, asks[c.by].plan, c.files)

AskInv == \A r \in Requests : AskOK(ask[r], pc[r], registry)
PushInv == \A r \in Requests : PushOK(ask[r], pc[r], base[r], out[r], branch)
CommitInv == \A i \in 1 .. Len(branch) : CommitOK(branch[i], ask, pc, registry)

IInv == TypeInv /\ AskInv /\ PushInv /\ CommitInv

LEMMA InitHolds == Init => IInv
<1> SUFFICES ASSUME Init PROVE IInv
  OBVIOUS
<1>1. ask \in Asks /\ DOMAIN ask = Requests /\ \A r \in Requests : IsAsk(ask[r])
  BY DirectoryAssumption DEF Init
<1>2. /\ DOMAIN pc = Requests /\ \A r \in Requests : pc[r] = "start"
      /\ DOMAIN base = Requests /\ DOMAIN out = Requests
  BY DEF Init
<1>3. PICK s \in Starts : branch = << [by |-> None, files |-> s.files] >>
  BY DEF Init
<1> DEFINE c == [by |-> None, files |-> s.files]
<1>4. c.by = None /\ c.files = s.files
  OBVIOUS
<1> HIDE DEF c
<1>5. branch = << c >>
  BY <1>3 DEF c
<1>6. branch \in Seq({c}) /\ Len(branch) = 1 /\ branch[1] = c
  BY <1>5
<1>7. TypeInv
  BY <1>1, <1>2, <1>6 DEF TypeInv, IsSequence
<1>8. AskInv
  BY <1>1, <1>2 DEF AskInv, AskOK
<1>9. PushInv
  BY <1>2 DEF PushInv, PushOK
<1>10. CommitInv
  BY <1>4, <1>6, DirectoryAssumption DEF CommitInv, CommitOK
<1> QED
  BY <1>7, <1>8, <1>9, <1>10 DEF IInv

\* A step of one request that commits nothing.
LEMMA QuietStep ==
    ASSUME IInv, NEW r \in Requests, branch' = branch, registry' = registry,
           DOMAIN ask' = Requests, DOMAIN pc' = Requests,
           DOMAIN base' = Requests, DOMAIN out' = Requests,
           \A q \in Requests \ {r} : /\ ask'[q] = ask[q] /\ pc'[q] = pc[q]
                                     /\ base'[q] = base[q] /\ out'[q] = out[q],
           AskOK(ask'[r], pc'[r], registry),
           PushOK(ask'[r], pc'[r], base'[r], out'[r], branch),
           \/ pc[r] \notin {"deliver", "done"}
           \/ pc'[r] \in {"deliver", "done"} /\ ask'[r] = ask[r]
    PROVE  IInv'
<1>1. TypeInv'
  BY DEF IInv, TypeInv
<1>2. AskInv'
  BY DEF IInv, AskInv
<1>3. PushInv'
  BY DEF IInv, PushInv
<1>4. ASSUME NEW i \in 1 .. Len(branch) PROVE CommitOK(branch[i], ask', pc', registry)
  <2>1. CommitOK(branch[i], ask, pc, registry)
    BY DEF IInv, CommitInv
  <2>2. CASE branch[i].by = None
    BY <2>1, <2>2 DEF CommitOK
  <2>3. CASE branch[i].by # None
    <3>1. /\ branch[i].by \in Requests /\ pc[branch[i].by] \in {"deliver", "done"}
      BY <2>1, <2>3 DEF CommitOK
    <3>2. /\ ask'[branch[i].by] = ask[branch[i].by]
          /\ pc'[branch[i].by] \in {"deliver", "done"}
      BY <3>1
    <3> QED
      BY <2>1, <3>1, <3>2 DEF CommitOK
  <2> QED
    BY <2>2, <2>3
<1>5. CommitInv'
  BY <1>4 DEF CommitInv
<1> QED
  BY <1>1, <1>2, <1>3, <1>5 DEF IInv

LEMMA GoesFrame ==
    ASSUME IInv, NEW r \in Requests, NEW to, Goes(r, to)
    PROVE  /\ DOMAIN pc' = Requests /\ pc'[r] = to
           /\ \A q \in Requests \ {r} : pc'[q] = pc[q]
<1>1. DOMAIN pc = Requests /\ pc' = [pc EXCEPT ![r] = to]
  BY DEF IInv, TypeInv, Goes
<1> QED
  BY <1>1

\* A request moves on, and nothing it goes by changes.
LEMMA MoveStep ==
    ASSUME IInv, NEW r \in Requests, NEW to, Goes(r, to), to # "push",
           to \in {"put", "clone"} => pc[r] \in {"put", "clone"} \/ ask[r].op # "install",
           pc[r] \notin {"deliver", "done"} \/ to \in {"deliver", "done"},
           UNCHANGED << ask, registry, branch, base, out >>
    PROVE  IInv'
<1>1. /\ DOMAIN pc' = Requests /\ pc'[r] = to
      /\ \A q \in Requests \ {r} : pc'[q] = pc[q]
  BY GoesFrame
<1>2. /\ DOMAIN ask' = Requests /\ DOMAIN base' = Requests /\ DOMAIN out' = Requests
      /\ ask' = ask /\ base' = base /\ out' = out /\ branch' = branch /\ registry' = registry
  BY DEF IInv, TypeInv
<1>3. AskOK(ask[r], pc[r], registry)
  BY DEF IInv, AskInv
<1>4. AskOK(ask'[r], pc'[r], registry)
  BY <1>1, <1>2, <1>3 DEF AskOK
<1>5. PushOK(ask'[r], pc'[r], base'[r], out'[r], branch)
  BY <1>1 DEF PushOK
<1> QED
  BY <1>1, <1>2, <1>4, <1>5, QuietStep

LEMMA InstallStep ==
    ASSUME IInv, NEW r \in Requests, Install(r)
    PROVE  IInv'
<1>1. /\ pc[r] = "start" /\ ask[r].op = "install"
      /\ UNCHANGED << registry, branch, base, out >>
  BY DEF Install
<1>2. CASE Goes(r, "done") /\ UNCHANGED ask
  BY <1>1, <1>2, MoveStep
<1>3. CASE /\ ~ WhyRefused(PlanOf(ask[r].template, registry))
           /\ ask' = [ask EXCEPT ![r] = [op |-> "install", template |-> @.template,
                                         plan |-> PlanOf(ask[r].template, registry)]]
           /\ Goes(r, "put")
  <2> DEFINE p == PlanOf(ask[r].template, registry)
             new == [op |-> "install", template |-> ask[r].template, plan |-> p]
  <2>1. new.op = "install" /\ new.template = ask[r].template /\ new.plan = p
    OBVIOUS
  <2>2. /\ DOMAIN ask = Requests /\ DOMAIN base = Requests /\ DOMAIN out = Requests
        /\ IsAsk(ask[r])
    BY DEF IInv, TypeInv, AskInv, AskOK
  <2>3. DOMAIN ask' = Requests /\ ask'[r] = new /\ \A q \in Requests \ {r} : ask'[q] = ask[q]
    BY <1>3, <2>2
  <2> HIDE DEF new
  <2>4. AskOK(ask'[r], "put", registry)
    BY <1>1, <1>3, <2>1, <2>2, <2>3 DEF AskOK, IsAsk, IsPlanned, p
  <2>5. /\ DOMAIN pc' = Requests /\ pc'[r] = "put"
        /\ \A q \in Requests \ {r} : pc'[q] = pc[q]
    BY <1>3, GoesFrame
  <2>6. PushOK(ask'[r], pc'[r], base'[r], out'[r], branch)
    BY <2>5 DEF PushOK
  <2> QED
    BY <1>1, <2>2, <2>3, <2>4, <2>5, <2>6, QuietStep
<1> QED
  BY <1>2, <1>3 DEF Install, Answers

LEMMA RollbackStep ==
    ASSUME IInv, NEW r \in Requests, Rollback(r)
    PROVE  IInv'
<1>1. /\ pc[r] = "start" /\ ask[r].op = "rollback"
      /\ UNCHANGED << registry, branch, base, out >>
  BY DEF Rollback
<1>2. CASE Goes(r, "done") /\ UNCHANGED ask
  BY <1>1, <1>2, MoveStep
<1>3. CASE /\ ask' = [ask EXCEPT ![r] = [op |-> "rollback", to |-> ask[r].to,
                                         image |-> recs[ask[r].to].image]]
           /\ Goes(r, "clone")
  <2> DEFINE new == [op |-> "rollback", to |-> ask[r].to, image |-> recs[ask[r].to].image]
  <2>1. new.op = "rollback"
    OBVIOUS
  <2>2. DOMAIN ask = Requests /\ DOMAIN base = Requests /\ DOMAIN out = Requests
    BY DEF IInv, TypeInv
  <2>3. DOMAIN ask' = Requests /\ ask'[r] = new /\ \A q \in Requests \ {r} : ask'[q] = ask[q]
    BY <1>3, <2>2
  <2> HIDE DEF new
  <2>4. AskOK(ask'[r], "clone", registry)
    BY <2>1, <2>3 DEF AskOK, IsAsk
  <2>5. /\ DOMAIN pc' = Requests /\ pc'[r] = "clone"
        /\ \A q \in Requests \ {r} : pc'[q] = pc[q]
    BY <1>3, GoesFrame
  <2>6. PushOK(ask'[r], pc'[r], base'[r], out'[r], branch)
    BY <2>5 DEF PushOK
  <2> QED
    BY <1>1, <2>2, <2>3, <2>4, <2>5, <2>6, QuietStep
<1> QED
  BY <1>2, <1>3 DEF Rollback, Answers, Opens

LEMMA CloneStep ==
    ASSUME IInv, NEW r \in Requests, Clone(r)
    PROVE  IInv'
<1>1. pc[r] = "clone" /\ UNCHANGED << ask, registry, branch >>
  BY DEF Clone
<1>2. CASE Goes(r, "done") /\ UNCHANGED << out, base >>
  BY <1>1, <1>2, MoveStep
<1> DEFINE files == Render(ask[r], rec[r], Current)
           tree == Written(ask[r], files, Current)
<1>3. CASE /\ files # NothingRendered
           /\ out' = [out EXCEPT ![r] = tree]
           /\ base' = [base EXCEPT ![r] = Len(branch)]
           /\ Goes(r, "push")
  <2>1. /\ DOMAIN ask = Requests /\ DOMAIN base = Requests /\ DOMAIN out = Requests
        /\ Len(branch) >= 1 /\ Len(branch) \in Nat
    BY DEF IInv, TypeInv, IsSequence
  <2>2. Rendered(ask[r], Current, tree)
    BY <1>3 DEF Rendered
  <2> HIDE DEF files, tree
  <2>3. /\ DOMAIN base' = Requests /\ base'[r] = Len(branch)
        /\ DOMAIN out' = Requests /\ out'[r] = tree
        /\ \A q \in Requests \ {r} : base'[q] = base[q] /\ out'[q] = out[q]
    BY <1>3, <2>1
  <2>4. /\ DOMAIN pc' = Requests /\ pc'[r] = "push"
        /\ \A q \in Requests \ {r} : pc'[q] = pc[q]
    BY <1>3, GoesFrame
  <2>5. PushOK(ask'[r], pc'[r], base'[r], out'[r], branch)
    BY <1>1, <2>1, <2>2, <2>3 DEF PushOK, Current
  <2>6. AskOK(ask[r], pc[r], registry)
    BY DEF IInv, AskInv
  <2>7. AskOK(ask'[r], pc'[r], registry)
    BY <1>1, <2>4, <2>6 DEF AskOK
  <2> QED
    BY <1>1, <2>1, <2>3, <2>4, <2>5, <2>7, QuietStep
<1> QED
  BY <1>2, <1>3 DEF Clone, Answers

\* A push that lands puts a render of the last commit on top of it.
LEMMA PushLands ==
    ASSUME IInv, NEW r \in Requests, pc[r] = "push", Len(branch) = base[r]
    PROVE  /\ Keeps(ask[r], Current, out[r])
           /\ ask[r].op = "install" =>
                 IsPlanned(ask[r], registry) /\ Holds(ask[r].template, ask[r].plan, out[r])
<1>1. AskOK(ask[r], pc[r], registry) /\ PushOK(ask[r], pc[r], base[r], out[r], branch)
  BY DEF IInv, AskInv, PushInv
<1>2. IsAsk(ask[r]) /\ (ask[r].op = "install" => IsPlanned(ask[r], registry))
  BY <1>1 DEF AskOK
<1>3. base[r] \in 1 .. Len(branch) /\ Rendered(ask[r], Current, out[r])
  BY <1>1 DEF PushOK, Current
<1>4. Filed(Current)
  BY <1>3 DEF IInv, CommitInv, CommitOK, Current
<1> QED
  BY <1>2, <1>3, <1>4, RenderKeeps

LEMMA PushStep ==
    ASSUME IInv, NEW r \in Requests, Push(r)
    PROVE  IInv'
<1>1. pc[r] = "push" /\ UNCHANGED << ask, registry, base, out >>
  BY DEF Push
<1>2. CASE Goes(r, "done") /\ UNCHANGED branch
  BY <1>1, <1>2, MoveStep
<1> DEFINE c == [by |-> r, files |-> out[r]]
<1>3. CASE /\ Len(branch) = base[r] /\ branch' = Append(branch, c)
           /\ Goes(r, "deliver") \/ Goes(r, "done")
  <2>1. c.by = r /\ c.files = out[r]
    OBVIOUS
  <2> HIDE DEF c
  <2>2. PICK S : branch \in Seq(S)
    BY DEF IInv, TypeInv, IsSequence
  <2>3. /\ branch' \in Seq(S \union {c}) /\ Len(branch') = Len(branch) + 1
        /\ branch'[Len(branch) + 1] = c /\ Len(branch) \in Nat
        /\ \A i \in 1 .. Len(branch) : branch'[i] = branch[i]
    <3>1. branch \in Seq(S \union {c}) /\ c \in S \union {c}
      BY <2>2
    <3> QED
      BY <1>3, <3>1
  <2>4. /\ DOMAIN pc' = Requests /\ pc'[r] \in {"deliver", "done"}
        /\ \A q \in Requests \ {r} : pc'[q] = pc[q]
    BY <1>3, GoesFrame
  <2>5. TypeInv'
    BY <1>1, <2>3, <2>4 DEF IInv, TypeInv, IsSequence
  <2>6. AskInv'
    BY <1>1, <2>4 DEF IInv, AskInv, AskOK
  <2>7. PushInv'
    <3> SUFFICES ASSUME NEW q \in Requests
                 PROVE  PushOK(ask[q], pc'[q], base[q], out[q], branch')
      BY <1>1 DEF PushInv
    <3>1. CASE q = r
      BY <3>1, <2>4 DEF PushOK
    <3>2. CASE q # r
      <4>1. PushOK(ask[q], pc[q], base[q], out[q], branch) /\ pc'[q] = pc[q]
        BY <3>2, <2>4 DEF IInv, PushInv
      <4>2. CASE pc[q] = "push"
        <5>1. base[q] \in 1 .. Len(branch) /\ Rendered(ask[q], branch[base[q]].files, out[q])
          BY <4>1, <4>2 DEF PushOK
        <5>2. base[q] \in 1 .. Len(branch') /\ branch'[base[q]] = branch[base[q]]
          BY <5>1, <2>3
        <5> QED
          BY <5>1, <5>2 DEF PushOK
      <4>3. CASE pc[q] # "push"
        BY <4>1, <4>3 DEF PushOK
      <4> QED
        BY <4>2, <4>3
    <3> QED
      BY <3>1, <3>2
  <2>8. CommitInv'
    <3> SUFFICES ASSUME NEW i \in 1 .. Len(branch')
                 PROVE  CommitOK(branch'[i], ask, pc', registry)
      BY <1>1 DEF CommitInv
    <3>1. CASE i = Len(branch) + 1
      <4>1. branch'[i] = c
        BY <3>1, <2>3
      <4>2. Filed(c.files) /\ (ask[r].op = "install" =>
                /\ IsPlanned(ask[r], registry)
                /\ Holds(ask[r].template, ask[r].plan, c.files))
        BY <1>1, <1>3, <2>1, PushLands DEF Keeps
      <4> QED
        BY <4>1, <4>2, <2>1, <2>4 DEF CommitOK
    <3>2. CASE i # Len(branch) + 1
      <4>1. i \in 1 .. Len(branch) /\ branch'[i] = branch[i]
        BY <3>2, <2>3
      <4>2. CommitOK(branch[i], ask, pc, registry)
        BY <4>1 DEF IInv, CommitInv
      <4>3. branch[i].by # None => branch[i].by \in Requests /\ pc'[branch[i].by] \in {"deliver", "done"}
        BY <4>2, <2>4 DEF CommitOK
      <4> QED
        BY <4>1, <4>2, <4>3 DEF CommitOK
    <3> QED
      BY <3>1, <3>2
  <2> QED
    BY <2>5, <2>6, <2>7, <2>8 DEF IInv
<1> QED
  BY <1>2, <1>3 DEF Push, Answers

LEMMA StepHolds == IInv /\ [Next]_vars => IInv'
<1> SUFFICES ASSUME IInv, [Next]_vars PROVE IInv'
  OBVIOUS
<1>1. ASSUME NEW r \in Requests, Put(r) PROVE IInv'
  <2>1. pc[r] = "put" /\ UNCHANGED << ask, registry, branch, base, out >>
    BY <1>1 DEF Put
  <2>2. Goes(r, "clone") \/ Goes(r, "done")
    BY <1>1 DEF Put, Opens, Answers
  <2> QED
    BY <2>1, <2>2, MoveStep
<1>2. ASSUME NEW r \in Requests, Change(r) PROVE IInv'
  <2>1. /\ pc[r] = "start" /\ ask[r].op # "install"
        /\ UNCHANGED << ask, registry, branch, base, out >>
    BY <1>2 DEF Change
  <2>2. Goes(r, "clone") \/ Goes(r, "done")
    BY <1>2 DEF Change, Opens, Answers
  <2> QED
    BY <2>1, <2>2, MoveStep
<1>3. ASSUME NEW r \in Requests, Deliver(r) PROVE IInv'
  <2>1. /\ pc[r] = "deliver" /\ Goes(r, "done")
        /\ UNCHANGED << ask, registry, branch, base, out >>
    BY <1>3 DEF Deliver, Answers
  <2> QED
    BY <2>1, MoveStep
<1>4. CASE UNCHANGED vars
  BY <1>4 DEF vars, IInv, TypeInv, AskInv, PushInv, CommitInv
<1> QED
  BY <1>1, <1>2, <1>3, <1>4, InstallStep, RollbackStep, CloneStep, PushStep DEF Next

---------------------------------------------------------------------------
(* The theorems                                                            *)

\* At every moment every commit is a directory in order, an install's holds what
\* was planned, and what is about to be pushed was rendered from a commit of the
\* branch.
THEOREM Invariance == Spec => []IInv
<1>1. Init => IInv
  BY InitHolds
<1>2. IInv /\ [Next]_vars => IInv'
  BY StepHolds
<1> QED
  BY <1>1, <1>2, PTL DEF Spec

\* An installed entry arrives whole, whatever else was committed in between:
\* InstallIsWhole, about renderInstall and the names the conversion wrote.
THEOREM EntriesArriveWhole == Spec => []InstallIsWhole
<1>1. IInv => InstallIsWhole
  <2> SUFFICES ASSUME IInv, NEW i \in DOMAIN branch, InstalledBy(branch[i])
               PROVE  EntryIsWhole(ask[branch[i].by].template, branch[i])
    BY DEF InstallIsWhole
  <2> DEFINE c == branch[i]
             a == ask[c.by]
  <2>1. DOMAIN branch = 1 .. Len(branch)
    BY DEF IInv, TypeInv, IsSequence
  <2>2. IsPlanned(a, registry) /\ Holds(a.template, a.plan, c.files)
    BY <2>1 DEF IInv, CommitInv, CommitOK, InstalledBy
  <2> HIDE DEF c, a
  <2>3. SUFFICES EntryIsWhole(a.template, c)
    BY DEF c, a
  <2> QED
    BY <2>2, OneManifestEach, DatabaseIsBeside, RepointedResolve DEF EntryIsWhole
<1> QED
  BY <1>1, Invariance, PTL

\* What an entry has minted is one whole value with one variable to take it:
\* SharedValuesAreNeverMintedTwice, about plannedSecrets and attachSecrets.
THEOREM ValuesAreMintedOnce == Spec => []SharedValuesAreNeverMintedTwice
<1>1. IInv => SharedValuesAreNeverMintedTwice
  <2> SUFFICES ASSUME IInv, NEW i \in DOMAIN branch, InstalledBy(branch[i]),
                      NEW f \in ObjectsOf(branch[i], "Workload"),
                      NEW g \in branch[i].files[f].generated
               PROVE  \E source \in g.sources :
                         /\ g.sources = {source}
                         /\ Cardinality(Takers(ask[branch[i].by].template, source)) = 1
    BY DEF SharedValuesAreNeverMintedTwice
  <2> DEFINE c == branch[i]
             a == ask[c.by]
  <2>1. DOMAIN branch = 1 .. Len(branch)
    BY DEF IInv, TypeInv, IsSequence
  <2>2. IsPlanned(a, registry) /\ Holds(a.template, a.plan, c.files)
    BY <2>1 DEF IInv, CommitInv, CommitOK, InstalledBy
  <2>3. PICK j \in Apps(a.template) : c.files[f].generated = a.plan.workloads[j].generated
    BY <2>2 DEF Holds, ObjectsOf, IsInstalled
  <2> QED
    BY <2>2, <2>3, OneTaker
<1> QED
  BY <1>1, Invariance, PTL

\* A commit changes the part its request is about and nothing else of the commit
\* before it: ChangesItsPartOnly, about carryForward, the renders, manifest.Owns
\* and a push without force.
THEOREM CommitsKeepTheRest == Spec => ChangesItsPartOnly
<1>1. IInv /\ [Next]_vars =>
        [branch' # branch =>
           LET c == branch'[Len(branch')]
           IN  \A f \in DOMAIN Current : StandsIn(ask[c.by], f, Current, c.files)]_vars
  <2> SUFFICES ASSUME IInv, Next, branch' # branch
               PROVE  LET c == branch'[Len(branch')]
                      IN  \A f \in DOMAIN Current : StandsIn(ask[c.by], f, Current, c.files)
    BY DEF vars
  <2>1. PICK r \in Requests : Push(r)
    BY DEF Next, Install, Put, Change, Rollback, Clone, Deliver
  <2>2. pc[r] = "push" /\ Len(branch) = base[r]
        /\ branch' = Append(branch, [by |-> r, files |-> out[r]])
    BY <2>1 DEF Push
  <2> DEFINE c == [by |-> r, files |-> out[r]]
  <2>3. c.by = r /\ c.files = out[r] /\ branch' = Append(branch, c)
    BY <2>2
  <2> HIDE DEF c
  <2>4. branch'[Len(branch')] = c
    <3>1. PICK S : branch \in Seq(S)
      BY DEF IInv, TypeInv, IsSequence
    <3>2. branch \in Seq(S \union {c}) /\ c \in S \union {c}
      BY <3>1
    <3> QED
      BY <2>3, <3>2
  <2>5. \A f \in DOMAIN Current : StandsIn(ask[r], f, Current, out[r])
    BY <2>2, PushLands DEF Keeps
  <2> QED
    BY <2>3, <2>4, <2>5
<1> QED
  BY <1>1, Invariance, PTL DEF Spec, ChangesItsPartOnly
=============================================================================
