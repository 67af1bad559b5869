-------------------------- MODULE ComposeCatalog --------------------------
(***************************************************************************)
(* What a catalogue entry becomes: a compose template converted to         *)
(* Workloads and Databases (compose/convert.go), planned (catalog/plan.go) *)
(* and refused for what the platform cannot say (server/catalog.go).       *)
(*                                                                         *)
(* A template is [name, port, services]; its services are in the order of  *)
(* their names, each [name, image, ports, health, env, volumes].  Texts    *)
(* are left out: an image is [database, ref], a variable's value is        *)
(* [sources, around, url, host], the generated values it names, whether    *)
(* there is text around them, whether it asks for the public URL, and the  *)
(* host it addresses.  Names are the sequences of their parts.             *)
(***************************************************************************)
EXTENDS Naturals, Sequences, FiniteSets

CONSTANTS
    Clean,      \* the parts of a service's name once it is a DNS label
    MaxName,    \* objectName: how many parts of a name are kept
    MaxVolumes, \* how many volumes a Workload holds
    MaxSecrets, \* maxGeneratedSecrets
    None

ASSUME ComposeAssumption ==
    /\ MaxName \in Nat \ {0} /\ MaxVolumes \in Nat /\ MaxSecrets \in Nat
    /\ \A service \in DOMAIN Clean : Clean[service] \in Seq(STRING)

AtMost(n, m) == IF m > n THEN n ELSE m
Elements(s) == {s[i] : i \in DOMAIN s}
First(S) == CHOOSE i \in S : \A j \in S : i <= j

---------------------------------------------------------------------------
(* The conversion                                                          *)

\* objectName: cleaned, and cut at the limit; two names may come out as one.
ObjectName(parts) == SubSeq(parts, 1, AtMost(MaxName, Len(parts)))
NameOf(t, service) == ObjectName(<< t.name >> \o Clean[service])

\* A source is << prefix, name >>, SERVICE_PASSWORD_N8N.
MagicKind(source) ==
    CASE source[1] \in {"PASSWORD", "USER", "HEX"} -> source[1]
      [] source[1] \in {"BASE64", "REALBASE64"} -> "BASE64"
      [] OTHER -> "unknown"

\* The sources a value names; a variable with no value asks for its own name.
Bare == [sources |-> {}, around |-> FALSE, url |-> FALSE, host |-> None]
IsMagic(key) == key[1] \notin {"ENV", "env"}
SourcesIn(key, v) == IF v = Bare /\ IsMagic(key) THEN {key} ELSE v.sources
DeclaredSources(svc) == UNION {SourcesIn(k, svc.env[k]) : k \in DOMAIN svc.env}

AsDatabase(svc) == svc.image.database

\* strings.Contains on the decimal digits.
Mentions(p, port) == \E i, j \in 0 .. 5 : (p \div 10^i) % 10^j = port

\* The service the template's port belongs to, or the first.
PrimaryService(t) ==
    LET named(svc) == /\ Len(t.services) > 1 /\ t.port > 0
                      /\ \/ \E i \in DOMAIN svc.ports :
                              Mentions(svc.ports[i].host, t.port)
                                 \/ Mentions(svc.ports[i].container, t.port)
                         \/ Mentions(svc.health, t.port)
        hits == {i \in DOMAIN t.services : named(t.services[i])}
    IN  t.services[IF hits = {} THEN 1 ELSE First(hits)].name

\* The template's port, the first published one, the healthcheck's; 0 is none.
PortOf(t, svc) ==
    IF svc.name = PrimaryService(t) /\ t.port > 0 THEN t.port
    ELSE IF svc.ports # << >> THEN svc.ports[1].container ELSE svc.health

\* mutant: the application's own address is repointed too, at the name it had
\* before the install renames it
RewriteSiblingsAll(t, self, host) ==
    IF host = self \/ host \notin {s.name : s \in Elements(t.services)}
    THEN << host >> ELSE NameOf(t, host)

\* A sibling's address is repointed at the sibling's object, except the
\* application's own, whose name is chosen later.
RewriteSiblings(t, self, host) ==
    IF host \in {self, PrimaryService(t)}
         \/ host \notin {s.name : s \in Elements(t.services)}
    THEN << host >> ELSE NameOf(t, host)

\* Volumes with a target, of which the first ones are kept.
Mounted(svc) ==
    AtMost(MaxVolumes, Cardinality({i \in DOMAIN svc.volumes : svc.volumes[i] = "named"}))

\* A variable that asks for the URL is dropped, one that names a generated value
\* is asked for, the others are written.
AsWorkload(t, svc) ==
    LET asks == {k \in DOMAIN svc.env : SourcesIn(k, svc.env[k]) # {} /\ ~ svc.env[k].url}
        kept == {k \in DOMAIN svc.env : SourcesIn(k, svc.env[k]) = {} /\ ~ svc.env[k].url}
    IN  [kind |-> "Workload", service |-> svc.name, group |-> t.name,
         name |-> IF Len(t.services) = 1 THEN ObjectName(<< t.name >>) ELSE NameOf(t, svc.name),
         image |-> svc.image.ref, port |-> PortOf(t, svc), database |-> None,
         hosts |-> {RewriteSiblings(t, svc.name, svc.env[k].host) :
                       k \in {x \in kept : svc.env[x].host # None}},
         volumes |-> Mounted(svc), replicas |-> 1, settings |-> None, id |-> 0,
         generated |-> {[key |-> k, sources |-> SourcesIn(k, svc.env[k]),
                         around |-> svc.env[k].around] : k \in asks}]

Database(name, group, service) ==
    [kind |-> "Database", name |-> name, group |-> group, service |-> service]

\* Every service is a Workload or a Database, under its place in the template.
Dbs(t) == {i \in DOMAIN t.services : AsDatabase(t.services[i])}
Apps(t) == DOMAIN t.services \ Dbs(t)

\* The first workload when the service in front is a Database.
Front(t) ==
    LET fronts == {i \in Apps(t) : t.services[i].name = PrimaryService(t)}
    IN  First(IF fronts = {} THEN Apps(t) ELSE fronts)

\* linkDatabase: one Database is named by the front workload, several by none.
LinkedDatabase(t, i) ==
    IF i = Front(t) /\ Cardinality(Dbs(t)) = 1
    THEN NameOf(t, t.services[First(Dbs(t))].name) ELSE None

Convert(t) ==
    [workloads |-> [i \in Apps(t) |-> [AsWorkload(t, t.services[i])
                                          EXCEPT !.database = LinkedDatabase(t, i)]],
     databases |-> [i \in Dbs(t) |-> Database(NameOf(t, t.services[i].name), t.name,
                                              t.services[i].name)],
     images |-> {t.services[i].image.ref : i \in Dbs(t)},
     primary |-> Front(t),
     owned |-> UNION {DeclaredSources(t.services[i]) : i \in Dbs(t)}]

\* compose.Convert refuses a template with nothing to run.
Converts(t) == Apps(t) # {}

---------------------------------------------------------------------------
(* The plan.  The registry answers with pin, "off" when nobody asks it and *)
(* "error" when it fails, and the ports an image exposes.                  *)

RefusedImage(ref) == ref \in {"latest", "none"}

\* pinImages: only a refused reference is resolved.
Pinned(ref, registry) ==
    IF RefusedImage(ref) /\ registry.pin \notin {"off", "error"} THEN registry.pin ELSE ref

\* resolvePorts: exactly one exposed port is an answer.
Listens(w, registry) ==
    IF w.port = 0 /\ Cardinality(registry.ports) = 1
    THEN CHOOSE p \in registry.ports : TRUE ELSE w.port

\* attachSecrets: a value built from what a Database mints cannot be handed over.
OwnedByDatabase(g, res) == g.sources \intersect res.owned # {}

PlanOf(t, registry) ==
    LET res == Convert(t)
        planned(w) == [w EXCEPT !.image = Pinned(@, registry), !.port = Listens(w, registry),
                                !.generated = {g \in @ : ~ OwnedByDatabase(g, res)}]
        workloads == [i \in DOMAIN res.workloads |-> planned(res.workloads[i])]
    IN  [workloads |-> workloads, databases |-> res.databases, primary |-> res.primary,
         blocked |-> \/ \E w \in Elements(res.workloads) : \E g \in w.generated :
                           OwnedByDatabase(g, res)
                     \/ \E ref \in res.images : RefusedImage(Pinned(ref, registry))
                     \/ \E w \in Elements(workloads) : RefusedImage(w.image) \/ w.port = 0]

---------------------------------------------------------------------------
(* What the install refuses of a plan                                      *)

GeneratedKind(kind) == kind \in {"PASSWORD", "HEX", "BASE64"}

\* The requests for a generated value: << workload, request >>.
Asked(p) == UNION {{<< i, g >> : g \in p.workloads[i].generated} : i \in DOMAIN p.workloads}

\* One whole value, of a kind that is minted, under a name the API takes.
Mintable(g) ==
    /\ Cardinality(g.sources) = 1 /\ ~ g.around
    /\ \A s \in g.sources : GeneratedKind(MagicKind(s))
    /\ g.key[1] # "env"

\* mutant: a source is claimed within one workload only
PlannedSecretsApart(p) ==
    {k \in Asked(p) : \/ ~ Mintable(k[2])
                      \/ \E l \in Asked(p) \ {k} : l[1] = k[1] /\ l[2].sources = k[2].sources}

\* plannedSecrets: the requests that cannot be minted, whose source another
\* variable of any workload names too, or that are too many for a workload.
PlannedSecrets(p) ==
    {k \in Asked(p) : \/ ~ Mintable(k[2])
                      \/ \E l \in Asked(p) \ {k} : l[2].sources = k[2].sources
                      \/ Cardinality(p.workloads[k[1]].generated) > MaxSecrets}

WhyRefused(p) == p.blocked \/ PlannedSecrets(p) # {}
============================================================================
