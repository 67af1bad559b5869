-------------------------- MODULE MCAppDirectory --------------------------
(***************************************************************************)
(* Small instances of AppDirectory.  Template "n" has two or three         *)
(* services: "web", in front, "worker" or its near namesakes, and "db".    *)
(***************************************************************************)
EXTENDS AppDirectory

CONSTANTS r1, r2, r3

MCApp == << "shop" >>

MCClean == [s \in {"web", "worker", "worker_a", "worker_b", "db"} |->
              CASE s = "worker_a" -> << "worker", "a" >>
                [] s = "worker_b" -> << "worker", "b" >>
                [] OTHER -> << s >>]

Val(sources, around, url, host) ==
    [sources |-> sources, around |-> around, url |-> url, host |-> host]
Password == << "PASSWORD", "N" >>

Envs ==
    {<< >>,
     [k \in {Password} |-> Bare],
     [k \in {<< "ENV", "TOKEN" >>} |-> Val({Password}, FALSE, FALSE, None)],
     [k \in {<< "ENV", "URL" >>} |-> Val({}, FALSE, TRUE, None)],
     [k \in {<< "ENV", "LINK" >>} |-> Val({Password}, TRUE, TRUE, None)],
     [k \in {<< "ENV", "DSN" >>} |-> Val({Password}, TRUE, FALSE, "db")],
     [k \in {<< "ENV", "ADDR" >>, << "ENV", "BACK" >>} |->
        Val({}, FALSE, FALSE, IF k[2] = "ADDR" THEN "db" ELSE "web")]}

Svc(name, database, ref, ports, health, env, volumes) ==
    [name |-> name, image |-> [database |-> database, ref |-> ref], ports |-> ports,
     health |-> health, env |-> env, volumes |-> volumes]

Published(p) == << [host |-> 80, container |-> p] >>

\* The services in the order of their names.
Db(env) == Svc("db", TRUE, "tag", << >>, 0, env, << >>)
Web(ref, volumes, env) == Svc("web", FALSE, ref, Published(8080), 0, env, volumes)
Worker(name, port, env) == Svc(name, FALSE, "tag", << >>, port, env, << >>)

Template(port, services) == [name |-> "n", port |-> port, services |-> services]

Templates ==
    {Template(8080, << Db(d), Web("tag", << >>, w), Worker("worker", 9000, x) >>) :
        d \in {<< >>, [k \in {Password} |-> Bare]}, w \in Envs, x \in Envs}
    \union {Template(0, << Web("latest", << "named", "bind" >>, e) >>) : e \in Envs}
    \union {Template(8080, << Web("tag", << >>, << >>), Worker("worker_a", 0, << >>),
                              Worker("worker_b", 9000, << >>) >>),
            Template(0, << Db(<< >>) >>)}

\* Nothing names a port, so the first service is in front: a Database.
Headless == Template(0, << Db(<< >>), Web("tag", << >>, << >>),
                           Worker("worker", 9000, [k \in {<< "ENV", "BACK" >>} |->
                                                     Val({}, FALSE, FALSE, "web")]) >>)

\* The two templates that are installed beside other requests.
Pair == Template(8080, << Db(<< >>), Web("tag", << >>, << >>),
                          Worker("worker", 9000, [k \in {Password} |-> Bare]) >>)
Kept == Template(0, << Web("tag", << "named" >>, << >>) >>)

Install1(t) == [op |-> "install", template |-> t]
Others == {[op |-> "deploy", image |-> "v1"], [op |-> "rollback", to |-> 2],
           [op |-> "scale", replicas |-> 2], [op |-> "save", settings |-> "s"],
           [op |-> "createDatabase", name |-> << "n", "db" >>],
           [op |-> "deleteDatabase", name |-> << "n", "db" >>]}

MCAsks ==
    {[r \in Requests |-> CASE r = r1 -> Install1(t)
                           [] r = r2 -> [op |-> "deploy", image |-> "v1"]
                           [] OTHER -> [op |-> "scale", replicas |-> 1]] : t \in Templates \union {Headless}}
    \union {[r \in Requests |-> CASE r = r1 -> Install1(t) [] r = r2 -> a [] OTHER -> b] :
              t \in {Pair, Kept}, a \in Others \union {Install1(Kept)}, b \in Others}
    \union {[r \in Requests |-> CASE r = r1 -> [op |-> "deploy", image |-> "v0"]
                                  [] r = r2 -> a [] OTHER -> b] : a \in Others, b \in Others}

MCRegistries == {[pin |-> "digest", ports |-> {3000}]}
              \union {[pin |-> p, ports |-> {}] : p \in {"off", "unchanged"}}

Alien == << "Foreign", << "x" >> >>
MCStarts == {[placed |-> p, files |-> [f \in {Alien} |-> [kind |-> "Foreign"]]] : p \in BOOLEAN}
MCFresh == {s \in MCStarts : ~ s.placed}
============================================================================
