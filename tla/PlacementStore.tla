-------------------------- MODULE PlacementStore --------------------------
(***************************************************************************)
(* Where each app environment lives, and whose the repository and the      *)
(* namespace are: the SQL placement store                                  *)
(* (placement/internal/sqlstore/store.go) at the granularity of its        *)
(* statements, under the two handlers that write to it, createApp and      *)
(* deleteApp (server/apps.go), and the delivery that follows a create      *)
(* (server/delivery.go).                                                   *)
(*                                                                         *)
(* On sqlite one connection runs one transaction at a time.  On postgres   *)
(* transactions interleave under READ COMMITTED: a statement sees what is  *)
(* committed when it starts and what its own transaction wrote, and waits  *)
(* for an open transaction that wrote the row or the unique value it       *)
(* writes.  INSERT ... ON CONFLICT DO NOTHING that finds the value taken   *)
(* writes nothing and locks nothing.                                       *)
(***************************************************************************)
EXTENDS Naturals, Sequences, FiniteSets

CONSTANTS
    Clients,    \* requests under way at once
    Places,     \* the placements asked for: [key, repo, dir, ns]
    Engines,    \* the engines an install may run on
    None

\* A key is [tenant, app, env]; dir stands for branch and path together.  App
\* and namespace are sequences of the parts between the dashes of their names.
Repos == {p.repo : p \in Places}
Namespaces == {p.ns : p \in Places}
Keys == {p.key : p \in Places}
Tenants == {k.tenant : k \in Keys}

ASSUME PlacementAssumption ==
    /\ Engines \subseteq {"sqlite", "postgres"}
    /\ Repos \intersect Namespaces = {}
    /\ None \notin Places

VARIABLES
    engine,     \* the engine of this install
    rows,       \* placement, committed: key -> placement
    owners,     \* repo_owner and namespace_owner, committed: value -> tenant
    apps,       \* the Argo CD Applications: name -> the placement it tracks
    pc,         \* the statement each client is about to run
    want,       \* the placement it creates, or None
    todo,       \* the keys it deletes
    tx          \* what its transaction has written: [claims, row, gone, released]

vars == << engine, rows, owners, apps, pc, want, todo, tx >>

NoTx == [claims |-> {}, row |-> None, gone |-> {}, released |-> {}]

InTx(c) == pc[c] \notin {"idle", "put", "delete", "deliver"}

\* mutant: the pool may open a second writer connection
MayBeginPooled == TRUE

\* A statement or a transaction starts: sqlite has SetMaxOpenConns(1), for the
\* reads as well.
MayBegin == engine = "postgres" \/ \A c \in Clients : ~ InTx(c)

\* Another transaction has written this value, or these rows, and not ended: the
\* row it puts and the committed ones it replaces or deletes.
Pending(c, v) == \E d \in Clients \ {c} : v \in tx[d].claims \union tx[d].released
Put(d) == IF tx[d].row = None THEN {} ELSE {tx[d].row}
Replaced(d) ==
    {rows[k] : k \in DOMAIN rows \intersect (tx[d].gone \union {p.key : p \in Put(d)})}
PendingRows(c) == UNION {Put(d) \union Replaced(d) : d \in Clients \ {c}}

\* What a statement of c sees.
SeenRows(c) == ({rows[k] : k \in DOMAIN rows} \ Replaced(c)) \union Put(c)
SeenOwned(c) == (DOMAIN owners \ tx[c].released) \union tx[c].claims

Tenant(c) == want[c].key.tenant
OwnerSeen(c, v) == IF v \in tx[c].claims THEN Tenant(c) ELSE owners[v]

At(c, where) == pc' = [pc EXCEPT ![c] = where]

\* An error return, with the deferred Rollback.
Fail(c) ==
    /\ At(c, "idle")
    /\ tx' = [tx EXCEPT ![c] = NoTx]
    /\ want' = [want EXCEPT ![c] = None]
    /\ todo' = [todo EXCEPT ![c] = {}]
    /\ UNCHANGED << engine, rows, owners, apps >>

Init ==
    /\ engine \in Engines
    /\ rows = << >> /\ owners = << >> /\ apps = << >>
    /\ pc = [c \in Clients |-> "idle"]
    /\ want = [c \in Clients |-> None]
    /\ todo = [c \in Clients |-> {}]
    /\ tx = [c \in Clients |-> NoTx]

---------------------------------------------------------------------------
(* createApp                                                               *)

\* Get, outside any transaction: an app that exists is a 409, the others go on.
\* installFromCatalog starts the same way, with a deploy before its delivery.
CreateApp(c, p) ==
    /\ pc[c] = "idle" /\ MayBegin /\ p.key \notin DOMAIN rows
    /\ At(c, "put") /\ want' = [want EXCEPT ![c] = p]
    /\ UNCHANGED << engine, rows, owners, apps, todo, tx >>

PutBegin(c) ==
    /\ pc[c] = "put" /\ MayBegin
    /\ At(c, "claimRepo")
    /\ UNCHANGED << engine, rows, owners, apps, want, todo, tx >>

\* INSERT INTO repo_owner (or namespace_owner) ... ON CONFLICT DO NOTHING
Claim(c, from, v, to) ==
    /\ pc[c] = from /\ ~ Pending(c, v)
    /\ At(c, to)
    /\ tx' = IF v \in DOMAIN owners THEN tx
             ELSE [tx EXCEPT ![c].claims = @ \union {v}]
    /\ UNCHANGED << engine, rows, owners, apps, want, todo >>

\* SELECT tenant_id: nobody there is sql.ErrNoRows, another tenant ErrConflict.
Check(c, from, v, to) ==
    /\ pc[c] = from
    /\ IF v \in SeenOwned(c) /\ OwnerSeen(c, v) = Tenant(c)
       THEN At(c, to) /\ UNCHANGED << engine, rows, owners, apps, want, todo, tx >>
       ELSE Fail(c)

ClaimRepo(c) == Claim(c, "claimRepo", want[c].repo, "readRepo")
ReadRepoOwner(c) == Check(c, "readRepo", want[c].repo, "claimNs")
ClaimNamespace(c) == Claim(c, "claimNs", want[c].ns, "readNs")
ReadNamespaceOwner(c) == Check(c, "readNs", want[c].ns, "collide")

\* Two placements that land in one directory or name one object.
Collides(p, q) ==
    /\ p.key # q.key
    /\ \/ p.repo = q.repo /\ p.dir = q.dir
       \/ p.ns = q.ns /\ p.key.app = q.key.app

Collision(c) ==
    /\ pc[c] = "collide"
    /\ IF \E q \in SeenRows(c) : Collides(want[c], q)
       THEN Fail(c)
       ELSE At(c, "upsert") /\ UNCHANGED << engine, rows, owners, apps, want, todo, tx >>

\* mutant: the schema before 0005_one_landing_site.sql
UniqueNotYet(c) == TRUE

\* placement_one_directory and placement_one_object
Unique(c) == \A q \in SeenRows(c) : ~ Collides(want[c], q)

\* INSERT ... ON CONFLICT (tenant_id, app, env) DO UPDATE
Upsert(c) ==
    /\ pc[c] = "upsert"
    /\ \A q \in PendingRows(c) : q.key # want[c].key /\ ~ Collides(want[c], q)
    /\ IF Unique(c)
       THEN /\ At(c, "releaseRepo")
            /\ tx' = [tx EXCEPT ![c].row = want[c]]
            /\ UNCHANGED << engine, rows, owners, apps, want, todo >>
       ELSE Fail(c)

---------------------------------------------------------------------------
(* deleteApp: every environment of the app, listed first, then one         *)
(* transaction each, in any order of the names.                            *)

DeleteApp(c, tenant, app) ==
    /\ pc[c] = "idle" /\ MayBegin
    /\ LET envs == {k \in DOMAIN rows : k.tenant = tenant /\ k.app = app}
       IN  envs # {} /\ todo' = [todo EXCEPT ![c] = envs]
    /\ At(c, "delete")
    /\ UNCHANGED << engine, rows, owners, apps, want, tx >>

\* BEGIN; DELETE FROM placement.  A row that is not there is no error.
DeleteRow(c) ==
    /\ pc[c] = "delete" /\ MayBegin
    /\ \E k \in todo[c] :
          /\ k \in DOMAIN rows => rows[k] \notin PendingRows(c)
          /\ tx' = [tx EXCEPT ![c].gone = {k} \intersect DOMAIN rows]
          /\ todo' = [todo EXCEPT ![c] = @ \ {k}]
    /\ At(c, "releaseRepo")
    /\ UNCHANGED << engine, rows, owners, apps, want >>

---------------------------------------------------------------------------
(* releaseUnused and COMMIT, at the end of Put and of Delete               *)

\* mutant: only Delete releases, Put does not
UnusedByDelete(c, vs) ==
    IF tx[c].row # None THEN {}
    ELSE {v \in vs \intersect SeenOwned(c) :
             \A p \in SeenRows(c) : p.repo # v /\ p.ns # v}

\* WHERE value NOT IN (SELECT value FROM placement)
Unused(c, vs) ==
    {v \in vs \intersect SeenOwned(c) :
        \A p \in SeenRows(c) : p.repo # v /\ p.ns # v}

Release(c, from, vs, to) ==
    /\ pc[c] = from
    /\ \A v \in Unused(c, vs) : ~ Pending(c, v)
    /\ tx' = [tx EXCEPT ![c].released = @ \union (Unused(c, vs) \ tx[c].claims),
                        ![c].claims = @ \ Unused(c, vs)]
    /\ At(c, to)
    /\ UNCHANGED << engine, rows, owners, apps, want, todo >>

ReleaseRepos(c) == Release(c, "releaseRepo", Repos, "releaseNs")
ReleaseNamespaces(c) == Release(c, "releaseNs", Namespaces, "commit")

Commit(c) ==
    /\ pc[c] = "commit"
    /\ LET put == {p.key : p \in Put(c)}
       IN  /\ rows' = [k \in (DOMAIN rows \ tx[c].gone) \union put |->
                         IF k \in put THEN tx[c].row ELSE rows[k]]
           /\ owners' = [v \in (DOMAIN owners \ tx[c].released) \union tx[c].claims |->
                           IF v \in tx[c].claims THEN Tenant(c) ELSE owners[v]]
    /\ At(c, IF want[c] # None THEN "deliver"
             ELSE IF todo[c] = {} THEN "idle" ELSE "delete")
    /\ tx' = [tx EXCEPT ![c] = NoTx]
    /\ UNCHANGED << engine, apps, want, todo >>

---------------------------------------------------------------------------
(* Deliver: the last step of createApp, after the row is committed.        *)

ApplicationName(p) == p.ns \o p.key.app

\* The repository Secret and then the Application, by server-side apply with
\* ForceOwnership: created, or its source replaced.  An error, which is Abort
\* here, does not undo the row.
Deliver(c) ==
    /\ pc[c] = "deliver"
    /\ LET name == ApplicationName(want[c])
       IN  apps' = [n \in DOMAIN apps \union {name} |->
                      IF n = name THEN want[c] ELSE apps[n]]
    /\ At(c, "idle")
    /\ want' = [want EXCEPT ![c] = None]
    /\ UNCHANGED << engine, rows, owners, todo, tx >>

\* A cancelled request, a lost connection, a deadlock the server breaks.
Abort(c) == pc[c] # "idle" /\ Fail(c)

Next ==
    \E c \in Clients :
        \/ \E p \in Places : CreateApp(c, p)
        \/ PutBegin(c) \/ ClaimRepo(c) \/ ReadRepoOwner(c)
        \/ ClaimNamespace(c) \/ ReadNamespaceOwner(c)
        \/ Collision(c) \/ Upsert(c)
        \/ \E k \in Keys : DeleteApp(c, k.tenant, k.app)
        \/ DeleteRow(c)
        \/ ReleaseRepos(c) \/ ReleaseNamespaces(c) \/ Commit(c)
        \/ Deliver(c) \/ Abort(c)

Spec == Init /\ [][Next]_vars

---------------------------------------------------------------------------
(* Properties                                                              *)

\* The type of the state: rows are filed under their own key, Applications under
\* their own name, and a client outside a transaction has nothing written in it.
TypeOK ==
    /\ DOMAIN rows \subseteq Keys /\ \A k \in DOMAIN rows : rows[k] \in Places
    /\ \A k \in DOMAIN rows : rows[k].key = k
    /\ owners \in [DOMAIN owners -> Tenants]
    /\ DOMAIN owners \subseteq Repos \union Namespaces
    /\ want \in [Clients -> Places \union {None}]
    /\ \A n \in DOMAIN apps : apps[n] \in Places /\ ApplicationName(apps[n]) = n
    /\ \A c \in Clients : todo[c] \subseteq Keys /\ (tx[c] # NoTx => InTx(c))

\* "A repository is claimed by the first tenant to place anything in it and
\* stays theirs until every placement pointing at it is deleted", and so is a
\* namespace: every placement stands in a repository and a namespace that are
\* its tenant's.
ClaimsHold ==
    \A k \in DOMAIN rows : \A v \in {rows[k].repo, rows[k].ns} :
        v \in DOMAIN owners /\ owners[v] = k.tenant

\* On sqlite, whose single connection serialises the transactions, they do.
ClaimsHoldOnSqlite == engine = "sqlite" => ClaimsHold

\* "there is no window in which one is unreferenced and still owned": after any
\* sequence of creates, replaces and deletes on sqlite, nothing is claimed that
\* no placement uses.
NoIdleClaimOnSqlite ==
    engine = "sqlite" =>
        \A v \in DOMAIN owners : \E k \in DOMAIN rows : v \in {rows[k].repo, rows[k].ns}

\* "Two placements never land in the same place", on either engine and however
\* the creates that would are interleaved: not in one directory of one branch,
\* and not as one object in one namespace.
OneLandingSite ==
    \A k, m \in DOMAIN rows : ~ Collides(rows[k], rows[m])

\* "the ref that is written is the ref that is read": an Application never comes
\* to track another directory than the one the store has for its app and
\* environment, which is where the deploys are committed.
DeliversWhatIsPlaced ==
    [][\A n \in DOMAIN apps' :
          \/ n \in DOMAIN apps /\ apps'[n] = apps[n]
          \/ apps'[n].key \in DOMAIN rows => rows[apps'[n].key] = apps'[n]]_vars
=============================================================================
