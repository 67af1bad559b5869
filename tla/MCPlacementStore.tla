------------------------- MODULE MCPlacementStore -------------------------
(* Small instances of PlacementStore for TLC. *)
EXTENDS PlacementStore, TLC

CONSTANTS c1, c2

Callers == Permutations({c1, c2})

Place(tenant, app, env, repo, dir, ns) ==
    [key |-> [tenant |-> tenant, app |-> app, env |-> env],
     repo |-> <<repo>>, dir |-> dir, ns |-> ns]

\* Two tenants and two repositories.  acme has two environments of one app, one
\* of which it asks for in either repository, and a third that would land in the
\* directory of the first; globex asks for what acme may hold, in the repository
\* and in the namespace.
Contended ==
    {Place("acme", <<"api">>, "prod", "r1", "prod", <<"n1">>),
     Place("acme", <<"api">>, "prod", "r2", "prod", <<"n1">>),
     Place("acme", <<"api">>, "dev", "r1", "prod", <<"n2">>),
     Place("globex", <<"web">>, "prod", "r1", "web", <<"n1">>)}

\* Two environments of acme in one repository.
Shared ==
    {Place("acme", <<"api">>, "prod", "r1", "prod", <<"n1">>),
     Place("acme", <<"api">>, "qa", "r1", "qa", <<"n2">>)}

\* One environment of acme, asked for in either repository.
Moved ==
    {Place("acme", <<"api">>, "prod", "r1", "prod", <<"n1">>),
     Place("acme", <<"api">>, "prod", "r2", "prod", <<"n1">>)}
=============================================================================
