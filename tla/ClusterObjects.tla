-------------------------- MODULE ClusterObjects --------------------------
(***************************************************************************)
(* The API server, as the operator's reconcilers use it: the custom        *)
(* resources and the objects of one namespace, the manager's cache that    *)
(* reads are answered from, and the queue the watches fill.                *)
(*                                                                         *)
(* The cache of a kind lags behind the server by any amount and never runs *)
(* backwards.  A read and the write that follows it are therefore one step *)
(* here: whatever happens between the two is a cache that lags.  Two reads *)
(* of the same object stay two steps.  The cache of the custom resources   *)
(* needs no variable: a pass that starts on an old copy is a slow pass.    *)
(***************************************************************************)
EXTENDS Naturals, Sequences, FiniteSets

CONSTANTS
    Owners,             \* the custom resources: [kind, name]
    SpecsOf(_),         \* the specs somebody may write for one
    Tampered,           \* the keys of objects somebody else may touch
    Lagging,            \* the kinds whose cache lags (in the manager: every cached one)
    MaxDisruptions,     \* how often a resource is deleted or its spec edited, an
                        \* object tampered with, or the operator restarted
    None

\* Names are sequences of the parts between their dashes: the operator builds
\* names by joining names.
ASSUME ClusterAssumption ==
    /\ \A o \in Owners : o.kind \in {"Workload", "Database"}
    /\ MaxDisruptions \in Nat

VARIABLES
    crs,        \* owner -> None or [inc, gen, spec, status]
    objs,       \* key -> [ctrl, mine, others], the objects that exist
    seen,       \* those of the lagging kinds, in the cache
    queue,      \* the owners the work queue holds
    made,       \* owner -> how often it has been created
    spent       \* how many of the MaxDisruptions have happened

cluster == << crs, objs, seen, queue, made, spent >>

Key(kind, name) == [kind |-> kind, name |-> name]
Lookup(f, k) == IF k \in DOMAIN f THEN f[k] ELSE None
With(f, k, v) == [x \in DOMAIN f \union {k} |-> IF x = k THEN v ELSE f[x]]
Without(f, k) == [x \in DOMAIN f \ {k} |-> f[x]]

\* What a controller reference names: this owner in this incarnation.
Ref(o, inc) == [owner |-> o, inc |-> inc]
Alive(ref) == ref # None /\ crs[ref.owner] # None /\ crs[ref.owner].inc = ref.inc
OwnersOf(x) == IF x = None \/ x.ctrl = None THEN {} ELSE {x.ctrl.owner}

\* Nothing watches the certificates, the claims and the generated Secrets.
Watched(k) == k.kind \notin {"Certificate", "PersistentVolumeClaim", "GeneratedSecret"}
Read(k) == IF k.kind \in Lagging THEN Lookup(seen, k) ELSE Lookup(objs, k)

\* Owns: a change of an object wakes its controller, before and after.
Woken(old, new, kinds) ==
    UNION {OwnersOf(Lookup(old, k)) \union OwnersOf(Lookup(new, k)) :
              k \in {x \in DOMAIN old \union DOMAIN new :
                        /\ x.kind \in kinds /\ Watched(x)
                        /\ Lookup(old, x) # Lookup(new, x)}}

KindsIn(f) == {k.kind : k \in DOMAIN f}

\* The server stores the objects; the events of the kinds that lag come later.
Store(new) ==
    /\ objs' = new
    /\ queue' = queue \union Woken(objs, new, (KindsIn(objs) \union KindsIn(new)) \ Lagging)
    /\ UNCHANGED seen

ClusterInit ==
    /\ crs = [o \in Owners |-> None]
    /\ objs = << >> /\ seen = objs
    /\ queue = {}
    /\ made = [o \in Owners |-> 0]
    /\ spent = 0

---------------------------------------------------------------------------
(* Everybody but the operator                                              *)

Disrupt == spent < MaxDisruptions /\ spent' = spent + 1

CreateOwner(o, spec) ==
    /\ crs[o] = None
    /\ made' = [made EXCEPT ![o] = @ + 1]
    /\ crs' = [crs EXCEPT ![o] =
                 [inc |-> made[o] + 1, gen |-> 1, spec |-> spec, status |-> None]]
    /\ queue' = queue \union {o}
    /\ UNCHANGED << objs, seen, spent >>

EditOwner(o, spec) ==
    /\ crs[o] # None /\ crs[o].spec # spec /\ Disrupt
    /\ o.kind = "Database" => spec.engine = crs[o].spec.engine   \* immutable
    /\ crs' = [crs EXCEPT ![o].spec = spec, ![o].gen = @ + 1]
    /\ queue' = queue \union {o}
    /\ UNCHANGED << objs, seen, made >>

DeleteOwner(o) ==
    /\ crs[o] # None /\ Disrupt
    /\ crs' = [crs EXCEPT ![o] = None]
    /\ queue' = queue \union {o}
    /\ UNCHANGED << objs, seen, made >>

\* The garbage collector removes what a dead owner controls.
Collect(k) ==
    /\ k \in DOMAIN objs /\ objs[k].ctrl # None /\ ~ Alive(objs[k].ctrl)
    /\ Store(Without(objs, k))
    /\ UNCHANGED << crs, made, spent >>

\* An administrator makes an object by hand, spoils what the operator rendered,
\* or deletes it.
Tamper(k) ==
    /\ Disrupt
    /\ \/ /\ k \notin DOMAIN objs
          /\ Store(With(objs, k, [ctrl |-> None, mine |-> None, others |-> {"admin"}]))
       \/ /\ k \in DOMAIN objs /\ objs[k].mine # None
          /\ Store([objs EXCEPT ![k].mine = None])
       \/ /\ k \in DOMAIN objs
          /\ Store(Without(objs, k))
    /\ UNCHANGED << crs, made >>

---------------------------------------------------------------------------
(* The watches                                                             *)

See(kind) ==
    LET these(f) == {k \in DOMAIN f : k.kind = kind} IN
    /\ \E k \in these(objs) \union these(seen) : Lookup(seen, k) # Lookup(objs, k)
    /\ seen' = [k \in (DOMAIN seen \ these(seen)) \union these(objs) |->
                 IF k.kind = kind THEN objs[k] ELSE seen[k]]
    /\ queue' = queue \union Woken(seen, objs, {kind})
    /\ UNCHANGED << crs, objs, made, spent >>

---------------------------------------------------------------------------
(* controllerutil.CreateOrUpdate under the ownership check of apply        *)

\* mutant: the check SetControllerReference makes, which adopts what is unowned
ForeignToSet(x, ref) == x.ctrl # None /\ x.ctrl # ref

\* GetUID() != "" && !IsControlledBy
Foreign(x, ref) == x.ctrl # ref

\* mutant: the whole map is assigned, as the mutate of the Deployment once did
Overwritten(x, want) == [x EXCEPT !.mine = want, !.others = {}]

\* The mutate functions: what the operator renders is written, and what other
\* writers put beside it is left: foreign annotations and labels, node ports,
\* scaling policies, fields of a spec this operator has no field for.
Mutated(x, want) == [x EXCEPT !.mine = want, !.others = @ \ want.takes]

\* What the write meets: the version read is the version stored, or a conflict.
Applied(ref, k, want) ==
    LET have == Read(k) IN
    IF have = None
    THEN IF k \in DOMAIN objs THEN "refused" ELSE "created"
    ELSE IF Foreign(have, ref) THEN "conflict"
    ELSE IF Mutated(have, want) = have THEN "same"
    ELSE IF Lookup(objs, k) = have THEN "updated" ELSE "refused"

Written(ref, k, want) ==
    CASE Applied(ref, k, want) = "created" ->
            With(objs, k, [ctrl |-> ref, mine |-> want, others |-> {}])
      [] Applied(ref, k, want) = "updated" ->
            With(objs, k, Mutated(Read(k), want))
      [] OTHER -> objs

\* deleteIfPresent and deleteDatabaseChild: the owner of the object that was read
\* is checked, and the delete names no version.
Deleted(ref, k) ==
    IF Read(k) = None \/ Read(k).ctrl # ref THEN objs ELSE Without(objs, k)

External ==
    \/ \E o \in Owners : \E s \in SpecsOf(o) : CreateOwner(o, s) \/ EditOwner(o, s)
    \/ \E o \in Owners : DeleteOwner(o)
    \/ \E k \in DOMAIN objs : Collect(k)
    \/ \E k \in Tampered : Tamper(k)
    \/ \E kind \in Lagging : See(kind)
=============================================================================
