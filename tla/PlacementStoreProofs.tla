----------------------- MODULE PlacementStoreProofs -----------------------
(***************************************************************************)
(* Theorems about PlacementStore, for every set of requests and of         *)
(* placements they may ask for.                                            *)
(***************************************************************************)
EXTENDS PlacementStore, TLAPS

USE PlacementAssumption

---------------------------------------------------------------------------
(* Type correctness, with what each statement of a Put or a Delete has      *)
(* written by then.                                                         *)

Values == Repos \union Namespaces

TxSet == [claims : SUBSET Values, row : Places \union {None},
          gone : SUBSET Keys, released : SUBSET Values]

Putting == {"claimRepo", "readRepo", "claimNs", "readNs", "collide", "upsert"}
Ending == {"releaseRepo", "releaseNs", "commit"}
Outside == {"idle", "put", "delete", "deliver"}

\* What a request wants and has written, by the statement it is at.
Flow(at, w, t) ==
    /\ at \in {"idle", "delete"} => w = None
    /\ at \in Putting \union {"put", "deliver"} => w \in Places
    /\ at \in Outside => t = NoTx
    /\ at \in Putting => t.row = None /\ t.gone = {} /\ t.released = {}
    /\ at \in Ending => \/ w = None /\ t.row = None /\ t.claims = {}
                        \/ w \in Places /\ t.row = w /\ t.gone = {}

TypeInv ==
    /\ TypeOK
    /\ engine \in {"sqlite", "postgres"}
    /\ pc \in [Clients -> Outside \union Putting \union Ending]
    /\ tx \in [Clients -> TxSet]
    /\ todo \in [Clients -> SUBSET Keys]
    /\ \A c \in Clients : Flow(pc[c], want[c], tx[c])

\* Nothing has been asked for.
LEMMA TypeInit == Init => TypeInv
<1> SUFFICES ASSUME Init PROVE TypeInv
  OBVIOUS
<1>1. NoTx \in TxSet
  BY DEF NoTx, TxSet
<1>2. TypeOK
  BY DEF Init, TypeOK, InTx
<1>3. \A c \in Clients : Flow(pc[c], want[c], tx[c])
  BY DEF Init, Flow, Outside, Putting, Ending
<1> QED
  BY <1>1, <1>2, <1>3 DEF Init, TypeInv, Outside

\* A step of one request keeps the type when it leaves the tables typed and the
\* request with what its next statement needs.
LEMMA Frame ==
    ASSUME TypeInv, NEW c \in Clients, NEW at \in Outside \union Putting \union Ending,
           NEW w \in Places \union {None}, NEW t \in TxSet, NEW ks \in SUBSET Keys,
           Flow(at, w, t), At(c, at), UNCHANGED engine,
           want' = [want EXCEPT ![c] = w],
           tx' = [tx EXCEPT ![c] = t],
           todo' = [todo EXCEPT ![c] = ks],
           /\ DOMAIN rows' \subseteq Keys
           /\ \A k \in DOMAIN rows' : rows'[k] \in Places /\ rows'[k].key = k,
           owners' \in [DOMAIN owners' -> Tenants], DOMAIN owners' \subseteq Values,
           \A n \in DOMAIN apps' : apps'[n] \in Places /\ ApplicationName(apps'[n]) = n
    PROVE  TypeInv'
<1>1. /\ pc' \in [Clients -> Outside \union Putting \union Ending]
      /\ want' \in [Clients -> Places \union {None}]
      /\ tx' \in [Clients -> TxSet]
      /\ todo' \in [Clients -> SUBSET Keys]
  BY DEF TypeInv, TypeOK, At
<1>2. \A d \in Clients : Flow(pc'[d], want'[d], tx'[d])
  <2> TAKE d \in Clients
  <2>1. Flow(pc[d], want[d], tx[d])
    BY DEF TypeInv
  <2> QED
    BY <2>1 DEF TypeInv, TypeOK, At
<1>3. \A d \in Clients : tx'[d] # NoTx => InTx(d)'
  BY <1>2 DEF Flow, InTx, Outside
<1>4. \A d \in Clients : todo'[d] \subseteq Keys
  BY <1>1
<1>5. TypeOK'
  BY <1>1, <1>3, <1>4 DEF TypeOK, Values
<1> QED
  BY <1>1, <1>2, <1>5 DEF TypeInv
\* A step that leaves the tables, the Applications and what is wanted alone.
LEMMA Inside ==
    ASSUME TypeInv, NEW c \in Clients, NEW at \in Outside \union Putting \union Ending,
           NEW t \in TxSet, Flow(at, want[c], t), At(c, at), tx' = [tx EXCEPT ![c] = t],
           UNCHANGED << engine, rows, owners, apps, want, todo >>
    PROVE  TypeInv'
<1>1. want' = [want EXCEPT ![c] = want[c]] /\ todo' = [todo EXCEPT ![c] = todo[c]]
  BY DEF TypeInv, TypeOK
<1>2. want[c] \in Places \union {None} /\ todo[c] \in SUBSET Keys
  BY DEF TypeInv, TypeOK
<1>3. /\ DOMAIN rows' \subseteq Keys
      /\ \A k \in DOMAIN rows' : rows'[k] \in Places /\ rows'[k].key = k
      /\ owners' \in [DOMAIN owners' -> Tenants] /\ DOMAIN owners' \subseteq Values
      /\ \A n \in DOMAIN apps' : apps'[n] \in Places /\ ApplicationName(apps'[n]) = n
  BY DEF TypeInv, TypeOK, Values
<1> QED
  BY <1>1, <1>2, <1>3, Frame

\* An error return keeps the type.
LEMMA FailKeepsType ==
    ASSUME TypeInv, NEW c \in Clients, Fail(c)
    PROVE  TypeInv'
<1>1. NoTx \in TxSet /\ Flow("idle", None, NoTx)
  BY DEF NoTx, TxSet, Flow, Outside, Putting, Ending
<1>2. /\ DOMAIN rows' \subseteq Keys
      /\ \A k \in DOMAIN rows' : rows'[k] \in Places /\ rows'[k].key = k
      /\ owners' \in [DOMAIN owners' -> Tenants] /\ DOMAIN owners' \subseteq Values
      /\ \A n \in DOMAIN apps' : apps'[n] \in Places /\ ApplicationName(apps'[n]) = n
  BY DEF Fail, TypeInv, TypeOK, Values
<1> QED
  BY <1>1, <1>2, Frame DEF Fail, Outside

\* The statements of a Put, up to its row.
LEMMA PutKeepsType ==
    ASSUME TypeInv, NEW c \in Clients,
           \/ \E p \in Places : CreateApp(c, p)
           \/ PutBegin(c) \/ ClaimRepo(c) \/ ReadRepoOwner(c)
           \/ ClaimNamespace(c) \/ ReadNamespaceOwner(c)
           \/ Collision(c) \/ Upsert(c)
    PROVE  TypeInv'
<1>0. Flow(pc[c], want[c], tx[c]) /\ tx[c] \in TxSet /\ tx = [tx EXCEPT ![c] = tx[c]]
  BY DEF TypeInv
<1>1. CASE \E p \in Places : CreateApp(c, p)
  <2>1. PICK p \in Places : CreateApp(c, p)
    BY <1>1
  <2>2. Flow("put", p, tx[c])
    BY <1>0, <2>1 DEF CreateApp, Flow, Outside, Putting, Ending
  <2>3. todo' = [todo EXCEPT ![c] = todo[c]] /\ todo[c] \in SUBSET Keys
    BY <2>1 DEF CreateApp, TypeInv
  <2>4. /\ DOMAIN rows' \subseteq Keys
        /\ \A k \in DOMAIN rows' : rows'[k] \in Places /\ rows'[k].key = k
        /\ owners' \in [DOMAIN owners' -> Tenants] /\ DOMAIN owners' \subseteq Values
        /\ \A n \in DOMAIN apps' : apps'[n] \in Places /\ ApplicationName(apps'[n]) = n
    BY <2>1 DEF CreateApp, TypeInv, TypeOK, Values
  <2> QED
    BY <1>0, <2>1, <2>2, <2>3, <2>4, Frame DEF CreateApp, Outside
<1>2. CASE PutBegin(c)
  <2>1. Flow("claimRepo", want[c], tx[c])
    BY <1>0, <1>2 DEF PutBegin, Flow, Outside, Putting, Ending, NoTx
  <2> QED
    BY <1>0, <1>2, <2>1, Inside DEF PutBegin, Putting
<1>3. ASSUME NEW from \in Putting, NEW to \in Putting, NEW v \in Values,
             Claim(c, from, v, to)
      PROVE  TypeInv'
  <2> DEFINE t == IF v \in DOMAIN owners THEN tx[c]
                  ELSE [tx[c] EXCEPT !.claims = @ \union {v}]
  <2>1. t \in TxSet /\ tx' = [tx EXCEPT ![c] = t]
    BY <1>0, <1>3 DEF Claim, TxSet, TypeInv
  <2>2. Flow(to, want[c], t)
    BY <1>0, <1>3 DEF Claim, Flow, Outside, Putting, Ending, TxSet
  <2> HIDE DEF t
  <2> QED
    BY <1>3, <2>1, <2>2, Inside DEF Claim
<1>4. ASSUME NEW from \in Putting, NEW to \in Putting, NEW v, Check(c, from, v, to)
      PROVE  TypeInv'
  <2>1. CASE Fail(c)
    BY <2>1, FailKeepsType
  <2>2. CASE At(c, to) /\ UNCHANGED << engine, rows, owners, apps, want, todo, tx >>
    <3>1. Flow(to, want[c], tx[c])
      BY <1>0, <1>4 DEF Check, Flow, Outside, Putting, Ending
    <3> QED
      BY <1>0, <2>2, <3>1, Inside
  <2> QED
    BY <1>4, <2>1, <2>2 DEF Check
<1>5. pc[c] \in Putting => want[c].repo \in Values /\ want[c].ns \in Values
  BY <1>0 DEF Flow, Values, Repos, Namespaces
<1>6. CASE ClaimRepo(c) \/ ClaimNamespace(c)
  BY <1>3, <1>5, <1>6 DEF ClaimRepo, ClaimNamespace, Claim, Putting
<1>7. CASE ReadRepoOwner(c) \/ ReadNamespaceOwner(c)
  BY <1>4, <1>7 DEF ReadRepoOwner, ReadNamespaceOwner, Putting
<1>8. CASE Collision(c)
  <2>1. CASE Fail(c)
    BY <2>1, FailKeepsType
  <2>2. CASE At(c, "upsert") /\ UNCHANGED << engine, rows, owners, apps, want, todo, tx >>
    <3>1. Flow("upsert", want[c], tx[c])
      BY <1>0, <1>8 DEF Collision, Flow, Outside, Putting, Ending
    <3> QED
      BY <1>0, <2>2, <3>1, Inside DEF Putting
  <2> QED
    BY <1>8, <2>1, <2>2 DEF Collision
<1>9. CASE Upsert(c)
  <2>1. CASE Fail(c)
    BY <2>1, FailKeepsType
  <2>2. CASE /\ At(c, "releaseRepo")
             /\ tx' = [tx EXCEPT ![c].row = want[c]]
             /\ UNCHANGED << engine, rows, owners, apps, want, todo >>
    <3> DEFINE t == [tx[c] EXCEPT !.row = want[c]]
    <3>1. want[c] \in Places
      BY <1>0, <1>9 DEF Upsert, Flow, Putting
    <3>2. t \in TxSet /\ tx' = [tx EXCEPT ![c] = t]
      BY <1>0, <2>2, <3>1 DEF TxSet
    <3>3. Flow("releaseRepo", want[c], t)
      BY <1>0, <1>9, <3>1 DEF Upsert, Flow, Outside, Putting, Ending, TxSet
    <3> HIDE DEF t
    <3> QED
      BY <2>2, <3>2, <3>3, Inside DEF Ending
  <2> QED
    BY <1>9, <2>1, <2>2 DEF Upsert
<1> QED
  BY <1>1, <1>2, <1>6, <1>7, <1>8, <1>9

\* What a statement sees is typed.
LEMMA SeenType ==
    ASSUME TypeInv, NEW c \in Clients
    PROVE  SeenRows(c) \subseteq Places /\ SeenOwned(c) \subseteq Values
BY DEF TypeInv, TypeOK, SeenRows, Put, Replaced, SeenOwned, TxSet, Values

\* deleteApp and the statements at the end of both.
LEMMA EndKeepsType ==
    ASSUME TypeInv, NEW c \in Clients,
           \/ \E k \in Keys : DeleteApp(c, k.tenant, k.app)
           \/ DeleteRow(c) \/ ReleaseRepos(c) \/ ReleaseNamespaces(c) \/ Commit(c)
           \/ Deliver(c) \/ Abort(c)
    PROVE  TypeInv'
<1>0. /\ Flow(pc[c], want[c], tx[c]) /\ tx[c] \in TxSet
      /\ want = [want EXCEPT ![c] = want[c]] /\ tx = [tx EXCEPT ![c] = tx[c]]
      /\ todo = [todo EXCEPT ![c] = todo[c]]
      /\ want[c] \in Places \union {None} /\ todo[c] \in SUBSET Keys
      /\ DOMAIN rows \subseteq Keys
      /\ \A k \in DOMAIN rows : rows[k] \in Places /\ rows[k].key = k
      /\ owners \in [DOMAIN owners -> Tenants] /\ DOMAIN owners \subseteq Values
      /\ \A n \in DOMAIN apps : apps[n] \in Places /\ ApplicationName(apps[n]) = n
  BY DEF TypeInv, TypeOK, Values
<1>1. CASE \E k \in Keys : DeleteApp(c, k.tenant, k.app)
  <2>1. PICK k \in Keys : DeleteApp(c, k.tenant, k.app)
    BY <1>1
  <2> DEFINE envs == {m \in DOMAIN rows : m.tenant = k.tenant /\ m.app = k.app}
  <2>2. envs \in SUBSET Keys /\ todo' = [todo EXCEPT ![c] = envs]
    BY <1>0, <2>1 DEF DeleteApp
  <2>3. Flow("delete", want[c], tx[c])
    BY <1>0, <2>1 DEF DeleteApp, Flow, Outside, Putting, Ending
  <2>4. At(c, "delete") /\ UNCHANGED << engine, rows, owners, apps, want, tx >>
    BY <2>1 DEF DeleteApp
  <2> HIDE DEF envs
  <2> QED
    BY <1>0, <2>2, <2>3, <2>4, Frame DEF Outside
<1>2. CASE DeleteRow(c)
  <2>1. PICK k \in todo[c] :
          /\ tx' = [tx EXCEPT ![c].gone = {k} \intersect DOMAIN rows]
          /\ todo' = [todo EXCEPT ![c] = @ \ {k}]
    BY <1>2 DEF DeleteRow
  <2> DEFINE t == [tx[c] EXCEPT !.gone = {k} \intersect DOMAIN rows]
             ks == todo[c] \ {k}
  <2>2. t \in TxSet /\ tx' = [tx EXCEPT ![c] = t]
    BY <1>0, <2>1 DEF TxSet
  <2>3. ks \in SUBSET Keys /\ todo' = [todo EXCEPT ![c] = ks]
    BY <1>0, <2>1
  <2>4. Flow("releaseRepo", want[c], t)
    BY <1>0, <1>2 DEF DeleteRow, Flow, Outside, Putting, Ending, NoTx
  <2> HIDE DEF t, ks
  <2> QED
    BY <1>0, <1>2, <2>2, <2>3, <2>4, Frame DEF DeleteRow, Ending
<1>3. ASSUME NEW from \in Ending, NEW to \in Ending, NEW vs, Release(c, from, vs, to)
      PROVE  TypeInv'
  <2> DEFINE u == Unused(c, vs)
             t == [tx[c] EXCEPT !.released = @ \union (u \ tx[c].claims),
                                !.claims = @ \ u]
  <2>1. u \subseteq Values
    BY SeenType DEF Unused
  <2>2. tx' = [tx EXCEPT ![c] = t]
    BY <1>0, <1>3 DEF Release
  <2> HIDE DEF u
  <2>3. t \in TxSet
    BY <1>0, <2>1 DEF TxSet
  <2>4. Flow(to, want[c], t)
    BY <1>0, <1>3 DEF Release, Flow, Outside, Putting, Ending, TxSet
  <2> HIDE DEF t
  <2> QED
    BY <1>3, <2>2, <2>3, <2>4, Inside DEF Release
<1>4. CASE ReleaseRepos(c) \/ ReleaseNamespaces(c)
  BY <1>3, <1>4 DEF ReleaseRepos, ReleaseNamespaces, Ending
<1>5. CASE Commit(c)
  <2> DEFINE put == {p.key : p \in Put(c)}
  <2>1. \/ want[c] = None /\ tx[c].row = None /\ tx[c].claims = {} /\ put = {}
        \/ /\ want[c] \in Places /\ tx[c].row = want[c]
           /\ put = {want[c].key} /\ want[c] # None
    BY <1>0, <1>5 DEF Commit, Flow, Ending, Put
  <2>2. put \subseteq Keys
    BY <2>1 DEF Keys
  <2>3. rows' = [k \in (DOMAIN rows \ tx[c].gone) \union put |->
                   IF k \in put THEN tx[c].row ELSE rows[k]]
    BY <1>5 DEF Commit
  <2> HIDE DEF put
  <2>4. /\ DOMAIN rows' \subseteq Keys
        /\ \A k \in DOMAIN rows' : rows'[k] \in Places /\ rows'[k].key = k
    BY <1>0, <2>1, <2>2, <2>3
  <2>5. tx[c].claims \subseteq Values
    BY <1>0 DEF TxSet
  <2>6. tx[c].claims # {} => Tenant(c) \in Tenants
    BY <2>1 DEF Tenant, Tenants, Keys
  <2>7. owners' = [v \in (DOMAIN owners \ tx[c].released) \union tx[c].claims |->
                     IF v \in tx[c].claims THEN Tenant(c) ELSE owners[v]]
    BY <1>5 DEF Commit
  <2>8. owners' \in [DOMAIN owners' -> Tenants] /\ DOMAIN owners' \subseteq Values
    BY <1>0, <2>5, <2>6, <2>7
  <2> DEFINE to == IF want[c] # None THEN "deliver"
                   ELSE IF todo[c] = {} THEN "idle" ELSE "delete"
  <2>9. /\ At(c, to) /\ tx' = [tx EXCEPT ![c] = NoTx]
        /\ UNCHANGED << engine, apps, want, todo >>
    BY <1>5 DEF Commit
  <2>10. NoTx \in TxSet /\ Flow(to, want[c], NoTx) /\ to \in Outside
    BY <2>1 DEF NoTx, TxSet, Flow, Outside, Putting, Ending
  <2> HIDE DEF to
  <2> QED
    BY <1>0, <2>4, <2>8, <2>9, <2>10, Frame
<1>6. CASE Deliver(c)
  <2> DEFINE name == ApplicationName(want[c])
  <2>1. want[c] \in Places /\ tx[c] = NoTx
    BY <1>0, <1>6 DEF Deliver, Flow, Outside
  <2>2. apps' = [n \in DOMAIN apps \union {name} |->
                   IF n = name THEN want[c] ELSE apps[n]]
    BY <1>6 DEF Deliver
  <2>3. \A n \in DOMAIN apps' : apps'[n] \in Places /\ ApplicationName(apps'[n]) = n
    BY <1>0, <2>1, <2>2
  <2>4. Flow("idle", None, tx[c])
    BY <2>1 DEF Flow, Outside, Putting, Ending
  <2> QED
    BY <1>0, <1>6, <2>3, <2>4, Frame DEF Deliver, Outside
<1>7. CASE Abort(c)
  BY <1>7, FailKeepsType DEF Abort
<1> QED
  BY <1>1, <1>2, <1>4, <1>5, <1>6, <1>7

\* Every step keeps the type.
LEMMA TypeStep == TypeInv /\ [Next]_vars => TypeInv'
<1> SUFFICES ASSUME TypeInv, [Next]_vars PROVE TypeInv'
  OBVIOUS
<1>1. CASE UNCHANGED vars
  <2>1. UNCHANGED << engine, rows, owners, apps, pc, want, todo, tx >>
    BY <1>1 DEF vars
  <2>2. TypeOK'
    BY <2>1 DEF TypeInv, TypeOK, InTx
  <2> QED
    BY <2>1, <2>2 DEF TypeInv
<1>2. CASE Next
  BY <1>2, PutKeepsType, EndKeepsType DEF Next
<1> QED
  BY <1>1, <1>2

\* Every reachable state is typed, and every request holds what its statement
\* needs, for any requests and placements on either engine.
THEOREM TypeCorrect == Spec => []TypeOK
<1>1. TypeInv => TypeOK
  BY DEF TypeInv
<1> QED
  BY <1>1, TypeInit, TypeStep, PTL DEF Spec
---------------------------------------------------------------------------
(* One landing site, on either engine: a row that is written and not yet    *)
(* committed collides with no committed row, and two of them have different *)
(* keys and do not collide with each other.                                 *)

Writing == {c \in Clients : tx[c].row # None}

SiteInv ==
    /\ OneLandingSite
    /\ \A c \in Writing : \A k \in DOMAIN rows : ~ Collides(tx[c].row, rows[k])
    /\ \A c, d \in Writing : c # d =>
          tx[c].row.key # tx[d].row.key /\ ~ Collides(tx[c].row, tx[d].row)

Step(c) ==
    \/ \E p \in Places : CreateApp(c, p)
    \/ PutBegin(c) \/ ClaimRepo(c) \/ ReadRepoOwner(c)
    \/ ClaimNamespace(c) \/ ReadNamespaceOwner(c)
    \/ Collision(c) \/ Upsert(c)
    \/ \E k \in Keys : DeleteApp(c, k.tenant, k.app)
    \/ DeleteRow(c)
    \/ ReleaseRepos(c) \/ ReleaseNamespaces(c) \/ Commit(c)
    \/ Deliver(c) \/ Abort(c)

Upserts(c) ==
    /\ pc[c] = "upsert" /\ UNCHANGED << rows, owners >>
    /\ \A q \in PendingRows(c) : q.key # want[c].key /\ ~ Collides(want[c], q)
    /\ Unique(c)
    /\ tx' = [tx EXCEPT ![c].row = want[c]]

\* What a step does to the tables and to the rows not yet committed: a request
\* commits, or writes its row, or leaves both alone or drops its own.
LEMMA StepWrites ==
    ASSUME TypeInv, NEW c \in Clients, Step(c)
    PROVE  /\ \A d \in Clients \ {c} :
                 tx'[d] = tx[d] /\ pc'[d] = pc[d] /\ want'[d] = want[d]
           /\ \/ Commit(c)
              \/ Upserts(c)
              \/ /\ UNCHANGED << rows, owners >>
                 /\ tx'[c].row \in {None, tx[c].row}
<1>0. /\ tx \in [Clients -> TxSet] /\ DOMAIN pc = Clients /\ DOMAIN want = Clients
      /\ NoTx.row = None
  BY DEF TypeInv, TypeOK, NoTx
<1>1. ASSUME Fail(c)
      PROVE  /\ \A d \in Clients \ {c} :
                   tx'[d] = tx[d] /\ pc'[d] = pc[d] /\ want'[d] = want[d]
             /\ UNCHANGED << rows, owners >> /\ tx'[c].row \in {None, tx[c].row}
  BY <1>0, <1>1 DEF Fail, At
<1>2. CASE (\E p \in Places : CreateApp(c, p)) \/ PutBegin(c) \/ Deliver(c)
  BY <1>0, <1>2 DEF CreateApp, PutBegin, Deliver, At
<1>3. ASSUME NEW from, NEW to, NEW v, Claim(c, from, v, to)
      PROVE  /\ \A d \in Clients \ {c} :
                   tx'[d] = tx[d] /\ pc'[d] = pc[d] /\ want'[d] = want[d]
             /\ UNCHANGED << rows, owners >> /\ tx'[c].row \in {None, tx[c].row}
  BY <1>0, <1>3 DEF Claim, At, TxSet
<1>4. CASE ClaimRepo(c) \/ ClaimNamespace(c)
  BY <1>3, <1>4 DEF ClaimRepo, ClaimNamespace
<1>5. CASE ReadRepoOwner(c) \/ ReadNamespaceOwner(c) \/ Collision(c)
  BY <1>0, <1>1, <1>5 DEF ReadRepoOwner, ReadNamespaceOwner, Check, Collision, At
<1>6. CASE Upsert(c)
  <2>1. CASE Fail(c)
    BY <1>1, <2>1
  <2>2. CASE ~ Fail(c)
    BY <1>0, <1>6, <2>2 DEF Upsert, Upserts, At, TxSet
  <2> QED
    BY <2>1, <2>2
<1>7. CASE \E k \in Keys : DeleteApp(c, k.tenant, k.app)
  BY <1>0, <1>7 DEF DeleteApp, At
<1>8. CASE DeleteRow(c)
  BY <1>0, <1>8 DEF DeleteRow, At, TxSet
<1>9. CASE ReleaseRepos(c) \/ ReleaseNamespaces(c)
  BY <1>0, <1>9 DEF ReleaseRepos, ReleaseNamespaces, Release, At, TxSet
<1>10. CASE Commit(c)
  BY <1>0, <1>10 DEF Commit, At
<1>11. CASE Abort(c)
  BY <1>1, <1>11 DEF Abort
<1> QED
  BY <1>2, <1>4, <1>5, <1>6, <1>7, <1>8, <1>9, <1>10, <1>11 DEF Step

\* The row of a Put that is being committed is the one it wants.
LEMMA CommitRows ==
    ASSUME TypeInv, NEW c \in Clients, Commit(c)
    PROVE  /\ tx'[c].row = None
           /\ \A k \in DOMAIN rows' :
                 \/ k \in DOMAIN rows /\ rows'[k] = rows[k]
                 \/ c \in Writing /\ rows'[k] = tx[c].row
BY DEF TypeInv, Commit, Put, Writing, NoTx

\* Every step keeps the landing sites apart.
LEMMA SiteStep ==
    ASSUME TypeInv, SiteInv, NEW c \in Clients, Step(c)
    PROVE  SiteInv'
<1> USE DEF Writing
<1>0. /\ \A p, q : Collides(p, q) => Collides(q, p)
      /\ \A p : ~ Collides(p, p)
  BY DEF Collides
<1>1. \A d \in Clients \ {c} : tx'[d] = tx[d]
  BY StepWrites
<1>2. CASE Commit(c)
  <2>1. tx'[c].row = None
    BY <1>2, CommitRows
  <2>2. \A k \in DOMAIN rows' :
          \/ k \in DOMAIN rows /\ rows'[k] = rows[k]
          \/ c \in Writing /\ rows'[k] = tx[c].row
    BY <1>2, CommitRows
  <2>3. OneLandingSite'
    BY <1>0, <2>2 DEF SiteInv, OneLandingSite
  <2>4. \A d \in Writing' : d \in Writing /\ d # c /\ tx'[d] = tx[d]
    BY <1>1, <2>1
  <2>5. \A d \in Writing' : \A k \in DOMAIN rows' : ~ Collides(tx'[d].row, rows'[k])
    BY <2>2, <2>4 DEF SiteInv
  <2> QED
    BY <2>3, <2>4, <2>5 DEF SiteInv
<1>3. CASE Upserts(c)
  <2>1. tx[c] \in TxSet /\ tx[c].row = None /\ tx[c].gone = {}
    BY <1>3 DEF Upserts, TypeInv, Flow, Putting
  <2>2. tx'[c].row = want[c] /\ UNCHANGED rows
    BY <1>3, <2>1 DEF Upserts, TypeInv, TxSet
  <2>3. SeenRows(c) = {rows[k] : k \in DOMAIN rows}
    BY <2>1 DEF SeenRows, Put, Replaced
  <2>4. \A k \in DOMAIN rows : ~ Collides(want[c], rows[k])
    BY <1>3, <2>3 DEF Upserts, Unique
  <2>5. \A d \in Writing \ {c} : tx[d].row.key # want[c].key /\ ~ Collides(want[c], tx[d].row)
    BY <1>3 DEF Upserts, PendingRows, Put
  <2>6. \A d \in Writing' \ {c} : d \in Writing /\ tx'[d] = tx[d]
    BY <1>1
  <2>7. \A d \in Writing' : \A k \in DOMAIN rows' : ~ Collides(tx'[d].row, rows'[k])
    BY <2>2, <2>4, <2>6 DEF SiteInv
  <2>8. \A d, e \in Writing' : d # e =>
          tx'[d].row.key # tx'[e].row.key /\ ~ Collides(tx'[d].row, tx'[e].row)
    BY <1>0, <2>2, <2>5, <2>6 DEF SiteInv
  <2>9. OneLandingSite'
    BY <2>2 DEF SiteInv, OneLandingSite
  <2> QED
    BY <2>7, <2>8, <2>9 DEF SiteInv
<1>4. CASE UNCHANGED rows /\ tx'[c].row \in {None, tx[c].row}
  <2>1. \A d \in Writing' : d \in Writing /\ tx'[d].row = tx[d].row
    BY <1>1, <1>4
  <2> QED
    BY <1>4, <2>1 DEF SiteInv, OneLandingSite
<1> QED
  BY <1>2, <1>3, <1>4, StepWrites

---------------------------------------------------------------------------
(* The claims, on sqlite.  A transaction sees its own claims and releases;  *)
(* what ClaimsHold and NoIdleClaimOnSqlite say of the committed tables is   *)
(* said of what it sees from the statement on that brings it about, and     *)
(* nobody else commits until it has.                                        *)

Mine(c, v) == v \in SeenOwned(c) /\ OwnerSeen(c, v) = Tenant(c)

SeenClaimsHold(c) ==
    \A p \in SeenRows(c) : \A v \in {p.repo, p.ns} :
        v \in SeenOwned(c) /\ OwnerSeen(c, v) = p.key.tenant

SeenUsed(c, vs) ==
    \A v \in vs \intersect SeenOwned(c) : \E p \in SeenRows(c) : v \in {p.repo, p.ns}

ClaimFlow(c) ==
    /\ tx[c].claims \intersect DOMAIN owners = {}
    /\ pc[c] \in {"claimNs", "readNs", "collide", "upsert"} => Mine(c, want[c].repo)
    /\ pc[c] \in {"collide", "upsert"} => Mine(c, want[c].ns)
    /\ pc[c] \in Ending => SeenClaimsHold(c)
    /\ pc[c] \in {"releaseNs", "commit"} => SeenUsed(c, Repos)
    /\ pc[c] = "commit" => SeenUsed(c, Namespaces)

ClaimInv ==
    /\ ClaimsHoldOnSqlite /\ NoIdleClaimOnSqlite
    /\ engine = "sqlite" => /\ \A c, d \in Clients : InTx(c) /\ InTx(d) => c = d
                            /\ \A c \in Clients : ClaimFlow(c)

IInv == TypeInv /\ SiteInv /\ ClaimInv

\* On sqlite a request begins only when no transaction is open.
LEMMA OneWriter ==
    ASSUME TypeInv, ClaimInv, engine = "sqlite", NEW c \in Clients, Step(c)
    PROVE  /\ UNCHANGED engine
           /\ InTx(c)' => InTx(c) \/ \A d \in Clients : ~ InTx(d)
           /\ ~ InTx(c) => UNCHANGED << rows, owners >>
<1>0. DOMAIN pc = Clients
  BY DEF TypeInv
<1>1. ASSUME Fail(c) PROVE UNCHANGED << engine, rows, owners >> /\ ~ InTx(c)'
  BY <1>0, <1>1 DEF Fail, At, InTx
<1>2. CASE (\E p \in Places : CreateApp(c, p)) \/ PutBegin(c) \/ Deliver(c)
  BY <1>0, <1>2 DEF CreateApp, PutBegin, Deliver, At, InTx, MayBegin
<1>3. CASE ClaimRepo(c) \/ ClaimNamespace(c)
  BY <1>3 DEF ClaimRepo, ClaimNamespace, Claim, InTx
<1>4. CASE ReadRepoOwner(c) \/ ReadNamespaceOwner(c) \/ Collision(c)
  BY <1>1, <1>4 DEF ReadRepoOwner, ReadNamespaceOwner, Check, Collision, InTx
<1>5. CASE Upsert(c)
  BY <1>1, <1>5 DEF Upsert, InTx
<1>6. CASE (\E k \in Keys : DeleteApp(c, k.tenant, k.app)) \/ DeleteRow(c)
  BY <1>0, <1>6 DEF DeleteApp, DeleteRow, At, InTx, MayBegin
<1>7. CASE ReleaseRepos(c) \/ ReleaseNamespaces(c) \/ Commit(c)
  BY <1>7 DEF ReleaseRepos, ReleaseNamespaces, Release, Commit, InTx
<1>8. CASE Abort(c)
  BY <1>1, <1>8 DEF Abort
<1> QED
  BY <1>2, <1>3, <1>4, <1>5, <1>6, <1>7, <1>8 DEF Step
\* The statements of a Put: it goes on only with a repository and a namespace
\* that are its tenant's, claimed by it or before.
LEMMA PutClaims ==
    ASSUME TypeInv, ClaimInv, engine = "sqlite", NEW c \in Clients,
           \/ ClaimRepo(c) \/ ReadRepoOwner(c) \/ ClaimNamespace(c)
           \/ ReadNamespaceOwner(c) \/ Collision(c),
           ~ Fail(c)
    PROVE  ClaimFlow(c)' /\ UNCHANGED << rows, owners >>
<1>0. /\ DOMAIN pc = Clients /\ tx \in [Clients -> TxSet]
      /\ ClaimFlow(c) /\ Flow(pc[c], want[c], tx[c])
  BY DEF TypeInv, ClaimInv
<1>1. ASSUME NEW from, NEW to, NEW v, Claim(c, from, v, to), from \in Putting
      PROVE  /\ pc'[c] = to /\ tx'[c].released = {} /\ UNCHANGED << rows, owners, want >>
             /\ tx[c].claims \subseteq tx'[c].claims
             /\ tx'[c].claims \subseteq tx[c].claims \union ({v} \ DOMAIN owners)
             /\ tx[c].released = {}
  <2>1. tx[c].released = {}
    BY <1>0, <1>1 DEF Claim, Flow
  <2> QED
    BY <1>0, <1>1, <2>1 DEF Claim, At, TxSet
<1>2. ASSUME NEW from, NEW to, NEW v, Check(c, from, v, to)
      PROVE  /\ pc'[c] = to /\ UNCHANGED << rows, owners, want, tx >> /\ Mine(c, v)
  BY <1>0, <1>2 DEF Check, At, Mine
<1>3. CASE ClaimRepo(c)
  <2>1. Claim(c, "claimRepo", want[c].repo, "readRepo")
    BY <1>3 DEF ClaimRepo
  <2>2. /\ pc'[c] = "readRepo" /\ UNCHANGED << rows, owners >>
        /\ tx'[c].claims \subseteq tx[c].claims \union ({want[c].repo} \ DOMAIN owners)
    BY <1>1, <2>1 DEF Putting
  <2> QED
    BY <1>0, <2>2 DEF ClaimFlow, Ending
<1>4. CASE ReadRepoOwner(c)
  <2>1. Check(c, "readRepo", want[c].repo, "claimNs")
    BY <1>4 DEF ReadRepoOwner
  <2>2. /\ pc'[c] = "claimNs" /\ UNCHANGED << rows, owners, want, tx >>
        /\ Mine(c, want[c].repo)
    BY <1>2, <2>1
  <2> QED
    BY <1>0, <2>2 DEF ClaimFlow, Ending, Mine, SeenOwned, OwnerSeen, Tenant
<1>5. CASE ClaimNamespace(c)
  <2>1. Claim(c, "claimNs", want[c].ns, "readNs")
    BY <1>5 DEF ClaimNamespace
  <2>2. /\ pc'[c] = "readNs" /\ tx'[c].released = {} /\ UNCHANGED << rows, owners, want >>
        /\ tx[c].claims \subseteq tx'[c].claims
        /\ tx'[c].claims \subseteq tx[c].claims \union ({want[c].ns} \ DOMAIN owners)
        /\ tx[c].released = {}
    BY <1>1, <2>1 DEF Putting
  <2>3. Mine(c, want[c].repo)
    BY <1>0, <2>1 DEF ClaimFlow, Claim
  <2>4. Mine(c, want[c].repo)'
    BY <2>2, <2>3 DEF Mine, SeenOwned, OwnerSeen, Tenant
  <2> QED
    BY <1>0, <2>2, <2>4 DEF ClaimFlow, Ending
<1>6. CASE ReadNamespaceOwner(c)
  <2>1. Check(c, "readNs", want[c].ns, "collide")
    BY <1>6 DEF ReadNamespaceOwner
  <2>2. /\ pc'[c] = "collide" /\ UNCHANGED << rows, owners, want, tx >>
        /\ Mine(c, want[c].ns)
    BY <1>2, <2>1
  <2>3. Mine(c, want[c].repo)
    BY <1>0, <2>1 DEF ClaimFlow, Check
  <2> QED
    BY <1>0, <2>2, <2>3 DEF ClaimFlow, Ending, Mine, SeenOwned, OwnerSeen, Tenant
<1>7. CASE Collision(c)
  <2>1. /\ pc[c] = "collide" /\ pc'[c] = "upsert"
        /\ UNCHANGED << rows, owners, want, tx >>
    BY <1>0, <1>7 DEF Collision, At
  <2> QED
    BY <1>0, <2>1 DEF ClaimFlow, Ending, Mine, SeenOwned, OwnerSeen, Tenant
<1> QED
  BY <1>3, <1>4, <1>5, <1>6, <1>7

\* With its row written or deleted, the transaction sees every placement in a
\* repository and a namespace of its tenant.
LEMMA RowClaims ==
    ASSUME TypeInv, ClaimInv, engine = "sqlite", NEW c \in Clients,
           Upsert(c) \/ DeleteRow(c), ~ Fail(c)
    PROVE  ClaimFlow(c)' /\ UNCHANGED << rows, owners >>
<1>0. /\ DOMAIN pc = Clients /\ tx \in [Clients -> TxSet]
      /\ ClaimFlow(c) /\ Flow(pc[c], want[c], tx[c]) /\ ClaimsHold
      /\ \A k \in DOMAIN rows : rows[k].key = k
  BY DEF TypeInv, TypeOK, ClaimInv, ClaimsHoldOnSqlite
<1>1. ASSUME NEW p \in {rows[k] : k \in DOMAIN rows}, NEW v \in {p.repo, p.ns}
      PROVE  v \in DOMAIN owners /\ owners[v] = p.key.tenant
  BY <1>0, <1>1 DEF ClaimsHold
<1>2. CASE Upsert(c)
  <2>1. /\ pc[c] = "upsert" /\ pc'[c] = "releaseRepo" /\ UNCHANGED << rows, owners, want >>
        /\ tx' = [tx EXCEPT ![c].row = want[c]]
    BY <1>0, <1>2 DEF Upsert, At
  <2>2. tx[c].released = {} /\ want[c] \in Places
    BY <1>0, <2>1 DEF Flow, Putting
  <2>3. tx'[c].row = want[c] /\ tx'[c].claims = tx[c].claims /\ tx'[c].released = {}
    BY <1>0, <2>1, <2>2 DEF TxSet
  <2>4. Mine(c, want[c].repo) /\ Mine(c, want[c].ns)
    BY <1>0, <2>1 DEF ClaimFlow
  <2>5. /\ SeenOwned(c)' = SeenOwned(c)
        /\ \A v : OwnerSeen(c, v)' = OwnerSeen(c, v)
        /\ DOMAIN owners \subseteq SeenOwned(c)
        /\ \A v \in DOMAIN owners : OwnerSeen(c, v) = owners[v]
    BY <1>0, <2>1, <2>2, <2>3 DEF SeenOwned, OwnerSeen, Tenant, ClaimFlow
  <2>6. \A p \in SeenRows(c)' : p \in {rows[k] : k \in DOMAIN rows} \/ p = want[c]
    BY <2>1, <2>3 DEF SeenRows, Put
  <2>7. SeenClaimsHold(c)'
    BY <1>1, <2>4, <2>5, <2>6 DEF SeenClaimsHold, Mine, Tenant
  <2> QED
    BY <1>0, <2>1, <2>3, <2>7 DEF ClaimFlow
<1>3. CASE DeleteRow(c)
  <2>1. /\ pc[c] = "delete" /\ pc'[c] = "releaseRepo" /\ UNCHANGED << rows, owners, want >>
        /\ tx'[c].row = tx[c].row /\ tx'[c].claims = tx[c].claims
        /\ tx'[c].released = tx[c].released
    BY <1>0, <1>3 DEF DeleteRow, At, TxSet
  <2>2. tx[c].row = None /\ tx[c].claims = {} /\ tx[c].released = {}
    BY <1>0, <2>1 DEF Flow, Outside, NoTx
  <2>3. /\ SeenOwned(c)' = DOMAIN owners
        /\ \A v : OwnerSeen(c, v)' = owners[v]
        /\ SeenRows(c)' \subseteq {rows[k] : k \in DOMAIN rows}
    BY <2>1, <2>2 DEF SeenOwned, OwnerSeen, SeenRows, Put
  <2>4. SeenClaimsHold(c)'
    BY <1>1, <2>3 DEF SeenClaimsHold
  <2> QED
    BY <2>1, <2>2, <2>4 DEF ClaimFlow
<1> QED
  BY <1>2, <1>3

\* Releasing takes the claims nothing uses, and no other.
LEMMA ReleaseClaims ==
    ASSUME TypeInv, ClaimInv, engine = "sqlite", NEW c \in Clients,
           ReleaseRepos(c) \/ ReleaseNamespaces(c)
    PROVE  ClaimFlow(c)' /\ UNCHANGED << rows, owners >>
<1>0. /\ DOMAIN pc = Clients /\ tx \in [Clients -> TxSet] /\ ClaimFlow(c)
  BY DEF TypeInv, ClaimInv
<1>1. ASSUME NEW from \in Ending, NEW to, NEW vs, Release(c, from, vs, to)
      PROVE  /\ pc[c] = from /\ pc'[c] = to /\ UNCHANGED << rows, owners, want >>
             /\ tx'[c].claims \subseteq tx[c].claims
             /\ SeenClaimsHold(c)' /\ SeenUsed(c, vs)'
             /\ \A us : SeenUsed(c, us) => SeenUsed(c, us)'
  <2> DEFINE u == Unused(c, vs)
  <2>1. /\ pc[c] = from /\ pc'[c] = to /\ UNCHANGED << rows, owners, want >>
        /\ tx'[c].released = tx[c].released \union (u \ tx[c].claims)
        /\ tx'[c].claims = tx[c].claims \ u
        /\ tx'[c].row = tx[c].row /\ tx'[c].gone = tx[c].gone
    BY <1>0, <1>1 DEF Release, At, TxSet
  <2>2. SeenRows(c)' = SeenRows(c)
    BY <2>1 DEF SeenRows, Put, Replaced
  <2>3. SeenOwned(c)' = SeenOwned(c) \ u
    BY <1>0, <2>1 DEF SeenOwned, ClaimFlow
  <2>4. \A v : v \notin u => OwnerSeen(c, v)' = OwnerSeen(c, v)
    BY <2>1 DEF OwnerSeen, Tenant
  <2>5. \A p \in SeenRows(c) : p.repo \notin u /\ p.ns \notin u
    BY DEF Unused
  <2>6. SeenClaimsHold(c)
    BY <1>0, <2>1 DEF ClaimFlow
  <2>7. \A v \in vs \intersect SeenOwned(c) : v \notin u =>
           \E p \in SeenRows(c) : v \in {p.repo, p.ns}
    BY DEF Unused
  <2> HIDE DEF u
  <2>8. SeenClaimsHold(c)'
    BY <2>2, <2>3, <2>4, <2>5, <2>6 DEF SeenClaimsHold
  <2>9. SeenUsed(c, vs)'
    BY <2>2, <2>3, <2>7 DEF SeenUsed
  <2>10. ASSUME NEW us, SeenUsed(c, us) PROVE SeenUsed(c, us)'
    BY <2>2, <2>3, <2>10 DEF SeenUsed
  <2> QED
    BY <2>1, <2>8, <2>9, <2>10
<1>2. CASE ReleaseRepos(c)
  <2>1. Release(c, "releaseRepo", Repos, "releaseNs")
    BY <1>2 DEF ReleaseRepos
  <2>2. /\ pc'[c] = "releaseNs" /\ UNCHANGED << rows, owners >>
        /\ tx'[c].claims \subseteq tx[c].claims
        /\ SeenClaimsHold(c)' /\ SeenUsed(c, Repos)'
    BY <1>1, <2>1 DEF Ending
  <2> QED
    BY <1>0, <2>2 DEF ClaimFlow
<1>3. CASE ReleaseNamespaces(c)
  <2>1. Release(c, "releaseNs", Namespaces, "commit")
    BY <1>3 DEF ReleaseNamespaces
  <2>2. /\ pc[c] = "releaseNs" /\ pc'[c] = "commit" /\ UNCHANGED << rows, owners >>
        /\ tx'[c].claims \subseteq tx[c].claims
        /\ SeenClaimsHold(c)' /\ SeenUsed(c, Namespaces)'
        /\ SeenUsed(c, Repos) => SeenUsed(c, Repos)'
    BY <1>1, <2>1 DEF Ending
  <2> QED
    BY <1>0, <2>2 DEF ClaimFlow
<1> QED
  BY <1>2, <1>3

\* A commit makes what the transaction saw the committed tables.
LEMMA CommitClaims ==
    ASSUME TypeInv, ClaimInv, engine = "sqlite", NEW c \in Clients, Commit(c)
    PROVE  /\ ClaimsHold'
           /\ \A v \in DOMAIN owners' : \E k \in DOMAIN rows' : v \in {rows'[k].repo, rows'[k].ns}
<1>0. /\ ClaimFlow(c) /\ Flow(pc[c], want[c], tx[c]) /\ pc[c] = "commit"
      /\ \A k \in DOMAIN rows : rows[k].key = k
      /\ SeenOwned(c) \subseteq Values
  BY SeenType DEF TypeInv, TypeOK, ClaimInv, Commit
<1> DEFINE put == {p.key : p \in Put(c)}
<1>1. /\ rows' = [k \in (DOMAIN rows \ tx[c].gone) \union put |->
                    IF k \in put THEN tx[c].row ELSE rows[k]]
      /\ owners' = [v \in (DOMAIN owners \ tx[c].released) \union tx[c].claims |->
                      IF v \in tx[c].claims THEN Tenant(c) ELSE owners[v]]
  BY DEF Commit
<1>2. DOMAIN owners' = SeenOwned(c) /\ \A v \in DOMAIN owners' : owners'[v] = OwnerSeen(c, v)
  BY <1>1 DEF SeenOwned, OwnerSeen
<1>3. \A k \in DOMAIN rows' : rows'[k] \in SeenRows(c) /\ rows'[k].key = k
  <2> TAKE k \in DOMAIN rows'
  <2>1. CASE k \in put
    <3>1. tx[c].row # None /\ tx[c].row.key = k /\ rows'[k] = tx[c].row
      BY <1>1, <2>1 DEF Put
    <3> QED
      BY <3>1 DEF SeenRows, Put
  <2>2. CASE k \notin put
    <3>1. k \in DOMAIN rows /\ k \notin tx[c].gone /\ rows'[k] = rows[k]
      BY <1>1, <2>2
    <3>2. rows[k] \notin Replaced(c)
      BY <1>0, <2>2, <3>1 DEF Replaced
    <3> QED
      BY <1>0, <3>1, <3>2 DEF SeenRows
  <2> QED
    BY <2>1, <2>2
<1>4. \A p \in SeenRows(c) : \E k \in DOMAIN rows' : rows'[k] = p
  <2> TAKE p \in SeenRows(c)
  <2>1. CASE p \in Put(c)
    BY <1>1, <2>1 DEF Put
  <2>2. CASE p \notin Put(c)
    <3>1. PICK k \in DOMAIN rows : p = rows[k] /\ rows[k] \notin Replaced(c)
      BY <2>2 DEF SeenRows
    <3>2. k \notin tx[c].gone /\ k \notin put
      BY <3>1 DEF Replaced
    <3> QED
      BY <1>1, <3>1, <3>2
  <2> QED
    BY <2>1, <2>2
<1>5. SeenClaimsHold(c) /\ SeenUsed(c, Repos) /\ SeenUsed(c, Namespaces)
  BY <1>0 DEF ClaimFlow, Ending
<1>6. ClaimsHold'
  BY <1>2, <1>3, <1>5 DEF ClaimsHold, SeenClaimsHold
<1>7. \A v \in DOMAIN owners' : \E p \in SeenRows(c) : v \in {p.repo, p.ns}
  BY <1>0, <1>2, <1>5 DEF SeenUsed, Values
<1> QED
  BY <1>4, <1>6, <1>7

\* Every step keeps the claims.
LEMMA ClaimStep ==
    ASSUME TypeInv, ClaimInv, NEW c \in Clients, Step(c), TypeInv', UNCHANGED engine
    PROVE  ClaimInv'
<1> SUFFICES ASSUME engine = "sqlite"
             PROVE  /\ ClaimsHold'
                    /\ \A v \in DOMAIN owners' : \E k \in DOMAIN rows' :
                          v \in {rows'[k].repo, rows'[k].ns}
                    /\ \A a, b \in Clients : InTx(a)' /\ InTx(b)' => a = b
                    /\ \A d \in Clients : ClaimFlow(d)'
  BY DEF ClaimInv, ClaimsHoldOnSqlite, NoIdleClaimOnSqlite
<1>1. /\ \A d \in Clients \ {c} : tx'[d] = tx[d] /\ pc'[d] = pc[d] /\ want'[d] = want[d]
      /\ InTx(c)' => InTx(c) \/ \A d \in Clients : ~ InTx(d)
      /\ ~ InTx(c) => UNCHANGED << rows, owners >>
  BY StepWrites, OneWriter
<1>2. \A a, b \in Clients : InTx(a) /\ InTx(b) => a = b
  BY DEF ClaimInv
<1>3. \A a, b \in Clients : InTx(a)' /\ InTx(b)' => a = b
  <2> TAKE a, b \in Clients
  <2>1. \A d \in Clients \ {c} : InTx(d)' <=> InTx(d)
    BY <1>1 DEF InTx
  <2> QED
    BY <1>1, <1>2, <2>1
<1>4. ClaimsHold /\ \A v \in DOMAIN owners : \E k \in DOMAIN rows : v \in {rows[k].repo, rows[k].ns}
  BY DEF ClaimInv, ClaimsHoldOnSqlite, NoIdleClaimOnSqlite
<1>5. ASSUME UNCHANGED << rows, owners >>
      PROVE  /\ ClaimsHold'
             /\ \A v \in DOMAIN owners' : \E k \in DOMAIN rows' :
                   v \in {rows'[k].repo, rows'[k].ns}
  BY <1>4, <1>5 DEF ClaimsHold
<1>6. ASSUME NEW d \in Clients \ {c} PROVE ClaimFlow(d)'
  <2>1. CASE InTx(d)
    <3>1. UNCHANGED << rows, owners >> /\ ClaimFlow(d)
      BY <1>1, <1>2, <2>1 DEF ClaimInv
    <3> QED
      BY <1>1, <3>1 DEF ClaimFlow, Mine, SeenClaimsHold, SeenUsed, SeenRows, SeenOwned,
                        OwnerSeen, Tenant, Put, Replaced
  <2>2. CASE ~ InTx(d)
    <3>1. pc'[d] \in Outside /\ tx'[d] = NoTx
      BY <1>1, <2>2 DEF InTx, Outside, TypeInv, Flow
    <3> QED
      BY <3>1 DEF ClaimFlow, NoTx, Outside, Ending
  <2> QED
    BY <2>1, <2>2
<1>7. ASSUME pc'[c] \in Outside \union {"claimRepo"}, tx'[c] = NoTx PROVE ClaimFlow(c)'
  BY <1>7 DEF ClaimFlow, NoTx, Outside, Ending
<1>8. pc'[c] \in Outside => tx'[c] = NoTx
  BY DEF TypeInv, Flow
<1>9. ClaimFlow(c)' /\ (UNCHANGED << rows, owners >> \/ Commit(c))
  <2>0. DOMAIN pc = Clients /\ (pc[c] \in Outside => tx[c] = NoTx)
    BY DEF TypeInv, Flow
  <2>1. CASE Fail(c)
    BY <1>7, <1>8, <2>0, <2>1 DEF Fail, At, Outside
  <2>2. CASE PutBegin(c)
    BY <1>7, <2>0, <2>2 DEF PutBegin, At, Outside
  <2>3. CASE \/ \E p \in Places : CreateApp(c, p)
             \/ \E k \in Keys : DeleteApp(c, k.tenant, k.app)
             \/ Deliver(c)
    <3>1. pc'[c] \in Outside /\ UNCHANGED << rows, owners >>
      BY <2>0, <2>3 DEF CreateApp, DeleteApp, Deliver, At, Outside
    <3> QED
      BY <1>7, <1>8, <3>1
  <2>4. CASE Commit(c)
    <3>1. pc'[c] \in Outside
      BY <2>0, <2>4 DEF Commit, At, Outside
    <3> QED
      BY <1>7, <1>8, <2>4, <3>1
  <2>5. CASE /\ ~ Fail(c)
             /\ \/ ClaimRepo(c) \/ ReadRepoOwner(c) \/ ClaimNamespace(c)
                \/ ReadNamespaceOwner(c) \/ Collision(c)
    BY <2>5, PutClaims
  <2>6. CASE ~ Fail(c) /\ (Upsert(c) \/ DeleteRow(c))
    BY <2>6, RowClaims
  <2>7. CASE ReleaseRepos(c) \/ ReleaseNamespaces(c)
    BY <2>7, ReleaseClaims
  <2> QED
    BY <2>1, <2>2, <2>3, <2>4, <2>5, <2>6, <2>7 DEF Step, Abort
<1>10. /\ ClaimsHold'
       /\ \A v \in DOMAIN owners' : \E k \in DOMAIN rows' : v \in {rows'[k].repo, rows'[k].ns}
  BY <1>5, <1>9, CommitClaims
<1> QED
  BY <1>3, <1>6, <1>9, <1>10

---------------------------------------------------------------------------
\* IInv is inductive.
LEMMA InvStep == IInv /\ [Next]_vars => IInv'
<1> SUFFICES ASSUME IInv, [Next]_vars PROVE IInv'
  OBVIOUS
<1>1. TypeInv'
  BY TypeStep DEF IInv
<1>2. CASE UNCHANGED vars
  <2>1. UNCHANGED << engine, rows, owners, apps, pc, want, todo, tx >>
    BY <1>2 DEF vars
  <2>2. SiteInv'
    BY <2>1 DEF IInv, SiteInv, OneLandingSite, Writing
  <2>3. ASSUME NEW c \in Clients, ClaimFlow(c) PROVE ClaimFlow(c)'
    BY <2>1, <2>3 DEF ClaimFlow, Mine, SeenClaimsHold, SeenUsed, SeenRows, SeenOwned,
                      OwnerSeen, Tenant, Put, Replaced
  <2>4. ClaimInv'
    BY <2>1, <2>3 DEF IInv, ClaimInv, ClaimsHoldOnSqlite, NoIdleClaimOnSqlite, ClaimsHold,
                      InTx
  <2> QED
    BY <1>1, <2>2, <2>4 DEF IInv
<1>3. ASSUME NEW c \in Clients, Step(c) PROVE IInv'
  <2>1. UNCHANGED engine
    BY <1>3 DEF Step, CreateApp, PutBegin, ClaimRepo, ClaimNamespace, Claim, ReadRepoOwner,
                ReadNamespaceOwner, Check, Collision, Upsert, DeleteApp, DeleteRow,
                ReleaseRepos, ReleaseNamespaces, Release, Commit, Deliver, Abort, Fail
  <2> QED
    BY <1>1, <1>3, <2>1, SiteStep, ClaimStep DEF IInv
<1> QED
  BY <1>2, <1>3 DEF Next, Step

\* Nothing is placed and nothing claimed.
LEMMA InvInit == Init => IInv
<1> SUFFICES ASSUME Init PROVE IInv
  OBVIOUS
<1>1. SiteInv
  BY DEF Init, SiteInv, OneLandingSite, Writing, NoTx
<1>2. \A c \in Clients : ClaimFlow(c) /\ ~ InTx(c)
  BY DEF Init, ClaimFlow, InTx, NoTx, Ending
<1>3. ClaimInv
  BY <1>2 DEF Init, ClaimInv, ClaimsHoldOnSqlite, NoIdleClaimOnSqlite, ClaimsHold
<1> QED
  BY <1>1, <1>3, TypeInit DEF IInv

\* IInv holds of every reachable state.
THEOREM Invariance == Spec => []IInv
BY InvInit, InvStep, PTL DEF Spec

\* Two placements never land in the same place, whatever creates and deletes are
\* interleaved, fail or are cancelled, on sqlite and on postgres.
THEOREM SitesStayApart == Spec => []OneLandingSite
<1>1. IInv => OneLandingSite
  BY DEF IInv, SiteInv
<1> QED
  BY <1>1, Invariance, PTL

\* On sqlite every placement stands in a repository and a namespace that are its
\* tenant's.
THEOREM ClaimsAreKept == Spec => []ClaimsHoldOnSqlite
<1>1. IInv => ClaimsHoldOnSqlite
  BY DEF IInv, ClaimInv
<1> QED
  BY <1>1, Invariance, PTL

\* On sqlite nothing is claimed that no placement uses.
THEOREM ClaimsAreReleased == Spec => []NoIdleClaimOnSqlite
<1>1. IInv => NoIdleClaimOnSqlite
  BY DEF IInv, ClaimInv
<1> QED
  BY <1>1, Invariance, PTL
=============================================================================
