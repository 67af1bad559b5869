------------------------ MODULE SettingsWriteProofs ------------------------
(***************************************************************************)
(* Theorems about SettingsWrite, for every set of requests, forms and      *)
(* images, and any bound on the variables and the commits.                 *)
(***************************************************************************)
EXTENDS SettingsWrite, FiniteSetTheorems, SequenceTheorems, TLAPS

USE SettingsAssumption

---------------------------------------------------------------------------
(* The inductive invariant.                                                *)

Steps == {"idle", "patch", "create", "clone", "push", "remove"}

\* A manifest the settings page can draw and save again: what planSettings
\* accepts of a form, said of what is committed from it.
Sound(m) ==
    /\ Cardinality(DOMAIN m.env \union m.userSecrets \union DOMAIN m.buildEnv) <= MaxEnv
    /\ DOMAIN m.env \intersect m.userSecrets = {}
    /\ DOMAIN m.buildEnv \intersect m.userSecrets = {}
    /\ \A k \in DOMAIN m.env : m.env[k] # "keep"
    /\ \A k \in DOMAIN m.buildEnv : m.buildEnv[k] # "keep"
    /\ \A k \in DOMAIN m.env \intersect DOMAIN m.buildEnv : m.env[k] = m.buildEnv[k]
    /\ m.health # "refused"
    /\ m.resources.limit # 0 /\ m.resources.request # 0 =>
          m.resources.limit >= m.resources.request

SoundPlan(p) == Sound(p.app) /\ p.app.userSecrets \intersect p.remove = {}

\* What one save holds where it is: a save under way was planned from a commit,
\* and knows no commit that is not on the branch.
SaveOK(c) ==
    /\ pc[c] \in Steps
    /\ pc[c] = "idle" => plan[c] = None
    /\ pc[c] # "idle" => plan[c] \in PlanSet /\ SoundPlan(plan[c]) /\ branch # << >>
    /\ base[c] \in 0 .. Len(branch)

TypeInv ==
    /\ atOnce \in Nat
    /\ branch \in Seq(Manifest) /\ Len(branch) <= MaxCommits
    /\ \A i \in 1 .. Len(branch) : Sound(branch[i])
    /\ secret \in EnvSet \union {None}
    /\ pc = [c \in Clients |-> pc[c]]
    /\ plan = [c \in Clients |-> plan[c]]
    /\ base = [c \in Clients |-> base[c]]
    /\ \A c \in Clients : SaveOK(c)

Apart(m, n) == n.image = m.image \/ Settings(n) = Settings(m)

\* Neighbours on the branch differ in the image or in the settings.
ApartInv == \A i \in 1 .. Len(branch) : i + 1 <= Len(branch) => Apart(branch[i], branch[i + 1])

\* Every one of these names has a value in the cluster.
Has(ks) == ks # {} => secret # None /\ ks \subseteq DOMAIN secret

\* One save alone: until its values are put, the names it plans have a value in
\* the plan or are committed already; from then on, they have one in the Secret.
Values1(c) ==
    /\ pc[c] \in {"patch", "create"} =>
          plan[c].app.userSecrets \subseteq DOMAIN plan[c].set \union Committed.userSecrets
    /\ pc[c] = "create" => secret = None
    /\ pc[c] \in {"clone", "push"} => Has(plan[c].app.userSecrets)
    /\ pc[c] = "remove" => Committed.userSecrets = plan[c].app.userSecrets

ValueInv ==
    atOnce = 1 =>
        /\ \A c, d \in Clients : pc[c] # "idle" /\ pc[d] # "idle" => c = d
        /\ branch # << >> => Has(Committed.userSecrets)
        /\ \A c \in Clients : Values1(c)

IInv == TypeInv /\ ApartInv /\ ValueInv

---------------------------------------------------------------------------
(* The operators.                                                          *)

LEMMA EmptyEnv == << >> \in EnvSet
<1>1. << >> \in [{} -> Texts]
  OBVIOUS
<1>2. {} \in SUBSET Names
  OBVIOUS
<1> QED
  BY <1>1, <1>2 DEF EnvSet

LEMMA EnvSetIs ==
    ASSUME NEW e
    PROVE  e \in EnvSet <=> /\ e = [k \in DOMAIN e |-> e[k]] /\ DOMAIN e \subseteq Names
                            /\ \A k \in DOMAIN e : e[k] \in Texts
<1>1. ASSUME e \in EnvSet
      PROVE  /\ e = [k \in DOMAIN e |-> e[k]] /\ DOMAIN e \subseteq Names
             /\ \A k \in DOMAIN e : e[k] \in Texts
  BY <1>1 DEF EnvSet
<1>2. ASSUME e = [k \in DOMAIN e |-> e[k]], DOMAIN e \subseteq Names,
             \A k \in DOMAIN e : e[k] \in Texts
      PROVE  e \in EnvSet
  <2>1. e \in [DOMAIN e -> Texts]
    BY <1>2
  <2>2. DOMAIN e \in SUBSET Names
    BY <1>2
  <2> QED
    BY <2>1, <2>2 DEF EnvSet
<1> QED
  BY <1>1, <1>2

\* The parts of a form are values under its names.
LEMMA ValuesType ==
    ASSUME NEW form \in Forms, NEW ks \in SUBSET DOMAIN form.env
    PROVE  /\ Values(form.env, ks) \in EnvSet
           /\ DOMAIN Values(form.env, ks) = ks
           /\ \A k \in ks : Values(form.env, ks)[k] = form.env[k].value
<1>1. /\ DOMAIN Values(form.env, ks) = ks
      /\ \A k \in ks : Values(form.env, ks)[k] = form.env[k].value
      /\ Values(form.env, ks) = [k \in DOMAIN Values(form.env, ks) |-> Values(form.env, ks)[k]]
  BY DEF Values
<1>2. ks \subseteq Names
  BY DEF Names
<1>3. \A k \in ks : form.env[k].value \in Texts
  BY DEF Texts
<1> QED
  BY <1>1, <1>2, <1>3, EnvSetIs

LEMMA PlanResourcesType ==
    ASSUME NEW asked \in Resources, NEW current \in Resources
    PROVE  PlanResources(asked, current) \in Resources
  BY DEF PlanResources, Resources

\* planSettings turns an accepted form into a sound plan that keeps the image,
\* names no secret without a value, sent or committed, and removes none it names.
LEMMA PlanIsSound ==
    ASSUME NEW form \in Forms, NEW m \in Manifest, Plannable(form, m)
    PROVE  LET p == PlanSettings(form, m)
           IN  /\ p \in PlanSet /\ SoundPlan(p)
               /\ p.app.userSecrets \subseteq DOMAIN p.set \union m.userSecrets
<1> DEFINE p == PlanSettings(form, m)
           run == Chosen(form.env, IsRuntime)
           sec == Chosen(form.env, IsSecret)
           bld == Chosen(form.env, IsBuild)
           sent == Chosen(form.env, IsSent)
<1>1. /\ form.env \in [DOMAIN form.env -> Variable]
      /\ form.health \in Probes /\ form.resources \in Resources
  BY DEF Probes
<1>2. /\ run \in SUBSET DOMAIN form.env /\ sec \in SUBSET DOMAIN form.env
      /\ bld \in SUBSET DOMAIN form.env /\ sent \in SUBSET DOMAIN form.env
  BY DEF Chosen
<1>3. /\ run \union sec \union bld = DOMAIN form.env
      /\ run \intersect sec = {} /\ bld \intersect sec = {}
      /\ \A k \in run \union bld : form.env[k].value # "keep"
      /\ sec \subseteq sent \union m.userSecrets
  BY <1>1 DEF Plannable, Chosen, IsRuntime, IsSecret, IsBuild, IsSent, Variable
<1>4. /\ p.app.image = m.image /\ p.app.env = Values(form.env, run)
      /\ p.app.userSecrets = sec /\ p.app.buildEnv = Values(form.env, bld)
      /\ p.app.health = form.health
      /\ p.app.resources = PlanResources(form.resources, m.resources)
      /\ p.set = Values(form.env, sent) /\ p.remove = m.userSecrets \ DOMAIN form.env
  BY DEF PlanSettings
<1>5. p \in PlanSet
  <2>1. sec \in SUBSET Names
    BY <1>2 DEF Names
  <2>2. m.resources \in Resources /\ m.image \in Images /\ m.userSecrets \in SUBSET Names
    BY DEF Manifest
  <2>3. PlanResources(form.resources, m.resources) \in Resources
    BY <1>1, <2>2, PlanResourcesType
  <2>4. /\ Values(form.env, run) \in EnvSet /\ Values(form.env, bld) \in EnvSet
        /\ Values(form.env, sent) \in EnvSet
    BY <1>2, ValuesType
  <2> HIDE DEF run, sec, bld, sent
  <2> QED
    BY <1>1, <2>1, <2>2, <2>3, <2>4 DEF PlanSettings, PlanSet, Manifest, run, sec, bld, sent
<1>6. Sound(p.app)
  <2>1. /\ DOMAIN p.app.env = run /\ DOMAIN p.app.buildEnv = bld
        /\ \A k \in run : p.app.env[k] = form.env[k].value
        /\ \A k \in bld : p.app.buildEnv[k] = form.env[k].value
    BY <1>2, <1>4, ValuesType
  <2>2. DOMAIN p.app.env \union p.app.userSecrets \union DOMAIN p.app.buildEnv = DOMAIN form.env
    <3> HIDE DEF run, sec, bld, p
    <3> QED
      BY <1>3, <1>4, <2>1
  <2>3. /\ form.health # "refused" /\ Cardinality(DOMAIN form.env) <= MaxEnv
        /\ p.app.resources.limit # 0 /\ p.app.resources.request # 0 =>
              p.app.resources.limit >= p.app.resources.request
    BY <1>4 DEF Plannable, Fits
  <2> DEFINE a == p.app
  <2> HIDE DEF run, sec, bld, p
  <2>4. /\ DOMAIN a.env = run /\ DOMAIN a.buildEnv = bld /\ a.userSecrets = sec
        /\ a.health # "refused"
        /\ Cardinality(DOMAIN a.env \union a.userSecrets \union DOMAIN a.buildEnv) <= MaxEnv
        /\ a.resources.limit # 0 /\ a.resources.request # 0 =>
              a.resources.limit >= a.resources.request
    BY <1>4, <2>1, <2>2, <2>3
  <2>5. /\ \A k \in run : a.env[k] = form.env[k].value
        /\ \A k \in bld : a.buildEnv[k] = form.env[k].value
    BY <2>1
  <2> HIDE DEF a
  <2>6. /\ \A k \in DOMAIN a.env : a.env[k] # "keep"
        /\ \A k \in DOMAIN a.buildEnv : a.buildEnv[k] # "keep"
        /\ \A k \in DOMAIN a.env \intersect DOMAIN a.buildEnv : a.env[k] = a.buildEnv[k]
        /\ DOMAIN a.env \intersect a.userSecrets = {}
        /\ DOMAIN a.buildEnv \intersect a.userSecrets = {}
    BY <1>3, <2>4, <2>5
  <2>7. Sound(a)
    BY <2>4, <2>6 DEF Sound
  <2> QED
    BY <2>7 DEF a
<1>7. p.app.userSecrets \intersect p.remove = {}
  BY <1>2, <1>4
<1>8. p.app.userSecrets \subseteq DOMAIN p.set \union m.userSecrets
  BY <1>2, <1>3, <1>4, ValuesType
<1> QED
  BY <1>5, <1>6, <1>7, <1>8 DEF SoundPlan

\* renderSettings leaves the image it finds and takes the settings of the plan.
LEMMA RenderType ==
    ASSUME NEW m \in Manifest, NEW w \in Manifest
    PROVE  LET n == RenderSettings(m, w)
           IN  /\ n \in Manifest /\ n.image = m.image /\ n.userSecrets = w.userSecrets
               /\ Sound(w) => Sound(n)
  BY DEF RenderSettings, Manifest, Sound

\* Saving the form drawn from a sound manifest is accepted and changes nothing.
LEMMA SoundSavesBack ==
    ASSUME NEW m \in Manifest, Sound(m)
    PROVE  /\ Plannable(ToWireSettings(m), m)
           /\ PlanSettings(ToWireSettings(m), m) = [app |-> m, set |-> << >>, remove |-> {}]
<1> DEFINE w == ToWireSettings(m)
           ks == DOMAIN m.env \union m.userSecrets \union DOMAIN m.buildEnv
<1>1. /\ DOMAIN w.env = ks /\ w.resources = m.resources /\ w.health = m.health
      /\ \A k \in ks : /\ (w.env[k].secret <=> k \in m.userSecrets)
                       /\ w.env[k].value = IF k \in DOMAIN m.env THEN m.env[k]
                             ELSE IF k \in m.userSecrets THEN "keep" ELSE m.buildEnv[k]
                       /\ (w.env[k].build <=> k \in DOMAIN m.buildEnv)
                       /\ (w.env[k].runtime <=> k \in DOMAIN m.env \union m.userSecrets)
  BY DEF ToWireSettings
<1>2. PlanResources(m.resources, m.resources) = m.resources
  BY DEF PlanResources, Manifest, Resources
<1> HIDE DEF w
<1>3. Plannable(w, m)
  <2>1. Fits(w.resources, PlanResources(w.resources, m.resources))
    BY <1>1, <1>2 DEF Fits, Sound
  <2>2. ASSUME NEW k \in ks
        PROVE  /\ w.env[k].build \/ w.env[k].runtime
               /\ w.env[k].secret => ~ w.env[k].build /\ w.env[k].value # ""
               /\ ~ w.env[k].secret => w.env[k].value # "keep"
               /\ w.env[k].secret /\ w.env[k].value = "keep" => k \in m.userSecrets
    BY <1>1 DEF Sound
  <2> QED
    BY <1>1, <2>1, <2>2 DEF Plannable, Sound
<1>4. /\ Chosen(w.env, IsRuntime) = DOMAIN m.env
      /\ Chosen(w.env, IsSecret) = m.userSecrets
      /\ Chosen(w.env, IsBuild) = DOMAIN m.buildEnv
      /\ Chosen(w.env, IsSent) = {}
  BY <1>1 DEF Chosen, IsRuntime, IsSecret, IsBuild, IsSent, Sound
<1>5. /\ m.env = [k \in DOMAIN m.env |-> m.env[k]]
      /\ m.buildEnv = [k \in DOMAIN m.buildEnv |-> m.buildEnv[k]]
  BY EnvSetIs DEF Manifest
<1>6. Values(w.env, DOMAIN m.env) = m.env
  <2>1. \A k \in DOMAIN m.env : w.env[k].value = m.env[k]
    BY <1>1
  <2> QED
    BY <1>5, <2>1 DEF Values
<1>7. Values(w.env, DOMAIN m.buildEnv) = m.buildEnv
  <2>1. \A k \in DOMAIN m.buildEnv : w.env[k].value = m.buildEnv[k]
    BY <1>1 DEF Sound
  <2> QED
    BY <1>5, <2>1 DEF Values
<1>8. Values(w.env, {}) = << >>
  BY DEF Values
<1>9. m.userSecrets \ DOMAIN w.env = {}
  BY <1>1
<1>10. PlanSettings(w, m) =
         [app |-> [image |-> m.image, env |-> m.env, userSecrets |-> m.userSecrets,
                   buildEnv |-> m.buildEnv, health |-> m.health, resources |-> m.resources],
          set |-> << >>, remove |-> {}]
  BY <1>1, <1>2, <1>4, <1>6, <1>7, <1>8, <1>9 DEF PlanSettings
<1>11. m = [image |-> m.image, env |-> m.env, userSecrets |-> m.userSecrets,
            buildEnv |-> m.buildEnv, health |-> m.health, resources |-> m.resources]
  BY DEF Manifest
<1> QED
  BY <1>3, <1>10, <1>11 DEF w

---------------------------------------------------------------------------
(* A step of one save: the frame of the proofs below.                      *)

\* The branch as it is, or with one more manifest that m may be.
Grows(m) == /\ m \in Manifest /\ Sound(m)
            /\ Len(branch) < MaxCommits /\ branch' = Append(branch, m)

LEMMA GrownBranch ==
    ASSUME TypeInv, NEW m, Grows(m)
    PROVE  /\ branch' \in Seq(Manifest) /\ branch' # << >>
           /\ Len(branch') = Len(branch) + 1 /\ Len(branch') <= MaxCommits
           /\ \A i \in 1 .. Len(branch) : branch'[i] = branch[i]
           /\ branch'[Len(branch')] = m
           /\ \A i \in 1 .. Len(branch') : Sound(branch'[i])
<1>1. /\ branch \in Seq(Manifest) /\ m \in Manifest /\ branch' = Append(branch, m)
      /\ Len(branch) < MaxCommits /\ Len(branch) \in Nat
  BY DEF TypeInv, Grows
<1>2. /\ branch' \in Seq(Manifest) /\ Len(branch') = Len(branch) + 1
      /\ \A i \in 1 .. Len(branch) : branch'[i] = branch[i]
      /\ branch'[Len(branch')] = m
  BY <1>1, AppendProperties
<1>3. branch' # << >> /\ Len(branch') <= MaxCommits
  BY <1>1, <1>2
<1>4. \A i \in 1 .. Len(branch') : Sound(branch'[i])
  <2> TAKE i \in 1 .. Len(branch')
  <2>1. CASE i \in 1 .. Len(branch)
    BY <1>2, <2>1 DEF TypeInv
  <2>2. CASE i = Len(branch')
    BY <1>2, <2>2 DEF Grows
  <2> QED
    BY <1>1, <1>2, <2>1, <2>2
<1> QED
  BY <1>2, <1>3, <1>4

LEMMA TypeFrame ==
    ASSUME TypeInv, NEW c \in Clients, NEW p \in Steps, NEW q, NEW b,
           pc' = [pc EXCEPT ![c] = p], plan' = [plan EXCEPT ![c] = q],
           base' = [base EXCEPT ![c] = b], atOnce' = atOnce,
           secret' \in EnvSet \union {None},
           branch' = branch \/ \E m : Grows(m),
           p = "idle" => q = None,
           p # "idle" => q \in PlanSet /\ SoundPlan(q) /\ branch # << >>,
           b \in 0 .. Len(branch)
    PROVE  TypeInv'
<1>1. /\ branch' \in Seq(Manifest) /\ Len(branch') <= MaxCommits
      /\ \A i \in 1 .. Len(branch') : Sound(branch'[i])
      /\ branch # << >> => branch' # << >>
      /\ \A i \in 0 .. Len(branch) : i \in 0 .. Len(branch')
  <2>1. CASE branch' = branch
    BY <2>1 DEF TypeInv
  <2>2. CASE \E m : Grows(m)
    <3>1. Len(branch) \in Nat
      BY DEF TypeInv
    <3> QED
      BY <2>2, <3>1, GrownBranch
  <2> QED
    BY <2>1, <2>2
<1>2. ASSUME NEW d \in Clients PROVE SaveOK(d)'
  <2>1. SaveOK(d)
    BY DEF TypeInv
  <2>2. CASE d = c
    BY <1>1, <2>2 DEF SaveOK, TypeInv
  <2>3. CASE d # c
    <3>1. pc'[d] = pc[d] /\ plan'[d] = plan[d] /\ base'[d] = base[d]
      BY <2>3 DEF TypeInv
    <3> QED
      BY <1>1, <2>1, <3>1 DEF SaveOK
  <2> QED
    BY <2>2, <2>3
<1>3. /\ pc' = [d \in Clients |-> pc'[d]] /\ plan' = [d \in Clients |-> plan'[d]]
      /\ base' = [d \in Clients |-> base'[d]]
  BY DEF TypeInv
<1> QED
  BY <1>1, <1>2, <1>3 DEF TypeInv

\* A commit that differs from the last one in one part only keeps the branch so.
LEMMA ApartFrame ==
    ASSUME TypeInv, ApartInv,
           \/ branch' = branch
           \/ \E m : Grows(m) /\ (branch # << >> => Apart(Committed, m))
    PROVE  ApartInv'
<1>1. CASE branch' = branch
  BY <1>1 DEF ApartInv
<1>2. CASE \E m : Grows(m) /\ (branch # << >> => Apart(Committed, m))
  <2>1. PICK m : Grows(m) /\ (branch # << >> => Apart(Committed, m))
    BY <1>2
  <2>2. /\ Len(branch') = Len(branch) + 1 /\ branch'[Len(branch')] = m
        /\ \A i \in 1 .. Len(branch) : branch'[i] = branch[i]
    BY <2>1, GrownBranch
  <2>3. Len(branch) \in Nat /\ (branch = << >> => Len(branch) = 0)
    BY DEF TypeInv
  <2>4. ASSUME NEW i \in 1 .. Len(branch'), i + 1 <= Len(branch')
        PROVE  Apart(branch'[i], branch'[i + 1])
    <3>1. CASE i = Len(branch)
      BY <2>1, <2>2, <2>3, <3>1 DEF Committed
    <3>2. CASE i # Len(branch)
      <4>1. i \in 1 .. Len(branch) /\ i + 1 \in 1 .. Len(branch)
        BY <2>2, <2>3, <2>4, <3>2
      <4> QED
        BY <2>2, <4>1 DEF ApartInv
    <3> QED
      BY <3>1, <3>2
  <2> QED
    BY <2>4 DEF ApartInv
<1> QED
  BY <1>1, <1>2

\* One save moves alone: every other one is idle, and stays so.
LEMMA ValueFrame ==
    ASSUME TypeInv, ValueInv, NEW c \in Clients, NEW p \in Steps, NEW q,
           pc' = [pc EXCEPT ![c] = p], plan' = [plan EXCEPT ![c] = q],
           atOnce' = atOnce,
           atOnce = 1 => /\ \A d \in Clients : pc[d] # "idle" => d = c
                         /\ branch' # << >> => Has(Committed.userSecrets)'
                         /\ Values1(c)'
    PROVE  ValueInv'
<1> SUFFICES ASSUME atOnce' = 1 PROVE ValueInv'
  BY DEF ValueInv
<1>1. \A d \in Clients : pc'[d] # "idle" => d = c
  BY DEF TypeInv
<1>2. ASSUME NEW d \in Clients PROVE Values1(d)'
  <2>1. CASE d = c
    BY <2>1
  <2>2. CASE d # c
    BY <1>1, <2>2 DEF Values1
  <2> QED
    BY <2>1, <2>2
<1> QED
  BY <1>1, <1>2 DEF ValueInv

---------------------------------------------------------------------------
(* The steps.                                                              *)

LEMMA InitOK == Init => IInv
<1> SUFFICES ASSUME Init PROVE IInv
  OBVIOUS
<1>1. /\ branch = << >> /\ branch \in Seq(Manifest) /\ Len(branch) = 0 /\ atOnce \in Nat
  BY DEF Init
<1>2. \A c \in Clients : SaveOK(c)
  BY <1>1 DEF Init, SaveOK, Steps
<1>3. TypeInv
  BY <1>1, <1>2 DEF Init, TypeInv
<1>4. ApartInv
  BY <1>1 DEF ApartInv
<1>5. ValueInv
  BY <1>1 DEF Init, ValueInv, Values1
<1> QED
  BY <1>3, <1>4, <1>5 DEF IInv

\* The last commit is a sound manifest.
LEMMA CommittedType ==
    ASSUME TypeInv, branch # << >>
    PROVE  /\ Len(branch) \in 1 .. Len(branch) /\ Committed \in Manifest /\ Sound(Committed)
<1>1. Len(branch) \in 1 .. Len(branch)
  BY DEF TypeInv
<1> QED
  BY <1>1, ElementOfSeq DEF TypeInv, Committed

\* With one save at a time, the one that moves is the only one under way.
LEMMA Alone ==
    ASSUME ValueInv, atOnce = 1, NEW c \in Clients, pc[c] # "idle"
    PROVE  \A d \in Clients : pc[d] # "idle" => d = c
  BY DEF ValueInv

LEMMA ReadOK ==
    ASSUME IInv, NEW c \in Clients, NEW form \in Forms, Read(c, form)
    PROVE  IInv'
<1> DEFINE q == PlanSettings(form, Committed)
           p == IF q.set = << >> THEN "clone" ELSE "patch"
<1>1. /\ TypeInv /\ ApartInv /\ ValueInv
      /\ pc[c] = "idle" /\ Cardinality(Busy) < atOnce /\ branch # << >>
      /\ Plannable(form, Committed)
      /\ pc' = [pc EXCEPT ![c] = p] /\ plan' = [plan EXCEPT ![c] = q]
      /\ atOnce' = atOnce /\ branch' = branch /\ secret' = secret /\ base' = base
  BY DEF IInv, Read, Go
<1>2. /\ q \in PlanSet /\ SoundPlan(q)
      /\ q.app.userSecrets \subseteq DOMAIN q.set \union Committed.userSecrets
  BY <1>1, CommittedType, PlanIsSound
<1>3. p \in Steps /\ p # "idle" /\ p \in {"clone", "patch"}
      /\ (p = "clone" => q.set = << >>)
  BY DEF Steps
<1> HIDE DEF p, q
<1>4. TypeInv'
  <2>1. base' = [base EXCEPT ![c] = base[c]] /\ base[c] \in 0 .. Len(branch)
        /\ secret' \in EnvSet \union {None}
    BY <1>1 DEF TypeInv, SaveOK
  <2> QED
    BY <1>1, <1>2, <1>3, <2>1, TypeFrame
<1>5. ApartInv'
  BY <1>1, ApartFrame
<1>6. ASSUME atOnce = 1
      PROVE  /\ \A d \in Clients : pc[d] # "idle" => d = c
             /\ branch' # << >> => Has(Committed.userSecrets)'
             /\ Values1(c)'
  <2>1. Busy = {}
    <3>1. IsFiniteSet(Busy)
      BY FS_Subset DEF Busy
    <3>2. Cardinality(Busy) \in Nat
      BY <3>1, FS_CardinalityType
    <3>3. Cardinality(Busy) = 0
      BY <1>1, <1>6, <3>2
    <3> QED
      BY <3>1, <3>3, FS_EmptySet
  <2>2. \A d \in Clients : pc[d] # "idle" => d = c
    BY <2>1 DEF Busy
  <2>3. Has(Committed.userSecrets)
    BY <1>1, <1>6 DEF ValueInv
  <2>4. Has(Committed.userSecrets)'
    BY <1>1, <2>3 DEF Has, Committed
  <2>5. pc'[c] = p /\ plan'[c] = q /\ Committed' = Committed
    BY <1>1 DEF TypeInv, Committed
  <2>6. ASSUME p = "patch" PROVE Values1(c)'
    BY <1>2, <2>5, <2>6 DEF Values1
  <2>7. ASSUME p = "clone" PROVE Values1(c)'
    <3>1. DOMAIN q.set = {}
      BY <1>3, <2>7
    <3>2. Has(q.app.userSecrets)
      BY <1>2, <2>3, <3>1 DEF Has
    <3>3. pc'[c] = "clone" /\ plan'[c].app.userSecrets = q.app.userSecrets
          /\ secret' = secret
      BY <1>1, <2>5, <2>7
    <3> QED
      BY <3>2, <3>3 DEF Values1, Has
  <2> QED
    BY <1>3, <2>2, <2>4, <2>6, <2>7
<1>7. ValueInv'
  BY <1>1, <1>3, <1>6, ValueFrame
<1> QED
  BY <1>4, <1>5, <1>7 DEF IInv

\* What Put leaves in the Secret is still names and values.
LEMMA MergeType ==
    ASSUME NEW f \in EnvSet, NEW g \in EnvSet
    PROVE  Merge(f, g) \in EnvSet /\ DOMAIN Merge(f, g) = DOMAIN f \union DOMAIN g
<1>1. /\ DOMAIN f \subseteq Names /\ \A k \in DOMAIN f : f[k] \in Texts
      /\ DOMAIN g \subseteq Names /\ \A k \in DOMAIN g : g[k] \in Texts
  BY EnvSetIs
<1>2. /\ DOMAIN Merge(f, g) = DOMAIN f \union DOMAIN g
      /\ Merge(f, g) = [k \in DOMAIN Merge(f, g) |-> Merge(f, g)[k]]
      /\ \A k \in DOMAIN Merge(f, g) : Merge(f, g)[k] \in Texts
  BY <1>1 DEF Merge
<1> QED
  BY <1>1, <1>2, EnvSetIs

LEMMA WithoutType ==
    ASSUME NEW f \in EnvSet, NEW ks
    PROVE  Without(f, ks) \in EnvSet /\ DOMAIN Without(f, ks) = DOMAIN f \ ks
<1>1. DOMAIN f \subseteq Names /\ \A k \in DOMAIN f : f[k] \in Texts
  BY EnvSetIs
<1>2. /\ DOMAIN Without(f, ks) = DOMAIN f \ ks
      /\ Without(f, ks) = [k \in DOMAIN Without(f, ks) |-> Without(f, ks)[k]]
      /\ \A k \in DOMAIN Without(f, ks) : Without(f, ks)[k] \in Texts
  BY <1>1 DEF Without
<1> QED
  BY <1>1, <1>2, EnvSetIs

\* A step that leaves the plans, the bases and the branch as they are.
LEMMA PutFrame ==
    ASSUME IInv, NEW c \in Clients, NEW p \in Steps, p # "idle", pc[c] # "idle",
           pc' = [pc EXCEPT ![c] = p], UNCHANGED << atOnce, branch, plan, base >>,
           secret' \in EnvSet \union {None},
           atOnce = 1 => Has(Committed.userSecrets)' /\ Values1(c)'
    PROVE  IInv'
<1>1. TypeInv /\ ApartInv /\ ValueInv
  BY DEF IInv
<1>2. /\ plan' = [plan EXCEPT ![c] = plan[c]] /\ base' = [base EXCEPT ![c] = base[c]]
      /\ plan[c] \in PlanSet /\ SoundPlan(plan[c]) /\ branch # << >>
      /\ base[c] \in 0 .. Len(branch)
  BY <1>1 DEF TypeInv, SaveOK
<1>3. TypeInv'
  BY <1>1, <1>2, TypeFrame
<1>4. ApartInv'
  BY <1>1, ApartFrame
<1>5. ValueInv'
  BY <1>1, <1>2, Alone, ValueFrame
<1> QED
  BY <1>3, <1>4, <1>5 DEF IInv

LEMMA PatchOK ==
    ASSUME IInv, NEW c \in Clients, Patch(c)
    PROVE  IInv'
<1>1. /\ TypeInv /\ ValueInv /\ pc[c] = "patch"
      /\ UNCHANGED << atOnce, branch, plan, base >> /\ Committed' = Committed
  BY DEF IInv, Patch, Committed
<1>2. plan[c] \in PlanSet /\ branch # << >> /\ secret \in EnvSet \union {None}
  BY <1>1 DEF TypeInv, SaveOK
<1>3. "create" \in Steps /\ "clone" \in Steps
  BY DEF Steps
<1>4. CASE secret = None
  <2>1. pc' = [pc EXCEPT ![c] = "create"] /\ secret' = secret
    BY <1>4 DEF Patch, Go
  <2>2. atOnce = 1 => Has(Committed.userSecrets)' /\ Values1(c)'
    BY <1>1, <1>2, <1>4, <2>1 DEF ValueInv, Values1, Has, TypeInv
  <2> QED
    BY <1>1, <1>2, <1>3, <2>1, <2>2, PutFrame
<1>5. CASE secret # None
  <2>1. pc' = [pc EXCEPT ![c] = "clone"] /\ secret' = Merge(secret, plan[c].set)
    BY <1>5 DEF Patch, Go
  <2>2. plan[c].set \in EnvSet
    BY <1>2 DEF PlanSet
  <2>3. secret' \in EnvSet /\ DOMAIN secret' = DOMAIN secret \union DOMAIN plan[c].set
    BY <1>2, <1>5, <2>1, <2>2, MergeType
  <2>4. secret' # None
    BY <2>3
  <2>5. atOnce = 1 => Has(Committed.userSecrets)' /\ Values1(c)'
    <3> SUFFICES ASSUME atOnce = 1 PROVE Has(Committed.userSecrets)' /\ Values1(c)'
      OBVIOUS
    <3>1. /\ plan[c].app.userSecrets \subseteq DOMAIN plan[c].set \union Committed.userSecrets
          /\ Committed.userSecrets \subseteq DOMAIN secret
      BY <1>1, <1>2 DEF ValueInv, Values1, Has
    <3>2. Has(Committed.userSecrets)' /\ Has(plan[c].app.userSecrets)'
      BY <1>1, <2>3, <2>4, <3>1 DEF Has
    <3> QED
      BY <1>1, <2>1, <3>2 DEF Values1, TypeInv
  <2> QED
    BY <1>1, <1>3, <2>1, <2>3, <2>5, PutFrame
<1> QED
  BY <1>4, <1>5

LEMMA CreateOK ==
    ASSUME IInv, NEW c \in Clients, Create(c)
    PROVE  IInv'
<1>1. /\ TypeInv /\ ValueInv /\ pc[c] = "create" /\ pc' = [pc EXCEPT ![c] = "clone"]
      /\ secret' = IF secret = None THEN plan[c].set ELSE secret
      /\ UNCHANGED << atOnce, branch, plan, base >> /\ Committed' = Committed
  BY DEF IInv, Create, Committed, Go
<1>2. /\ plan[c].set \in EnvSet /\ branch # << >> /\ secret' \in EnvSet \union {None}
      /\ "clone" \in Steps
  BY <1>1 DEF TypeInv, SaveOK, PlanSet, Steps
<1>3. atOnce = 1 => Has(Committed.userSecrets)' /\ Values1(c)'
  <2> SUFFICES ASSUME atOnce = 1 PROVE Has(Committed.userSecrets)' /\ Values1(c)'
    OBVIOUS
  <2>1. /\ secret = None /\ Committed.userSecrets = {}
        /\ plan[c].app.userSecrets \subseteq DOMAIN plan[c].set \union Committed.userSecrets
    BY <1>1, <1>2 DEF ValueInv, Values1, Has
  <2>2. secret' # None /\ secret' = plan[c].set
    BY <1>1, <1>2, <2>1
  <2>3. Has(Committed.userSecrets)' /\ Has(plan[c].app.userSecrets)'
    BY <1>1, <2>1, <2>2 DEF Has
  <2> QED
    BY <1>1, <2>3 DEF Values1, TypeInv
<1> QED
  BY <1>1, <1>2, <1>3, PutFrame

LEMMA CloneOK ==
    ASSUME IInv, NEW c \in Clients, Clone(c)
    PROVE  IInv'
<1>1. /\ TypeInv /\ ApartInv /\ ValueInv /\ pc[c] = "clone"
      /\ pc' = [pc EXCEPT ![c] = "push"] /\ base' = [base EXCEPT ![c] = Len(branch)]
      /\ UNCHANGED << atOnce, branch, secret, plan >> /\ Committed' = Committed
  BY DEF IInv, Clone, Committed, Go
<1>2. /\ plan' = [plan EXCEPT ![c] = plan[c]] /\ plan[c] \in PlanSet /\ SoundPlan(plan[c])
      /\ branch # << >> /\ secret' \in EnvSet \union {None} /\ "push" \in Steps
  BY <1>1 DEF TypeInv, SaveOK, Steps
<1>3. TypeInv'
  <2>1. Len(branch) \in 0 .. Len(branch)
    BY <1>1 DEF TypeInv
  <2> QED
    BY <1>1, <1>2, <2>1, TypeFrame
<1>4. ApartInv'
  BY <1>1, ApartFrame
<1>5. ASSUME atOnce = 1
      PROVE  Has(Committed.userSecrets)' /\ Values1(c)'
  BY <1>1, <1>2, <1>5 DEF ValueInv, Values1, Has, TypeInv
<1>6. ValueInv'
  BY <1>1, <1>2, <1>5, Alone, ValueFrame
<1> QED
  BY <1>3, <1>4, <1>6 DEF IInv

\* A save that ends is planned nowhere, whatever it did to the branch or the
\* Secret before.
LEMMA EndFrame ==
    ASSUME IInv, NEW c \in Clients, pc[c] # "idle", End(c), atOnce' = atOnce,
           secret' \in EnvSet \union {None},
           \/ branch' = branch
           \/ \E m : Grows(m) /\ (branch # << >> => Apart(Committed, m)),
           atOnce = 1 => Has(Committed.userSecrets)'
    PROVE  IInv'
<1>1. /\ TypeInv /\ ApartInv /\ ValueInv
      /\ pc' = [pc EXCEPT ![c] = "idle"] /\ plan' = [plan EXCEPT ![c] = None]
      /\ base' = [base EXCEPT ![c] = 0] /\ "idle" \in Steps
  BY DEF IInv, End, Go, Steps
<1>2. 0 \in 0 .. Len(branch)
  BY <1>1 DEF TypeInv
<1>3. TypeInv'
  BY <1>1, <1>2, TypeFrame
<1>4. ApartInv'
  BY <1>1, ApartFrame
<1>5. Values1(c)'
  BY <1>1 DEF Values1, TypeInv
<1>6. ValueInv'
  BY <1>1, <1>5, Alone, ValueFrame
<1> QED
  BY <1>3, <1>4, <1>6 DEF IInv

LEMMA PushOK ==
    ASSUME IInv, NEW c \in Clients, Push(c)
    PROVE  IInv'
<1> DEFINE n == RenderSettings(branch[base[c]], plan[c].app)
<1>1. /\ TypeInv /\ ApartInv /\ ValueInv /\ pc[c] = "push"
      /\ atOnce' = atOnce /\ secret' = secret
  BY DEF IInv, Push
<1>2. /\ plan[c] \in PlanSet /\ SoundPlan(plan[c]) /\ branch # << >>
      /\ secret' \in EnvSet \union {None} /\ base[c] \in 0 .. Len(branch)
      /\ plan[c].app \in Manifest /\ Sound(plan[c].app) /\ "remove" \in Steps
  BY <1>1 DEF TypeInv, SaveOK, PlanSet, SoundPlan, Steps
<1>3. CASE /\ Len(branch) = base[c] /\ Len(branch) < MaxCommits
           /\ branch' = Append(branch, n)
  <2>1. /\ branch[base[c]] = Committed /\ Committed \in Manifest
    BY <1>1, <1>2, <1>3, CommittedType DEF Committed
  <2>2. n \in Manifest /\ Sound(n) /\ n.image = Committed.image
        /\ n.userSecrets = plan[c].app.userSecrets
    BY <1>2, <2>1, RenderType
  <2> HIDE DEF n
  <2>3. Grows(n) /\ Apart(Committed, n)
    BY <1>3, <2>2 DEF Grows, Apart
  <2>4. Committed' = n
    BY <1>1, <2>3, GrownBranch DEF Committed
  <2>5. atOnce = 1 => Has(Committed.userSecrets)'
    BY <1>1, <2>2, <2>4 DEF ValueInv, Values1, Has
  <2>6. CASE pc' = [pc EXCEPT ![c] = "remove"] /\ UNCHANGED << plan, base >>
    <3>1. plan' = [plan EXCEPT ![c] = plan[c]] /\ base' = [base EXCEPT ![c] = base[c]]
      BY <1>1, <2>6 DEF TypeInv
    <3>2. TypeInv'
      BY <1>1, <1>2, <2>3, <2>6, <3>1, TypeFrame
    <3>3. ApartInv'
      BY <1>1, <2>3, ApartFrame
    <3>4. Values1(c)'
      <4>1. pc'[c] = "remove" /\ plan'[c] = plan[c]
        BY <1>1, <2>6 DEF TypeInv
      <4> QED
        BY <2>2, <2>4, <4>1 DEF Values1
    <3>5. ValueInv'
      BY <1>1, <1>2, <2>5, <2>6, <3>1, <3>4, Alone, ValueFrame
    <3> QED
      BY <3>2, <3>3, <3>5 DEF IInv
  <2>7. CASE End(c)
    BY <1>1, <1>2, <2>3, <2>5, <2>7, EndFrame
  <2>8. (pc' = [pc EXCEPT ![c] = "remove"] /\ UNCHANGED << plan, base >>) \/ End(c)
    BY DEF Push, Go
  <2> QED
    BY <2>6, <2>7, <2>8
<1>4. CASE End(c) /\ branch' = branch
  <2>1. atOnce = 1 => Has(Committed.userSecrets)'
    BY <1>1, <1>2, <1>4 DEF ValueInv, Has, Committed
  <2> QED
    BY <1>1, <1>2, <1>4, <2>1, EndFrame
<1> QED
  BY <1>3, <1>4 DEF Push

LEMMA RemoveOK ==
    ASSUME IInv, NEW c \in Clients, Remove(c)
    PROVE  IInv'
<1>1. /\ TypeInv /\ ValueInv /\ pc[c] = "remove" /\ End(c)
      /\ atOnce' = atOnce /\ branch' = branch /\ Committed' = Committed
      /\ secret' = IF secret = None THEN None ELSE Without(secret, plan[c].remove)
  BY DEF IInv, Remove, Committed
<1>2. /\ SoundPlan(plan[c]) /\ branch # << >> /\ secret \in EnvSet \union {None}
  BY <1>1 DEF TypeInv, SaveOK
<1>3. secret # None => secret' \in EnvSet /\ DOMAIN secret' = DOMAIN secret \ plan[c].remove
  BY <1>1, <1>2, WithoutType
<1>4. secret' \in EnvSet \union {None}
  BY <1>1, <1>3
<1>5. ASSUME atOnce = 1 PROVE Has(Committed.userSecrets)'
  <2>1. /\ Has(Committed.userSecrets)
        /\ Committed.userSecrets \intersect plan[c].remove = {}
    BY <1>1, <1>2, <1>5 DEF ValueInv, Values1, SoundPlan
  <2>2. Committed.userSecrets # {} =>
          secret' # None /\ Committed.userSecrets \subseteq DOMAIN secret'
    BY <1>3, <2>1 DEF Has
  <2> QED
    BY <1>1, <2>2 DEF Has
<1> QED
  BY <1>1, <1>4, <1>5, EndFrame

LEMMA AbortOK ==
    ASSUME IInv, NEW c \in Clients, Abort(c)
    PROVE  IInv'
<1>1. /\ TypeInv /\ ValueInv /\ pc[c] # "idle" /\ End(c)
      /\ atOnce' = atOnce /\ branch' = branch /\ secret' = secret
  BY DEF IInv, Abort
<1>2. branch # << >> /\ secret' \in EnvSet \union {None}
  BY <1>1 DEF TypeInv, SaveOK
<1>3. atOnce = 1 => Has(Committed.userSecrets)'
  BY <1>1, <1>2 DEF ValueInv, Has, Committed
<1> QED
  BY <1>1, <1>2, <1>3, EndFrame

LEMMA DeployOK ==
    ASSUME IInv, NEW image \in Images, Deploy(image)
    PROVE  IInv'
<1> DEFINE first == [image |-> image, env |-> << >>, userSecrets |-> {}, buildEnv |-> << >>,
                     health |-> "default", resources |-> [request |-> 0, limit |-> 0]]
           n == IF branch = << >> THEN first ELSE [Committed EXCEPT !.image = image]
<1>1. /\ TypeInv /\ ApartInv /\ ValueInv /\ Len(branch) < MaxCommits
      /\ branch' = Append(branch, n) /\ UNCHANGED << atOnce, secret, pc, plan, base >>
  BY DEF IInv, Deploy
<1>2. branch = << >> => n \in Manifest /\ Sound(n) /\ n.userSecrets = {}
  <2>1. first \in Manifest
    <3>1. [request |-> 0, limit |-> 0] \in Resources
      BY DEF Resources
    <3>2. {} \in SUBSET Names /\ "default" \in Probes
      BY DEF Probes
    <3> QED
      BY <3>1, <3>2, EmptyEnv DEF Manifest
  <2>2. first.userSecrets = {} /\ DOMAIN first.env = {} /\ DOMAIN first.buildEnv = {}
        /\ first.health = "default" /\ first.resources.limit = 0
    OBVIOUS
  <2>3. DOMAIN first.env \union first.userSecrets \union DOMAIN first.buildEnv = {}
    BY <2>2
  <2> HIDE DEF first
  <2>4. Cardinality({}) <= MaxEnv
    BY FS_EmptySet
  <2>5. Sound(first)
    BY <2>2, <2>3, <2>4 DEF Sound
  <2> QED
    BY <2>1, <2>2, <2>5
<1>3. branch # << >> => /\ n \in Manifest /\ Sound(n) /\ Apart(Committed, n)
                        /\ n.userSecrets = Committed.userSecrets
  <2> SUFFICES ASSUME branch # << >>
               PROVE  /\ n \in Manifest /\ Sound(n) /\ Apart(Committed, n)
                      /\ n.userSecrets = Committed.userSecrets
    OBVIOUS
  <2>1. Committed \in Manifest /\ Sound(Committed)
    BY <1>1, CommittedType
  <2>2. n = [Committed EXCEPT !.image = image]
    OBVIOUS
  <2> HIDE DEF n
  <2> QED
    BY <2>1, <2>2 DEF Manifest, Sound, Apart, Settings
<1> HIDE DEF n
<1>4. Grows(n) /\ (branch # << >> => Apart(Committed, n))
  BY <1>1, <1>2, <1>3 DEF Grows
<1>5. TypeInv'
  <2>1. /\ branch' \in Seq(Manifest) /\ branch' # << >> /\ Len(branch') = Len(branch) + 1
        /\ Len(branch') <= MaxCommits /\ \A i \in 1 .. Len(branch') : Sound(branch'[i])
    BY <1>1, <1>4, GrownBranch
  <2>2. Len(branch) \in Nat
    BY <1>1 DEF TypeInv
  <2>3. ASSUME NEW c \in Clients PROVE SaveOK(c)'
    <3>1. SaveOK(c)
      BY <1>1 DEF TypeInv
    <3>2. base[c] \in 0 .. Len(branch) => base[c] \in 0 .. Len(branch')
      BY <2>1, <2>2
    <3> QED
      BY <1>1, <2>1, <3>1, <3>2 DEF SaveOK
  <2> QED
    BY <1>1, <2>1, <2>3 DEF TypeInv
<1>6. ApartInv'
  BY <1>1, <1>4, ApartFrame
<1>7. ValueInv'
  <2> SUFFICES ASSUME atOnce = 1 PROVE ValueInv'
    BY <1>1 DEF ValueInv
  <2>1. Committed' = n
    BY <1>1, <1>4, GrownBranch DEF Committed
  <2>2. Has(Committed.userSecrets)'
    BY <1>1, <1>2, <1>3, <2>1 DEF ValueInv, Has
  <2>3. ASSUME NEW c \in Clients PROVE Values1(c)'
    <3>1. CASE pc[c] = "idle"
      BY <1>1, <3>1 DEF Values1
    <3>2. CASE pc[c] # "idle"
      <4>1. Committed'.userSecrets = Committed.userSecrets
        BY <1>1, <1>3, <2>1, <3>2 DEF TypeInv, SaveOK
      <4>2. Values1(c)
        BY <1>1 DEF ValueInv
      <4> QED
        BY <1>1, <4>1, <4>2 DEF Values1, Has
    <3> QED
      BY <3>1, <3>2
  <2> QED
    BY <1>1, <2>2, <2>3 DEF ValueInv
<1> QED
  BY <1>5, <1>6, <1>7 DEF IInv

LEMMA NextOK == IInv /\ [Next]_vars => IInv'
<1> SUFFICES ASSUME IInv, [Next]_vars PROVE IInv'
  OBVIOUS
<1>1. ASSUME NEW image \in Images, Deploy(image) PROVE IInv'
  BY <1>1, DeployOK
<1>2. ASSUME NEW c \in Clients, NEW form \in Forms, Read(c, form) PROVE IInv'
  BY <1>2, ReadOK
<1>3. ASSUME NEW c \in Clients,
             Patch(c) \/ Create(c) \/ Clone(c) \/ Push(c) \/ Remove(c) \/ Abort(c)
      PROVE  IInv'
  BY <1>3, PatchOK, CreateOK, CloneOK, PushOK, RemoveOK, AbortOK
<1>4. CASE UNCHANGED vars
  <2>1. UNCHANGED << atOnce, branch, secret, pc, plan, base >>
    BY <1>4 DEF vars
  <2>2. TypeInv'
    BY <2>1 DEF IInv, TypeInv, SaveOK
  <2>3. ApartInv'
    BY <2>1 DEF IInv, ApartInv
  <2>4. ValueInv'
    BY <2>1 DEF IInv, ValueInv, Values1, Has, Committed
  <2> QED
    BY <2>2, <2>3, <2>4 DEF IInv
<1> QED
  BY <1>1, <1>2, <1>3, <1>4 DEF Next

---------------------------------------------------------------------------
(* The theorems.                                                           *)

\* The invariant holds in every reachable state.
THEOREM Invariance == Spec => []IInv
<1>1. Init => IInv
  BY InitOK
<1>2. IInv /\ [Next]_vars => IInv'
  BY NextOK
<1> QED
  BY <1>1, <1>2, PTL DEF Spec

\* The state has its type: every save is where its plan says, and nothing is
\* committed both as a literal and as a secret.
THEOREM TypeCorrect == Spec => []TypeOK
<1>1. IInv => TypeOK
  <2> SUFFICES ASSUME IInv PROVE TypeOK
    OBVIOUS
  <2>1. TypeInv
    BY DEF IInv
  <2>2. pc \in [Clients -> {"idle", "patch", "create", "clone", "push", "remove"}]
    BY <2>1 DEF TypeInv, SaveOK, Steps
  <2>3. \A c \in Clients : /\ (plan[c] = None) <=> (pc[c] = "idle")
                           /\ base[c] \in 0 .. Len(branch)
    BY <2>1 DEF TypeInv, SaveOK
  <2>4. \A i \in 1 .. Len(branch) : DOMAIN branch[i].env \intersect branch[i].userSecrets = {}
    BY <2>1 DEF TypeInv, Sound
  <2> QED
    BY <2>1, <2>2, <2>3, <2>4 DEF TypeOK, TypeInv
<1> QED
  BY <1>1, Invariance, PTL

\* With one save at a time, whatever fails between its steps and whatever is
\* deployed meanwhile, git names no secret that has no value: Put comes before
\* the commit and Remove after it.
THEOREM NamesHaveValues == Spec => []NamedHasValue
<1>1. IInv => NamedHasValue
  BY DEF IInv, ValueInv, Has, NamedHasValue
<1> QED
  BY <1>1, Invariance, PTL

\* After any number of saves and deploys, of any forms, interleaved anyhow, what
\* is committed has limits that cover its requests, and the form drawn from it
\* is accepted and changes nothing.
THEOREM CommitsAreSound == Spec => []CommittedIsSound
<1>1. IInv => CommittedIsSound
  <2> SUFFICES ASSUME IInv PROVE CommittedIsSound
    OBVIOUS
  <2>1. TypeInv
    BY DEF IInv
  <2>2. LimitCoversRequest
    BY <2>1 DEF TypeInv, Sound, LimitCoversRequest
  <2>3. FormSavesBack
    BY <2>1, CommittedType, SoundSavesBack DEF FormSavesBack
  <2> QED
    BY <2>2, <2>3 DEF CommittedIsSound
<1> QED
  BY <1>1, Invariance, PTL

\* No commit changes the image and the settings together: a save does not undo
\* a deploy that came after it was planned.
THEOREM SavesKeepTheImage == Spec => SettingsAndImageApart
<1> DEFINE A == \A i \in 1 .. Len(branch) : i + 1 <= Len(branch') =>
                  \/ branch'[i + 1].image = branch'[i].image
                  \/ Settings(branch'[i + 1]) = Settings(branch'[i])
<1>1. IInv /\ IInv' /\ [Next]_vars => [A]_vars
  <2> SUFFICES ASSUME IInv, IInv', [Next]_vars, NEW i \in 1 .. Len(branch),
                      i + 1 <= Len(branch')
               PROVE  \/ branch'[i + 1].image = branch'[i].image
                      \/ Settings(branch'[i + 1]) = Settings(branch'[i])
    OBVIOUS
  <2>1. ApartInv' /\ Len(branch') \in Nat /\ Len(branch) \in Nat
    BY DEF IInv, TypeInv
  <2>2. i \in 1 .. Len(branch')
    BY <2>1
  <2>3. Apart(branch'[i], branch'[i + 1])
    BY <2>1, <2>2 DEF ApartInv
  <2> QED
    BY <2>3 DEF Apart
<1> QED
  BY <1>1, Invariance, PTL DEF Spec, SettingsAndImageApart
=============================================================================
