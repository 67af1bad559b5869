--------------------------- MODULE SettingsWrite ---------------------------
(***************************************************************************)
(* What an app is configured with, and the values that are not in git:     *)
(* the settings endpoint (server/settings.go) and the Secret it writes     *)
(* (server/secretwrite.go).                                                *)
(*                                                                         *)
(* A save reads the committed manifest, plans from it, puts the new secret *)
(* values into the cluster, commits the manifest through the git writer,   *)
(* and takes the removed values out.  The commit is the writer's of        *)
(* DeployPipeline: a clone, a render onto what was cloned, and a push that *)
(* is refused when the branch has moved since.  Other requests, whose      *)
(* commits build on the last one too (EveryCommitBuildsOnTheLast there),   *)
(* are one step each.                                                      *)
(***************************************************************************)
EXTENDS Naturals, Sequences, FiniteSets

CONSTANTS
    Clients,     \* requests on any replica
    Forms,       \* what is saved: [env, resources, health]
    Images,      \* what other requests deploy
    MaxEnv,      \* maxSettingsEnv
    Concurrency, \* how many saves may be under way together, any of these
    MaxCommits,  \* bound: commits on the branch
    None

\* The names and the values a form may use, and the shapes of what is sent,
\* committed and planned.  Of the resources, 0 is a field left blank.
Names == UNION {DOMAIN f.env : f \in Forms}
Texts == UNION {{f.env[k].value : k \in DOMAIN f.env} : f \in Forms}
EnvSet == UNION {[ks -> Texts] : ks \in SUBSET Names}
Variable == [secret : BOOLEAN, value : Texts, build : BOOLEAN, runtime : BOOLEAN]
Probes == {f.health : f \in Forms} \union {"default"}
Resources == [request : Nat, limit : Nat]
Manifest == [image : Images, env : EnvSet, userSecrets : SUBSET Names,
             buildEnv : EnvSet, health : Probes, resources : Resources]
PlanSet == [app : Manifest, set : EnvSet, remove : SUBSET Names]

ASSUME SettingsAssumption ==
    /\ MaxEnv \in Nat /\ Concurrency \subseteq Nat /\ MaxCommits \in Nat
    /\ IsFiniteSet(Clients)
    /\ \A f \in Forms : /\ f.env \in [DOMAIN f.env -> Variable]
                        /\ f.resources \in Resources
    /\ None \notin EnvSet /\ None \notin PlanSet

VARIABLES
    atOnce,     \* how many saves this behaviour has under way together
    branch,     \* the manifests committed, oldest first
    secret,     \* the data of the app's Secret, or None when there is none
    pc,         \* where each save is
    plan,       \* what it decided: [app, set, remove]
    base        \* the length of the branch it cloned

vars == << atOnce, branch, secret, pc, plan, base >>

\* A function without some of its keys.
Without(f, ks) == [k \in DOMAIN f \ ks |-> f[k]]

\* A merge patch: the keys it names, and the others as they were.
Merge(f, g) == [k \in DOMAIN f \union DOMAIN g |->
                  IF k \in DOMAIN g THEN g[k] ELSE f[k]]

Committed == branch[Len(branch)]

---------------------------------------------------------------------------
(* The plan.  A variable of a form is [secret, value, build, runtime]; the *)
(* value "keep" is one that was not sent and "" one that was sent empty.   *)
(* The keys of a form are distinct and usable as names: the others are     *)
(* refused, and a refusal changes nothing.                                 *)

Chosen(env, P(_)) == {k \in DOMAIN env : P(env[k])}
Values(env, ks) == [k \in ks |-> env[k].value]

IsSecret(v) == v.secret
IsRuntime(v) == ~ v.secret /\ v.runtime
IsBuild(v) == ~ v.secret /\ v.build
IsSent(v) == v.secret /\ v.value # "keep"

\* planResources: a field left blank (0) keeps what is committed.
PlanResources(asked, current) ==
    [f \in DOMAIN asked |-> IF asked[f] = 0 THEN current[f] ELSE asked[f]]

\* The memory limit is not below the memory request.
Fits(asked, r) == r.limit # 0 /\ r.request # 0 => r.limit >= r.request

\* planSettings and planHealth: what is accepted.
Plannable(form, current) ==
    /\ Cardinality(DOMAIN form.env) <= MaxEnv
    /\ \A k \in DOMAIN form.env :
          LET v == form.env[k]
          IN  /\ v.build \/ v.runtime
              /\ v.secret => ~ v.build /\ v.value # ""
              /\ ~ v.secret => v.value # "keep"
              /\ v.secret /\ v.value = "keep" => k \in current.userSecrets
    /\ form.health # "refused"
    /\ Fits(form.resources, PlanResources(form.resources, current.resources))

\* planSettings: what is committed, and the two changes to the Secret.
PlanSettings(form, current) ==
    [app    |-> [image       |-> current.image,
                 env         |-> Values(form.env, Chosen(form.env, IsRuntime)),
                 userSecrets |-> Chosen(form.env, IsSecret),
                 buildEnv    |-> Values(form.env, Chosen(form.env, IsBuild)),
                 health      |-> form.health,
                 resources   |-> PlanResources(form.resources, current.resources)],
     set    |-> Values(form.env, Chosen(form.env, IsSent)),
     remove |-> current.userSecrets \ DOMAIN form.env]

\* mutant: a build-time variable that is a run-time one too is not marked
ToWireSettingsUnmarked(m) ==
    [env |-> [k \in DOMAIN m.env \union m.userSecrets \union DOMAIN m.buildEnv |->
                IF k \in DOMAIN m.env
                THEN [secret |-> FALSE, value |-> m.env[k], build |-> FALSE, runtime |-> TRUE]
                ELSE IF k \in m.userSecrets
                THEN [secret |-> TRUE, value |-> "keep", build |-> FALSE, runtime |-> TRUE]
                ELSE [secret |-> FALSE, value |-> m.buildEnv[k], build |-> TRUE,
                      runtime |-> FALSE]],
     resources |-> m.resources, health |-> m.health]

\* toWireSettings: the form the page is drawn from.  A secret goes out without
\* its value, and a variable of both sides is one row.
ToWireSettings(m) ==
    [env |-> [k \in DOMAIN m.env \union m.userSecrets \union DOMAIN m.buildEnv |->
                [secret  |-> k \in m.userSecrets,
                 value   |-> IF k \in DOMAIN m.env THEN m.env[k]
                             ELSE IF k \in m.userSecrets THEN "keep" ELSE m.buildEnv[k],
                 build   |-> k \in DOMAIN m.buildEnv,
                 runtime |-> k \in DOMAIN m.env \union m.userSecrets]],
     resources |-> m.resources, health |-> m.health]

---------------------------------------------------------------------------
(* A save                                                                  *)

Go(c, where) == pc' = [pc EXCEPT ![c] = where]

End(c) ==
    /\ Go(c, "idle")
    /\ plan' = [plan EXCEPT ![c] = None]
    /\ base' = [base EXCEPT ![c] = 0]

Busy == {c \in Clients : pc[c] # "idle"}

\* The committed manifest is read and the whole save planned from it.  An app
\* with nothing deployed, and a form that is not accepted, are refused.
Read(c, form) ==
    /\ pc[c] = "idle" /\ Cardinality(Busy) < atOnce
    /\ branch # << >> /\ Len(branch) < MaxCommits
    /\ Plannable(form, Committed)
    /\ plan' = [plan EXCEPT ![c] = PlanSettings(form, Committed)]
    /\ Go(c, IF PlanSettings(form, Committed).set = << >> THEN "clone" ELSE "patch")
    /\ UNCHANGED << atOnce, branch, secret, base >>

\* Put: a merge patch, which finds the Secret or does not.
Patch(c) ==
    /\ pc[c] = "patch"
    /\ IF secret = None
       THEN Go(c, "create") /\ UNCHANGED secret
       ELSE Go(c, "clone") /\ secret' = Merge(secret, plan[c].set)
    /\ UNCHANGED << atOnce, branch, plan, base >>

\* Put, after NotFound: create it.  The error tested afterwards is the patch's,
\* so an AlreadyExists is returned as success and nothing is patched.
Create(c) ==
    /\ pc[c] = "create"
    /\ secret' = IF secret = None THEN plan[c].set ELSE secret
    /\ Go(c, "clone")
    /\ UNCHANGED << atOnce, branch, plan, base >>

Clone(c) ==
    /\ pc[c] = "clone"
    /\ base' = [base EXCEPT ![c] = Len(branch)]
    /\ Go(c, "push")
    /\ UNCHANGED << atOnce, branch, secret, plan >>

\* mutant: the planned manifest is committed as it is
RenderSettingsPlanned(m, want) == want

\* renderSettings: the settings of the plan on the manifest that was cloned.
RenderSettings(m, want) ==
    [m EXCEPT !.env = want.env, !.userSecrets = want.userSecrets,
              !.buildEnv = want.buildEnv, !.health = want.health,
              !.resources = want.resources]

\* mutant: an error of the commit does not end the save
PushAnyhow(c) ==
    /\ pc[c] = "push"
    /\ \/ /\ Len(branch) = base[c] /\ Len(branch) < MaxCommits
          /\ branch' = Append(branch, RenderSettings(branch[base[c]], plan[c].app))
          /\ Go(c, "remove")
       \/ Go(c, "remove") /\ UNCHANGED branch
    /\ UNCHANGED << atOnce, secret, plan, base >>

\* The push.  When it is refused, or its answer is lost, or what it did cannot
\* be recorded, the save ends with a 502.
Push(c) ==
    /\ pc[c] = "push"
    /\ \/ /\ Len(branch) = base[c] /\ Len(branch) < MaxCommits
          /\ branch' = Append(branch, RenderSettings(branch[base[c]], plan[c].app))
          /\ \/ Go(c, "remove") /\ UNCHANGED << plan, base >>
             \/ End(c)
       \/ End(c) /\ UNCHANGED branch
    /\ UNCHANGED << atOnce, secret >>

\* The removals, after the commit.  A Secret that is not there has none of them.
Remove(c) ==
    /\ pc[c] = "remove"
    /\ secret' = IF secret = None THEN None ELSE Without(secret, plan[c].remove)
    /\ End(c)
    /\ UNCHANGED << atOnce, branch >>

\* The process dies, the client goes, or the API server answers with an error.
Abort(c) == pc[c] # "idle" /\ End(c) /\ UNCHANGED << atOnce, branch, secret >>

---------------------------------------------------------------------------
(* The other requests                                                      *)

\* renderDeploy: another image on what is committed, or the first manifest.
Deploy(image) ==
    /\ Len(branch) < MaxCommits
    /\ branch' = Append(branch,
          IF branch = << >>
          THEN [image |-> image, env |-> << >>, userSecrets |-> {}, buildEnv |-> << >>,
                health |-> "default", resources |-> [request |-> 0, limit |-> 0]]
          ELSE [Committed EXCEPT !.image = image])
    /\ UNCHANGED << atOnce, secret, pc, plan, base >>

Init ==
    /\ atOnce \in Concurrency
    /\ branch = << >> /\ secret = None
    /\ pc = [c \in Clients |-> "idle"]
    /\ plan = [c \in Clients |-> None]
    /\ base = [c \in Clients |-> 0]

Next ==
    \/ \E image \in Images : Deploy(image)
    \/ \E c \in Clients : \/ \E form \in Forms : Read(c, form)
                          \/ Patch(c) \/ Create(c) \/ Clone(c) \/ Push(c)
                          \/ Remove(c) \/ Abort(c)

Spec == Init /\ [][Next]_vars

---------------------------------------------------------------------------
(* Properties                                                              *)

\* The type of the state: where each save is and what it holds there, and no
\* variable is committed as a literal and named as a secret.
TypeOK ==
    /\ pc \in [Clients -> {"idle", "patch", "create", "clone", "push", "remove"}]
    /\ \A c \in Clients : /\ (plan[c] = None) <=> (pc[c] = "idle")
                          /\ base[c] \in 0 .. Len(branch)
    /\ Len(branch) <= MaxCommits
    /\ \A i \in 1 .. Len(branch) :
          DOMAIN branch[i].env \intersect branch[i].userSecrets = {}

\* "git never references a key that is not there yet": with one save at a time,
\* whatever fails, dies or is deployed between its steps, every secret that the
\* committed manifest names has a value in the cluster.
NamedHasValue ==
    atOnce = 1 /\ branch # << >> /\ Committed.userSecrets # {} =>
        secret # None /\ Committed.userSecrets \subseteq DOMAIN secret

\* "whichever loses gets AlreadyExists and its patch lands on the object the
\* winner made": a save that goes on to its commit has its values in the Secret.
PutLands ==
    \A c \in Clients : pc[c] \in {"clone", "push"} /\ plan[c].set # << >> =>
        secret # None /\ DOMAIN plan[c].set \subseteq DOMAIN secret

Settings(m) == <<m.env, m.userSecrets, m.buildEnv, m.health, m.resources>>

\* "has no opinion about which image it runs": no commit changes both the image
\* and the settings, so a save planned before a deploy does not undo it, and a
\* deploy does not undo a save.
SettingsAndImageApart ==
    [][\A i \in 1 .. Len(branch) : i + 1 <= Len(branch') =>
          \/ branch'[i + 1].image = branch'[i].image
          \/ Settings(branch'[i + 1]) = Settings(branch'[i])]_vars

\* "a commit that applies and never runs" is not made: after any sequence of
\* saves that leave fields blank, no committed limit is below its request.
LimitCoversRequest ==
    \A i \in 1 .. Len(branch) :
        LET r == branch[i].resources
        IN  r.limit # 0 /\ r.request # 0 => r.limit >= r.request

\* "what lets a form be saved without retyping every password on the page": the
\* form drawn from what is committed is accepted, and saving it as it was drawn
\* commits the same settings, sets no value and removes none.
FormSavesBack ==
    branch # << >> =>
        /\ Plannable(ToWireSettings(Committed), Committed)
        /\ PlanSettings(ToWireSettings(Committed), Committed) =
              [app |-> Committed, set |-> << >>, remove |-> {}]

\* What a save leaves in git can run and can be edited: its limits cover its
\* requests and its own form is accepted and changes nothing.
CommittedIsSound == LimitCoversRequest /\ FormSavesBack
=============================================================================
