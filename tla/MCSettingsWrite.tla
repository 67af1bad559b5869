-------------------------- MODULE MCSettingsWrite --------------------------
(* Small instances of SettingsWrite for TLC. *)
EXTENDS SettingsWrite, TLC

CONSTANTS c1, c2

Savers == Permutations({c1, c2})

Secret(v) == [secret |-> TRUE, value |-> v, build |-> FALSE, runtime |-> TRUE]
Literal(v, b, r) == [secret |-> FALSE, value |-> v, build |-> b, runtime |-> r]

Form(env, request, limit) ==
    [env |-> env, resources |-> [request |-> request, limit |-> limit],
     health |-> "default"]

\* A key that is set, kept, removed, made a literal and made a secret again, a
\* second secret beside it, variables of either side and of both, and resources
\* that fit together only with what is committed.
Everyday ==
    {Form("K" :> Secret("v"), 0, 0),
     Form("K" :> Secret("keep"), 2, 0),
     Form("K" :> Secret("keep") @@ "L" :> Secret("w"), 0, 1),
     Form("K" :> Literal("v", TRUE, TRUE), 1, 2),
     Form("K" :> Literal("", FALSE, TRUE) @@ "L" :> Literal("b", TRUE, FALSE), 0, 0)}

\* What is refused: more variables than an app may carry, a secret for builds,
\* a secret without a value, a variable for nothing, and a bad probe.
Refused ==
    {Form("K" :> Literal("v", FALSE, TRUE) @@ "L" :> Literal("v", FALSE, TRUE)
            @@ "M" :> Literal("v", FALSE, TRUE), 0, 0),
     Form("K" :> [Secret("v") EXCEPT !.build = TRUE], 0, 0),
     Form("K" :> Secret(""), 0, 0),
     Form("K" :> Literal("keep", FALSE, TRUE), 0, 0),
     Form("K" :> Literal("v", FALSE, FALSE), 0, 0),
     [Form(<< >>, 0, 0) EXCEPT !.health = "refused"]}

AllForms == Everyday \union Refused

\* Two saves that set one secret each.
FirstSecrets == {Form("K" :> Secret("v"), 0, 0), Form("L" :> Secret("w"), 0, 0)}
=============================================================================
