---- MODULE MCIdentityStore ----
(* Small instances of IdentityStore for TLC. *)
EXTENDS IdentityStore, TLC

CONSTANTS acme, globex, pw1, pw2, panel, other, c1, c2

Names ==
    UNION {Permutations({acme, globex}), Permutations({pw1, pw2}), Permutations({panel, other}),
           Permutations({c1, c2})}

\* A command's address and the one an administrator may give the third account are
\* the same in two cases.
Addresses == << "Orhan", "ada", "orhan" >>
Lower(address) == IF address = "Orhan" THEN "orhan" ELSE address
====
