---- MODULE IdentityStore ----
(***************************************************************************)
(* Who may sign in, and what they may do: the SQL identity store           *)
(* (identity/internal/sqlstore) under the callers that race on it, the     *)
(* login (server/login.go, auth), the guard in front of every route        *)
(* (server/api.go), the bootstrap command (server/bootstrap.go), which is a *)
(* process of its own, and the administrative calls of the interface.      *)
(*                                                                         *)
(* On sqlite one connection runs one transaction at a time.  On postgres a *)
(* statement sees what is committed when it starts, and one that meets a   *)
(* row an open transaction wrote waits for that transaction to end.        *)
(***************************************************************************)
EXTENDS Naturals, FiniteSets, Functions
CONSTANTS Engines, TenantIds, AccountIds, Slugs, Roles, Hosts,
          Boots, Logins, Requests, Changes,   \* calls of each kind that may run
          Passwords, EmailOf, Fold(_),
          TTL, MaxNow, MaxAdmin, MaxCrashes,  \* bounds: lifetime, clock, calls, crashes
          None

\* The ids a command draws are ids like any other.
ASSUME IdentityAssumption ==
    /\ Engines \subseteq {"sqlite", "postgres"}
    /\ Boots \subseteq TenantIds \intersect AccountIds
    /\ TTL \in Nat /\ MaxNow \in Nat

VARIABLES engine,
          tenants, accounts, creds, members, sessions, claimed,  \* committed rows
          boots, logins, requests, changes,                      \* calls under way
          now, admin, crashes,
          chosen      \* the password each account was last given

store == << tenants, accounts, creds, members, sessions, claimed >>
calls == << boots, logins, requests, changes >>
vars == << engine, store, calls, now, admin, crashes, chosen >>

\* A hash carries the cost it was made with; Strong is the cost in force.
Weak == 1
Strong == 2
Hash(p) == [password |-> p, cost |-> Strong]
Hashes == [password : Passwords, cost : {Weak, Strong}]
Verifies(hash, p) == hash.password = p
NeedsRehash(hash) == hash.cost < Strong

Empty == [x \in {} |-> x]
Put(f, x, v) == [y \in DOMAIN f \cup {x} |-> IF y = x THEN v ELSE f[y]]
Drop(f, S) == Restrict(f, DOMAIN f \ S)
SessionsOf(a) == {d \in DOMAIN sessions : sessions[d].account = a}

\* The UNIQUE columns.
FreeSlug(s, t) == \A u \in DOMAIN tenants \ {t} : tenants[u].slug # s
\* mutant: the address as it was typed
FreeEmailExact(a) == \A b \in DOMAIN accounts : EmailOf[b] # EmailOf[a]
FreeEmail(a) == \A b \in DOMAIN accounts : Fold(EmailOf[b]) # Fold(EmailOf[a])
NewTenant(t, s) == t \notin DOMAIN tenants /\ FreeSlug(s, t)
NewAccount(a) == a \notin DOMAIN accounts /\ FreeEmail(a)
Tenant(s) == [slug |-> s, suspended |-> FALSE]

Idle == [at |-> "idle"]
Done == [at |-> "done"]
Open(c) == changes[c].at = "open"
Changing(a) == \E c \in Changes : Open(c) /\ changes[c].account = a
\* A writer of the server's process may start a statement.
Writable ==
    \/ engine = "postgres"
    \/ (\A c \in Changes : ~ Open(c)) /\ (\A b \in Boots : boots[b].at # "claiming")

Init ==
    /\ engine \in Engines
    /\ tenants = Empty /\ accounts = Empty /\ creds = Empty
    /\ members = Empty /\ sessions = Empty /\ claimed = FALSE
    /\ boots = [b \in Boots |-> Idle] /\ logins = [l \in Logins |-> Idle]
    /\ requests = [r \in Requests |-> Idle] /\ changes = [c \in Changes |-> Idle]
    /\ now = 0 /\ admin = 0 /\ crashes = 0
    /\ chosen = [a \in AccountIds |-> None]

--------------------------------------------------------------------------
(* The bootstrap command. *)

\* Bootstrapped, asked before anything is done.
BootAsk(b) ==
    /\ boots[b].at = "idle"
    /\ boots' = [boots EXCEPT ![b].at = IF claimed THEN "refused" ELSE "asked"]
    /\ UNCHANGED << engine, store, logins, requests, changes, now, admin, crashes, chosen >>

\* mutant: the claim is committed on its own, ahead of the rows
BootClaimAlone(b) ==
    /\ boots[b].at = "asked"
    /\ claimed' = TRUE
    /\ boots' = [boots EXCEPT ![b].at = IF claimed THEN "refused" ELSE "claiming"]
    /\ UNCHANGED << engine, tenants, accounts, creds, members, sessions, logins,
                    requests, changes, now, admin, crashes, chosen >>

\* The first statement of the transaction.  The claim is one row: the second to
\* insert it waits for the first, and is refused once that one is committed.
BootClaim(b) ==
    /\ boots[b].at = "asked"
    /\ \A o \in Boots : boots[o].at # "claiming"
    /\ engine = "sqlite" => \A c \in Changes : ~ Open(c)
    /\ boots' = [boots EXCEPT ![b].at = IF claimed THEN "refused" ELSE "claiming"]
    /\ UNCHANGED << engine, store, logins, requests, changes, now, admin, crashes, chosen >>

\* Tenant, account, credential, owner membership and the commit.  The ids are
\* newly drawn for the command: it uses its own.
BootCommit(b) ==
    \E s \in Slugs, p \in Passwords :
       /\ boots[b].at = "claiming"
       /\ NewTenant(b, s) /\ NewAccount(b)
       /\ tenants' = Put(tenants, b, Tenant(s))
       /\ accounts' = Put(accounts, b, [disabled |-> FALSE])
       /\ creds' = Put(creds, b, Hash(p))
       /\ members' = Put(members, << b, b >>, "owner")
       /\ claimed' = TRUE
       /\ chosen' = [chosen EXCEPT ![b] = p]
       /\ boots' = [boots EXCEPT ![b].at = "done"]
       /\ UNCHANGED << engine, sessions, logins, requests, changes, now, admin, crashes >>

\* "that tenant already exists", or a crash: the transaction is rolled back.
BootRollback(b) ==
    /\ boots[b].at = "claiming"
    /\ \/ /\ \E s \in Slugs : ~ (NewTenant(b, s) /\ NewAccount(b))
          /\ crashes' = crashes
       \/ /\ crashes < MaxCrashes
          /\ crashes' = crashes + 1
    /\ boots' = [boots EXCEPT ![b].at = "refused"]
    /\ UNCHANGED << engine, store, logins, requests, changes, now, admin, chosen >>

--------------------------------------------------------------------------
(* The administrative calls of the interface: one statement each, or a      *)
(* transaction nothing can wait for.                                       *)

Administer == Writable /\ admin < MaxAdmin /\ admin' = admin + 1
AdminFrame == UNCHANGED << engine, claimed, boots, logins, changes, now, crashes >>

CreateTenant(t, s) ==
    /\ Administer /\ NewTenant(t, s)
    /\ tenants' = Put(tenants, t, Tenant(s))
    /\ AdminFrame /\ UNCHANGED << accounts, creds, members, sessions, requests, chosen >>

UpdateTenant(t, s, suspended) ==
    /\ Administer /\ t \in DOMAIN tenants /\ FreeSlug(s, t)
    /\ tenants' = [tenants EXCEPT ![t] = [slug |-> s, suspended |-> suspended]]
    /\ AdminFrame /\ UNCHANGED << accounts, creds, members, sessions, requests, chosen >>

\* The account and its credential, in one transaction; None is a federated one.
CreateAccount(a, hash, disabled) ==
    /\ Administer /\ NewAccount(a)
    /\ accounts' = Put(accounts, a, [disabled |-> disabled])
    /\ creds' = IF hash = None THEN creds ELSE Put(creds, a, hash)
    /\ chosen' = [chosen EXCEPT ![a] = IF hash = None THEN None ELSE hash.password]
    /\ AdminFrame /\ UNCHANGED << tenants, members, sessions, requests >>

\* A request under way may meet the row from now on.
AddMember(a, t, role) ==
    /\ Administer /\ a \in DOMAIN accounts /\ t \in DOMAIN tenants
    /\ << a, t >> \notin DOMAIN members
    /\ members' = Put(members, << a, t >>, role)
    /\ requests' = [r \in Requests |->
          IF requests[r].at # "idle" /\ requests[r].account = a /\ requests[r].tenant = t
          THEN [requests[r] EXCEPT !.held = @ \cup {role}] ELSE requests[r]]
    /\ AdminFrame /\ UNCHANGED << tenants, accounts, creds, sessions, chosen >>

RemoveMember(a, t) ==
    /\ Administer /\ << a, t >> \in DOMAIN members
    /\ members' = Drop(members, {<< a, t >>})
    /\ AdminFrame /\ UNCHANGED << tenants, accounts, creds, sessions, requests, chosen >>

\* DeleteAccountSessions, and PruneExpired at the clock's reading.
DeleteSessions(S) ==
    /\ Administer /\ S # {}
    /\ sessions' = Drop(sessions, S)
    /\ AdminFrame /\ UNCHANGED << tenants, accounts, creds, members, requests, chosen >>

--------------------------------------------------------------------------
(* SetCredential: account, DELETE, INSERT, DELETE sessions; then the commit. *)

ChangeFrame == UNCHANGED << engine, tenants, accounts, members, claimed, boots, requests,
                            now, admin >>

\* On postgres a second change of one account waits at its DELETE.
ChangeBegin(c, a, p) ==
    /\ changes[c].at = "idle" /\ a \in DOMAIN accounts
    /\ Writable
    /\ changes' = [changes EXCEPT ![c] =
          [at |-> IF Changing(a) THEN "waiting" ELSE "open", account |-> a, password |-> p,
           doomed |-> SessionsOf(a)]]
    /\ ChangeFrame /\ UNCHANGED << creds, sessions, logins, crashes, chosen >>

\* mutant: the sessions are left to a later call
ChangeCommitAlone(c) ==
    LET a == changes[c].account IN
    /\ Open(c)
    /\ creds' = Put(creds, a, Hash(changes[c].password))
    /\ chosen' = [chosen EXCEPT ![a] = changes[c].password]
    /\ changes' = [changes EXCEPT ![c].at = "done"]
    /\ ChangeFrame /\ UNCHANGED << sessions, logins, crashes >>

\* What waited goes on: a second change finds its INSERT a duplicate, and the
\* UPDATE of a rehash finds the row it waited for deleted.
ChangeCommit(c) ==
    LET a == changes[c].account IN
    /\ Open(c)
    /\ creds' = Put(creds, a, Hash(changes[c].password))
    /\ sessions' = Drop(sessions, changes[c].doomed)
    /\ chosen' = [chosen EXCEPT ![a] = changes[c].password]
    /\ changes' = [k \in Changes |->
          CASE k = c -> [changes[k] EXCEPT !.at = "done"]
            [] changes[k].at = "waiting" /\ changes[k].account = a ->
                  [changes[k] EXCEPT !.at = "failed"]
            [] OTHER -> changes[k]]
    /\ logins' = [l \in Logins |->
          IF logins[l].at = "blocked" /\ logins[l].account = a
          THEN Done ELSE logins[l]]
    /\ ChangeFrame /\ UNCHANGED crashes

--------------------------------------------------------------------------
(* A login: reads, then a session, then the hash raised to the cost in force. *)

LoginFrame == UNCHANGED << engine, tenants, accounts, members, claimed, boots, requests,
                           changes, now, admin, crashes, chosen >>

\* AccountByEmail, Credential, Verify and the disabled flag.  An account row never
\* changes, so the two reads are one; a login refused leaves nothing.
LoginVerify(l, a, p) ==
    /\ logins[l].at = "idle" /\ a \in DOMAIN accounts \intersect DOMAIN creds
    /\ Verifies(creds[a], p) /\ ~ accounts[a].disabled
    /\ logins' = [logins EXCEPT ![l] =
          [at |-> "verified", account |-> a, typed |-> p, rehash |-> NeedsRehash(creds[a])]]
    /\ LoginFrame /\ UNCHANGED << creds, sessions >>

\* Issue: a token of its own, for the host asked, for TTL from now.
LoginIssue(l, host) ==
    /\ logins[l].at = "verified" /\ Writable
    /\ sessions' = Put(sessions, l, [account |-> logins[l].account, host |-> host,
                                     expires |-> now + TTL])
    /\ logins' = [logins EXCEPT ![l] = IF @.rehash THEN [@ EXCEPT !.at = "issued"] ELSE Done]
    /\ LoginFrame /\ UNCHANGED creds

\* RehashCredential: one UPDATE by account id; it waits for an open change.
LoginRehash(l) ==
    LET a == logins[l].account IN
    /\ logins[l].at = "issued" /\ Writable
    /\ creds' = IF Changing(a) THEN creds ELSE [creds EXCEPT ![a] = Hash(logins[l].typed)]
    /\ logins' = [logins EXCEPT ![l] = IF Changing(a) THEN [@ EXCEPT !.at = "blocked"] ELSE Done]
    /\ LoginFrame /\ UNCHANGED sessions

\* logout: Revoke deletes the row of the cookie; one already gone is no error.
Logout(l) ==
    /\ l \in DOMAIN sessions /\ Writable
    /\ sessions' = Drop(sessions, {l})
    /\ LoginFrame /\ UNCHANGED << creds, logins >>

--------------------------------------------------------------------------
(* The guard: the session, the account, the membership and the tenant, read *)
(* one after the other.                                                    *)

RequestFrame == UNCHANGED << engine, store, boots, logins, changes, now, admin, crashes, chosen >>

RoleIn(a, t) == IF << a, t >> \in DOMAIN members THEN {members[<< a, t >>]} ELSE {}

\* Resolve: the row by its digest, unexpired, for this host.
Resolve(r, d, host, t) ==
    /\ requests[r].at = "idle" /\ d \in DOMAIN sessions
    /\ sessions[d].expires > now /\ sessions[d].host = host
    /\ requests' = [requests EXCEPT ![r] =
          [at |-> "resolved", account |-> sessions[d].account, tenant |-> t,
           held |-> RoleIn(sessions[d].account, t)]]
    /\ RequestFrame

\* mutant: the first membership of the account, whichever tenant it is in
MemberRoleAnywhere(a, t) == {members[k] : k \in {k \in DOMAIN members : k[1] = a}}

\* Membership(account, tenant): the only source of a role.
MemberRole(a, t) == RoleIn(a, t)

\* subjectFrom, first half: no membership, no subject.
Subject(r) ==
    LET q == requests[r] IN
    /\ q.at = "resolved"
    /\ IF accounts[q.account].disabled \/ MemberRole(q.account, q.tenant) = {}
       THEN requests' = [requests EXCEPT ![r] = Idle]
       ELSE \E role \in MemberRole(q.account, q.tenant) :
               requests' = [requests EXCEPT ![r] =
                  [at |-> "subject", account |-> q.account, tenant |-> q.tenant,
                   held |-> q.held, role |-> role]]
    /\ RequestFrame

\* What the actions of the API ask for: to read, to change, or to own.
Authorize(role, act) ==
    CASE act = "read" -> TRUE
      [] act = "change" -> role # "viewer"
      [] act = "own" -> role = "owner"

\* subjectFrom, second half, and the decision.
Decide(r, act) ==
    LET q == requests[r] IN
    /\ q.at = "subject"
    /\ requests' = [requests EXCEPT ![r] =
          IF q.tenant \notin DOMAIN tenants \/ tenants[q.tenant].suspended \/ ~ Authorize(q.role, act)
          THEN Idle ELSE [q EXCEPT !.at = "admitted"]]
    /\ RequestFrame

--------------------------------------------------------------------------
\* Time is read by sessions alone.
Tick ==
    /\ now < MaxNow /\ sessions # Empty /\ now' = now + 1
    /\ UNCHANGED << engine, store, calls, admin, crashes, chosen >>

\* The server stops: open transactions roll back, its calls are lost.
Crash ==
    /\ crashes < MaxCrashes /\ crashes' = crashes + 1
    /\ \E l \in Logins : logins[l].at \in {"verified", "issued", "blocked"}
          \/ \E c \in Changes : Open(c)
    /\ logins' = [l \in Logins |-> IF logins[l].at = "idle" THEN Idle ELSE Done]
    /\ changes' = [c \in Changes |-> IF changes[c].at \in {"open", "waiting"} THEN Idle
                                     ELSE changes[c]]
    /\ requests' = [r \in Requests |-> Idle]
    /\ UNCHANGED << engine, store, boots, now, admin, chosen >>

Next ==
    \/ \E b \in Boots : BootAsk(b) \/ BootClaim(b) \/ BootCommit(b) \/ BootRollback(b)
    \/ \E t \in TenantIds \ Boots, s \in Slugs : CreateTenant(t, s)
    \/ \E t \in TenantIds, s \in Slugs, b \in BOOLEAN : UpdateTenant(t, s, b)
    \/ \E a \in AccountIds \ Boots, h \in Hashes \cup {None}, b \in BOOLEAN : CreateAccount(a, h, b)
    \/ \E a \in AccountIds, t \in TenantIds :
          RemoveMember(a, t) \/ \E role \in Roles : AddMember(a, t, role)
    \/ \E a \in AccountIds : DeleteSessions(SessionsOf(a))
    \/ DeleteSessions({d \in DOMAIN sessions : sessions[d].expires <= now})
    \/ \E c \in Changes : ChangeCommit(c)
          \/ \E a \in AccountIds, p \in Passwords : ChangeBegin(c, a, p)
    \/ \E l \in Logins :
          \/ \E a \in AccountIds, p \in Passwords : LoginVerify(l, a, p)
          \/ LoginRehash(l) \/ Logout(l)
          \/ \E host \in Hosts : LoginIssue(l, host)
    \/ \E r \in Requests :
          \/ \E d \in Logins, host \in Hosts, t \in TenantIds : Resolve(r, d, host, t)
          \/ Subject(r) \/ \E act \in {"read", "change", "own"} : Decide(r, act)
    \/ Tick \/ Crash

Spec == Init /\ [][Next]_vars

--------------------------------------------------------------------------
(* Properties. *)

\* The first owner: "in one transaction, and at most once for the lifetime of
\* this store" (identity.go).  Of all the commands that run, at most one leaves
\* anything, and a claim never stands without the tenant, the account and the
\* password it is the claim of: "permanently marked as owned while having no
\* owner" is out of reach of a race, a refusal and a crash.
BootstrapIsWhole ==
    \A rows \in {DOMAIN tenants, DOMAIN accounts, DOMAIN creds} :
        Cardinality(Boots \intersect rows) = IF claimed THEN 1 ELSE 0

\* The sessions an account held when a password change began are gone once it is
\* answered, whatever logins, logouts and prunes came in between: "a password
\* change that leaves the old sessions alive is not a password change"
\* (SetCredential).
PasswordChangeEndsSessions ==
    \A c \in Changes : changes[c].at = "done" => changes[c].doomed \intersect DOMAIN sessions = {}

\* Whoever is let through was given that role, in that tenant, by a membership
\* that stood while the request was running: "no membership means no subject"
\* (subjectFrom), though the four rows are read one at a time.
AdmittedWasGranted ==
    \A r \in Requests : requests[r].at = "admitted" => requests[r].role \in requests[r].held

Tokens == Logins
Times == 0 .. MaxNow + TTL
\* The two indexes memory.go keeps, read off the rows.
SlugIndex(rows) == [s \in {rows[t].slug : t \in DOMAIN rows} |->
                       CHOOSE t \in DOMAIN rows : rows[t].slug = s]
EmailIndex(ids) == [e \in {Fold(EmailOf[a]) : a \in ids} |->
                       CHOOSE a \in ids : Fold(EmailOf[a]) = e]
Memory == INSTANCE IdentityMemory WITH
    bootstrapped <- claimed,
    slugs <- SlugIndex(tenants), emails <- EmailIndex(DOMAIN accounts)

\* On sqlite every step of the SQL store is one call of the memory store, or none:
\* the constraints of the schema refuse what its two indexes refuse, and nothing
\* of a transaction shows before its commit.
ImplementsMemory ==
    Memory!Init /\ [][engine = "sqlite" => Memory!Next]_store

\* "A password change invalidates what everyone knew; a rehash is the same
\* password stored under stronger parameters" (identity.go): the password an
\* account was last given is the one that opens it.
PasswordChangeHolds ==
    \A a \in DOMAIN creds : creds[a].password = chosen[a]
====
