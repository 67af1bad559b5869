------------------------ MODULE IdentityStoreProofs ------------------------
(***************************************************************************)
(* Theorems about IdentityStore, for every set of commands, logins,        *)
(* requests and password changes, on both engines, with crashes of the     *)
(* server and of the commands at any point.                                *)
(***************************************************************************)
EXTENDS IdentityStore, FiniteSetTheorems, TLAPS

USE IdentityAssumption

---------------------------------------------------------------------------
(* The invariant.                                                          *)

AllRoles == Roles \cup {"owner"}

BootSet == [at : {"idle", "asked", "claiming", "refused", "done"}]
LoginSet == [at : {"verified", "issued", "blocked"}, account : AccountIds,
             typed : Passwords, rehash : BOOLEAN]
ChangeSet == [at : {"open", "waiting", "done", "failed"}, account : AccountIds,
              password : Passwords, doomed : SUBSET Logins]
ResolvedSet == [at : {"resolved"}, account : AccountIds, tenant : TenantIds,
                held : SUBSET AllRoles]
SubjectSet == [at : {"subject", "admitted"}, account : AccountIds, tenant : TenantIds,
               held : SUBSET AllRoles, role : AllRoles]
SessionSet == [account : AccountIds, host : Hosts, expires : Nat]

TableType ==
    /\ tenants \in [DOMAIN tenants -> [slug : Slugs, suspended : BOOLEAN]]
    /\ accounts \in [DOMAIN accounts -> [disabled : BOOLEAN]]
    /\ creds \in [DOMAIN creds -> Hashes]
    /\ members \in [DOMAIN members -> AllRoles]
    /\ sessions \in [DOMAIN sessions -> SessionSet]
    /\ DOMAIN tenants \subseteq TenantIds /\ DOMAIN accounts \subseteq AccountIds
    /\ DOMAIN sessions \subseteq Logins
    /\ claimed \in BOOLEAN /\ now \in 0 .. MaxNow

CallType ==
    /\ boots \in [Boots -> BootSet]
    /\ logins \in [Logins -> LoginSet \cup {Idle, Done}]
    /\ changes \in [Changes -> ChangeSet \cup {Idle}]
    /\ requests \in [Requests -> ResolvedSet \cup SubjectSet \cup {Idle}]

\* The foreign keys, and the accounts open calls have read.
RefInv ==
    /\ DOMAIN creds \subseteq DOMAIN accounts
    /\ \A d \in DOMAIN sessions : sessions[d].account \in DOMAIN accounts
    /\ \A l \in Logins : logins[l] \in LoginSet => logins[l].account \in DOMAIN creds
    /\ \A c \in Changes : changes[c] \in ChangeSet => changes[c].account \in DOMAIN accounts
    /\ \A r \in Requests : requests[r] \in ResolvedSet \cup SubjectSet =>
          requests[r].account \in DOMAIN accounts

\* The UNIQUE columns.
UniqueInv ==
    /\ \A t, u \in DOMAIN tenants : tenants[t].slug = tenants[u].slug => t = u
    /\ \A a, b \in DOMAIN accounts : Fold(EmailOf[a]) = Fold(EmailOf[b]) => a = b

\* A token is new when it is issued: no session has it, and no change of a
\* password has ever been told to end it.
TokenInv ==
    \A l \in Logins : logins[l].at \in {"idle", "verified"} =>
        /\ l \notin DOMAIN sessions
        /\ \A c \in Changes : changes[c] \in ChangeSet => l \notin changes[c].doomed

\* sqlite's one connection: one change is open, it waits for nobody, and what
\* it read of the sessions is still so.
OneWriterInv ==
    engine = "sqlite" =>
        /\ \A c, d \in Changes : Open(c) /\ Open(d) => c = d
        /\ \A c \in Changes : changes[c].at # "waiting"
        /\ \A c \in Changes : Open(c) => changes[c].doomed = SessionsOf(changes[c].account)

\* A request has held every role its account has in its tenant, and the role it
\* carries is one of them.
GrantInv ==
    /\ \A r \in Requests : requests[r] \in ResolvedSet =>
          RoleIn(requests[r].account, requests[r].tenant) \subseteq requests[r].held
    /\ \A r \in Requests : requests[r] \in SubjectSet =>
          requests[r].role \in requests[r].held

\* One command at most claims, and what is claimed is whole.
BootInv ==
    /\ \A b, o \in Boots : boots[b].at = "claiming" /\ boots[o].at = "claiming" => b = o
    /\ \A b \in Boots : boots[b].at = "claiming" => ~ claimed
    /\ ~ claimed => \A rows \in {DOMAIN tenants, DOMAIN accounts, DOMAIN creds} :
                       Boots \intersect rows = {}
    /\ claimed => \E b \in Boots :
          \A rows \in {DOMAIN tenants, DOMAIN accounts, DOMAIN creds} :
             Boots \intersect rows = {b}

IInv ==
    /\ TableType /\ CallType /\ RefInv /\ UniqueInv
    /\ TokenInv /\ PasswordChangeEndsSessions /\ OneWriterInv /\ GrantInv /\ BootInv

---------------------------------------------------------------------------
(* Lemmas about the operators.                                             *)

\* The kinds of call record are told apart by their fields.
LEMMA CallKinds ==
    /\ Idle \notin LoginSet \cup ChangeSet \cup ResolvedSet \cup SubjectSet
    /\ Done \notin LoginSet
    /\ Idle.at = "idle" /\ Done.at = "done"
    /\ \A x \in LoginSet : x.at \in {"verified", "issued", "blocked"}
    /\ \A x \in ChangeSet : x.at \in {"open", "waiting", "done", "failed"}
    /\ \A x \in ResolvedSet : x.at = "resolved"
    /\ \A x \in SubjectSet : x.at \in {"subject", "admitted"}
<1>1. Idle.at = "idle" /\ Done.at = "done"
  BY DEF Idle, Done
<1>2. /\ \A x \in LoginSet : x.at \in {"verified", "issued", "blocked"}
      /\ \A x \in ChangeSet : x.at \in {"open", "waiting", "done", "failed"}
      /\ \A x \in ResolvedSet : x.at = "resolved"
      /\ \A x \in SubjectSet : x.at \in {"subject", "admitted"}
  BY DEF LoginSet, ChangeSet, ResolvedSet, SubjectSet
<1> QED
  BY <1>1, <1>2

\* Each part of the invariant reads some of the variables only.
LEMMA Untouched ==
    /\ TableType /\ UNCHANGED << tenants, accounts, creds, members, sessions, claimed, now >>
          => TableType'
    /\ CallType /\ UNCHANGED calls => CallType'
    /\ RefInv /\ UNCHANGED << accounts, creds, sessions, logins, changes, requests >>
          => RefInv'
    /\ UniqueInv /\ UNCHANGED << tenants, accounts >> => UniqueInv'
    /\ TokenInv /\ UNCHANGED << sessions, logins, changes >> => TokenInv'
    /\ PasswordChangeEndsSessions /\ UNCHANGED << sessions, changes >>
          => PasswordChangeEndsSessions'
    /\ OneWriterInv /\ UNCHANGED << engine, sessions, changes >> => OneWriterInv'
    /\ GrantInv /\ UNCHANGED << requests, members >> => GrantInv'
    /\ BootInv /\ UNCHANGED << boots, claimed, tenants, accounts, creds >> => BootInv'
<1>1. TableType /\ UNCHANGED << tenants, accounts, creds, members, sessions, claimed, now >>
        => TableType'
  BY DEF TableType
<1>2. CallType /\ UNCHANGED calls => CallType'
  BY DEF CallType, calls
<1>3. RefInv /\ UNCHANGED << accounts, creds, sessions, logins, changes, requests >> => RefInv'
  BY DEF RefInv
<1>4. UniqueInv /\ UNCHANGED << tenants, accounts >> => UniqueInv'
  BY DEF UniqueInv
<1>5. TokenInv /\ UNCHANGED << sessions, logins, changes >> => TokenInv'
  BY DEF TokenInv
<1>6. PasswordChangeEndsSessions /\ UNCHANGED << sessions, changes >>
        => PasswordChangeEndsSessions'
  BY DEF PasswordChangeEndsSessions
<1>7. OneWriterInv /\ UNCHANGED << engine, sessions, changes >> => OneWriterInv'
  BY DEF OneWriterInv, Open, SessionsOf
<1>8. GrantInv /\ UNCHANGED << requests, members >> => GrantInv'
  BY DEF GrantInv, RoleIn
<1>9. BootInv /\ UNCHANGED << boots, claimed, tenants, accounts, creds >> => BootInv'
  BY DEF BootInv
<1> QED
  BY <1>1, <1>2, <1>3, <1>4, <1>5, <1>6, <1>7, <1>8, <1>9

\* Accounts and credentials are never taken away.
LEMMA RefsGrow ==
    ASSUME RefInv, DOMAIN accounts \subseteq DOMAIN accounts',
           DOMAIN creds \subseteq DOMAIN creds', DOMAIN creds' \subseteq DOMAIN accounts',
           UNCHANGED << sessions, logins, changes, requests >>
    PROVE  RefInv'
BY DEF RefInv

---------------------------------------------------------------------------
(* The bootstrap command.                                                  *)

\* Asking, claiming and rolling back touch nothing but the command.
LEMMA BootMoves ==
    ASSUME IInv, NEW b \in Boots, BootAsk(b) \/ BootClaim(b) \/ BootRollback(b)
    PROVE  IInv'
<1>0. boots \in [Boots -> BootSet]
  BY DEF IInv, CallType
<1>1. /\ UNCHANGED << engine, store, logins, requests, changes, now >>
      /\ \E s \in {"asked", "claiming", "refused"} :
            /\ boots' = [boots EXCEPT ![b].at = s]
            /\ s = "claiming" => ~ claimed /\ \A o \in Boots : boots[o].at # "claiming"
  BY DEF BootAsk, BootClaim, BootRollback
<1>2. PICK s \in {"asked", "claiming", "refused"} :
         /\ boots' = [boots EXCEPT ![b].at = s]
         /\ s = "claiming" => ~ claimed /\ \A o \in Boots : boots[o].at # "claiming"
  BY <1>1
<1>3. /\ boots' \in [Boots -> BootSet] /\ boots'[b].at = s
      /\ \A o \in Boots : o # b => boots'[o] = boots[o]
  BY <1>0, <1>2 DEF BootSet
<1>4. CallType'
  BY <1>1, <1>3 DEF IInv, CallType
<1>5. BootInv'
  <2>1. UNCHANGED << claimed, tenants, accounts, creds >>
    BY <1>1 DEF store
  <2>2. \A x, o \in Boots : boots'[x].at = "claiming" /\ boots'[o].at = "claiming" => x = o
    BY <1>2, <1>3 DEF IInv, BootInv
  <2>3. \A x \in Boots : boots'[x].at = "claiming" => ~ claimed
    BY <1>2, <1>3 DEF IInv, BootInv
  <2> QED
    BY <2>1, <2>2, <2>3 DEF IInv, BootInv
<1> QED
  BY <1>1, <1>4, <1>5, Untouched DEF IInv, store

\* The commit writes all the rows at once, and it is the first to.
LEMMA BootCommits ==
    ASSUME IInv, NEW b \in Boots, BootCommit(b)
    PROVE  IInv'
<1>1. PICK s \in Slugs, p \in Passwords :
         /\ boots[b].at = "claiming" /\ NewTenant(b, s) /\ NewAccount(b)
         /\ tenants' = Put(tenants, b, Tenant(s))
         /\ accounts' = Put(accounts, b, [disabled |-> FALSE])
         /\ creds' = Put(creds, b, Hash(p))
         /\ members' = Put(members, << b, b >>, "owner")
         /\ claimed' = TRUE
         /\ boots' = [boots EXCEPT ![b].at = "done"]
         /\ UNCHANGED << engine, sessions, logins, requests, changes, now >>
  BY DEF BootCommit
<1>2. /\ b \notin DOMAIN tenants /\ b \notin DOMAIN accounts
      /\ FreeSlug(s, b) /\ FreeEmail(b)
  BY <1>1 DEF NewTenant, NewAccount
<1>t. TableType
  BY DEF IInv
<1>3a. /\ DOMAIN tenants' = DOMAIN tenants \cup {b} /\ tenants'[b] = Tenant(s)
       /\ \A t \in DOMAIN tenants : tenants'[t] = tenants[t]
       /\ tenants' \in [DOMAIN tenants' -> [slug : Slugs, suspended : BOOLEAN]]
  <2>1. Tenant(s) \in [slug : Slugs, suspended : BOOLEAN]
    BY DEF Tenant
  <2>2. tenants \in [DOMAIN tenants -> [slug : Slugs, suspended : BOOLEAN]]
    BY <1>t DEF TableType
  <2> QED
    BY <1>1, <1>2, <2>1, <2>2 DEF Put
<1>3b. /\ DOMAIN accounts' = DOMAIN accounts \cup {b}
       /\ accounts' \in [DOMAIN accounts' -> [disabled : BOOLEAN]]
  <2>1. accounts \in [DOMAIN accounts -> [disabled : BOOLEAN]]
    BY <1>t DEF TableType
  <2>2. [disabled |-> FALSE] \in [disabled : BOOLEAN]
    OBVIOUS
  <2> QED
    BY <1>1, <2>1, <2>2 DEF Put
<1>3c. DOMAIN creds' = DOMAIN creds \cup {b} /\ creds' \in [DOMAIN creds' -> Hashes]
  <2>1. creds \in [DOMAIN creds -> Hashes] /\ Hash(p) \in Hashes
    BY <1>t DEF TableType, Hash, Hashes
  <2> QED
    BY <1>1, <2>1 DEF Put
<1>3d. /\ DOMAIN members' = DOMAIN members \cup {<< b, b >>}
       /\ \A k \in DOMAIN members : k # << b, b >> => members'[k] = members[k]
       /\ members' \in [DOMAIN members' -> AllRoles]
  <2>1. members \in [DOMAIN members -> AllRoles] /\ "owner" \in AllRoles
    BY <1>t DEF TableType, AllRoles
  <2> QED
    BY <1>1, <2>1 DEF Put
<1>3. /\ DOMAIN tenants' = DOMAIN tenants \cup {b} /\ tenants'[b] = Tenant(s)
      /\ \A t \in DOMAIN tenants : tenants'[t] = tenants[t]
      /\ DOMAIN accounts' = DOMAIN accounts \cup {b}
      /\ DOMAIN creds' = DOMAIN creds \cup {b}
      /\ DOMAIN members' = DOMAIN members \cup {<< b, b >>}
      /\ \A k \in DOMAIN members : k # << b, b >> => members'[k] = members[k]
  BY <1>3a, <1>3b, <1>3c, <1>3d
<1>4. TableType'
  BY <1>1, <1>t, <1>3a, <1>3b, <1>3c, <1>3d DEF TableType
<1>5. CallType'
  <2>1. boots' \in [Boots -> BootSet]
    BY <1>1 DEF IInv, CallType, BootSet
  <2> QED
    BY <1>1, <2>1 DEF IInv, CallType
<1>6. RefInv'
  <2>1. DOMAIN creds \subseteq DOMAIN accounts
    BY DEF IInv, RefInv
  <2> QED
    BY <1>1, <1>3, <2>1, RefsGrow DEF IInv
<1>7. UniqueInv'
  <2>1. ASSUME NEW t \in DOMAIN tenants', NEW u \in DOMAIN tenants',
               tenants'[t].slug = tenants'[u].slug
        PROVE  t = u
    <3>1. \A x \in DOMAIN tenants : tenants[x].slug # s
      BY <1>2 DEF FreeSlug
    <3>2. Tenant(s).slug = s
      BY DEF Tenant
    <3> QED
      BY <1>3, <2>1, <3>1, <3>2 DEF IInv, UniqueInv
  <2>2. ASSUME NEW t \in DOMAIN accounts', NEW u \in DOMAIN accounts',
               Fold(EmailOf[t]) = Fold(EmailOf[u])
        PROVE  t = u
    BY <1>2, <1>3, <2>2 DEF IInv, UniqueInv, FreeEmail
  <2> QED
    BY <2>1, <2>2 DEF UniqueInv
<1>8. GrantInv'
  <2>1. ASSUME NEW r \in Requests, requests[r] \in ResolvedSet
        PROVE  RoleIn(requests[r].account, requests[r].tenant)' \subseteq requests[r].held
    <3>1. requests[r].account # b
      BY <1>2, <2>1 DEF IInv, RefInv
    <3>2. << requests[r].account, requests[r].tenant >> # << b, b >>
      BY <3>1
    <3>3. RoleIn(requests[r].account, requests[r].tenant) \subseteq requests[r].held
      BY <2>1 DEF IInv, GrantInv
    <3> QED
      BY <1>1, <1>3, <3>2, <3>3 DEF RoleIn
  <2> QED
    BY <1>1, <2>1 DEF IInv, GrantInv, RoleIn
<1>9. BootInv'
  <2>1. ~ claimed
    BY <1>1 DEF IInv, BootInv
  <2>2. \A rows \in {DOMAIN tenants, DOMAIN accounts, DOMAIN creds} :
           Boots \intersect rows = {}
    BY <2>1 DEF IInv, BootInv
  <2>3. /\ Boots \intersect DOMAIN tenants' = {b}
        /\ Boots \intersect DOMAIN accounts' = {b}
        /\ Boots \intersect DOMAIN creds' = {b}
    BY <1>3, <2>2
  <2>4. \A o \in Boots : boots'[o].at # "claiming"
    BY <1>1 DEF IInv, BootInv, CallType, BootSet
  <2> QED
    BY <1>1, <2>3, <2>4 DEF BootInv
<1> QED
  BY <1>1, <1>4, <1>5, <1>6, <1>7, <1>8, <1>9, Untouched DEF IInv
---------------------------------------------------------------------------
(* The administrative calls.                                               *)

\* A tenant is created under a free slug, never under a command's id.
LEMMA TenantCreated ==
    ASSUME IInv, NEW t \in TenantIds \ Boots, NEW s \in Slugs, CreateTenant(t, s)
    PROVE  IInv'
<1>1. /\ t \notin DOMAIN tenants /\ FreeSlug(s, t)
      /\ tenants' = Put(tenants, t, Tenant(s))
      /\ UNCHANGED << engine, accounts, creds, members, sessions, claimed, calls, now >>
  BY DEF CreateTenant, NewTenant, AdminFrame, calls
<1>2. TableType
  BY DEF IInv
<1>3. /\ DOMAIN tenants' = DOMAIN tenants \cup {t} /\ tenants'[t] = Tenant(s)
      /\ \A u \in DOMAIN tenants : tenants'[u] = tenants[u]
      /\ tenants' \in [DOMAIN tenants' -> [slug : Slugs, suspended : BOOLEAN]]
  <2>1. Tenant(s) \in [slug : Slugs, suspended : BOOLEAN]
    BY DEF Tenant
  <2>2. tenants \in [DOMAIN tenants -> [slug : Slugs, suspended : BOOLEAN]]
    BY <1>2 DEF TableType
  <2> QED
    BY <1>1, <2>1, <2>2 DEF Put
<1>4. TableType'
  BY <1>1, <1>2, <1>3 DEF TableType
<1>5. UniqueInv'
  <2>1. \A x \in DOMAIN tenants : tenants[x].slug # s
    BY <1>1 DEF FreeSlug
  <2>2. Tenant(s).slug = s
    BY DEF Tenant
  <2> QED
    BY <1>1, <1>3, <2>1, <2>2 DEF IInv, UniqueInv
<1>6. BootInv'
  <2>1. Boots \intersect DOMAIN tenants' = Boots \intersect DOMAIN tenants
    BY <1>3
  <2> QED
    BY <1>1, <2>1 DEF IInv, BootInv, calls
<1> QED
  BY <1>1, <1>4, <1>5, <1>6, Untouched DEF IInv, calls

\* A tenant keeps its slug or takes a free one.
LEMMA TenantUpdated ==
    ASSUME IInv, NEW t \in TenantIds, NEW s \in Slugs, NEW suspended \in BOOLEAN,
           UpdateTenant(t, s, suspended)
    PROVE  IInv'
<1> DEFINE row == [slug |-> s, suspended |-> suspended]
<1>1. /\ t \in DOMAIN tenants /\ FreeSlug(s, t)
      /\ tenants' = [tenants EXCEPT ![t] = row]
      /\ UNCHANGED << engine, accounts, creds, members, sessions, claimed, calls, now >>
  BY DEF UpdateTenant, AdminFrame, calls
<1>2. TableType
  BY DEF IInv
<1>3. /\ DOMAIN tenants' = DOMAIN tenants /\ tenants'[t] = row
      /\ \A u \in DOMAIN tenants : u # t => tenants'[u] = tenants[u]
      /\ tenants' \in [DOMAIN tenants' -> [slug : Slugs, suspended : BOOLEAN]]
  BY <1>1, <1>2 DEF TableType
<1>4. TableType'
  BY <1>1, <1>2, <1>3 DEF TableType
<1>5. UniqueInv'
  <2>1. \A x \in DOMAIN tenants \ {t} : tenants[x].slug # s
    BY <1>1 DEF FreeSlug
  <2>2. row.slug = s
    OBVIOUS
  <2> HIDE DEF row
  <2> QED
    BY <1>1, <1>3, <2>1, <2>2 DEF IInv, UniqueInv
<1>6. BootInv'
  BY <1>1, <1>3 DEF IInv, BootInv, calls
<1> QED
  BY <1>1, <1>4, <1>5, <1>6, Untouched DEF IInv, calls

\* An account is created under a free address, never under a command's id.
LEMMA AccountCreated ==
    ASSUME IInv, NEW a \in AccountIds \ Boots, NEW hash \in Hashes \cup {None},
           NEW disabled \in BOOLEAN, CreateAccount(a, hash, disabled)
    PROVE  IInv'
<1>1. /\ a \notin DOMAIN accounts /\ FreeEmail(a)
      /\ accounts' = Put(accounts, a, [disabled |-> disabled])
      /\ creds' = IF hash = None THEN creds ELSE Put(creds, a, hash)
      /\ UNCHANGED << engine, tenants, members, sessions, claimed, calls, now >>
  BY DEF CreateAccount, NewAccount, AdminFrame, calls
<1>2. TableType /\ RefInv
  BY DEF IInv
<1>3. /\ DOMAIN accounts' = DOMAIN accounts \cup {a}
      /\ accounts' \in [DOMAIN accounts' -> [disabled : BOOLEAN]]
  <2>1. accounts \in [DOMAIN accounts -> [disabled : BOOLEAN]]
    BY <1>2 DEF TableType
  <2>2. [disabled |-> disabled] \in [disabled : BOOLEAN]
    OBVIOUS
  <2> QED
    BY <1>1, <2>1, <2>2 DEF Put
<1>4. /\ DOMAIN creds \subseteq DOMAIN creds' /\ DOMAIN creds' \subseteq DOMAIN creds \cup {a}
      /\ creds' \in [DOMAIN creds' -> Hashes]
  <2>1. creds \in [DOMAIN creds -> Hashes]
    BY <1>2 DEF TableType
  <2>2. CASE hash = None
    BY <1>1, <2>1, <2>2
  <2>3. CASE hash # None
    BY <1>1, <2>1, <2>3 DEF Put
  <2> QED
    BY <2>2, <2>3
<1>5. TableType'
  BY <1>1, <1>2, <1>3, <1>4 DEF TableType
<1>6. RefInv'
  <2>1. DOMAIN creds' \subseteq DOMAIN accounts'
    BY <1>2, <1>3, <1>4 DEF RefInv
  <2> QED
    BY <1>1, <1>2, <1>3, <1>4, <2>1, RefsGrow DEF calls
<1>7. UniqueInv'
  BY <1>1, <1>3 DEF IInv, UniqueInv, FreeEmail
<1>8. BootInv'
  <2>1. /\ Boots \intersect DOMAIN accounts' = Boots \intersect DOMAIN accounts
        /\ Boots \intersect DOMAIN creds' = Boots \intersect DOMAIN creds
    BY <1>3, <1>4
  <2> QED
    BY <1>1, <2>1 DEF IInv, BootInv, calls
<1> QED
  BY <1>1, <1>5, <1>6, <1>7, <1>8, Untouched DEF IInv, calls

\* A role given while a request runs is one the request has held.
LEMMA MemberAdded ==
    ASSUME IInv, NEW a \in AccountIds, NEW t \in TenantIds, NEW role \in Roles,
           AddMember(a, t, role)
    PROVE  IInv'
<1> DEFINE Met(r) == /\ requests[r].at # "idle"
                     /\ requests[r].account = a /\ requests[r].tenant = t
<1>1. /\ members' = Put(members, << a, t >>, role)
      /\ requests' = [r \in Requests |->
            IF Met(r) THEN [requests[r] EXCEPT !.held = @ \cup {role}] ELSE requests[r]]
      /\ UNCHANGED << engine, tenants, accounts, creds, sessions, claimed,
                      boots, logins, changes, now >>
  BY DEF AddMember, AdminFrame
<1>2. TableType /\ CallType
  BY DEF IInv
<1>3. /\ members'[<< a, t >>] = role
      /\ DOMAIN members' = DOMAIN members \cup {<< a, t >>}
      /\ \A k \in DOMAIN members : k # << a, t >> => members'[k] = members[k]
      /\ members' \in [DOMAIN members' -> AllRoles]
  <2>1. members \in [DOMAIN members -> AllRoles] /\ role \in AllRoles
    BY <1>2 DEF TableType, AllRoles
  <2> QED
    BY <1>1, <2>1 DEF Put
<1>4. TableType'
  BY <1>1, <1>2, <1>3 DEF TableType
<1>5. ASSUME NEW r \in Requests
      PROVE  /\ requests[r] \in ResolvedSet => requests'[r] \in ResolvedSet
             /\ requests[r] \in SubjectSet => requests'[r] \in SubjectSet
             /\ requests[r] = Idle => requests'[r] = Idle
             /\ requests[r] \in ResolvedSet \cup SubjectSet =>
                   /\ requests'[r].account = requests[r].account
                   /\ requests'[r].tenant = requests[r].tenant
                   /\ requests[r].held \subseteq requests'[r].held
                   /\ Met(r) => role \in requests'[r].held
             /\ requests[r] \in SubjectSet => requests'[r].role = requests[r].role
  <2>1. CASE Met(r)
    <3>1. requests'[r] = [requests[r] EXCEPT !.held = @ \cup {role}]
      BY <1>1, <2>1
    <3>2. role \in AllRoles
      BY DEF AllRoles
    <3>3. requests[r] # Idle
      BY <2>1, CallKinds
    <3> QED
      BY <3>1, <3>2, <3>3 DEF ResolvedSet, SubjectSet
  <2>2. CASE ~ Met(r)
    BY <1>1, <2>2
  <2> QED
    BY <2>1, <2>2
<1>6. ASSUME NEW r \in Requests
      PROVE  requests[r] \in ResolvedSet \/ requests[r] \in SubjectSet \/ requests[r] = Idle
  BY <1>2 DEF CallType
<1>7. CallType'
  <2>1. DOMAIN requests' = Requests /\ requests' = [r \in Requests |-> requests'[r]]
    BY <1>1
  <2>2. requests' \in [Requests -> ResolvedSet \cup SubjectSet \cup {Idle}]
    BY <1>5, <1>6, <2>1
  <2> QED
    BY <1>1, <1>2, <2>2 DEF CallType
<1>8. \A x \in SubjectSet : x \notin ResolvedSet /\ x # Idle
  BY CallKinds
<1>9. \A x \in ResolvedSet : x # Idle
  BY CallKinds
<1>10. RefInv'
  <2>1. \A r \in Requests : requests'[r] \in ResolvedSet \cup SubjectSet =>
           requests'[r].account \in DOMAIN accounts
    BY <1>5, <1>6, <1>8, <1>9 DEF IInv, RefInv
  <2> QED
    BY <1>1, <2>1 DEF IInv, RefInv
<1>11. ASSUME NEW r \in Requests, requests'[r] \in ResolvedSet
       PROVE  (RoleIn(requests[r].account, requests[r].tenant) \subseteq requests[r].held)'
  <2>1. requests[r] \in ResolvedSet
    BY <1>5, <1>6, <1>8, <1>9, <1>11
  <2>2. /\ requests'[r].account = requests[r].account
        /\ requests'[r].tenant = requests[r].tenant
        /\ requests[r].held \subseteq requests'[r].held
        /\ Met(r) => role \in requests'[r].held
    BY <1>5, <2>1
  <2>3. RoleIn(requests[r].account, requests[r].tenant) \subseteq requests[r].held
    BY <2>1 DEF IInv, GrantInv
  <2>4. requests[r].at # "idle"
    BY <2>1, CallKinds
  <2> DEFINE k == << requests[r].account, requests[r].tenant >>
  <2>5. CASE k = << a, t >>
    <3>1. Met(r)
      BY <2>4, <2>5
    <3> QED
      BY <1>3, <2>2, <2>5, <3>1 DEF RoleIn
  <2>6. CASE k # << a, t >>
    BY <1>3, <2>2, <2>3, <2>6 DEF RoleIn
  <2> QED
    BY <2>5, <2>6
<1>12. ASSUME NEW r \in Requests, requests'[r] \in SubjectSet
       PROVE  requests'[r].role \in requests'[r].held
  <2>1. requests[r] \in SubjectSet
    BY <1>5, <1>6, <1>8, <1>9, <1>12
  <2> QED
    BY <1>5, <2>1 DEF IInv, GrantInv
<1>13. GrantInv'
  BY <1>11, <1>12 DEF GrantInv
<1> QED
  BY <1>1, <1>4, <1>7, <1>10, <1>13, Untouched DEF IInv

\* A role taken away takes nothing from what a request has held.
LEMMA MemberRemoved ==
    ASSUME IInv, NEW a, NEW t, RemoveMember(a, t)
    PROVE  IInv'
<1>1. /\ members' = Drop(members, {<< a, t >>})
      /\ UNCHANGED << engine, tenants, accounts, creds, sessions, claimed, calls, now >>
  BY DEF RemoveMember, AdminFrame, calls
<1>2. TableType
  BY DEF IInv
<1>3. /\ DOMAIN members' \subseteq DOMAIN members
      /\ \A k \in DOMAIN members' : members'[k] = members[k]
      /\ members' \in [DOMAIN members' -> AllRoles]
  BY <1>1, <1>2 DEF Drop, Restrict, TableType
<1>4. TableType'
  BY <1>1, <1>2, <1>3 DEF TableType
<1>5. GrantInv'
  <2>1. requests' = requests
    BY <1>1 DEF calls
  <2>2. ASSUME NEW x, NEW y PROVE RoleIn(x, y)' \subseteq RoleIn(x, y)
    BY <1>3 DEF RoleIn
  <2> QED
    BY <2>1, <2>2 DEF IInv, GrantInv
<1> QED
  BY <1>1, <1>4, <1>5, Untouched DEF IInv, calls

\* Sessions end, and with them no change of a password is undone.
LEMMA SessionsEnd ==
    ASSUME IInv, NEW S, Writable, sessions' = Drop(sessions, S),
           UNCHANGED << engine, tenants, accounts, creds, members, claimed, calls, now >>
    PROVE  IInv'
<1>1. TableType
  BY DEF IInv
<1>2. /\ DOMAIN sessions' \subseteq DOMAIN sessions
      /\ \A d \in DOMAIN sessions' : sessions'[d] = sessions[d]
      /\ sessions' \in [DOMAIN sessions' -> SessionSet]
  BY <1>1 DEF Drop, Restrict, TableType
<1>3. TableType'
  BY <1>1, <1>2 DEF TableType
<1>4. RefInv'
  BY <1>2 DEF IInv, RefInv, calls
<1>5. TokenInv'
  BY <1>2 DEF IInv, TokenInv, calls
<1>6. PasswordChangeEndsSessions'
  BY <1>2 DEF IInv, PasswordChangeEndsSessions, calls
<1>7. OneWriterInv'
  <2>1. engine = "sqlite" => \A c \in Changes : ~ Open(c)
    BY DEF Writable
  <2>2. \A c \in Changes : Open(c)' <=> Open(c)
    BY DEF Open, calls
  <2> QED
    BY <2>1, <2>2 DEF IInv, OneWriterInv, calls
<1> QED
  BY <1>3, <1>4, <1>5, <1>6, <1>7, Untouched DEF IInv, calls
---------------------------------------------------------------------------
(* A password change.                                                      *)

\* What a change is to end are sessions that stand, so tokens already issued.
LEMMA ChangeBegins ==
    ASSUME IInv, NEW c \in Changes, NEW a \in AccountIds, NEW p \in Passwords,
           ChangeBegin(c, a, p)
    PROVE  IInv'
<1> DEFINE new == [at |-> IF Changing(a) THEN "waiting" ELSE "open", account |-> a,
                   password |-> p, doomed |-> SessionsOf(a)]
<1>1. /\ changes[c].at = "idle" /\ a \in DOMAIN accounts /\ Writable
      /\ changes' = [changes EXCEPT ![c] = new]
      /\ UNCHANGED << engine, store, boots, logins, requests, now >>
  BY DEF ChangeBegin, ChangeFrame, store
<1>2. TableType /\ CallType
  BY DEF IInv
<1>3. SessionsOf(a) \subseteq DOMAIN sessions /\ SessionsOf(a) \in SUBSET Logins
  BY <1>2 DEF SessionsOf, TableType
<1>4. new \in ChangeSet /\ new.account = a /\ new.doomed = SessionsOf(a)
      /\ new.at \in {"open", "waiting"}
  BY <1>3 DEF ChangeSet
<1>5. ASSUME engine = "sqlite" PROVE new.at = "open" /\ \A k \in Changes : ~ Open(k)
  BY <1>1, <1>5 DEF Writable, Changing
<1> HIDE DEF new
<1>6. /\ changes'[c] = new /\ \A k \in Changes : k # c => changes'[k] = changes[k]
      /\ changes' \in [Changes -> ChangeSet \cup {Idle}]
  BY <1>1, <1>2, <1>4 DEF CallType
<1>7. CallType'
  BY <1>1, <1>2, <1>6 DEF CallType
<1>8. RefInv'
  BY <1>1, <1>4, <1>6 DEF IInv, RefInv, store
<1>9. TokenInv'
  BY <1>1, <1>3, <1>4, <1>6 DEF IInv, TokenInv, store
<1>10. PasswordChangeEndsSessions'
  BY <1>1, <1>4, <1>6 DEF IInv, PasswordChangeEndsSessions, store
<1>11. OneWriterInv'
  <2>1. ASSUME engine = "sqlite"
        PROVE  /\ \A k \in Changes : Open(k)' => k = c
               /\ \A k \in Changes : changes'[k].at # "waiting"
    BY <1>5, <1>6, <2>1 DEF IInv, OneWriterInv, Open
  <2>2. SessionsOf(a)' = SessionsOf(a)
    BY <1>1 DEF SessionsOf, store
  <2>3. (changes[c].doomed = SessionsOf(changes[c].account))'
    BY <1>4, <1>6, <2>2 DEF SessionsOf
  <2> QED
    BY <1>1, <2>1, <2>3 DEF OneWriterInv
<1> QED
  BY <1>1, <1>7, <1>8, <1>9, <1>10, <1>11, Untouched DEF IInv, store

\* The commit ends them, and gives a password to an account that has a row.
LEMMA ChangeCommits ==
    ASSUME IInv, NEW c \in Changes, ChangeCommit(c)
    PROVE  IInv'
<1> DEFINE a == changes[c].account
           doomed == changes[c].doomed
<1>0. TableType /\ CallType /\ RefInv
  BY DEF IInv
<1>1. /\ Open(c)
      /\ creds' = Put(creds, a, Hash(changes[c].password))
      /\ sessions' = Drop(sessions, doomed)
      /\ UNCHANGED << engine, tenants, accounts, members, claimed, boots, requests, now >>
  BY DEF ChangeCommit, ChangeFrame
<1>2. /\ changes[c] \in ChangeSet /\ a \in DOMAIN accounts
      /\ Hash(changes[c].password) \in Hashes
  <2>1. changes[c] \in ChangeSet
    BY <1>0, <1>1, CallKinds DEF CallType, Open
  <2> QED
    BY <1>0, <2>1 DEF RefInv, ChangeSet, Hash, Hashes
<1>3. /\ DOMAIN changes' = Changes
      /\ changes'[c] = [changes[c] EXCEPT !.at = "done"]
      /\ \A k \in Changes : k # c =>
            \/ changes'[k] = changes[k]
            \/ changes[k].at = "waiting" /\ changes'[k] = [changes[k] EXCEPT !.at = "failed"]
      /\ changes' = [k \in Changes |-> changes'[k]]
  BY <1>1 DEF ChangeCommit, Open
<1>4. ASSUME NEW k \in Changes
      PROVE  /\ changes'[k] \in ChangeSet \cup {Idle}
             /\ changes'[k] \in ChangeSet <=> changes[k] \in ChangeSet
             /\ changes[k] \in ChangeSet => /\ changes'[k].doomed = changes[k].doomed
                                            /\ changes'[k].account = changes[k].account
             /\ k # c /\ changes'[k].at = "done" => changes[k].at = "done"
             /\ ~ (k # c /\ ~ Open(k) /\ Open(k)')
             /\ changes'[k].at = "waiting" => changes[k].at = "waiting"
  <2>1. CASE k = c
    <3>1. changes'[k] = [changes[c] EXCEPT !.at = "done"]
      BY <1>3, <2>1
    <3> QED
      BY <1>2, <2>1, <3>1 DEF ChangeSet
  <2>2. CASE k # c /\ changes'[k] = changes[k]
    BY <1>0, <2>2 DEF CallType, Open
  <2>3. CASE /\ k # c /\ changes[k].at = "waiting"
             /\ changes'[k] = [changes[k] EXCEPT !.at = "failed"]
    <3>1. changes[k] \in ChangeSet
      BY <1>0, <2>3, CallKinds DEF CallType
    <3>2. /\ changes'[k] \in ChangeSet /\ changes'[k].at = "failed"
          /\ changes'[k].doomed = changes[k].doomed
          /\ changes'[k].account = changes[k].account
      BY <2>3, <3>1 DEF ChangeSet
    <3> QED
      BY <2>3, <3>1, <3>2 DEF Open
  <2> QED
    BY <1>3, <2>1, <2>2, <2>3
<1>5. changes'[c].at = "done" /\ changes'[c].doomed = doomed /\ ~ Open(c)'
  BY <1>2, <1>3 DEF ChangeSet, Open
<1>6. \A l \in Logins : logins'[l] = Done \/ logins'[l] = logins[l]
  BY DEF ChangeCommit
<1>7. logins' \in [Logins -> LoginSet \cup {Idle, Done}]
  <2>1. logins' = [l \in Logins |-> logins'[l]]
    BY DEF ChangeCommit
  <2>2. \A l \in Logins : logins'[l] \in LoginSet \cup {Idle, Done}
    BY <1>0, <1>6 DEF CallType
  <2> QED
    BY <2>1, <2>2
<1>8. /\ DOMAIN creds' = DOMAIN creds \cup {a} /\ creds' \in [DOMAIN creds' -> Hashes]
  BY <1>0, <1>1, <1>2 DEF Put, TableType
<1>9. /\ DOMAIN sessions' = DOMAIN sessions \ doomed
      /\ \A d \in DOMAIN sessions' : sessions'[d] = sessions[d]
      /\ sessions' \in [DOMAIN sessions' -> SessionSet]
  BY <1>0, <1>1 DEF Drop, Restrict, TableType
<1> HIDE DEF a, doomed
<1>10. TableType'
  BY <1>0, <1>1, <1>8, <1>9 DEF TableType
<1>11. CallType'
  <2>1. changes' \in [Changes -> ChangeSet \cup {Idle}]
    BY <1>3, <1>4
  <2> QED
    BY <1>0, <1>1, <1>7, <2>1 DEF CallType
<1>12. RefInv'
  <2>1. DOMAIN creds' \subseteq DOMAIN accounts'
    BY <1>0, <1>1, <1>2, <1>8 DEF RefInv
  <2>2. \A d \in DOMAIN sessions' : sessions'[d].account \in DOMAIN accounts'
    BY <1>0, <1>1, <1>9 DEF RefInv
  <2>3. \A l \in Logins : logins'[l] \in LoginSet => logins'[l].account \in DOMAIN creds'
    BY <1>0, <1>6, <1>8, CallKinds DEF RefInv
  <2>4. \A k \in Changes : changes'[k] \in ChangeSet =>
           changes'[k].account \in DOMAIN accounts'
    BY <1>0, <1>1, <1>4 DEF RefInv
  <2> QED
    BY <1>0, <1>1, <2>1, <2>2, <2>3, <2>4 DEF RefInv
<1>13. TokenInv'
  <2> SUFFICES ASSUME NEW l \in Logins, logins'[l].at \in {"idle", "verified"}
               PROVE  /\ l \notin DOMAIN sessions'
                      /\ \A k \in Changes : changes'[k] \in ChangeSet =>
                                               l \notin changes'[k].doomed
    BY DEF TokenInv
  <2>1. logins'[l] = logins[l]
    BY <1>6, CallKinds
  <2>2. /\ l \notin DOMAIN sessions
        /\ \A k \in Changes : changes[k] \in ChangeSet => l \notin changes[k].doomed
    BY <2>1 DEF IInv, TokenInv
  <2> QED
    BY <1>4, <1>9, <2>2
<1>14. PasswordChangeEndsSessions'
  <2> SUFFICES ASSUME NEW k \in Changes, changes'[k].at = "done"
               PROVE  changes'[k].doomed \intersect DOMAIN sessions' = {}
    BY DEF PasswordChangeEndsSessions
  <2>1. CASE k = c
    BY <1>5, <1>9, <2>1
  <2>2. CASE k # c
    <3>1. changes[k].at = "done"
      BY <1>4, <2>2
    <3>2. changes[k] \in ChangeSet
      BY <1>0, <3>1, CallKinds DEF CallType
    <3>3. changes[k].doomed \intersect DOMAIN sessions = {}
      BY <3>1 DEF IInv, PasswordChangeEndsSessions
    <3> QED
      BY <1>4, <1>9, <3>2, <3>3
  <2> QED
    BY <2>1, <2>2
<1>15. OneWriterInv'
  <2>1. ASSUME engine = "sqlite", NEW k \in Changes PROVE ~ Open(k)'
    <3>1. CASE k = c
      BY <1>5, <3>1
    <3>2. CASE k # c
      <4>1. ~ Open(k)
        BY <1>1, <2>1, <3>2 DEF IInv, OneWriterInv
      <4> QED
        BY <1>4, <3>2, <4>1
    <3> QED
      BY <3>1, <3>2
  <2>2. ASSUME engine = "sqlite", NEW k \in Changes PROVE changes'[k].at # "waiting"
    BY <1>4, <2>2 DEF IInv, OneWriterInv
  <2> QED
    BY <1>1, <2>1, <2>2 DEF OneWriterInv
<1>16. BootInv'
  <2>1. Boots \intersect DOMAIN creds' = Boots \intersect DOMAIN creds
    <3>1. CASE a \notin Boots
      BY <1>8, <3>1
    <3>2. CASE a \in Boots
      <4>1. a \in Boots \intersect DOMAIN accounts
        BY <1>2, <3>2
      <4>2. Boots \intersect DOMAIN accounts = Boots \intersect DOMAIN creds
        BY DEF IInv, BootInv, TableType
      <4> QED
        BY <1>8, <4>1, <4>2
    <3> QED
      BY <3>1, <3>2
  <2> QED
    BY <1>1, <2>1 DEF IInv, BootInv
<1> QED
  BY <1>1, <1>10, <1>11, <1>12, <1>13, <1>14, <1>15, <1>16, Untouched DEF IInv
---------------------------------------------------------------------------
(* A login.                                                                *)

\* What a login knows of an account, it knows of one with a credential.
LEMMA LoginVerifies ==
    ASSUME IInv, NEW l \in Logins, NEW a \in AccountIds, NEW p \in Passwords,
           LoginVerify(l, a, p)
    PROVE  IInv'
<1> DEFINE new == [at |-> "verified", account |-> a, typed |-> p,
                   rehash |-> NeedsRehash(creds[a])]
<1>1. /\ logins[l].at = "idle" /\ a \in DOMAIN creds
      /\ logins' = [logins EXCEPT ![l] = new]
      /\ UNCHANGED << engine, store, boots, requests, changes, now >>
  BY DEF LoginVerify, LoginFrame, store
<1>2. new \in LoginSet /\ new.account = a
  BY DEF LoginSet, NeedsRehash
<1> HIDE DEF new
<1>3. /\ logins'[l] = new /\ \A k \in Logins : k # l => logins'[k] = logins[k]
      /\ logins' \in [Logins -> LoginSet \cup {Idle, Done}]
  BY <1>1, <1>2 DEF IInv, CallType
<1>4. CallType'
  BY <1>1, <1>3 DEF IInv, CallType
<1>5. RefInv'
  BY <1>1, <1>2, <1>3 DEF IInv, RefInv, store
<1>6. TokenInv'
  BY <1>1, <1>3 DEF IInv, TokenInv, store
<1> QED
  BY <1>1, <1>4, <1>5, <1>6, Untouched DEF IInv, store

\* The token issued is new, so no change that is done is undone by it.
LEMMA LoginIssues ==
    ASSUME IInv, NEW l \in Logins, NEW host \in Hosts, LoginIssue(l, host)
    PROVE  IInv'
<1> DEFINE row == [account |-> logins[l].account, host |-> host, expires |-> now + TTL]
           next == IF logins[l].rehash THEN [logins[l] EXCEPT !.at = "issued"] ELSE Done
<1>0. TableType /\ CallType /\ RefInv
  BY DEF IInv
<1>1. /\ logins[l].at = "verified" /\ Writable
      /\ sessions' = Put(sessions, l, row)
      /\ logins' = [logins EXCEPT ![l] = next]
      /\ UNCHANGED << engine, tenants, accounts, creds, members, claimed, boots,
                      requests, changes, now >>
  BY DEF LoginIssue, LoginFrame
<1>2. logins[l] \in LoginSet
  BY <1>0, <1>1, CallKinds DEF CallType
<1>3. row \in SessionSet /\ row.account \in DOMAIN accounts
  BY <1>0, <1>2 DEF SessionSet, LoginSet, TableType, RefInv
<1>4. /\ next \in LoginSet \cup {Done} /\ next.at \in {"issued", "done"}
      /\ next \in LoginSet => next.account = logins[l].account
  <2>1. CASE logins[l].rehash
    BY <1>2, <2>1 DEF LoginSet
  <2>2. CASE ~ logins[l].rehash
    BY <2>2, CallKinds
  <2> QED
    BY <2>1, <2>2
<1> HIDE DEF row, next
<1>5. /\ logins'[l] = next /\ \A k \in Logins : k # l => logins'[k] = logins[k]
      /\ logins' \in [Logins -> LoginSet \cup {Idle, Done}]
  BY <1>0, <1>1, <1>4 DEF CallType
<1>6. /\ DOMAIN sessions' = DOMAIN sessions \cup {l} /\ sessions'[l] = row
      /\ \A d \in DOMAIN sessions : d # l => sessions'[d] = sessions[d]
      /\ sessions' \in [DOMAIN sessions' -> SessionSet]
  BY <1>0, <1>1, <1>3 DEF Put, TableType
<1>7. TableType'
  BY <1>0, <1>1, <1>6 DEF TableType
<1>8. CallType'
  BY <1>0, <1>1, <1>5 DEF CallType
<1>9. RefInv'
  <2>1. \A d \in DOMAIN sessions' : sessions'[d].account \in DOMAIN accounts
    BY <1>0, <1>3, <1>6 DEF RefInv
  <2>2. \A k \in Logins : logins'[k] \in LoginSet => logins'[k].account \in DOMAIN creds
    BY <1>0, <1>2, <1>4, <1>5 DEF RefInv
  <2> QED
    BY <1>0, <1>1, <2>1, <2>2 DEF RefInv
<1>10. TokenInv'
  BY <1>1, <1>4, <1>5, <1>6 DEF IInv, TokenInv
<1>11. PasswordChangeEndsSessions'
  <2>1. ASSUME NEW c \in Changes, changes[c].at = "done"
        PROVE  changes[c].doomed \intersect DOMAIN sessions' = {}
    <3>1. changes[c] \in ChangeSet
      BY <1>0, <2>1, CallKinds DEF CallType
    <3>2. l \notin changes[c].doomed
      BY <1>1, <3>1 DEF IInv, TokenInv
    <3> QED
      BY <1>6, <2>1, <3>2 DEF IInv, PasswordChangeEndsSessions
  <2> QED
    BY <1>1, <2>1 DEF PasswordChangeEndsSessions
<1>12. OneWriterInv'
  <2>1. engine = "sqlite" => \A c \in Changes : ~ Open(c)
    BY <1>1 DEF Writable
  <2>2. \A c \in Changes : Open(c)' <=> Open(c)
    BY <1>1 DEF Open
  <2> QED
    BY <1>1, <2>1, <2>2 DEF IInv, OneWriterInv
<1> QED
  BY <1>1, <1>7, <1>8, <1>9, <1>10, <1>11, <1>12, Untouched DEF IInv

\* The hash is raised on a row that is there.
LEMMA LoginRehashes ==
    ASSUME IInv, NEW l \in Logins, LoginRehash(l)
    PROVE  IInv'
<1> DEFINE a == logins[l].account
           next == IF Changing(a) THEN [logins[l] EXCEPT !.at = "blocked"] ELSE Done
<1>0. TableType /\ CallType /\ RefInv
  BY DEF IInv
<1>1. /\ logins[l].at = "issued"
      /\ creds' = IF Changing(a) THEN creds ELSE [creds EXCEPT ![a] = Hash(logins[l].typed)]
      /\ logins' = [logins EXCEPT ![l] = next]
      /\ UNCHANGED << engine, tenants, accounts, members, sessions, claimed, boots,
                      requests, changes, now >>
  BY DEF LoginRehash, LoginFrame
<1>2. logins[l] \in LoginSet /\ Hash(logins[l].typed) \in Hashes
  <2>1. logins[l] \in LoginSet
    BY <1>0, <1>1, CallKinds DEF CallType
  <2> QED
    BY <2>1 DEF LoginSet, Hash, Hashes
<1>3. /\ next \in LoginSet \cup {Done} /\ next.at \in {"blocked", "done"}
      /\ next \in LoginSet => next.account = a
  <2>1. CASE Changing(a)
    BY <1>2, <2>1 DEF LoginSet
  <2>2. CASE ~ Changing(a)
    BY <2>2, CallKinds
  <2> QED
    BY <2>1, <2>2
<1>4. DOMAIN creds' = DOMAIN creds /\ creds' \in [DOMAIN creds' -> Hashes]
  <2>1. creds \in [DOMAIN creds -> Hashes]
    BY <1>0 DEF TableType
  <2>2. CASE Changing(a)
    BY <1>1, <2>1, <2>2
  <2>3. CASE ~ Changing(a)
    BY <1>1, <1>2, <2>1, <2>3
  <2> QED
    BY <2>2, <2>3
<1> HIDE DEF next
<1>5. /\ logins'[l] = next /\ \A k \in Logins : k # l => logins'[k] = logins[k]
      /\ logins' \in [Logins -> LoginSet \cup {Idle, Done}]
  BY <1>0, <1>1, <1>3 DEF CallType
<1>6. TableType'
  BY <1>0, <1>1, <1>4 DEF TableType
<1>7. CallType'
  BY <1>0, <1>1, <1>5 DEF CallType
<1>8. RefInv'
  <2>1. \A k \in Logins : logins'[k] \in LoginSet => logins'[k].account \in DOMAIN creds
    BY <1>0, <1>2, <1>3, <1>5 DEF RefInv
  <2> QED
    BY <1>0, <1>1, <1>4, <2>1 DEF RefInv
<1>9. TokenInv'
  BY <1>1, <1>3, <1>5 DEF IInv, TokenInv
<1>10. BootInv'
  BY <1>1, <1>4 DEF IInv, BootInv
<1> QED
  BY <1>1, <1>6, <1>7, <1>8, <1>9, <1>10, Untouched DEF IInv

---------------------------------------------------------------------------
(* A request.                                                              *)

\* One request moves, and it carries what it may.
LEMMA RequestMoves ==
    ASSUME IInv, NEW r \in Requests, NEW q \in ResolvedSet \cup SubjectSet \cup {Idle},
           requests' = [requests EXCEPT ![r] = q], RequestFrame,
           q \in ResolvedSet \cup SubjectSet => q.account \in DOMAIN accounts,
           q \in ResolvedSet => RoleIn(q.account, q.tenant) \subseteq q.held,
           q \in SubjectSet => q.role \in q.held
    PROVE  IInv'
<1>1. UNCHANGED << engine, store, boots, logins, changes, now >>
  BY DEF RequestFrame
<1>2. /\ requests'[r] = q /\ \A k \in Requests : k # r => requests'[k] = requests[k]
      /\ requests' \in [Requests -> ResolvedSet \cup SubjectSet \cup {Idle}]
  BY DEF IInv, CallType
<1>3. CallType'
  BY <1>1, <1>2 DEF IInv, CallType
<1>4. RefInv'
  BY <1>1, <1>2 DEF IInv, RefInv, store
<1>5. GrantInv'
  <2>1. ASSUME NEW a, NEW t PROVE RoleIn(a, t)' = RoleIn(a, t)
    BY <1>1 DEF RoleIn, store
  <2>2. ASSUME NEW k \in Requests, requests'[k] \in ResolvedSet
        PROVE  (RoleIn(requests[k].account, requests[k].tenant) \subseteq requests[k].held)'
    <3>1. RoleIn(requests'[k].account, requests'[k].tenant) \subseteq requests'[k].held
      BY <1>2, <2>2 DEF IInv, GrantInv
    <3> QED
      BY <1>1, <3>1 DEF RoleIn, store
  <2>3. \A k \in Requests : requests'[k] \in SubjectSet =>
           requests'[k].role \in requests'[k].held
    BY <1>2 DEF IInv, GrantInv
  <2> QED
    BY <2>2, <2>3 DEF GrantInv
<1> QED
  BY <1>1, <1>3, <1>4, <1>5, Untouched DEF IInv, store

\* Resolve, subjectFrom and the decision carry a role on only from a membership.
LEMMA RequestSteps ==
    ASSUME IInv, NEW r \in Requests,
           \/ \E d \in Logins, host \in Hosts, t \in TenantIds : Resolve(r, d, host, t)
           \/ Subject(r) \/ \E act \in {"read", "change", "own"} : Decide(r, act)
    PROVE  IInv'
<1>0. TableType /\ CallType /\ RefInv /\ GrantInv
  BY DEF IInv
<1>i. Idle \notin ResolvedSet \cup SubjectSet
  BY CallKinds
<1>1. CASE \E d \in Logins, host \in Hosts, t \in TenantIds : Resolve(r, d, host, t)
  <2>1. PICK d \in Logins, host \in Hosts, t \in TenantIds : Resolve(r, d, host, t)
    BY <1>1
  <2> DEFINE a == sessions[d].account
             q == [at |-> "resolved", account |-> a, tenant |-> t, held |-> RoleIn(a, t)]
  <2>2. d \in DOMAIN sessions /\ requests' = [requests EXCEPT ![r] = q] /\ RequestFrame
    BY <2>1 DEF Resolve
  <2>3. a \in AccountIds /\ a \in DOMAIN accounts
    BY <1>0, <2>2 DEF TableType, SessionSet, RefInv
  <2>4. RoleIn(a, t) \subseteq AllRoles
    BY <1>0 DEF RoleIn, TableType
  <2>5. q \in ResolvedSet /\ q.account = a /\ q.tenant = t /\ q.held = RoleIn(a, t)
    BY <2>3, <2>4 DEF ResolvedSet
  <2>6. q \notin SubjectSet
    BY <2>5, CallKinds
  <2> HIDE DEF q
  <2> QED
    BY <2>2, <2>3, <2>5, <2>6, RequestMoves
<1>2. CASE Subject(r)
  <2> DEFINE q == requests[r]
  <2>1. q.at = "resolved" /\ RequestFrame
    BY <1>2 DEF Subject
  <2>2. q \in ResolvedSet
    BY <1>0, <2>1, CallKinds DEF CallType
  <2>3. q.account \in DOMAIN accounts /\ RoleIn(q.account, q.tenant) \subseteq q.held
    BY <1>0, <2>2 DEF RefInv, GrantInv
  <2>4. CASE requests' = [requests EXCEPT ![r] = Idle]
    BY <1>i, <2>1, <2>4, RequestMoves
  <2>5. CASE \E role \in MemberRole(q.account, q.tenant) :
               requests' = [requests EXCEPT ![r] =
                  [at |-> "subject", account |-> q.account, tenant |-> q.tenant,
                   held |-> q.held, role |-> role]]
    <3>1. PICK role \in MemberRole(q.account, q.tenant) :
             requests' = [requests EXCEPT ![r] =
                [at |-> "subject", account |-> q.account, tenant |-> q.tenant,
                 held |-> q.held, role |-> role]]
      BY <2>5
    <3> DEFINE n == [at |-> "subject", account |-> q.account, tenant |-> q.tenant,
                     held |-> q.held, role |-> role]
    <3>2. role \in q.held /\ q.held \subseteq AllRoles
      BY <2>2, <2>3 DEF MemberRole, ResolvedSet
    <3>3. n \in SubjectSet /\ n.account = q.account /\ n.role = role /\ n.held = q.held
      BY <2>2, <3>2 DEF SubjectSet, ResolvedSet
    <3>4. n \notin ResolvedSet
      BY <3>3, CallKinds
    <3>5. requests' = [requests EXCEPT ![r] = n]
      BY <3>1
    <3> HIDE DEF n, q
    <3> QED
      BY <2>1, <2>3, <3>2, <3>3, <3>4, <3>5, RequestMoves
  <2> QED
    BY <1>2, <2>4, <2>5 DEF Subject
<1>3. CASE \E act \in {"read", "change", "own"} : Decide(r, act)
  <2> DEFINE q == requests[r]
             n == [q EXCEPT !.at = "admitted"]
  <2>1. /\ q.at = "subject" /\ RequestFrame
        /\ \/ requests' = [requests EXCEPT ![r] = Idle]
           \/ requests' = [requests EXCEPT ![r] = n]
    BY <1>3 DEF Decide
  <2>2. q \in SubjectSet
    BY <1>0, <2>1, CallKinds DEF CallType
  <2>3. q.account \in DOMAIN accounts /\ q.role \in q.held
    BY <1>0, <2>2 DEF RefInv, GrantInv
  <2>4. n \in SubjectSet /\ n.account = q.account /\ n.role = q.role /\ n.held = q.held
    BY <2>2 DEF SubjectSet
  <2>5. n \notin ResolvedSet
    BY <2>4, CallKinds
  <2> HIDE DEF n, q
  <2>6. CASE requests' = [requests EXCEPT ![r] = Idle]
    BY <1>i, <2>1, <2>6, RequestMoves
  <2>7. CASE requests' = [requests EXCEPT ![r] = n]
    BY <2>1, <2>3, <2>4, <2>5, <2>7, RequestMoves
  <2> QED
    BY <2>1, <2>6, <2>7
<1> QED
  BY <1>1, <1>2, <1>3

---------------------------------------------------------------------------
(* The server stops.                                                       *)

\* A crash loses calls and nothing that was committed; a login it ended is not
\* taken up again, so its token stays unissued.
LEMMA Crashes ==
    ASSUME IInv, Crash
    PROVE  IInv'
<1>0. CallType
  BY DEF IInv
<1>1. /\ UNCHANGED << engine, store, boots, now >>
      /\ logins' = [l \in Logins |-> IF logins[l].at = "idle" THEN Idle ELSE Done]
      /\ changes' = [c \in Changes |-> IF changes[c].at \in {"open", "waiting"} THEN Idle
                                       ELSE changes[c]]
      /\ requests' = [r \in Requests |-> Idle]
  BY DEF Crash
<1>2. /\ \A l \in Logins : /\ logins'[l] \in {Idle, Done}
                           /\ logins'[l].at \in {"idle", "verified"} => logins[l].at = "idle"
      /\ \A c \in Changes : /\ changes'[c] = changes[c] \/ changes'[c] = Idle
                            /\ changes'[c].at \notin {"open", "waiting"}
  BY <1>1, CallKinds
<1>3. CallType'
  BY <1>0, <1>1 DEF CallType
<1>4. RefInv'
  BY <1>1, <1>2, CallKinds DEF IInv, RefInv, store
<1>5. TokenInv'
  BY <1>1, <1>2, CallKinds DEF IInv, TokenInv, store
<1>6. PasswordChangeEndsSessions'
  BY <1>1, <1>2, CallKinds DEF IInv, PasswordChangeEndsSessions, store
<1>7. OneWriterInv'
  BY <1>2 DEF OneWriterInv, Open
<1>8. GrantInv'
  BY <1>1, CallKinds DEF GrantInv
<1> QED
  BY <1>1, <1>3, <1>4, <1>5, <1>6, <1>7, <1>8, Untouched DEF IInv, store

---------------------------------------------------------------------------
(* The theorems.                                                           *)

\* A step that starts or ends a call, or moves the clock, keeps the invariant.
LEMMA InvStep == IInv /\ [Next]_vars => IInv'
<1> SUFFICES ASSUME IInv, [Next]_vars PROVE IInv'
  OBVIOUS
<1>1. CASE UNCHANGED vars
  BY <1>1, Untouched DEF vars, IInv, store, calls
<1>2. CASE Tick
  <2>1. TableType'
    BY <1>2 DEF Tick, IInv, TableType, store
  <2> QED
    BY <1>2, <2>1, Untouched DEF Tick, IInv, store, calls
<1>3. ASSUME NEW S, DeleteSessions(S) PROVE IInv'
  BY <1>3, SessionsEnd DEF DeleteSessions, Administer, AdminFrame, calls
<1>4. ASSUME NEW l \in Logins, Logout(l) PROVE IInv'
  BY <1>4, SessionsEnd DEF Logout, LoginFrame, calls
<1>5. CASE \E b \in Boots : BootAsk(b) \/ BootClaim(b) \/ BootCommit(b) \/ BootRollback(b)
  BY <1>5, BootMoves, BootCommits
<1>6. CASE \/ \E t \in TenantIds \ Boots, s \in Slugs : CreateTenant(t, s)
           \/ \E t \in TenantIds, s \in Slugs, b \in BOOLEAN : UpdateTenant(t, s, b)
  BY <1>6, TenantCreated, TenantUpdated
<1>7. CASE \E a \in AccountIds \ Boots, h \in Hashes \cup {None}, b \in BOOLEAN :
              CreateAccount(a, h, b)
  BY <1>7, AccountCreated
<1>8. CASE \E a \in AccountIds, t \in TenantIds :
              RemoveMember(a, t) \/ \E role \in Roles : AddMember(a, t, role)
  BY <1>8, MemberAdded, MemberRemoved
<1>9. CASE \E c \in Changes : ChangeCommit(c)
              \/ \E a \in AccountIds, p \in Passwords : ChangeBegin(c, a, p)
  BY <1>9, ChangeBegins, ChangeCommits
<1>10. CASE \E l \in Logins :
              \/ \E a \in AccountIds, p \in Passwords : LoginVerify(l, a, p)
              \/ LoginRehash(l) \/ Logout(l)
              \/ \E host \in Hosts : LoginIssue(l, host)
  BY <1>4, <1>10, LoginVerifies, LoginIssues, LoginRehashes
<1>11. CASE \E r \in Requests :
              \/ \E d \in Logins, host \in Hosts, t \in TenantIds : Resolve(r, d, host, t)
              \/ Subject(r) \/ \E act \in {"read", "change", "own"} : Decide(r, act)
  BY <1>11, RequestSteps
<1> QED
  BY <1>1, <1>2, <1>3, <1>5, <1>6, <1>7, <1>8, <1>9, <1>10, <1>11, Crashes DEF Next

\* A store nobody has claimed.
LEMMA InvInit == Init => IInv
<1> SUFFICES ASSUME Init PROVE IInv
  OBVIOUS
<1>1. DOMAIN Empty = {}
  BY DEF Empty
<1>2. TableType
  <2>1. ASSUME NEW T PROVE Empty \in [DOMAIN Empty -> T]
    BY DEF Empty
  <2>2. 0 \in 0 .. MaxNow
    OBVIOUS
  <2> QED
    BY <1>1, <2>1, <2>2 DEF Init, TableType
<1>3. CallType
  BY DEF Init, CallType, BootSet, Idle
<1>4. RefInv /\ UniqueInv
  BY <1>1, CallKinds DEF Init, RefInv, UniqueInv
<1>5. TokenInv /\ PasswordChangeEndsSessions /\ OneWriterInv
  BY <1>1, CallKinds DEF Init, TokenInv, PasswordChangeEndsSessions, OneWriterInv, Open
<1>6. GrantInv
  BY CallKinds DEF Init, GrantInv
<1>7. BootInv
  BY <1>1, CallKinds DEF Init, BootInv
<1> QED
  BY <1>2, <1>3, <1>4, <1>5, <1>6, <1>7 DEF IInv

\* IInv holds of every reachable state.
THEOREM Invariance == Spec => []IInv
BY InvInit, InvStep, PTL DEF Spec

\* A password change that was answered has ended every session its account held
\* when it began, for any number of logins, logouts, prunes and changes at once
\* and across crashes of the server.
THEOREM ChangesEndSessions == Spec => []PasswordChangeEndsSessions
<1>1. IInv => PasswordChangeEndsSessions
  BY DEF IInv
<1> QED
  BY <1>1, Invariance, PTL

\* A request that is let through carries a role its account was given in its
\* tenant by a membership that stood while the request ran.
THEOREM RolesAreGranted == Spec => []AdmittedWasGranted
<1>1. IInv => AdmittedWasGranted
  <2> SUFFICES ASSUME IInv, NEW r \in Requests, requests[r].at = "admitted"
               PROVE  requests[r].role \in requests[r].held
    BY DEF AdmittedWasGranted
  <2>1. requests[r] \in SubjectSet
    BY CallKinds DEF IInv, CallType
  <2> QED
    BY <2>1 DEF IInv, GrantInv
<1> QED
  BY <1>1, Invariance, PTL

\* However many bootstrap commands run, are refused or die, and on either
\* engine, the store is unclaimed with nothing of theirs in it or claimed with
\* exactly one command's tenant, account and credential.
THEOREM OneOwnerAtMost == Spec => []BootstrapIsWhole
<1>1. IInv => BootstrapIsWhole
  <2> SUFFICES ASSUME IInv, NEW rows \in {DOMAIN tenants, DOMAIN accounts, DOMAIN creds}
               PROVE  Cardinality(Boots \intersect rows) = IF claimed THEN 1 ELSE 0
    BY DEF BootstrapIsWhole
  <2>1. CASE claimed
    <3>1. \E b \in Boots : Boots \intersect rows = {b}
      BY <2>1 DEF IInv, BootInv
    <3> QED
      BY <2>1, <3>1, FS_Singleton
  <2>2. CASE ~ claimed
    <3>1. Boots \intersect rows = {}
      BY <2>2 DEF IInv, BootInv
    <3> QED
      BY <2>2, <3>1, FS_EmptySet
  <2> QED
    BY <2>1, <2>2
<1> QED
  BY <1>1, Invariance, PTL
---------------------------------------------------------------------------
(* Refinement: on sqlite every step is one call of the memory store, or     *)
(* none.                                                                   *)

\* The memory store's operators on tables are the ones used here.
LEMMA SameOperators ==
    /\ \A f, x, v : Memory!Put(f, x, v) = Put(f, x, v)
    /\ \A f, S : Memory!Drop(f, S) = Drop(f, S)
    /\ Memory!Empty = Empty
    /\ \A a : Memory!SessionsOf(a) = SessionsOf(a)
<1>1. ASSUME NEW f, NEW x, NEW v PROVE Memory!Put(f, x, v) = Put(f, x, v)
  BY DEF Memory!Put, Put
<1>2. ASSUME NEW f, NEW S PROVE Memory!Drop(f, S) = Drop(f, S)
  BY DEF Memory!Drop, Drop, Memory!Restrict, Restrict
<1>3. Memory!Empty = Empty
  BY DEF Memory!Empty, Empty
<1>4. ASSUME NEW a PROVE Memory!SessionsOf(a) = SessionsOf(a)
  BY DEF Memory!SessionsOf, SessionsOf
<1> QED
  BY <1>1, <1>2, <1>3, <1>4

\* A column without duplicates, a table with one row more, and a table with one
\* row changed, its slug a free one or its own.
SlugsDiffer(rows) == \A x, y \in DOMAIN rows : rows[x].slug = rows[y].slug => x = y

AddsRow(rows, more, t, s) ==
    /\ t \notin DOMAIN rows /\ DOMAIN more = DOMAIN rows \cup {t} /\ more[t].slug = s
    /\ \A x \in DOMAIN rows : more[x] = rows[x] /\ rows[x].slug # s

MovesRow(rows, other, t, s) ==
    /\ t \in DOMAIN rows /\ DOMAIN other = DOMAIN rows /\ other[t].slug = s
    /\ \A x \in DOMAIN rows : x # t => other[x] = rows[x] /\ rows[x].slug # s

\* The index of a column without duplicates is that column's inverse.
LEMMA SlugIndexIs ==
    ASSUME NEW rows, SlugsDiffer(rows)
    PROVE  /\ DOMAIN SlugIndex(rows) = {rows[t].slug : t \in DOMAIN rows}
           /\ \A t \in DOMAIN rows : SlugIndex(rows)[rows[t].slug] = t
BY DEF SlugIndex, SlugsDiffer

\* Likewise for the addresses.
LEMMA EmailIndexIs ==
    ASSUME NEW ids, \A a, b \in ids : Fold(EmailOf[a]) = Fold(EmailOf[b]) => a = b
    PROVE  /\ DOMAIN EmailIndex(ids) = {Fold(EmailOf[a]) : a \in ids}
           /\ \A a \in ids : EmailIndex(ids)[Fold(EmailOf[a])] = a
BY DEF EmailIndex

\* A row with a new slug is one more entry of the index.
LEMMA SlugIndexGrows ==
    ASSUME NEW rows, NEW more, NEW t, NEW s, SlugsDiffer(rows), AddsRow(rows, more, t, s)
    PROVE  SlugIndex(more) = Put(SlugIndex(rows), s, t)
<1>0. /\ t \notin DOMAIN rows /\ DOMAIN more = DOMAIN rows \cup {t} /\ more[t].slug = s
      /\ \A x \in DOMAIN rows : more[x] = rows[x] /\ rows[x].slug # s
  BY DEF AddsRow
<1>1. SlugsDiffer(more)
  BY <1>0 DEF SlugsDiffer
<1> DEFINE I == SlugIndex(rows)
           J == SlugIndex(more)
           P == Put(I, s, t)
<1>2. /\ DOMAIN I = {rows[x].slug : x \in DOMAIN rows}
      /\ \A x \in DOMAIN rows : I[rows[x].slug] = x
  BY SlugIndexIs
<1>3. /\ DOMAIN J = {more[x].slug : x \in DOMAIN more}
      /\ \A x \in DOMAIN more : J[more[x].slug] = x
  BY <1>1, SlugIndexIs
<1>4. J = [x \in DOMAIN J |-> J[x]]
  BY DEF SlugIndex
<1> HIDE DEF I, J
<1>5. P = [x \in DOMAIN I \cup {s} |-> IF x = s THEN t ELSE I[x]]
  BY DEF Put
<1>6. DOMAIN J = DOMAIN I \cup {s}
  BY <1>0, <1>2, <1>3
<1>7. ASSUME NEW x \in DOMAIN J PROVE J[x] = IF x = s THEN t ELSE I[x]
  <2>1. PICK u \in DOMAIN more : x = more[u].slug
    BY <1>3
  <2>2. J[x] = u
    BY <1>3, <2>1
  <2>3. CASE u = t
    BY <1>0, <2>1, <2>2, <2>3
  <2>4. CASE u # t
    BY <1>0, <1>2, <2>1, <2>2, <2>4
  <2> QED
    BY <2>3, <2>4
<1> QED
  BY <1>4, <1>5, <1>6, <1>7 DEF I, J

\* So is an account with a new address.
LEMMA EmailIndexGrows ==
    ASSUME NEW ids, NEW a,
           \A x, y \in ids : Fold(EmailOf[x]) = Fold(EmailOf[y]) => x = y,
           a \notin ids, \A x \in ids : Fold(EmailOf[x]) # Fold(EmailOf[a])
    PROVE  EmailIndex(ids \cup {a}) = Put(EmailIndex(ids), Fold(EmailOf[a]), a)
<1> DEFINE more == ids \cup {a}
           e == Fold(EmailOf[a])
           I == EmailIndex(ids)
           J == EmailIndex(more)
<1>1. \A x, y \in more : Fold(EmailOf[x]) = Fold(EmailOf[y]) => x = y
  OBVIOUS
<1>2. /\ DOMAIN I = {Fold(EmailOf[x]) : x \in ids}
      /\ \A x \in ids : I[Fold(EmailOf[x])] = x
  BY EmailIndexIs
<1>3. /\ DOMAIN J = {Fold(EmailOf[x]) : x \in more}
      /\ \A x \in more : J[Fold(EmailOf[x])] = x
  <2> HIDE DEF more
  <2> QED
    BY <1>1, EmailIndexIs
<1>4. J = [x \in DOMAIN J |-> J[x]]
  BY DEF EmailIndex
<1> HIDE DEF I, J
<1>5. Put(I, e, a) = [x \in DOMAIN I \cup {e} |-> IF x = e THEN a ELSE I[x]]
  BY DEF Put
<1>6. DOMAIN J = DOMAIN I \cup {e}
  BY <1>2, <1>3
<1>7. ASSUME NEW x \in DOMAIN J PROVE J[x] = IF x = e THEN a ELSE I[x]
  <2>1. PICK u \in more : x = Fold(EmailOf[u])
    BY <1>3
  <2>2. J[x] = u
    BY <1>3, <2>1
  <2> QED
    BY <1>2, <2>1, <2>2
<1> QED
  BY <1>4, <1>5, <1>6, <1>7 DEF I, J

\* A tenant that changes its slug changes its entry.
LEMMA SlugIndexMoves ==
    ASSUME NEW rows, NEW other, NEW t, NEW s, SlugsDiffer(rows),
           MovesRow(rows, other, t, s)
    PROVE  SlugIndex(other) = Put(Drop(SlugIndex(rows), {rows[t].slug}), s, t)
<1> DEFINE I == SlugIndex(rows)
           J == SlugIndex(other)
           old == rows[t].slug
           D == Drop(I, {old})
<1>0. /\ t \in DOMAIN rows /\ DOMAIN other = DOMAIN rows /\ other[t].slug = s
      /\ \A x \in DOMAIN rows : x # t => other[x] = rows[x] /\ rows[x].slug # s
      /\ \A x, y \in DOMAIN rows : rows[x].slug = rows[y].slug => x = y
  BY DEF MovesRow, SlugsDiffer
<1>1. SlugsDiffer(other)
  BY <1>0 DEF SlugsDiffer
<1>2. /\ DOMAIN I = {rows[x].slug : x \in DOMAIN rows}
      /\ \A x \in DOMAIN rows : I[rows[x].slug] = x
  BY SlugIndexIs
<1>3. /\ DOMAIN J = {other[x].slug : x \in DOMAIN other}
      /\ \A x \in DOMAIN other : J[other[x].slug] = x
  BY <1>1, SlugIndexIs
<1>4. J = [x \in DOMAIN J |-> J[x]]
  BY DEF SlugIndex
<1>5. DOMAIN D = DOMAIN I \ {old} /\ \A x \in DOMAIN D : D[x] = I[x]
  BY DEF Drop, Restrict
<1> HIDE DEF I, J, D
<1>6. Put(D, s, t) = [x \in DOMAIN D \cup {s} |-> IF x = s THEN t ELSE D[x]]
  BY DEF Put
<1>7. DOMAIN J = DOMAIN D \cup {s}
  BY <1>0, <1>2, <1>3, <1>5
<1>8. ASSUME NEW x \in DOMAIN J PROVE J[x] = IF x = s THEN t ELSE D[x]
  <2>1. PICK u \in DOMAIN other : x = other[u].slug
    BY <1>3
  <2>2. J[x] = u
    BY <1>3, <2>1
  <2>3. CASE u = t
    BY <1>0, <2>1, <2>2, <2>3
  <2>4. CASE u # t
    <3>1. x = rows[u].slug /\ x # s /\ x \in DOMAIN D
      BY <1>0, <1>2, <1>5, <2>1, <2>4
    <3> QED
      BY <1>0, <1>2, <1>5, <2>2, <3>1
  <2> QED
    BY <2>3, <2>4
<1> QED
  BY <1>4, <1>6, <1>7, <1>8 DEF I, J, D

\* Creating and changing tenants and accounts are calls of the memory store: the
\* UNIQUE columns refuse what its indexes refuse.
LEMMA TenantsRefine ==
    ASSUME IInv, NEW t \in TenantIds, NEW s \in Slugs
    PROVE  /\ CreateTenant(t, s) => Memory!CreateTenant(t, s)
           /\ \A b \in BOOLEAN : UpdateTenant(t, s, b) => Memory!UpdateTenant(t, s, b)
<1> DEFINE I == SlugIndex(tenants)
<1>0. SlugsDiffer(tenants)
  BY DEF IInv, UniqueInv, SlugsDiffer
<1>1. /\ DOMAIN I = {tenants[x].slug : x \in DOMAIN tenants}
      /\ \A x \in DOMAIN tenants : I[tenants[x].slug] = x
  BY <1>0, SlugIndexIs
<1>2. ASSUME CreateTenant(t, s) PROVE Memory!CreateTenant(t, s)
  <2>1. /\ t \notin DOMAIN tenants /\ FreeSlug(s, t)
        /\ tenants' = Put(tenants, t, Tenant(s))
        /\ UNCHANGED << accounts, creds, members, sessions, claimed >>
    BY <1>2 DEF CreateTenant, NewTenant, AdminFrame
  <2>2. /\ DOMAIN tenants' = DOMAIN tenants \cup {t} /\ tenants'[t] = Tenant(s)
        /\ \A u \in DOMAIN tenants : tenants'[u] = tenants[u]
    BY <2>1 DEF Put
  <2>3. \A x \in DOMAIN tenants : tenants[x].slug # s
    BY <2>1 DEF FreeSlug
  <2>4. Tenant(s).slug = s /\ Tenant(s) = [slug |-> s, suspended |-> FALSE]
    BY DEF Tenant
  <2>5. SlugIndex(tenants') = Put(I, s, t)
    <3>1. AddsRow(tenants, tenants', t, s)
      BY <2>1, <2>2, <2>3, <2>4 DEF AddsRow
    <3> QED
      BY <1>0, <3>1, SlugIndexGrows
  <2>6. s \notin DOMAIN I
    BY <1>1, <2>3
  <2>7. EmailIndex(DOMAIN accounts)' = EmailIndex(DOMAIN accounts)
    BY <2>1 DEF EmailIndex
  <2>8. SlugIndex(tenants)' = SlugIndex(tenants')
    BY DEF SlugIndex
  <2> HIDE DEF I
  <2> QED
    BY <2>1, <2>4, <2>5, <2>6, <2>7, <2>8, SameOperators
       DEF Memory!CreateTenant, Memory!NewTenant, I
<1>3. ASSUME NEW b \in BOOLEAN, UpdateTenant(t, s, b) PROVE Memory!UpdateTenant(t, s, b)
  <2>1. /\ t \in DOMAIN tenants /\ FreeSlug(s, t)
        /\ tenants' = [tenants EXCEPT ![t] = [slug |-> s, suspended |-> b]]
        /\ UNCHANGED << accounts, creds, members, sessions, claimed >>
    BY <1>3 DEF UpdateTenant, AdminFrame
  <2>2. /\ DOMAIN tenants' = DOMAIN tenants /\ tenants'[t].slug = s
        /\ \A u \in DOMAIN tenants : u # t => tenants'[u] = tenants[u]
    BY <2>1 DEF IInv, TableType
  <2>3. \A x \in DOMAIN tenants : x # t => tenants[x].slug # s
    BY <2>1 DEF FreeSlug
  <2>4. SlugIndex(tenants') = Put(Drop(I, {tenants[t].slug}), s, t)
    <3>1. MovesRow(tenants, tenants', t, s)
      BY <2>1, <2>2, <2>3 DEF MovesRow
    <3> QED
      BY <1>0, <3>1, SlugIndexMoves
  <2>5. s \in DOMAIN I => I[s] = t
    BY <1>1, <2>3
  <2>6. EmailIndex(DOMAIN accounts)' = EmailIndex(DOMAIN accounts)
    BY <2>1 DEF EmailIndex
  <2>7. SlugIndex(tenants)' = SlugIndex(tenants')
    BY DEF SlugIndex
  <2> HIDE DEF I
  <2> QED
    BY <2>1, <2>4, <2>5, <2>6, <2>7, SameOperators DEF Memory!UpdateTenant, I
<1> QED
  BY <1>2, <1>3
\* Accounts likewise, by the folded address.
LEMMA AccountAdded ==
    ASSUME IInv, NEW a, NEW row, NewAccount(a), accounts' = Put(accounts, a, row)
    PROVE  /\ a \notin DOMAIN accounts
           /\ Fold(EmailOf[a]) \notin DOMAIN EmailIndex(DOMAIN accounts)
           /\ EmailIndex(DOMAIN accounts)' =
                 Put(EmailIndex(DOMAIN accounts), Fold(EmailOf[a]), a)
<1> DEFINE ids == DOMAIN accounts
<1>1. /\ \A x, y \in ids : Fold(EmailOf[x]) = Fold(EmailOf[y]) => x = y
      /\ a \notin ids /\ \A x \in ids : Fold(EmailOf[x]) # Fold(EmailOf[a])
  BY DEF IInv, UniqueInv, NewAccount, FreeEmail
<1>2. DOMAIN accounts' = ids \cup {a}
  BY DEF Put
<1>3. EmailIndex(DOMAIN accounts)' = EmailIndex(DOMAIN accounts')
  BY DEF EmailIndex
<1> HIDE DEF ids
<1>4. EmailIndex(ids \cup {a}) = Put(EmailIndex(ids), Fold(EmailOf[a]), a)
  BY <1>1, EmailIndexGrows
<1>5. Fold(EmailOf[a]) \notin DOMAIN EmailIndex(ids)
  <2>1. DOMAIN EmailIndex(ids) = {Fold(EmailOf[x]) : x \in ids}
    BY <1>1, EmailIndexIs
  <2> HIDE DEF ids
  <2> QED
    BY <1>1, <2>1
<1> QED
  BY <1>1, <1>2, <1>3, <1>4, <1>5 DEF ids

\* CreateAccount is CreateAccount.
LEMMA AccountsRefine ==
    ASSUME IInv, NEW a, NEW hash, NEW disabled, CreateAccount(a, hash, disabled)
    PROVE  Memory!CreateAccount(a, hash, disabled)
<1>1. /\ NewAccount(a) /\ accounts' = Put(accounts, a, [disabled |-> disabled])
      /\ creds' = IF hash = None THEN creds ELSE Put(creds, a, hash)
      /\ UNCHANGED << tenants, members, sessions, claimed >>
  BY DEF CreateAccount, AdminFrame
<1>2. /\ a \notin DOMAIN accounts
      /\ Fold(EmailOf[a]) \notin DOMAIN EmailIndex(DOMAIN accounts)
      /\ EmailIndex(DOMAIN accounts)' =
            Put(EmailIndex(DOMAIN accounts), Fold(EmailOf[a]), a)
  BY <1>1, AccountAdded
<1>3. SlugIndex(tenants)' = SlugIndex(tenants)
  BY <1>1 DEF SlugIndex
<1> QED
  BY <1>1, <1>2, <1>3, SameOperators DEF Memory!CreateAccount, Memory!NewAccount

\* The commit of a bootstrap command is Bootstrap.
LEMMA BootstrapRefines ==
    ASSUME IInv, NEW b \in Boots, BootCommit(b)
    PROVE  \E s \in Slugs, h \in Hashes : Memory!Bootstrap(b, s, b, h)
<1>1. PICK s \in Slugs, p \in Passwords :
         /\ boots[b].at = "claiming" /\ NewTenant(b, s) /\ NewAccount(b)
         /\ tenants' = Put(tenants, b, Tenant(s))
         /\ accounts' = Put(accounts, b, [disabled |-> FALSE])
         /\ creds' = Put(creds, b, Hash(p))
         /\ members' = Put(members, << b, b >>, "owner")
         /\ claimed' = TRUE /\ UNCHANGED sessions
  BY DEF BootCommit
<1>2. ~ claimed /\ Hash(p) \in Hashes
  BY <1>1 DEF IInv, BootInv, Hash, Hashes
<1>3. /\ b \notin DOMAIN accounts
      /\ Fold(EmailOf[b]) \notin DOMAIN EmailIndex(DOMAIN accounts)
      /\ EmailIndex(DOMAIN accounts)' =
            Put(EmailIndex(DOMAIN accounts), Fold(EmailOf[b]), b)
  BY <1>1, AccountAdded
<1>4. /\ b \notin DOMAIN tenants /\ s \notin DOMAIN SlugIndex(tenants)
      /\ SlugIndex(tenants)' = Put(SlugIndex(tenants), s, b)
  <2>1. SlugsDiffer(tenants)
    BY DEF IInv, UniqueInv, SlugsDiffer
  <2>2. b \notin DOMAIN tenants /\ \A x \in DOMAIN tenants : tenants[x].slug # s
    BY <1>1 DEF NewTenant, FreeSlug
  <2>3. Tenant(s).slug = s
    BY DEF Tenant
  <2>4. AddsRow(tenants, tenants', b, s)
    BY <1>1, <2>2, <2>3 DEF AddsRow, Put
  <2>5. SlugIndex(tenants') = Put(SlugIndex(tenants), s, b)
    BY <2>1, <2>4, SlugIndexGrows
  <2>6. DOMAIN SlugIndex(tenants) = {tenants[x].slug : x \in DOMAIN tenants}
    BY <2>1, SlugIndexIs
  <2>7. SlugIndex(tenants)' = SlugIndex(tenants')
    BY DEF SlugIndex
  <2> QED
    BY <2>2, <2>5, <2>6, <2>7
<1>5. Tenant(s) = [slug |-> s, suspended |-> FALSE]
  BY DEF Tenant
<1>6. Memory!Bootstrap(b, s, b, Hash(p))
  BY <1>1, <1>2, <1>3, <1>4, <1>5, SameOperators
     DEF Memory!Bootstrap, Memory!NewTenant, Memory!NewAccount
<1> QED
  BY <1>2, <1>6

\* The indexes stand while their tables do.
LEMMA IndexesStand ==
    ASSUME UNCHANGED << tenants, accounts >>
    PROVE  UNCHANGED << SlugIndex(tenants), EmailIndex(DOMAIN accounts) >>
BY DEF SlugIndex, EmailIndex

\* On sqlite the sessions a change read are the sessions its account has at the
\* commit, so the commit is SetCredential.
LEMMA ChangeRefines ==
    ASSUME IInv, engine = "sqlite", NEW c \in Changes, ChangeCommit(c)
    PROVE  \E a \in AccountIds, h \in Hashes : Memory!SetCredential(a, h)
<1> DEFINE a == changes[c].account
           h == Hash(changes[c].password)
<1>1. /\ Open(c) /\ creds' = Put(creds, a, h)
      /\ sessions' = Drop(sessions, changes[c].doomed)
      /\ UNCHANGED << tenants, accounts, members, claimed >>
  BY DEF ChangeCommit, ChangeFrame
<1>2. changes[c] \in ChangeSet
  BY <1>1, CallKinds DEF IInv, CallType, Open
<1>3. a \in AccountIds /\ h \in Hashes /\ a \in DOMAIN accounts
  BY <1>2 DEF ChangeSet, Hash, Hashes, IInv, RefInv
<1>4. changes[c].doomed = SessionsOf(a)
  BY <1>1 DEF IInv, OneWriterInv
<1>5. UNCHANGED << SlugIndex(tenants), EmailIndex(DOMAIN accounts) >>
  BY <1>1, IndexesStand
<1> HIDE DEF a, h
<1>6. Memory!SetCredential(a, h)
  BY <1>1, <1>3, <1>4, <1>5, SameOperators DEF Memory!SetCredential
<1> QED
  BY <1>3, <1>6

\* A rehash that is not made to wait is RehashCredential; one that waits, or a
\* login on any other statement but its INSERT, changes no row.
LEMMA RehashRefines ==
    ASSUME IInv, NEW l \in Logins, LoginRehash(l)
    PROVE  \/ UNCHANGED store
           \/ \E a \in AccountIds, h \in Hashes : Memory!RehashCredential(a, h)
<1> DEFINE a == logins[l].account
           h == Hash(logins[l].typed)
<1>1. /\ logins[l].at = "issued"
      /\ creds' = IF Changing(a) THEN creds ELSE [creds EXCEPT ![a] = h]
      /\ UNCHANGED << tenants, accounts, members, sessions, claimed >>
  BY DEF LoginRehash, LoginFrame
<1>2. logins[l] \in LoginSet
  BY <1>1, CallKinds DEF IInv, CallType
<1>3. a \in AccountIds /\ h \in Hashes /\ a \in DOMAIN creds
  BY <1>2 DEF LoginSet, Hash, Hashes, IInv, RefInv
<1>4. UNCHANGED << SlugIndex(tenants), EmailIndex(DOMAIN accounts) >>
  BY <1>1, IndexesStand
<1> HIDE DEF a, h
<1>5. CASE Changing(a)
  BY <1>1, <1>5 DEF store
<1>6. CASE ~ Changing(a)
  <2>1. Memory!RehashCredential(a, h)
    BY <1>1, <1>3, <1>4, <1>6 DEF Memory!RehashCredential
  <2> QED
    BY <1>3, <2>1
<1> QED
  BY <1>5, <1>6

\* Issue is CreateSession.
LEMMA IssueRefines ==
    ASSUME IInv, NEW l \in Logins, NEW host \in Hosts, LoginIssue(l, host)
    PROVE  \E a \in AccountIds, e \in Times : Memory!CreateSession(l, a, host, e)
<1> DEFINE a == logins[l].account
           e == now + TTL
<1>1. /\ logins[l].at = "verified"
      /\ sessions' = Put(sessions, l, [account |-> a, host |-> host, expires |-> e])
      /\ UNCHANGED << tenants, accounts, creds, members, claimed >>
  BY DEF LoginIssue, LoginFrame
<1>2. logins[l] \in LoginSet /\ l \notin DOMAIN sessions
  BY <1>1, CallKinds DEF IInv, CallType, TokenInv
<1>3. a \in AccountIds /\ a \in DOMAIN accounts
  BY <1>2 DEF LoginSet, IInv, RefInv
<1>4. e \in Times
  BY DEF IInv, TableType, Times
<1>5. UNCHANGED << SlugIndex(tenants), EmailIndex(DOMAIN accounts) >>
  BY <1>1, IndexesStand
<1> HIDE DEF a, e
<1>6. Memory!CreateSession(l, a, host, e)
  BY <1>1, <1>2, <1>3, <1>5, SameOperators DEF Memory!CreateSession
<1> QED
  BY <1>3, <1>4, <1>6

\* Logout, DeleteAccountSessions and PruneExpired are deletions of rows.
LEMMA DeletesRefine ==
    ASSUME NEW S, S # {}, S \subseteq DOMAIN sessions, sessions' = Drop(sessions, S),
           UNCHANGED << tenants, accounts, creds, members, claimed >>
    PROVE  Memory!DeleteSessions(S)
BY IndexesStand, SameOperators DEF Memory!DeleteSessions

\* Memberships.
LEMMA MembersRefine ==
    ASSUME NEW a, NEW t
    PROVE  /\ RemoveMember(a, t) => Memory!RemoveMember(a, t)
           /\ \A role : AddMember(a, t, role) => Memory!AddMember(a, t, role)
<1>1. ASSUME RemoveMember(a, t) PROVE Memory!RemoveMember(a, t)
  <2>1. /\ << a, t >> \in DOMAIN members /\ members' = Drop(members, {<< a, t >>})
        /\ UNCHANGED << tenants, accounts, creds, sessions, claimed >>
    BY <1>1 DEF RemoveMember, AdminFrame
  <2> QED
    BY <2>1, IndexesStand, SameOperators DEF Memory!RemoveMember
<1>2. ASSUME NEW role, AddMember(a, t, role) PROVE Memory!AddMember(a, t, role)
  <2>1. /\ a \in DOMAIN accounts /\ t \in DOMAIN tenants /\ << a, t >> \notin DOMAIN members
        /\ members' = Put(members, << a, t >>, role)
        /\ UNCHANGED << tenants, accounts, creds, sessions, claimed >>
    BY <1>2 DEF AddMember, AdminFrame
  <2> QED
    BY <2>1, IndexesStand, SameOperators DEF Memory!AddMember
<1> QED
  BY <1>1, <1>2

\* Every step on sqlite is a call of the memory store or leaves the rows alone.
LEMMA StepRefines ==
    ASSUME IInv, engine = "sqlite", [Next]_vars
    PROVE  Memory!Next \/ UNCHANGED store
<1>1. CASE UNCHANGED vars \/ Tick \/ Crash
  BY <1>1 DEF vars, Tick, Crash
<1>2. ASSUME NEW b \in Boots, BootAsk(b) \/ BootClaim(b) \/ BootRollback(b)
      PROVE  UNCHANGED store
  BY <1>2 DEF BootAsk, BootClaim, BootRollback
<1>3. ASSUME NEW b \in Boots, BootCommit(b) PROVE Memory!Next
  <2>1. b \in TenantIds /\ b \in AccountIds
    OBVIOUS
  <2> QED
    BY <1>3, <2>1, BootstrapRefines DEF Memory!Next
<1>4. ASSUME NEW t \in TenantIds, NEW s \in Slugs, CreateTenant(t, s) PROVE Memory!Next
  BY <1>4, TenantsRefine DEF Memory!Next
<1>5. ASSUME NEW t \in TenantIds, NEW s \in Slugs, NEW b \in BOOLEAN, UpdateTenant(t, s, b)
      PROVE  Memory!Next
  BY <1>5, TenantsRefine DEF Memory!Next
<1>6. ASSUME NEW a \in AccountIds, NEW h \in Hashes \cup {None}, NEW b \in BOOLEAN,
             CreateAccount(a, h, b)
      PROVE  Memory!Next
  BY <1>6, AccountsRefine DEF Memory!Next
<1>7. ASSUME NEW a \in AccountIds, NEW t \in TenantIds,
             RemoveMember(a, t) \/ \E role \in Roles : AddMember(a, t, role)
      PROVE  Memory!Next
  BY <1>7, MembersRefine DEF Memory!Next
<1>8. ASSUME NEW a \in AccountIds, DeleteSessions(SessionsOf(a)) PROVE Memory!Next
  <2>1. SessionsOf(a) \subseteq DOMAIN sessions
    BY DEF SessionsOf
  <2>2. Memory!DeleteSessions(SessionsOf(a))
    BY <1>8, <2>1, DeletesRefine DEF DeleteSessions, AdminFrame
  <2> QED
    BY <2>2, SameOperators DEF Memory!Next
<1>9. ASSUME DeleteSessions({d \in DOMAIN sessions : sessions[d].expires <= now})
      PROVE  Memory!Next
  <2>1. Memory!DeleteSessions({d \in DOMAIN sessions : sessions[d].expires <= now})
    BY <1>9, DeletesRefine DEF DeleteSessions, AdminFrame
  <2>2. now \in Times
    BY DEF IInv, TableType, Times
  <2> QED
    BY <2>1, <2>2 DEF Memory!Next
<1>10. ASSUME NEW c \in Changes, ChangeCommit(c) PROVE Memory!Next
  BY <1>10, ChangeRefines DEF Memory!Next
<1>11. ASSUME NEW c \in Changes, NEW a, NEW p, ChangeBegin(c, a, p) PROVE UNCHANGED store
  BY <1>11 DEF ChangeBegin, ChangeFrame, store
<1>12. ASSUME NEW l \in Logins, NEW a, NEW p, LoginVerify(l, a, p) PROVE UNCHANGED store
  BY <1>12 DEF LoginVerify, LoginFrame, store
<1>13. ASSUME NEW l \in Logins, LoginRehash(l) PROVE Memory!Next \/ UNCHANGED store
  BY <1>13, RehashRefines DEF Memory!Next
<1>14. ASSUME NEW l \in Logins, Logout(l) PROVE Memory!Next
  <2>1. Memory!DeleteSessions({l})
    BY <1>14, DeletesRefine DEF Logout, LoginFrame
  <2> QED
    BY <2>1 DEF Memory!Next, Tokens
<1>15. ASSUME NEW l \in Logins, NEW host \in Hosts, LoginIssue(l, host) PROVE Memory!Next
  BY <1>15, IssueRefines DEF Memory!Next, Tokens
<1>16. ASSUME NEW r \in Requests,
              \/ \E d \in Logins, host \in Hosts, t \in TenantIds : Resolve(r, d, host, t)
              \/ Subject(r) \/ \E act \in {"read", "change", "own"} : Decide(r, act)
       PROVE  UNCHANGED store
  BY <1>16 DEF Resolve, Subject, Decide, RequestFrame
<1> QED
  BY <1>1, <1>2, <1>3, <1>4, <1>5, <1>6, <1>7, <1>8, <1>9, <1>10, <1>11, <1>12,
     <1>13, <1>14, <1>15, <1>16 DEF Next

\* On sqlite the SQL store implements the memory store, whatever calls are open
\* at once and wherever the server or a command dies: its constraints refuse
\* what the memory store's indexes refuse, and no call shows half done.
THEOREM RefinesMemory == Spec => ImplementsMemory
<1>1. Init => Memory!Init
  <2> SUFFICES ASSUME Init PROVE Memory!Init
    OBVIOUS
  <2>1. tenants = Empty /\ accounts = Empty /\ DOMAIN Empty = {}
    BY DEF Init, Empty
  <2>2. SlugIndex(tenants) = Empty
    BY <2>1 DEF SlugIndex, Empty
  <2>3. EmailIndex(DOMAIN accounts) = Empty
    BY <2>1 DEF EmailIndex, Empty
  <2> QED
    BY <2>2, <2>3, SameOperators DEF Init, Memory!Init
<1>2. IInv /\ [Next]_vars => [engine = "sqlite" => Memory!Next]_store
  BY StepRefines
<1> QED
  BY <1>1, <1>2, Invariance, PTL DEF Spec, ImplementsMemory
=============================================================================
