---- MODULE IdentityMemory ----
(***************************************************************************)
(* What an identity store promises: identity/memory/memory.go, where every *)
(* operation holds one mutex from its first check to its last write.  Only *)
(* the calls that change something are steps; a refused call is a stutter. *)
(* slugs and emails are the two indexes memory.go keeps beside its rows.   *)
(***************************************************************************)
EXTENDS Naturals, Functions
CONSTANTS TenantIds, AccountIds, Slugs, Roles, Hashes, Tokens, Hosts, Times,
          None,
          EmailOf,            \* the address each account id is created with
          Fold(_)             \* an address in lower case, without blanks
VARIABLES tenants, slugs, accounts, emails, creds, members, sessions, bootstrapped

memory == << tenants, slugs, accounts, emails, creds, members, sessions, bootstrapped >>

Empty == [x \in {} |-> x]
Put(f, x, v) == [y \in DOMAIN f \cup {x} |-> IF y = x THEN v ELSE f[y]]
Drop(f, S) == Restrict(f, DOMAIN f \ S)
SessionsOf(a) == {d \in DOMAIN sessions : sessions[d].account = a}

Init ==
    /\ tenants = Empty /\ slugs = Empty /\ accounts = Empty /\ emails = Empty
    /\ creds = Empty /\ members = Empty /\ sessions = Empty
    /\ bootstrapped = FALSE

NewTenant(t, s) == t \notin DOMAIN tenants /\ s \notin DOMAIN slugs
NewAccount(a) == a \notin DOMAIN accounts /\ Fold(EmailOf[a]) \notin DOMAIN emails

CreateTenant(t, s) ==
    /\ NewTenant(t, s)
    /\ tenants' = Put(tenants, t, [slug |-> s, suspended |-> FALSE])
    /\ slugs' = Put(slugs, s, t)
    /\ UNCHANGED << accounts, emails, creds, members, sessions, bootstrapped >>

\* A slug may be kept; one that another tenant holds is refused.
UpdateTenant(t, s, suspended) ==
    /\ t \in DOMAIN tenants
    /\ s \in DOMAIN slugs => slugs[s] = t
    /\ tenants' = [tenants EXCEPT ![t] = [slug |-> s, suspended |-> suspended]]
    /\ slugs' = Put(Drop(slugs, {tenants[t].slug}), s, t)
    /\ UNCHANGED << accounts, emails, creds, members, sessions, bootstrapped >>

\* No hash is a federated account, which has no credential.
CreateAccount(a, hash, disabled) ==
    /\ NewAccount(a)
    /\ accounts' = Put(accounts, a, [disabled |-> disabled])
    /\ emails' = Put(emails, Fold(EmailOf[a]), a)
    /\ creds' = IF hash = None THEN creds ELSE Put(creds, a, hash)
    /\ UNCHANGED << tenants, slugs, members, sessions, bootstrapped >>

\* The password and every session of the account, in one hold of the mutex.
SetCredential(a, hash) ==
    /\ a \in DOMAIN accounts
    /\ creds' = Put(creds, a, hash)
    /\ sessions' = Drop(sessions, SessionsOf(a))
    /\ UNCHANGED << tenants, slugs, accounts, emails, members, bootstrapped >>

RehashCredential(a, hash) ==
    /\ a \in DOMAIN creds
    /\ creds' = [creds EXCEPT ![a] = hash]
    /\ UNCHANGED << tenants, slugs, accounts, emails, members, sessions, bootstrapped >>

AddMember(a, t, role) ==
    /\ a \in DOMAIN accounts /\ t \in DOMAIN tenants
    /\ << a, t >> \notin DOMAIN members
    /\ members' = Put(members, << a, t >>, role)
    /\ UNCHANGED << tenants, slugs, accounts, emails, creds, sessions, bootstrapped >>

RemoveMember(a, t) ==
    /\ << a, t >> \in DOMAIN members
    /\ members' = Drop(members, {<< a, t >>})
    /\ UNCHANGED << tenants, slugs, accounts, emails, creds, sessions, bootstrapped >>

CreateSession(d, a, host, expires) ==
    /\ a \in DOMAIN accounts /\ d \notin DOMAIN sessions
    /\ sessions' = Put(sessions, d, [account |-> a, host |-> host, expires |-> expires])
    /\ UNCHANGED << tenants, slugs, accounts, emails, creds, members, bootstrapped >>

\* DeleteSession, DeleteAccountSessions and PruneExpired.
DeleteSessions(S) ==
    /\ S # {} /\ S \subseteq DOMAIN sessions
    /\ sessions' = Drop(sessions, S)
    /\ UNCHANGED << tenants, slugs, accounts, emails, creds, members, bootstrapped >>

\* Everything is checked before anything is written.
Bootstrap(t, s, a, hash) ==
    /\ ~bootstrapped /\ NewTenant(t, s) /\ NewAccount(a)
    /\ tenants' = Put(tenants, t, [slug |-> s, suspended |-> FALSE])
    /\ slugs' = Put(slugs, s, t)
    /\ accounts' = Put(accounts, a, [disabled |-> FALSE])
    /\ emails' = Put(emails, Fold(EmailOf[a]), a)
    /\ creds' = Put(creds, a, hash)
    /\ members' = Put(members, << a, t >>, "owner")
    /\ bootstrapped' = TRUE
    /\ UNCHANGED sessions

Next ==
    \/ \E t \in TenantIds, s \in Slugs :
          \/ CreateTenant(t, s)
          \/ \E b \in BOOLEAN : UpdateTenant(t, s, b)
          \/ \E a \in AccountIds, h \in Hashes : Bootstrap(t, s, a, h)
    \/ \E a \in AccountIds :
          \/ \E h \in Hashes \cup {None}, b \in BOOLEAN : CreateAccount(a, h, b)
          \/ \E h \in Hashes : SetCredential(a, h) \/ RehashCredential(a, h)
          \/ \E t \in TenantIds : RemoveMember(a, t) \/ \E r \in Roles : AddMember(a, t, r)
          \/ \E d \in Tokens, host \in Hosts, e \in Times : CreateSession(d, a, host, e)
          \/ DeleteSessions(SessionsOf(a))
    \/ \E d \in Tokens : DeleteSessions({d})
    \/ \E n \in Times : DeleteSessions({d \in DOMAIN sessions : sessions[d].expires <= n})
====
