-------------------------- MODULE EvidenceRecords --------------------------
(***************************************************************************)
(* The evidence record, its event log and its two hash chains, as the      *)
(* package evidence defines them (evidence.go, chain.go).  Definitions     *)
(* only: EvidenceStore gives them a store, DeployPipeline a deployment.    *)
(*                                                                         *)
(* A digest is modelled as the sequence of payloads it commits to.  That   *)
(* is what an injective hash gives: two digests are equal exactly when     *)
(* everything hashed into them is.  The nil digest is the empty sequence.  *)
(***************************************************************************)
EXTENDS Naturals, Sequences

\* The states the code writes.  "superseded" is declared in evidence.go and
\* written by nothing.
States == {"pending", "syncing", "applied", "running",
           "rejected", "failed", "unknown"}

\* The zero AdmissionOutcome reads Allowed:false with no reason ("none").
Admissions == {"none", "allowed", "refused"}

\* A record ID is the string tenant-app-env-seq.  A name is a sequence of the
\* parts between its dashes, so that joining names with dashes is
\* concatenation; a sequence number holds no dash.
IdOf(ref, seq) == [path |-> ref.tenant \o ref.app \o ref.env, seq |-> seq]

Nil == << >>

\* sha256(prev || json(payload))
Link(prev, payload) == Append(prev, payload)

\* mutant: the record is hashed as it stands, state and all
ChainedRecordWhole(r) ==
    [key |-> r.key, id |-> r.id, seq |-> r.seq, ref |-> r.ref,
     image |-> r.image, admission |-> r.admission, state |-> r.state,
     initialState |-> r.initialState, createdAt |-> r.createdAt]

\* What chainedRecord names: Image and Admission are in it, State, UpdatedAt
\* and Transitions are not.
ChainedRecord(r) ==
    [key |-> r.key, id |-> r.id, seq |-> r.seq, ref |-> r.ref,
     image |-> r.image, admission |-> r.admission,
     initialState |-> r.initialState, createdAt |-> r.createdAt]

ChainRecord(prev, r) == Link(prev, ChainedRecord(r))

\* The event's own hash fields are cleared before it is hashed.
ChainEvent(prev, id, e) ==
    Link(prev, [recordId |-> id, from |-> e.from, to |-> e.to])

\* A row as Append writes it: version 0, nothing transitioned yet.
NewRecord(key, ref, seq, image, prev, at) ==
    LET r == [key |-> key, ref |-> ref, seq |-> seq, id |-> IdOf(ref, seq),
              image |-> image, admission |-> "none",
              state |-> "pending", initialState |-> "pending",
              createdAt |-> at, transitions |-> << >>,
              prevHash |-> prev, hash |-> Nil]
    IN  [r EXCEPT !.hash = ChainRecord(prev, r)]

\* The version of a record: the number of transitions on it.
Version(r) == Len(r.transitions)

\* mutant: every event links to the record
EventHeadRecord(r) == r.hash

\* The digest the next event links to.
EventHead(r) ==
    IF Version(r) = 0 THEN r.hash ELSE r.transitions[Version(r)].hash

\* mutant: the version fence is not compared
AcceptsUnfenced(r, t) == t.from = {} \/ r.state \in t.from

\* A transition request t: from (empty means any), to, expect ({} for a nil
\* ExpectEvents, {n} for version n), and the image and the admission outcome
\* it merges into the record, or "keep".
Accepts(r, t) ==
    /\ t.from = {} \/ r.state \in t.from
    /\ t.expect = {} \/ Version(r) \in t.expect

EventOf(r, t) ==
    LET e == [from |-> r.state, to |-> t.to]
    IN  [from |-> e.from, to |-> e.to, prevHash |-> EventHead(r),
         hash |-> ChainEvent(EventHead(r), r.id, e)]

\* mutant: the UPDATE leaves the state column behind
AppliedStateLost(r, t) == [r EXCEPT !.transitions = Append(@, EventOf(r, t))]

\* The record after an accepted transition: one event more, the state moved,
\* and Image and Admission merged when the transition carries them.
Applied(r, t) ==
    [r EXCEPT !.transitions = Append(@, EventOf(r, t)),
              !.state = t.to,
              !.image = IF t.image = "keep" THEN @ ELSE t.image,
              !.admission = IF t.admission = "keep" THEN @ ELSE t.admission]

---------------------------------------------------------------------------
(* Verify: what a walk over the stored rows of one Ref recomputes.         *)

\* Every link of the record's own sub-chain, which starts at the record.
SubChainHolds(r) ==
    \A i \in 1 .. Version(r) :
        LET prev == IF i = 1 THEN r.hash ELSE r.transitions[i - 1].hash
        IN  r.transitions[i].hash = ChainEvent(prev, r.id, r.transitions[i])

\* The rows in Seq order, the first checked against the nil digest and every
\* other one against the hash stored on the row before it.
VerifyHolds(rows) ==
    \A r \in rows :
        LET older == {q \in rows : q.seq < r.seq}
            prev  == IF older = {} THEN Nil
                     ELSE (CHOOSE q \in older :
                              \A p \in older : p.seq <= q.seq).hash
        IN  r.hash = ChainRecord(prev, r) /\ SubChainHolds(r)

(* The event log of a record is its history: contiguous from the initial   *)
(* state, and the state column is where it ends.                           *)
LogIsHistory(r) ==
    /\ \A i \in 1 .. Version(r) :
          r.transitions[i].from =
             IF i = 1 THEN r.initialState ELSE r.transitions[i - 1].to
    /\ r.state = IF Version(r) = 0 THEN r.initialState
                 ELSE r.transitions[Version(r)].to
=============================================================================
