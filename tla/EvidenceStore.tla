--------------------------- MODULE EvidenceStore ---------------------------
(***************************************************************************)
(* The SQL evidence store (evidence/internal/sqlstore/store.go) at the     *)
(* granularity of its statements, with the two engines it runs on.         *)
(*                                                                         *)
(*   sqlite    one writer connection and BEGIN IMMEDIATE: a transaction    *)
(*             excludes every other one from its first statement on;       *)
(*   postgres  READ COMMITTED: statements of different transactions        *)
(*             interleave, SELECT ... FOR UPDATE locks one row, and the    *)
(*             unique constraints decide at INSERT.                        *)
(*                                                                         *)
(* Reads go through the reader pool, one statement at a time and outside   *)
(* any transaction, on both engines.  An INSERT is one step with its       *)
(* commit: on postgres a second INSERT of the same unique value waits for  *)
(* the first transaction and then fails or succeeds on its outcome.        *)
(***************************************************************************)
EXTENDS EvidenceRecords, Integers, FiniteSets

CONSTANTS
    Clients,    \* callers of the store: requests, observers, sweeps
    Keys,       \* idempotency keys
    Refs,       \* records [tenant, app, env], names as sequences of parts
    Images,     \* image references
    Moves,      \* the transitions callers ask for: [from, to, image, admission]
    Fenced,     \* TRUE when callers set ExpectEvents
    Engine,     \* "sqlite" or "postgres"
    Window,     \* the retention window; 0 is unbounded
    MaxVersion, \* bound: transitions attempted on a record
    MaxNow,     \* bound: the clock
    None        \* no record

Paths == {ref.tenant \o ref.app \o ref.env : ref \in Refs}
IdSet == [path : Paths, seq : Nat]
Payload == [key : Keys, id : IdSet, seq : Nat, ref : Refs, image : Images,
            admission : Admissions, initialState : States, createdAt : Nat]
    \union [recordId : IdSet, from : States, to : States]
Digest == Seq(Payload)
EventSet == [from : States, to : States, prevHash : Digest, hash : Digest]
RecordSet == [key : Keys, ref : Refs, seq : Nat, id : IdSet, image : Images,
              admission : Admissions, state : States, initialState : States,
              createdAt : Nat, transitions : Seq(EventSet),
              prevHash : Digest, hash : Digest]
MoveSet == [from : SUBSET States, to : States, image : Images \union {"keep"},
            admission : Admissions \union {"keep"}]

ASSUME StoreAssumption ==
    /\ Engine \in {"sqlite", "postgres"}
    /\ Fenced \in BOOLEAN
    /\ Window \in Nat /\ MaxVersion \in Nat /\ MaxNow \in Nat
    /\ Moves \subseteq MoveSet /\ "keep" \notin Images
    /\ None \notin RecordSet

VARIABLES
    records,    \* the record table with its event rows: ID -> record
    pc,         \* the statement each client is about to run
    tx,         \* what its open call has read so far
    view,       \* the last record the store returned to it, or None
    now         \* the clock

vars == << records, pc, tx, view, now >>

Ids == DOMAIN records
Rows(ref) == {records[i] : i \in {j \in Ids : records[j].ref = ref}}
InState(ref, s) == {r \in Rows(ref) : r.state = s}
Newest(rows) == CHOOSE r \in rows : \A q \in rows : q.seq <= r.seq

\* Statements of a client that hold a transaction open on the writer pool.
InTx(c) == pc[c] \in {"lookup", "head", "insert", "write"}

\* mutant: transactions begin deferred, without _txlock=immediate
MayBeginDeferred == TRUE

\* BeginTx: sqlite's single writer connection admits one transaction.
MayBegin == Engine = "postgres" \/ \A c \in Clients : ~ InTx(c)

\* mutant: LockRow is empty on postgres too
LockedNever(id) == FALSE

\* The row lock of SELECT ... FOR UPDATE, held from the load to the commit.
\* LockRow is empty on sqlite.
Locked(id) ==
    /\ Engine = "postgres"
    /\ \E c \in Clients : pc[c] = "write" /\ tx[c].rec.id = id

\* The call ends.  One that ends in an error leaves the caller with the record
\* it had; ErrConflict and ErrDuplicate come with the stored record.
Return(c) ==
    /\ pc' = [pc EXCEPT ![c] = "idle"]
    /\ tx' = [tx EXCEPT ![c] = None]

Goto(c, where, what) ==
    /\ pc' = [pc EXCEPT ![c] = where]
    /\ tx' = [tx EXCEPT ![c] = what]

Init ==
    /\ records = << >>
    /\ pc = [c \in Clients |-> "idle"]
    /\ tx = [c \in Clients |-> None]
    /\ view = [c \in Clients |-> None]
    /\ now = 1

---------------------------------------------------------------------------
(* Append.  Without an IdempotencyKey it is refused before any statement,  *)
(* as a transition without its time is: neither changes anything.          *)

AppendBegin(c, key, ref, image) ==
    /\ pc[c] = "idle" /\ MayBegin
    /\ Goto(c, "lookup", [key |-> key, ref |-> ref, image |-> image])
    /\ UNCHANGED << records, view, now >>

\* SELECT id WHERE idempotency_key = ?; a hit commits and reads the row back.
AppendLookup(c) ==
    /\ pc[c] = "lookup"
    /\ LET hits == {i \in Ids : records[i].key = tx[c].key}
       IN  IF hits = {} THEN Goto(c, "head", tx[c])
           ELSE Goto(c, "row", [id |-> CHOOSE i \in hits : TRUE])
    /\ UNCHANGED << records, view, now >>

\* mutant: sequence numbers start at 0
AppendHeadFromZero(c) ==
    /\ pc[c] = "head"
    /\ LET rows == Rows(tx[c].ref)
           prev == IF rows = {} THEN Nil ELSE Newest(rows).hash
       IN  Goto(c, "insert",
                [rec |-> NewRecord(tx[c].key, tx[c].ref, Cardinality(rows),
                                   tx[c].image, prev, now)])
    /\ UNCHANGED << records, view, now >>

\* mutant: COUNT(*) + 1 in place of the greatest seq + 1
AppendHeadCount(c) ==
    /\ pc[c] = "head"
    /\ LET rows == Rows(tx[c].ref)
           prev == IF rows = {} THEN Nil ELSE Newest(rows).hash
       IN  Goto(c, "insert",
                [rec |-> NewRecord(tx[c].key, tx[c].ref, Cardinality(rows) + 1,
                                   tx[c].image, prev, now)])
    /\ UNCHANGED << records, view, now >>

\* SELECT seq, hash ... ORDER BY seq DESC LIMIT 1, over the live rows.
AppendHead(c) ==
    /\ pc[c] = "head"
    /\ LET rows == Rows(tx[c].ref)
           seq  == IF rows = {} THEN 1 ELSE Newest(rows).seq + 1
           prev == IF rows = {} THEN Nil ELSE Newest(rows).hash
       IN  Goto(c, "insert",
                [rec |-> NewRecord(tx[c].key, tx[c].ref, seq,
                                   tx[c].image, prev, now)])
    /\ UNCHANGED << records, view, now >>

\* mutant: the idempotency_key column is not UNIQUE
InsertableAnyKey(rec) == rec.id \notin Ids

\* mutant: INSERT OR REPLACE, which only the key refuses
InsertableReplace(rec) == \A i \in Ids : records[i].key # rec.key

\* PRIMARY KEY (id), UNIQUE (idempotency_key), UNIQUE (tenant, app, env, seq)
Insertable(rec) ==
    /\ rec.id \notin Ids
    /\ \A i \in Ids : /\ records[i].key # rec.key
                      /\ <<records[i].ref, records[i].seq>> # <<rec.ref, rec.seq>>

\* INSERT and COMMIT, or the driver's constraint error.  The caller may lose
\* the answer to a commit that took place.
AppendInsert(c) ==
    /\ pc[c] = "insert"
    /\ LET rec == tx[c].rec
       IN  \/ /\ Insertable(rec)
              /\ records' = [i \in Ids \union {rec.id} |->
                               IF i = rec.id THEN rec ELSE records[i]]
              /\ \/ Return(c) /\ view' = [view EXCEPT ![c] = rec]
                 \/ Return(c) /\ UNCHANGED view
           \/ /\ ~ Insertable(rec)
              /\ Return(c)
              /\ UNCHANGED << records, view >>
    /\ UNCHANGED now

\* A cancelled context: database/sql rolls the transaction back.
Cancel(c) ==
    /\ InTx(c)
    /\ Return(c)
    /\ UNCHANGED << records, view, now >>

---------------------------------------------------------------------------
(* Get: the row and its events are two statements.                         *)

Get(c, id) ==
    /\ pc[c] = "idle"
    /\ Goto(c, "row", [id |-> id])
    /\ UNCHANGED << records, view, now >>

GetRow(c) ==
    /\ pc[c] = "row"
    /\ IF tx[c].id \in Ids
       THEN Goto(c, "events", [row |-> records[tx[c].id]])
       ELSE Return(c)
    /\ UNCHANGED << records, view, now >>

\* The events of a row deleted meanwhile are none (ON DELETE CASCADE).
GetEvents(c) ==
    /\ pc[c] = "events"
    /\ LET row == tx[c].row
           evs == IF row.id \in Ids THEN records[row.id].transitions ELSE << >>
       IN  view' = [view EXCEPT ![c] = [row EXCEPT !.transitions = evs]]
    /\ Return(c)
    /\ UNCHANGED << records, now >>

---------------------------------------------------------------------------
(* Current: newest running, else newest applied, else ErrNotFound.         *)

CurrentRunning(c, ref) ==
    /\ pc[c] = "idle"
    /\ IF InState(ref, "running") # {}
       THEN Goto(c, "row", [id |-> Newest(InState(ref, "running")).id])
       ELSE Goto(c, "applied", [ref |-> ref])
    /\ UNCHANGED << records, view, now >>

CurrentApplied(c) ==
    /\ pc[c] = "applied"
    /\ LET rows == InState(tx[c].ref, "applied")
       IN  IF rows # {}
           THEN Goto(c, "row", [id |-> Newest(rows).id])
           ELSE Return(c)
    /\ UNCHANGED << records, view, now >>

---------------------------------------------------------------------------
(* Transition                                                              *)

Request(c, m) ==
    [from |-> m.from, to |-> m.to, image |-> m.image, admission |-> m.admission,
     expect |-> IF Fenced THEN {Version(view[c])} ELSE {}]

\* Lock the row, load it, and compare: the state against From, the version
\* against ExpectEvents.  The comparison sees the row the lock protects.
TransitionLock(c, m) ==
    /\ pc[c] = "idle" /\ view[c] # None /\ MayBegin
    /\ LET id == view[c].id
           t  == Request(c, m)
       IN  \/ /\ id \notin Ids
              /\ Return(c)
              /\ UNCHANGED view
           \/ /\ id \in Ids /\ ~ Locked(id)
              /\ Accepts(records[id], t) /\ Version(records[id]) < MaxVersion
              /\ Goto(c, "write", [rec |-> records[id], t |-> t])
              /\ UNCHANGED view
           \/ /\ id \in Ids /\ ~ Locked(id)
              /\ ~ Accepts(records[id], t)
              /\ Return(c)
              /\ view' = [view EXCEPT ![c] = records[id]]
    /\ UNCHANGED << records, now >>

\* INSERT the event at version + 1 (PRIMARY KEY (record_id, seq)), UPDATE the
\* row from what was loaded, COMMIT.
TransitionWrite(c) ==
    /\ pc[c] = "write"
    /\ LET rec == tx[c].rec
           new == Applied(rec, tx[c].t)
       IN  IF Version(records[rec.id]) = Version(rec)
           THEN /\ records' = [records EXCEPT ![rec.id] = new]
                /\ view' = [view EXCEPT ![c] = new]
           ELSE UNCHANGED << records, view >>
    /\ Return(c)
    /\ UNCHANGED now

---------------------------------------------------------------------------
(* Prune: the records to keep are read ref by ref through the reader pool, *)
(* then one transaction deletes the old rows that are not among them.      *)

PruneStart(c) ==
    /\ pc[c] = "idle"
    /\ IF Window = 0 THEN Return(c)
       ELSE Goto(c, "keep", [cutoff |-> now - Window, kept |-> {},
                             todo |-> {records[i].ref : i \in Ids}])
    /\ UNCHANGED << records, view, now >>

\* Current(ref), first statement.
PruneKeepRunning(c, ref) ==
    /\ pc[c] = "keep" /\ ref \in tx[c].todo
    /\ LET rows == InState(ref, "running")
       IN  IF rows = {}
           THEN Goto(c, "keepApplied", [cutoff |-> tx[c].cutoff, ref |-> ref,
                                        todo |-> tx[c].todo, kept |-> tx[c].kept])
           ELSE Goto(c, "keep", [tx[c] EXCEPT !.todo = @ \ {ref},
                                   !.kept = @ \union {Newest(rows).id}])
    /\ UNCHANGED << records, view, now >>

\* Current(ref), second statement; ErrNotFound keeps nothing.
PruneKeepApplied(c) ==
    /\ pc[c] = "keepApplied"
    /\ LET rows == InState(tx[c].ref, "applied")
           kept == IF rows = {} THEN {} ELSE {Newest(rows).id}
       IN  Goto(c, "keep", [cutoff |-> tx[c].cutoff,
                            todo |-> tx[c].todo \ {tx[c].ref},
                            kept |-> tx[c].kept \union kept])
    /\ UNCHANGED << records, view, now >>

Expired(c) == {i \in Ids : records[i].createdAt < tx[c].cutoff} \ tx[c].kept

\* The DELETEs wait for the row locks on what they delete.
PruneDelete(c) ==
    /\ pc[c] = "keep" /\ tx[c].todo = {} /\ MayBegin
    /\ \A i \in Expired(c) : ~ Locked(i)
    /\ records' = [i \in Ids \ Expired(c) |-> records[i]]
    /\ Return(c)
    /\ UNCHANGED << view, now >>

---------------------------------------------------------------------------
Tick == now < MaxNow /\ now' = now + 1 /\ UNCHANGED << records, pc, tx, view >>

Step(c) ==
    \/ \E k \in Keys, ref \in Refs, im \in Images : AppendBegin(c, k, ref, im)
    \/ AppendLookup(c) \/ AppendHead(c) \/ AppendInsert(c) \/ Cancel(c)
    \/ \E id \in Ids : Get(c, id)
    \/ GetRow(c) \/ GetEvents(c)
    \/ \E ref \in Refs : CurrentRunning(c, ref)
    \/ CurrentApplied(c)
    \/ \E m \in Moves : TransitionLock(c, m)
    \/ TransitionWrite(c)
    \/ PruneStart(c)
    \/ \E ref \in Refs : PruneKeepRunning(c, ref)
    \/ PruneKeepApplied(c) \/ PruneDelete(c)

Next == Tick \/ \E c \in Clients : Step(c)

Spec == Init /\ [][Next]_vars

---------------------------------------------------------------------------
(* Properties                                                              *)

\* A row as it is inserted: numbered, and nothing has happened to it yet.
Fresh(r) ==
    /\ r.seq > 0 /\ r.id = IdOf(r.ref, r.seq)
    /\ r.transitions = << >> /\ r.state = r.initialState

\* The statements a client can be at.
Statements == {"idle", "lookup", "head", "insert", "row", "events", "applied",
               "write", "keep", "keepApplied"}

\* A transition request.
RequestSet == [from : SUBSET States, to : States, image : Images \union {"keep"},
               admission : Admissions \union {"keep"}, expect : SUBSET Nat]

\* What a call has read so far, by the statement it is at.
Fits(at, what) ==
    /\ at \in {"lookup", "head"} => what \in [key : Keys, ref : Refs, image : Images]
    /\ at = "insert" => what \in [rec : RecordSet] /\ Fresh(what.rec)
    /\ at = "row" => what \in [id : IdSet]
    /\ at = "events" => what \in [row : RecordSet]
    /\ at = "applied" => what \in [ref : Refs]
    /\ at = "write" => what \in [rec : RecordSet, t : RequestSet]
    /\ at = "keep" =>
          what \in [cutoff : Int, kept : SUBSET IdSet, todo : SUBSET Refs]
    /\ at = "keepApplied" =>
          what \in [cutoff : Int, kept : SUBSET IdSet, todo : SUBSET Refs, ref : Refs]

\* The type of the state: every row is whole and filed under its own ID, and
\* every open call is at a statement of the code with what that needs.
TypeOK ==
    /\ Ids \subseteq IdSet /\ records \in [Ids -> RecordSet]
    /\ \A i \in Ids : records[i].id = i
    /\ pc \in [Clients -> Statements]
    /\ DOMAIN tx = Clients
    /\ \A c \in Clients : Fits(pc[c], tx[c])
    /\ view \in [Clients -> RecordSet \union {None}]
    /\ now \in Nat

\* "State is the current state - a projection of Transitions": whatever the
\* interleaving of transitions, appends and prunes, the events of every row
\* are contiguous from its initial state and its state column is where they
\* end.  On postgres this rests on the row lock of Transition.
EventLogIsHistory == \A i \in Ids : LogIsHistory(records[i])

\* Every event links to the one before it, and the first to its record, so
\* Verify accepts the sub-chain of every row at every moment.
SubChainsHold == \A i \in Ids : SubChainHolds(records[i])

\* Two appends with one idempotency key leave one row, however they
\* interleave, are cancelled or lose their answer.
OneRowPerKey ==
    \A i, j \in Ids : records[i].key = records[j].key => i = j

\* "per-Ref, monotonic, gapless": the sequence numbers of a Ref are 1 .. n, no
\* number burned by a cancelled or refused append.
SeqIsGapless ==
    \A ref \in Refs : {r.seq : r \in Rows(ref)} = 1 .. Cardinality(Rows(ref))

\* Verify over the whole Ref reports no break.
ChainVerifies == \A ref \in Refs : VerifyHolds(Rows(ref))

\* What the store has returned to a caller is still there: no acknowledged row
\* is lost and its log only grows.
ReturnedRowsPersist ==
    \A c \in Clients : view[c] # None =>
        /\ view[c].id \in Ids
        /\ LET log == records[view[c].id].transitions
           IN  /\ Version(view[c]) <= Len(log)
               /\ SubSeq(log, 1, Version(view[c])) = view[c].transitions

\* "per-Ref, monotonic, gapless", and nothing acknowledged goes missing: a cancelled
\* or refused append burns no number, and what a caller was given is in the table.
ArchiveIsWhole == SeqIsGapless /\ ReturnedRowsPersist

Wrote(c) == pc[c] = "write" /\ view'[c] # view[c]

\* A fenced transition extends exactly the event log its caller had read.
FencedWriteExtendsWhatWasRead ==
    [][\A c \in Clients : Wrote(c) /\ Fenced =>
          records[tx[c].rec.id].transitions = view[c].transitions]_vars

\* The row lock: what Transition compared is what its write replaces, so a
\* transition that loses a race is told so by ErrConflict and never by the
\* PRIMARY KEY of record_event, and no update is lost.
LockedRowIsFresh ==
    \A c \in Clients : pc[c] = "write" =>
        tx[c].rec.id \in Ids /\ records[tx[c].rec.id] = tx[c].rec

\* "On a repeated IdempotencyKey it returns the stored record together with
\* ErrDuplicate": an append that reaches its INSERT is not a repeated one, so
\* a retry is never answered by the UNIQUE constraint.
DuplicateIsAnswered ==
    \A c \in Clients : pc[c] = "insert" =>
        \A i \in Ids : records[i].key # tx[c].rec.key

\* An append that reaches its INSERT is not refused by any constraint: the
\* number and the ID it computed are free.
AppendIsNeverRefused ==
    \A c \in Clients : pc[c] = "insert" => Insertable(tx[c].rec)

\* The record Current is specified to return: newest running, else newest
\* applied.
CurrentIds(ref) ==
    LET rows == IF InState(ref, "running") # {} THEN InState(ref, "running")
                ELSE InState(ref, "applied")
    IN  IF rows = {} THEN {} ELSE {Newest(rows).id}

\* "It never removes a Ref's current record."
PruneKeepsCurrent ==
    [][\A ref \in Refs : CurrentIds(ref) \subseteq Ids']_vars
=============================================================================
