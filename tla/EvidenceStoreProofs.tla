------------------------ MODULE EvidenceStoreProofs ------------------------
(***************************************************************************)
(* Theorems about EvidenceStore, for every set of callers, keys, Refs and  *)
(* moves, either engine and any retention window.                          *)
(***************************************************************************)
EXTENDS EvidenceStore, NaturalsInduction, WellFoundedInduction, SequenceTheorems,
        FunctionTheorems, FiniteSetTheorems, TLAPS

USE StoreAssumption DEF Ids

---------------------------------------------------------------------------
(* Lemmas about the operators of EvidenceRecords.                          *)

\* A bounded, nonempty set of naturals has a greatest element, so that Newest
\* picks a row.
LEMMA BoundedHasMax ==
    ASSUME NEW S \in SUBSET Nat, S # {},
           NEW b \in Nat, \A s \in S : s <= b
    PROVE  \E m \in S : \A s \in S : s <= m
<1> DEFINE B == {n \in Nat : \A s \in S : s <= n}
           R == OpToRel(<, Nat)
<1>1. B \subseteq Nat /\ B # {}
  OBVIOUS
<1>2. PICK m \in B : \A y \in B : <<y, m>> \notin R
  <2> HIDE DEF B
  <2> QED
    BY <1>1, NatLessThanWellFounded, WFMin
<1>3. m \in Nat /\ \A s \in S : s <= m
  OBVIOUS
<1>4. ASSUME m \notin S PROVE FALSE
  <2>1. PICK x \in S : TRUE
    OBVIOUS
  <2>2. m - 1 \in Nat /\ m - 1 < m
    BY <1>3, <1>4, <2>1
  <2>3. \A s \in S : s <= m - 1
    BY <1>3, <1>4, <2>2
  <2>4. m - 1 \in B
    BY <2>2, <2>3
  <2>5. <<m - 1, m>> \in R
    BY <1>3, <2>2 DEF OpToRel
  <2> QED
    BY <1>2, <2>4, <2>5
<1> QED
  BY <1>3, <1>4

\* What Append writes is a whole, fresh row.
LEMMA NewRecordType ==
    ASSUME NEW key \in Keys, NEW ref \in Refs, NEW seq \in Nat \ {0},
           NEW image \in Images, NEW prev \in Digest, NEW at \in Nat
    PROVE  /\ NewRecord(key, ref, seq, image, prev, at) \in RecordSet
           /\ Fresh(NewRecord(key, ref, seq, image, prev, at))
           /\ NewRecord(key, ref, seq, image, prev, at).key = key
<1> DEFINE p == [key |-> key, id |-> IdOf(ref, seq), seq |-> seq, ref |-> ref,
                 image |-> image, admission |-> "none",
                 initialState |-> "pending", createdAt |-> at]
           n == NewRecord(key, ref, seq, image, prev, at)
<1>1. IdOf(ref, seq) \in IdSet
  BY DEF IdOf, IdSet, Paths
<1>2. p \in Payload
  BY <1>1 DEF Payload, Admissions, States
<1>3. Append(prev, p) \in Digest
  BY <1>2 DEF Digest
<1>4. << >> \in Digest /\ << >> \in Seq(EventSet)
  BY DEF Digest
<1>5. n = [key |-> key, ref |-> ref, seq |-> seq, id |-> IdOf(ref, seq),
           image |-> image, admission |-> "none",
           state |-> "pending", initialState |-> "pending",
           createdAt |-> at, transitions |-> << >>,
           prevHash |-> prev, hash |-> Append(prev, p)]
  <2> DEFINE r == [key |-> key, ref |-> ref, seq |-> seq, id |-> IdOf(ref, seq),
                   image |-> image, admission |-> "none",
                   state |-> "pending", initialState |-> "pending",
                   createdAt |-> at, transitions |-> << >>,
                   prevHash |-> prev, hash |-> Nil]
  <2>1. ChainRecord(prev, r) = Append(prev, p)
    BY DEF ChainRecord, ChainedRecord, Link
  <2>2. n = [r EXCEPT !.hash = ChainRecord(prev, r)]
    BY DEF NewRecord
  <2> QED
    BY <2>1, <2>2
<1>6. n \in RecordSet
  BY <1>1, <1>3, <1>4, <1>5 DEF RecordSet, Admissions, States
<1>7. Fresh(n) /\ n.key = key
  BY <1>5 DEF Fresh
<1> QED
  BY <1>6, <1>7

\* An accepted transition leaves a whole row with the same identity.
LEMMA AppliedType ==
    ASSUME NEW r \in RecordSet, NEW t \in RequestSet
    PROVE  /\ EventOf(r, t) \in EventSet
           /\ EventOf(r, t).from = r.state /\ EventOf(r, t).to = t.to
           /\ Applied(r, t) \in RecordSet
           /\ Applied(r, t).transitions = Append(r.transitions, EventOf(r, t))
           /\ Applied(r, t).state = t.to
           /\ \A f \in {"id", "key", "ref", "seq", "initialState", "hash"} :
                 Applied(r, t)[f] = r[f]
<1> DEFINE p == [recordId |-> r.id, from |-> r.state, to |-> t.to]
<1>1. r.hash \in Digest /\ r.transitions \in Seq(EventSet)
  BY DEF RecordSet
<1>2. EventHead(r) \in Digest
  <2>1. CASE Version(r) = 0
    BY <1>1, <2>1 DEF EventHead
  <2>2. CASE Version(r) # 0
    <3>1. Version(r) \in 1 .. Len(r.transitions)
      BY <1>1, <2>2 DEF Version
    <3>2. r.transitions[Version(r)] \in EventSet
      BY <1>1, <3>1, ElementOfSeq
    <3> QED
      BY <2>2, <3>2 DEF EventHead, EventSet
  <2> QED
    BY <2>1, <2>2
<1>3. p \in Payload
  BY DEF RecordSet, RequestSet, Payload
<1>4. Append(EventHead(r), p) \in Digest
  BY <1>2, <1>3 DEF Digest
<1>5. EventOf(r, t) = [from |-> r.state, to |-> t.to, prevHash |-> EventHead(r),
                       hash |-> Append(EventHead(r), p)]
  BY DEF EventOf, ChainEvent, Link
<1>6. EventOf(r, t) \in EventSet
  BY <1>2, <1>4, <1>5 DEF EventSet, RecordSet, RequestSet
<1>7. Append(r.transitions, EventOf(r, t)) \in Seq(EventSet)
  BY <1>1, <1>6
<1>8. /\ Applied(r, t).transitions = Append(r.transitions, EventOf(r, t))
      /\ Applied(r, t).state = t.to
      /\ \A f \in {"id", "key", "ref", "seq", "initialState", "hash"} :
            Applied(r, t)[f] = r[f]
  BY DEF Applied, RecordSet
<1>9. Applied(r, t) \in RecordSet
  BY <1>7 DEF Applied, RecordSet, RequestSet
<1> QED
  BY <1>5, <1>6, <1>8, <1>9

\* Appending the transition's event keeps the log a history.
LEMMA AppliedIsHistory ==
    ASSUME NEW r \in RecordSet, NEW t \in RequestSet, LogIsHistory(r)
    PROVE  LogIsHistory(Applied(r, t))
<1> DEFINE a == Applied(r, t)
           e == EventOf(r, t)
           n == Len(r.transitions)
<1>1. /\ a.transitions = Append(r.transitions, e) /\ a.state = t.to
      /\ a.initialState = r.initialState
      /\ e.from = r.state /\ e.to = t.to
  BY AppliedType
<1>2. r.transitions \in Seq(EventSet) /\ n \in Nat
  BY DEF RecordSet
<1>3. e \in EventSet
  BY AppliedType
<1> HIDE DEF a, e
<1>4. /\ Len(a.transitions) = n + 1
      /\ a.transitions[n + 1] = e
      /\ \A i \in 1 .. n : a.transitions[i] = r.transitions[i]
  BY <1>1, <1>2, <1>3
<1>5. \A i \in 1 .. n + 1 : a.transitions[i].from =
        IF i = 1 THEN a.initialState ELSE a.transitions[i - 1].to
  <2> TAKE i \in 1 .. n + 1
  <2>1. CASE i \in 1 .. n
    <3>1. r.transitions[i].from =
            IF i = 1 THEN r.initialState ELSE r.transitions[i - 1].to
      BY <2>1 DEF LogIsHistory, Version
    <3>2. i # 1 => i - 1 \in 1 .. n
      BY <1>2, <2>1
    <3> QED
      BY <1>1, <1>4, <2>1, <3>1, <3>2
  <2>2. CASE i = n + 1
    <3>1. r.state = IF n = 0 THEN r.initialState ELSE r.transitions[n].to
      BY DEF LogIsHistory, Version
    <3> QED
      BY <1>1, <1>2, <1>4, <2>2, <3>1
  <2> QED
    BY <1>2, <2>1, <2>2
<1>6. a.state = a.transitions[n + 1].to
  BY <1>1, <1>4
<1> QED
  BY <1>2, <1>4, <1>5, <1>6 DEF LogIsHistory, Version, a

---------------------------------------------------------------------------
(* Type correctness.  The sequence numbers are bounded in every state, which *)
(* is what gives "ORDER BY seq DESC LIMIT 1" a row to return.                *)

SeqsBounded == \E b \in Nat : \A i \in Ids : records[i].seq <= b

TypeInv == TypeOK /\ SeqsBounded

\* Newest returns one of the rows it is given.
LEMMA NewestIsARow ==
    ASSUME TypeInv, NEW rows, rows # {}, rows \subseteq {records[i] : i \in Ids}
    PROVE  Newest(rows) \in rows /\ \A q \in rows : q.seq <= Newest(rows).seq
<1> DEFINE S == {r.seq : r \in rows}
<1>1. PICK b \in Nat : \A i \in Ids : records[i].seq <= b
  BY DEF TypeInv, SeqsBounded
<1>2. S \in SUBSET Nat
  BY DEF TypeInv, TypeOK, RecordSet
<1>3. S # {} /\ \A s \in S : s <= b
  BY <1>1
<1>4. PICK m \in S : \A s \in S : s <= m
  <2> HIDE DEF S
  <2> QED
    BY <1>2, <1>3, BoundedHasMax
<1>5. \E r \in rows : \A q \in rows : q.seq <= r.seq
  BY <1>4
<1> QED
  BY <1>5 DEF Newest

\* The frame of a statement: one client moves on, the others stay.
LEMMA GotoFrame ==
    ASSUME TypeOK, NEW c \in Clients, NEW at \in Statements, NEW what,
           Fits(at, what), Goto(c, at, what)
    PROVE  /\ pc' \in [Clients -> Statements]
           /\ DOMAIN tx' = Clients
           /\ \A d \in Clients : Fits(pc'[d], tx'[d])
           /\ pc'[c] = at /\ tx'[c] = what
           /\ \A d \in Clients \ {c} : pc'[d] = pc[d] /\ tx'[d] = tx[d]
<1>1. /\ pc' \in [Clients -> Statements] /\ DOMAIN tx' = Clients
      /\ pc'[c] = at /\ tx'[c] = what
      /\ \A d \in Clients \ {c} : pc'[d] = pc[d] /\ tx'[d] = tx[d]
  BY DEF TypeOK, Goto
<1>2. \A d \in Clients : Fits(pc[d], tx[d])
  BY DEF TypeOK
<1> QED
  BY <1>1, <1>2

\* The end of a call is a frame too.
LEMMA ReturnFrame ==
    ASSUME TypeOK, NEW c \in Clients, Return(c)
    PROVE  /\ pc' \in [Clients -> Statements]
           /\ DOMAIN tx' = Clients
           /\ \A d \in Clients : Fits(pc'[d], tx'[d])
           /\ pc'[c] = "idle"
           /\ \A d \in Clients \ {c} : pc'[d] = pc[d] /\ tx'[d] = tx[d]
<1>1. Goto(c, "idle", None)
  BY DEF Return, Goto
<1>2. Fits("idle", None)
  BY DEF Fits
<1> QED
  BY <1>1, <1>2, GotoFrame DEF Statements

\* A statement that changes neither a row, a view nor the clock keeps the type
\* when the client's next statement has what it needs.
LEMMA ReadStep ==
    ASSUME TypeInv, NEW c \in Clients, NEW at \in Statements, NEW what,
           Fits(at, what), Goto(c, at, what), UNCHANGED << records, view, now >>
    PROVE  TypeInv'
<1>1. TypeOK'
  BY GotoFrame DEF TypeInv, TypeOK
<1> QED
  BY <1>1 DEF TypeInv, SeqsBounded

\* So does a call that ends having changed nothing.
LEMMA ReturnStep ==
    ASSUME TypeInv, NEW c \in Clients, Return(c), UNCHANGED << records, view, now >>
    PROVE  TypeInv'
<1>1. TypeOK'
  BY ReturnFrame DEF TypeInv, TypeOK
<1> QED
  BY <1>1 DEF TypeInv, SeqsBounded

\* The statements of Append keep the type; the new number is one more than the
\* greatest, so the numbers stay bounded.
LEMMA AppendKeepsType ==
    ASSUME TypeInv, NEW c \in Clients,
           \/ \E k \in Keys, ref \in Refs, im \in Images : AppendBegin(c, k, ref, im)
           \/ AppendLookup(c) \/ AppendHead(c) \/ AppendInsert(c) \/ Cancel(c)
    PROVE  TypeInv'
<1>0. TypeOK /\ Fits(pc[c], tx[c])
  BY DEF TypeInv, TypeOK
<1>1. CASE \E k \in Keys, ref \in Refs, im \in Images : AppendBegin(c, k, ref, im)
  <2>1. PICK k \in Keys, ref \in Refs, im \in Images : AppendBegin(c, k, ref, im)
    BY <1>1
  <2>2. Fits("lookup", [key |-> k, ref |-> ref, image |-> im])
    BY DEF Fits
  <2> QED
    BY <2>1, <2>2, ReadStep DEF AppendBegin, Statements
<1>2. CASE AppendLookup(c)
  <2> DEFINE hits == {i \in Ids : records[i].key = tx[c].key}
  <2>1. CASE hits = {}
    <3>1. Goto(c, "head", tx[c]) /\ UNCHANGED << records, view, now >>
      BY <1>2, <2>1 DEF AppendLookup
    <3>2. Fits("head", tx[c])
      BY <1>0, <1>2 DEF AppendLookup, Fits
    <3> QED
      BY <3>1, <3>2, ReadStep DEF Statements
  <2>2. CASE hits # {}
    <3>1. /\ Goto(c, "row", [id |-> CHOOSE i \in hits : TRUE])
          /\ UNCHANGED << records, view, now >>
      BY <1>2, <2>2 DEF AppendLookup
    <3>2. (CHOOSE i \in hits : TRUE) \in IdSet
      BY <1>0, <2>2 DEF TypeOK
    <3>3. Fits("row", [id |-> CHOOSE i \in hits : TRUE])
      BY <3>2 DEF Fits
    <3> QED
      BY <3>1, <3>3, ReadStep DEF Statements
  <2> QED
    BY <2>1, <2>2
<1>3. CASE AppendHead(c)
  <2> DEFINE rows == Rows(tx[c].ref)
             seq  == IF rows = {} THEN 1 ELSE Newest(rows).seq + 1
             prev == IF rows = {} THEN Nil ELSE Newest(rows).hash
             rec  == NewRecord(tx[c].key, tx[c].ref, seq, tx[c].image, prev, now)
  <2>1. tx[c].key \in Keys /\ tx[c].ref \in Refs /\ tx[c].image \in Images
    BY <1>0, <1>3 DEF AppendHead, Fits
  <2>2. seq \in Nat \ {0} /\ prev \in Digest
    <3>1. CASE rows = {}
      BY <3>1 DEF Nil, Digest
    <3>2. CASE rows # {}
      <4>1. Newest(rows) \in RecordSet
        <5>1. rows \subseteq {records[i] : i \in Ids}
          BY DEF Rows
        <5>2. Newest(rows) \in rows
          BY <3>2, <5>1, NewestIsARow
        <5> QED
          BY <1>0, <5>1, <5>2 DEF TypeOK
      <4> QED
        BY <3>2, <4>1 DEF RecordSet
    <3> QED
      BY <3>1, <3>2
  <2>3. Goto(c, "insert", [rec |-> rec]) /\ UNCHANGED << records, view, now >>
    BY <1>3 DEF AppendHead
  <2>4. now \in Nat
    BY <1>0 DEF TypeOK
  <2> HIDE DEF seq, prev
  <2>5. rec \in RecordSet /\ Fresh(rec)
    BY <2>1, <2>2, <2>4, NewRecordType
  <2> HIDE DEF rec
  <2>6. Fits("insert", [rec |-> rec])
    BY <2>5 DEF Fits
  <2> QED
    BY <2>3, <2>6, ReadStep DEF Statements
<1>4. CASE AppendInsert(c)
  <2> DEFINE rec == tx[c].rec
  <2>1. rec \in RecordSet
    BY <1>0, <1>4 DEF AppendInsert, Fits
  <2>2. CASE UNCHANGED records
    <3>1. Return(c) /\ UNCHANGED << records, now >>
      BY <1>4, <2>2 DEF AppendInsert
    <3>2. view' \in [Clients -> RecordSet \union {None}]
      BY <1>0, <1>4, <2>1 DEF AppendInsert, TypeOK
    <3> QED
      BY <1>0, <3>1, <3>2, ReturnFrame DEF TypeInv, TypeOK, SeqsBounded
  <2>3. CASE records' = [i \in Ids \union {rec.id} |->
                           IF i = rec.id THEN rec ELSE records[i]]
    <3>1. Return(c) /\ UNCHANGED now
      BY <1>4 DEF AppendInsert
    <3>2. view' \in [Clients -> RecordSet \union {None}]
      BY <1>0, <1>4, <2>1 DEF AppendInsert, TypeOK
    <3>3. /\ Ids' = Ids \union {rec.id}
          /\ \A i \in Ids' : records'[i] = IF i = rec.id THEN rec ELSE records[i]
      BY <2>3
    <3>4. rec.id \in IdSet /\ rec.seq \in Nat
      BY <2>1 DEF RecordSet
    <3>5. /\ Ids' \subseteq IdSet /\ records' \in [Ids' -> RecordSet]
          /\ \A i \in Ids' : records'[i].id = i
      BY <1>0, <2>1, <2>3, <3>3, <3>4 DEF TypeOK
    <3>6. SeqsBounded'
      <4>1. PICK b \in Nat : \A i \in Ids : records[i].seq <= b
        BY DEF TypeInv, SeqsBounded
      <4>2. \A i \in Ids : records[i].seq \in Nat
        BY <1>0 DEF TypeOK, RecordSet
      <4>3. \A i \in Ids' : records'[i].seq <= b + rec.seq
        BY <3>3, <3>4, <4>1, <4>2
      <4> QED
        BY <3>4, <4>1, <4>3 DEF SeqsBounded
    <3> QED
      BY <1>0, <3>1, <3>2, <3>5, <3>6, ReturnFrame DEF TypeInv, TypeOK
  <2> QED
    BY <1>4, <2>2, <2>3 DEF AppendInsert
<1>5. CASE Cancel(c)
  BY <1>5, ReturnStep DEF Cancel
<1> QED
  BY <1>1, <1>2, <1>3, <1>4, <1>5

\* The newest row of a Ref in a state, as an ID.
LEMMA NewestInStateHasId ==
    ASSUME TypeInv, NEW ref, NEW s, InState(ref, s) # {}
    PROVE  Newest(InState(ref, s)).id \in IdSet
<1>1. InState(ref, s) \subseteq {records[i] : i \in Ids}
  BY DEF InState, Rows
<1>2. Newest(InState(ref, s)) \in {records[i] : i \in Ids}
  BY <1>1, NewestIsARow
<1> QED
  BY <1>2 DEF TypeInv, TypeOK, RecordSet

\* The statements of Get and Current keep the type.
LEMMA ReadsKeepType ==
    ASSUME TypeInv, NEW c \in Clients,
           \/ \E id \in Ids : Get(c, id)
           \/ GetRow(c) \/ GetEvents(c)
           \/ \E ref \in Refs : CurrentRunning(c, ref)
           \/ CurrentApplied(c)
    PROVE  TypeInv'
<1>0. TypeOK /\ Fits(pc[c], tx[c])
  BY DEF TypeInv, TypeOK
<1>1. CASE \E id \in Ids : Get(c, id)
  <2>1. PICK id \in Ids : Get(c, id)
    BY <1>1
  <2>2. Fits("row", [id |-> id])
    BY <1>0 DEF Fits, TypeOK
  <2> QED
    BY <2>1, <2>2, ReadStep DEF Get, Statements
<1>2. CASE GetRow(c)
  <2>1. CASE tx[c].id \in Ids
    <3>1. Fits("events", [row |-> records[tx[c].id]])
      BY <1>0, <2>1 DEF Fits, TypeOK
    <3> QED
      BY <1>2, <2>1, <3>1, ReadStep DEF GetRow, Statements
  <2>2. CASE tx[c].id \notin Ids
    BY <1>2, <2>2, ReturnStep DEF GetRow
  <2> QED
    BY <2>1, <2>2
<1>3. CASE GetEvents(c)
  <2> DEFINE row == tx[c].row
             evs == IF row.id \in Ids THEN records[row.id].transitions ELSE << >>
  <2>1. row \in RecordSet
    BY <1>0, <1>3 DEF GetEvents, Fits
  <2>2. evs \in Seq(EventSet)
    BY <1>0 DEF TypeOK, RecordSet
  <2>3. [row EXCEPT !.transitions = evs] \in RecordSet
    BY <2>1, <2>2 DEF RecordSet
  <2>4. view' = [view EXCEPT ![c] = [row EXCEPT !.transitions = evs]]
    BY <1>3 DEF GetEvents
  <2> HIDE DEF row, evs
  <2>5. view' \in [Clients -> RecordSet \union {None}]
    BY <1>0, <2>3, <2>4 DEF TypeOK
  <2>6. TypeOK'
    BY <1>0, <1>3, <2>5, ReturnFrame DEF GetEvents, TypeOK
  <2> QED
    BY <1>3, <2>6 DEF GetEvents, TypeInv, SeqsBounded
<1>4. CASE \E ref \in Refs : CurrentRunning(c, ref)
  <2>1. PICK ref \in Refs : CurrentRunning(c, ref)
    BY <1>4
  <2>2. CASE InState(ref, "running") # {}
    <3>1. Fits("row", [id |-> Newest(InState(ref, "running")).id])
      BY <2>2, NewestInStateHasId DEF Fits
    <3> QED
      BY <2>1, <2>2, <3>1, ReadStep DEF CurrentRunning, Statements
  <2>3. CASE InState(ref, "running") = {}
    <3>1. Fits("applied", [ref |-> ref])
      BY DEF Fits
    <3> QED
      BY <2>1, <2>3, <3>1, ReadStep DEF CurrentRunning, Statements
  <2> QED
    BY <2>2, <2>3
<1>5. CASE CurrentApplied(c)
  <2>1. CASE InState(tx[c].ref, "applied") # {}
    <3>1. Fits("row", [id |-> Newest(InState(tx[c].ref, "applied")).id])
      BY <2>1, NewestInStateHasId DEF Fits
    <3> QED
      BY <1>5, <2>1, <3>1, ReadStep DEF CurrentApplied, Statements
  <2>2. CASE InState(tx[c].ref, "applied") = {}
    BY <1>5, <2>2, ReturnStep DEF CurrentApplied
  <2> QED
    BY <2>1, <2>2
<1> QED
  BY <1>1, <1>2, <1>3, <1>4, <1>5

\* The statements of Transition keep the type.
LEMMA TransitionKeepsType ==
    ASSUME TypeInv, NEW c \in Clients,
           (\E m \in Moves : TransitionLock(c, m)) \/ TransitionWrite(c)
    PROVE  TypeInv'
<1>0. TypeOK /\ Fits(pc[c], tx[c])
  BY DEF TypeInv, TypeOK
<1>1. CASE \E m \in Moves : TransitionLock(c, m)
  <2>1. PICK m \in Moves : TransitionLock(c, m)
    BY <1>1
  <2> DEFINE id == view[c].id
             t  == Request(c, m)
  <2>2. view[c] \in RecordSet
    BY <1>0, <2>1 DEF TransitionLock, TypeOK
  <2>3. Version(view[c]) \in Nat
    BY <2>2 DEF RecordSet, Version
  <2>4. t \in RequestSet
    BY <2>3 DEF Request, RequestSet, StoreAssumption, MoveSet
  <2>5. CASE UNCHANGED view /\ Return(c)
    BY <2>1, <2>5, ReturnStep DEF TransitionLock
  <2>6. CASE /\ id \in Ids /\ UNCHANGED view
             /\ Goto(c, "write", [rec |-> records[id], t |-> t])
    <3> HIDE DEF t
    <3>1. Fits("write", [rec |-> records[id], t |-> t])
      BY <1>0, <2>4, <2>6 DEF Fits, TypeOK
    <3> QED
      BY <2>1, <2>6, <3>1, ReadStep DEF TransitionLock, Statements
  <2>7. CASE /\ id \in Ids /\ Return(c)
             /\ view' = [view EXCEPT ![c] = records[id]]
    <3>1. view' \in [Clients -> RecordSet \union {None}]
      BY <1>0, <2>7 DEF TypeOK
    <3>2. UNCHANGED << records, now >>
      BY <2>1 DEF TransitionLock
    <3>3. TypeOK'
      BY <1>0, <2>7, <3>1, <3>2, ReturnFrame DEF TypeOK
    <3> QED
      BY <3>2, <3>3 DEF TypeInv, SeqsBounded
  <2> QED
    BY <2>1, <2>5, <2>6, <2>7 DEF TransitionLock
<1>2. CASE TransitionWrite(c)
  <2> DEFINE rec == tx[c].rec
             new == Applied(rec, tx[c].t)
  <2>1. rec \in RecordSet /\ tx[c].t \in RequestSet
    BY <1>0, <1>2 DEF TransitionWrite, Fits
  <2>2. new \in RecordSet /\ new.id = rec.id /\ new.seq = rec.seq
    BY <2>1, AppliedType
  <2>3. Return(c) /\ UNCHANGED now
    BY <1>2 DEF TransitionWrite
  <2>4. CASE UNCHANGED << records, view >>
    BY <2>3, <2>4, ReturnStep
  <2>5. CASE /\ records' = [records EXCEPT ![rec.id] = new]
             /\ view' = [view EXCEPT ![c] = new]
    <3> HIDE DEF new
    <3>1. view' \in [Clients -> RecordSet \union {None}]
      BY <1>0, <2>2, <2>5 DEF TypeOK
    <3>2. Ids' = Ids /\ \A i \in Ids :
             records'[i] = IF i = rec.id THEN new ELSE records[i]
      BY <2>5
    <3>3. /\ Ids' \subseteq IdSet /\ records' \in [Ids' -> RecordSet]
          /\ \A i \in Ids' : records'[i].id = i
      BY <1>0, <2>2, <2>5, <3>2 DEF TypeOK
    <3>4. SeqsBounded'
      <4>1. PICK b \in Nat : \A i \in Ids : records[i].seq <= b
        BY DEF TypeInv, SeqsBounded
      <4>2. rec.seq \in Nat /\ \A i \in Ids : records[i].seq \in Nat
        BY <1>0, <2>1 DEF TypeOK, RecordSet
      <4>3. \A i \in Ids' : records'[i].seq <= b + rec.seq
        BY <2>2, <3>2, <4>1, <4>2
      <4> QED
        BY <4>1, <4>2, <4>3 DEF SeqsBounded
    <3> QED
      BY <1>0, <2>3, <3>1, <3>3, <3>4, ReturnFrame DEF TypeInv, TypeOK
  <2> QED
    BY <1>2, <2>4, <2>5 DEF TransitionWrite
<1> QED
  BY <1>1, <1>2

\* The statements of Prune keep the type.
LEMMA PruneKeepsType ==
    ASSUME TypeInv, NEW c \in Clients,
           \/ PruneStart(c)
           \/ \E ref \in Refs : PruneKeepRunning(c, ref)
           \/ PruneKeepApplied(c) \/ PruneDelete(c)
    PROVE  TypeInv'
<1>0. TypeOK /\ Fits(pc[c], tx[c])
  BY DEF TypeInv, TypeOK
<1>1. CASE PruneStart(c)
  <2>1. CASE Window = 0
    BY <1>1, <2>1, ReturnStep DEF PruneStart
  <2>2. CASE Window # 0
    <3> DEFINE x == [cutoff |-> now - Window, kept |-> {},
                     todo |-> {records[i].ref : i \in Ids}]
    <3>1. now - Window \in Int
      BY <1>0 DEF TypeOK, StoreAssumption
    <3>2. {records[i].ref : i \in Ids} \subseteq Refs
      BY <1>0 DEF TypeOK, RecordSet
    <3>3. Fits("keep", x)
      BY <3>1, <3>2 DEF Fits
    <3> QED
      BY <1>1, <2>2, <3>3, ReadStep DEF PruneStart, Statements
  <2> QED
    BY <2>1, <2>2
<1>2. CASE \E ref \in Refs : PruneKeepRunning(c, ref)
  <2>1. PICK ref \in Refs : PruneKeepRunning(c, ref)
    BY <1>2
  <2>2. tx[c] \in [cutoff : Int, kept : SUBSET IdSet, todo : SUBSET Refs]
    BY <1>0, <2>1 DEF PruneKeepRunning, Fits
  <2>3. CASE InState(ref, "running") = {}
    <3>1. Fits("keepApplied", [cutoff |-> tx[c].cutoff, ref |-> ref,
                               todo |-> tx[c].todo, kept |-> tx[c].kept])
      BY <2>2 DEF Fits
    <3> QED
      BY <2>1, <2>3, <3>1, ReadStep DEF PruneKeepRunning, Statements
  <2>4. CASE InState(ref, "running") # {}
    <3> DEFINE n == Newest(InState(ref, "running")).id
               x == [tx[c] EXCEPT !.todo = @ \ {ref}, !.kept = @ \union {n}]
    <3>1. n \in IdSet
      BY <2>4, NewestInStateHasId
    <3>2. Goto(c, "keep", x) /\ UNCHANGED << records, view, now >>
      BY <2>1, <2>4 DEF PruneKeepRunning
    <3> HIDE DEF n
    <3>3. Fits("keep", x)
      BY <2>2, <3>1 DEF Fits
    <3> QED
      BY <3>2, <3>3, ReadStep DEF Statements
  <2> QED
    BY <2>3, <2>4
<1>3. CASE PruneKeepApplied(c)
  <2> DEFINE rows == InState(tx[c].ref, "applied")
             kept == IF rows = {} THEN {} ELSE {Newest(rows).id}
             x == [cutoff |-> tx[c].cutoff, todo |-> tx[c].todo \ {tx[c].ref},
                   kept |-> tx[c].kept \union kept]
  <2>1. tx[c] \in [cutoff : Int, kept : SUBSET IdSet, todo : SUBSET Refs, ref : Refs]
    BY <1>0, <1>3 DEF PruneKeepApplied, Fits
  <2>2. kept \subseteq IdSet
    BY NewestInStateHasId
  <2>3. Goto(c, "keep", x) /\ UNCHANGED << records, view, now >>
    BY <1>3 DEF PruneKeepApplied
  <2> HIDE DEF kept
  <2>4. Fits("keep", x)
    BY <2>1, <2>2 DEF Fits
  <2> QED
    BY <2>3, <2>4, ReadStep DEF Statements
<1>4. CASE PruneDelete(c)
  <2>1. /\ Ids' = Ids \ Expired(c)
        /\ \A i \in Ids' : records'[i] = records[i]
    BY <1>4 DEF PruneDelete
  <2>2. /\ Ids' \subseteq IdSet /\ records' \in [Ids' -> RecordSet]
        /\ \A i \in Ids' : records'[i].id = i
    BY <1>0, <1>4, <2>1 DEF PruneDelete, TypeOK
  <2>3. TypeOK'
    BY <1>0, <1>4, <2>2, ReturnFrame DEF PruneDelete, TypeOK
  <2> QED
    BY <2>1, <2>3 DEF TypeInv, SeqsBounded
<1> QED
  BY <1>1, <1>2, <1>3, <1>4

\* Every step keeps the type.
LEMMA TypeStep == TypeInv /\ [Next]_vars => TypeInv'
<1> SUFFICES ASSUME TypeInv, [Next]_vars PROVE TypeInv'
  OBVIOUS
<1>1. CASE Tick
  BY <1>1 DEF Tick, TypeInv, TypeOK, SeqsBounded
<1>2. ASSUME NEW c \in Clients, Step(c) PROVE TypeInv'
  BY <1>2, AppendKeepsType, ReadsKeepType, TransitionKeepsType, PruneKeepsType DEF Step
<1>3. CASE UNCHANGED vars
  BY <1>3 DEF vars, TypeInv, TypeOK, SeqsBounded
<1> QED
  BY <1>1, <1>2, <1>3 DEF Next

\* The empty store is typed.
LEMMA TypeInit == Init => TypeInv
<1> SUFFICES ASSUME Init PROVE TypeInv
  OBVIOUS
<1>1. Ids = {} /\ records \in [Ids -> RecordSet]
  BY DEF Init
<1>2. \A c \in Clients : Fits(pc[c], tx[c])
  BY DEF Init, Fits
<1> QED
  BY <1>1, <1>2 DEF Init, TypeInv, TypeOK, SeqsBounded, Statements

\* Every reachable state is typed: rows are whole and filed under their own ID,
\* and a call at any statement holds what that statement needs, for any number
\* of callers on either engine.
THEOREM TypeCorrect == Spec => []TypeOK
<1>1. TypeInv => TypeOK
  BY DEF TypeInv
<1> QED
  BY <1>1, TypeInit, TypeStep, PTL DEF Spec

---------------------------------------------------------------------------
(* Locking and the log.  The row a transition is about to replace is the    *)
(* row it loaded (LockedRowIsFresh); that rests on the exclusion the two    *)
(* engines give in different ways, and the properties of the rows rest on   *)
(* it.                                                                      *)

Exclusive ==
    /\ \A c, d \in Clients :
          pc[c] = "write" /\ pc[d] = "write" /\ tx[c].rec.id = tx[d].rec.id => c = d
    /\ Engine = "sqlite" => \A c, d \in Clients : InTx(c) /\ InTx(d) => c = d

LockInv == Exclusive /\ LockedRowIsFresh

RowInv == OneRowPerKey /\ EventLogIsHistory /\ SubChainsHold

IInv == TypeInv /\ LockInv /\ RowInv

\* What a step does to the calls: one client moves; it opens a transaction only
\* when it may, and gets to write only with a row nobody has locked, as it is.
LEMMA CallStep ==
    ASSUME TypeInv, NEW c \in Clients, Step(c)
    PROVE  /\ \A d \in Clients \ {c} : pc'[d] = pc[d] /\ tx'[d] = tx[d]
           /\ InTx(c)' => InTx(c) \/ MayBegin
           /\ pc'[c] = "write" =>
                 /\ MayBegin /\ UNCHANGED records
                 /\ \E id \in Ids : ~ Locked(id) /\ tx'[c].rec = records[id]
<1>0. pc \in [Clients -> Statements] /\ DOMAIN tx = Clients
  BY DEF TypeInv, TypeOK
<1>1. ASSUME NEW k, NEW ref, NEW im, AppendBegin(c, k, ref, im)
      PROVE  /\ \A d \in Clients \ {c} : pc'[d] = pc[d] /\ tx'[d] = tx[d]
             /\ MayBegin /\ pc'[c] # "write"
  BY <1>0, <1>1 DEF AppendBegin, Goto
<1>2. ASSUME AppendLookup(c) \/ AppendHead(c)
      PROVE  /\ \A d \in Clients \ {c} : pc'[d] = pc[d] /\ tx'[d] = tx[d]
             /\ InTx(c) /\ pc'[c] # "write"
  BY <1>0, <1>2 DEF AppendLookup, AppendHead, Goto, InTx
<1>3. ASSUME Return(c)
      PROVE  /\ \A d \in Clients \ {c} : pc'[d] = pc[d] /\ tx'[d] = tx[d]
             /\ ~ InTx(c)' /\ pc'[c] # "write"
  BY <1>0, <1>3 DEF Return, InTx
<1>4. ASSUME NEW at \in {"row", "events", "applied", "keep", "keepApplied"},
             NEW what, Goto(c, at, what)
      PROVE  /\ \A d \in Clients \ {c} : pc'[d] = pc[d] /\ tx'[d] = tx[d]
             /\ ~ InTx(c)' /\ pc'[c] # "write"
  BY <1>0, <1>4 DEF Goto, InTx
<1>5. CASE AppendInsert(c) \/ Cancel(c)
  BY <1>3, <1>5 DEF AppendInsert, Cancel
<1>6. CASE (\E id \in Ids : Get(c, id)) \/ GetRow(c) \/ GetEvents(c)
  BY <1>3, <1>4, <1>6 DEF Get, GetRow, GetEvents
<1>7. CASE (\E ref \in Refs : CurrentRunning(c, ref)) \/ CurrentApplied(c)
  BY <1>3, <1>4, <1>7 DEF CurrentRunning, CurrentApplied
<1>8. CASE \E m \in Moves : TransitionLock(c, m)
  <2>1. PICK m \in Moves : TransitionLock(c, m)
    BY <1>8
  <2>2. CASE Return(c)
    BY <1>3, <2>2
  <2>3. CASE /\ view[c].id \in Ids /\ ~ Locked(view[c].id)
             /\ Goto(c, "write", [rec |-> records[view[c].id], t |-> Request(c, m)])
    <3>1. /\ \A d \in Clients \ {c} : pc'[d] = pc[d] /\ tx'[d] = tx[d]
          /\ tx'[c].rec = records[view[c].id]
      BY <1>0, <2>3 DEF Goto
    <3> QED
      BY <2>1, <2>3, <3>1 DEF TransitionLock
  <2> QED
    BY <2>1, <2>2, <2>3 DEF TransitionLock
<1>9. CASE TransitionWrite(c)
  BY <1>3, <1>9 DEF TransitionWrite
<1>10. CASE PruneStart(c) \/ PruneDelete(c)
  BY <1>3, <1>4, <1>10 DEF PruneStart, PruneDelete
<1>11. CASE (\E ref \in Refs : PruneKeepRunning(c, ref)) \/ PruneKeepApplied(c)
  BY <1>4, <1>11 DEF PruneKeepRunning, PruneKeepApplied
<1> QED
  BY <1>1, <1>2, <1>5, <1>6, <1>7, <1>8, <1>9, <1>10, <1>11 DEF Step

\* What a step does to the rows: nothing, or the INSERT of an append, or the
\* UPDATE of a transition, or the DELETE of a prune.
Inserts(c) ==
    /\ pc[c] = "insert" /\ Insertable(tx[c].rec)
    /\ records' = [i \in Ids \union {tx[c].rec.id} |->
                     IF i = tx[c].rec.id THEN tx[c].rec ELSE records[i]]

Updates(c) ==
    /\ pc[c] = "write"
    /\ records' = [records EXCEPT ![tx[c].rec.id] = Applied(tx[c].rec, tx[c].t)]

Deletes(c) ==
    /\ MayBegin /\ \A i \in Expired(c) : ~ Locked(i)
    /\ records' = [i \in Ids \ Expired(c) |-> records[i]]

\* Those are all the steps that touch a row.
LEMMA RowStep ==
    ASSUME NEW c \in Clients, Step(c)
    PROVE  UNCHANGED records \/ Inserts(c) \/ Updates(c) \/ Deletes(c)
<1>1. CASE AppendInsert(c)
  BY <1>1 DEF AppendInsert, Inserts
<1>2. CASE TransitionWrite(c)
  BY <1>2 DEF TransitionWrite, Updates
<1>3. CASE PruneDelete(c)
  BY <1>3 DEF PruneDelete, Deletes
<1>4. CASE \/ \E k \in Keys, ref \in Refs, im \in Images : AppendBegin(c, k, ref, im)
           \/ AppendLookup(c) \/ AppendHead(c) \/ Cancel(c)
  BY <1>4 DEF AppendBegin, AppendLookup, AppendHead, Cancel
<1>5. CASE \/ \E id \in Ids : Get(c, id)
           \/ GetRow(c) \/ GetEvents(c)
           \/ \E ref \in Refs : CurrentRunning(c, ref)
           \/ CurrentApplied(c)
  BY <1>5 DEF Get, GetRow, GetEvents, CurrentRunning, CurrentApplied
<1>6. CASE \E m \in Moves : TransitionLock(c, m)
  BY <1>6 DEF TransitionLock
<1>7. CASE PruneStart(c) \/ (\E ref \in Refs : PruneKeepRunning(c, ref))
           \/ PruneKeepApplied(c)
  BY <1>7 DEF PruneStart, PruneKeepRunning, PruneKeepApplied
<1> QED
  BY <1>1, <1>2, <1>3, <1>4, <1>5, <1>6, <1>7 DEF Step

\* Exclusion is kept, by the row lock on postgres and by the single writer on
\* sqlite.
LEMMA ExclusiveStep ==
    ASSUME TypeInv, LockInv, NEW c \in Clients, Step(c)
    PROVE  Exclusive'
<1>1. /\ \A d \in Clients \ {c} : pc'[d] = pc[d] /\ tx'[d] = tx[d]
      /\ InTx(c)' => InTx(c) \/ MayBegin
      /\ pc'[c] = "write" =>
            /\ MayBegin
            /\ \E id \in Ids : ~ Locked(id) /\ tx'[c].rec = records[id]
  BY CallStep
<1>2. \A i \in Ids : records[i].id = i
  BY DEF TypeInv, TypeOK
<1>3. ASSUME NEW d \in Clients \ {c}, pc'[c] = "write", pc'[d] = "write",
             tx'[c].rec.id = tx'[d].rec.id
      PROVE  FALSE
  <2>1. pc[d] = "write" /\ tx[d].rec = tx'[d].rec /\ InTx(d)
    BY <1>1, <1>3 DEF InTx
  <2>2. Engine = "postgres"
    BY <1>1, <1>3, <2>1 DEF MayBegin
  <2>3. PICK id \in Ids : ~ Locked(id) /\ tx'[c].rec = records[id]
    BY <1>1, <1>3
  <2>4. tx[d].rec.id = id
    BY <1>2, <1>3, <2>1, <2>3
  <2> QED
    BY <2>1, <2>2, <2>3, <2>4 DEF Locked
<1>4. ASSUME NEW d \in Clients \ {c}, Engine = "sqlite", InTx(c)', InTx(d)'
      PROVE  FALSE
  <2>1. InTx(d)
    BY <1>1, <1>4 DEF InTx
  <2>2. InTx(c)
    BY <1>1, <1>4, <2>1 DEF MayBegin
  <2> QED
    BY <1>4, <2>1, <2>2 DEF LockInv, Exclusive
<1>5. ASSUME NEW x \in Clients, NEW y \in Clients,
             pc'[x] = "write", pc'[y] = "write", tx'[x].rec.id = tx'[y].rec.id
      PROVE  x = y
  <2>1. CASE x = c \/ y = c
    BY <1>3, <1>5, <2>1
  <2>2. CASE x # c /\ y # c
    BY <1>1, <1>5, <2>2 DEF LockInv, Exclusive
  <2> QED
    BY <2>1, <2>2
<1>6. ASSUME Engine = "sqlite", NEW x \in Clients, NEW y \in Clients,
             InTx(x)', InTx(y)'
      PROVE  x = y
  <2>1. CASE x = c \/ y = c
    BY <1>4, <1>6, <2>1
  <2>2. CASE x # c /\ y # c
    BY <1>1, <1>6, <2>2 DEF LockInv, Exclusive, InTx
  <2> QED
    BY <2>1, <2>2
<1> QED
  BY <1>5, <1>6 DEF Exclusive, InTx

\* No step changes or deletes a row another call is about to replace.
LEMMA FreshStep ==
    ASSUME TypeInv, LockInv, NEW c \in Clients, Step(c)
    PROVE  LockedRowIsFresh'
<1>1. /\ \A d \in Clients \ {c} : pc'[d] = pc[d] /\ tx'[d] = tx[d]
      /\ pc'[c] = "write" =>
            /\ UNCHANGED records
            /\ \E id \in Ids : tx'[c].rec = records[id]
  BY CallStep
<1>2. \A i \in Ids : records[i].id = i
  BY DEF TypeInv, TypeOK
<1>3. ASSUME pc'[c] = "write"
      PROVE  tx'[c].rec.id \in Ids' /\ records'[tx'[c].rec.id] = tx'[c].rec
  BY <1>1, <1>2, <1>3
<1>4. ASSUME NEW d \in Clients \ {c}, pc'[d] = "write"
      PROVE  tx'[d].rec.id \in Ids' /\ records'[tx'[d].rec.id] = tx'[d].rec
  <2> DEFINE id == tx[d].rec.id
  <2>1. /\ pc[d] = "write" /\ tx'[d] = tx[d] /\ InTx(d)
        /\ id \in Ids /\ records[id] = tx[d].rec
    BY <1>1, <1>4 DEF LockInv, LockedRowIsFresh, InTx
  <2>2. CASE UNCHANGED records
    BY <2>1, <2>2
  <2>3. CASE Inserts(c)
    <3>1. id # tx[c].rec.id
      BY <2>1, <2>3 DEF Inserts, Insertable
    <3> QED
      BY <2>1, <2>3, <3>1 DEF Inserts
  <2>4. CASE Updates(c)
    <3>1. id # tx[c].rec.id
      BY <2>1, <2>4 DEF Updates, LockInv, Exclusive
    <3> QED
      BY <2>1, <2>4, <3>1 DEF Updates
  <2>5. CASE Deletes(c)
    <3>1. Engine = "postgres"
      BY <2>1, <2>5 DEF Deletes, MayBegin
    <3>2. Locked(id)
      BY <2>1, <3>1 DEF Locked
    <3>3. id \notin Expired(c)
      BY <2>5, <3>2 DEF Deletes
    <3> QED
      BY <2>1, <2>5, <3>3 DEF Deletes
  <2> QED
    BY <2>2, <2>3, <2>4, <2>5, RowStep
<1> QED
  BY <1>3, <1>4 DEF LockedRowIsFresh

\* The event of a transition links to the end of its record's sub-chain.
LEMMA AppliedKeepsSubChain ==
    ASSUME NEW r \in RecordSet, NEW t \in RequestSet, SubChainHolds(r)
    PROVE  SubChainHolds(Applied(r, t))
<1> DEFINE a == Applied(r, t)
           e == EventOf(r, t)
           n == Len(r.transitions)
<1>1. /\ a.transitions = Append(r.transitions, e)
      /\ a.hash = r.hash /\ a.id = r.id /\ e \in EventSet
  BY AppliedType
<1>2. r.transitions \in Seq(EventSet) /\ n \in Nat
  BY DEF RecordSet
<1>3. e.hash = ChainEvent(EventHead(r), r.id, e)
  BY DEF EventOf, ChainEvent
<1>4. EventHead(r) = IF n = 0 THEN r.hash ELSE r.transitions[n].hash
  BY DEF EventHead, Version
<1> HIDE DEF a, e
<1>5. /\ Len(a.transitions) = n + 1
      /\ a.transitions[n + 1] = e
      /\ \A i \in 1 .. n : a.transitions[i] = r.transitions[i]
  BY <1>1, <1>2
<1>6. ASSUME NEW i \in 1 .. n + 1
      PROVE  a.transitions[i].hash =
               ChainEvent(IF i = 1 THEN a.hash ELSE a.transitions[i - 1].hash,
                          a.id, a.transitions[i])
  <2>1. CASE i \in 1 .. n
    <3>1. r.transitions[i].hash =
            ChainEvent(IF i = 1 THEN r.hash ELSE r.transitions[i - 1].hash,
                       r.id, r.transitions[i])
      BY <2>1 DEF SubChainHolds, Version
    <3>2. i # 1 => i - 1 \in 1 .. n
      BY <1>2, <2>1
    <3> QED
      BY <1>1, <1>5, <2>1, <3>1, <3>2
  <2>2. CASE i = n + 1
    <3>1. (IF i = 1 THEN a.hash ELSE a.transitions[i - 1].hash) = EventHead(r)
      BY <1>1, <1>2, <1>4, <1>5, <2>2
    <3> QED
      BY <1>1, <1>3, <1>5, <2>2, <3>1
  <2> QED
    BY <1>2, <2>1, <2>2
<1> QED
  BY <1>2, <1>5, <1>6 DEF SubChainHolds, Version, a

\* The properties of the rows are kept: an insert brings a fresh row under a
\* new key, an update extends the row it loaded, a delete only removes.
LEMMA RowInvStep ==
    ASSUME IInv, NEW c \in Clients, Step(c)
    PROVE  RowInv'
<1>0. /\ Fits(pc[c], tx[c])
      /\ \A i \in Ids : records[i] \in RecordSet /\ records[i].id = i
  BY DEF IInv, TypeInv, TypeOK
<1>1. CASE UNCHANGED records
  BY <1>1 DEF IInv, RowInv, OneRowPerKey, EventLogIsHistory, SubChainsHold
<1>2. CASE Inserts(c)
  <2> DEFINE rec == tx[c].rec
  <2>1. rec \in RecordSet /\ Fresh(rec)
    BY <1>0, <1>2 DEF Inserts, Fits
  <2>2. /\ Ids' = Ids \union {rec.id} /\ rec.id \notin Ids
        /\ \A i \in Ids' : records'[i] = IF i = rec.id THEN rec ELSE records[i]
        /\ \A i \in Ids : records[i].key # rec.key
    BY <1>2 DEF Inserts, Insertable
  <2>3. LogIsHistory(rec) /\ SubChainHolds(rec)
    BY <2>1 DEF Fresh, LogIsHistory, SubChainHolds, Version
  <2>4. OneRowPerKey'
    BY <2>2 DEF IInv, RowInv, OneRowPerKey
  <2>5. EventLogIsHistory' /\ SubChainsHold'
    BY <2>2, <2>3 DEF IInv, RowInv, EventLogIsHistory, SubChainsHold
  <2> QED
    BY <2>4, <2>5 DEF RowInv
<1>3. CASE Updates(c)
  <2> DEFINE rec == tx[c].rec
             new == Applied(rec, tx[c].t)
  <2>1. rec \in RecordSet /\ tx[c].t \in RequestSet
    BY <1>0, <1>3 DEF Updates, Fits
  <2>2. rec.id \in Ids /\ records[rec.id] = rec
    BY <1>3 DEF IInv, LockInv, LockedRowIsFresh, Updates
  <2>3. new.key = rec.key
    BY <2>1, AppliedType
  <2>4. LogIsHistory(rec) /\ SubChainHolds(rec)
    BY <2>2 DEF IInv, RowInv, EventLogIsHistory, SubChainsHold
  <2>5. LogIsHistory(new) /\ SubChainHolds(new)
    BY <2>1, <2>4, AppliedIsHistory, AppliedKeepsSubChain
  <2> HIDE DEF new
  <2>6. /\ Ids' = Ids
        /\ \A i \in Ids : records'[i] = IF i = rec.id THEN new ELSE records[i]
    BY <1>3 DEF Updates, new
  <2>7. OneRowPerKey'
    BY <2>2, <2>3, <2>6 DEF IInv, RowInv, OneRowPerKey
  <2>8. EventLogIsHistory' /\ SubChainsHold'
    BY <2>5, <2>6 DEF IInv, RowInv, EventLogIsHistory, SubChainsHold
  <2> QED
    BY <2>7, <2>8 DEF RowInv
<1>4. CASE Deletes(c)
  <2>1. Ids' \subseteq Ids /\ \A i \in Ids' : records'[i] = records[i]
    BY <1>4 DEF Deletes
  <2> QED
    BY <2>1 DEF IInv, RowInv, OneRowPerKey, EventLogIsHistory, SubChainsHold
<1> QED
  BY <1>1, <1>2, <1>3, <1>4, RowStep

\* IInv is inductive.
LEMMA InvStep == IInv /\ [Next]_vars => IInv'
<1> SUFFICES ASSUME IInv, [Next]_vars PROVE IInv'
  OBVIOUS
<1>1. TypeInv'
  BY TypeStep DEF IInv
<1>2. CASE Tick \/ UNCHANGED vars
  <2>1. UNCHANGED << records, pc, tx >>
    BY <1>2 DEF Tick, vars
  <2>2. LockInv'
    BY <2>1 DEF IInv, LockInv, Exclusive, LockedRowIsFresh, InTx
  <2>3. RowInv'
    BY <2>1 DEF IInv, RowInv, OneRowPerKey, EventLogIsHistory, SubChainsHold
  <2> QED
    BY <1>1, <2>2, <2>3 DEF IInv
<1>3. ASSUME NEW c \in Clients, Step(c) PROVE IInv'
  <2>1. LockInv'
    BY <1>3, ExclusiveStep, FreshStep DEF IInv, LockInv
  <2> QED
    BY <1>1, <1>3, <2>1, RowInvStep DEF IInv
<1> QED
  BY <1>2, <1>3 DEF Next

\* Nobody holds anything in an empty store.
LEMMA InvInit == Init => IInv
<1> SUFFICES ASSUME Init PROVE IInv
  OBVIOUS
<1>1. Ids = {}
  BY DEF Init
<1>2. RowInv
  BY <1>1 DEF RowInv, OneRowPerKey, EventLogIsHistory, SubChainsHold
<1>3. LockInv
  BY DEF Init, LockInv, Exclusive, LockedRowIsFresh, InTx
<1> QED
  BY <1>2, <1>3, TypeInit DEF IInv

\* IInv holds of every reachable state.
THEOREM Invariance == Spec => []IInv
BY InvInit, InvStep, PTL DEF Spec

\* The compare-and-set of Transition is sound on both engines: what it compared
\* is what its write replaces, whatever appends, transitions, prunes and
\* cancelled calls are interleaved with it.
THEOREM LockingIsSound == Spec => []LockedRowIsFresh
<1>1. IInv => LockedRowIsFresh
  BY DEF IInv, LockInv
<1> QED
  BY <1>1, Invariance, PTL

\* The state column is the projection of the event log, on every row, always.
THEOREM StateIsProjection == Spec => []EventLogIsHistory
<1>1. IInv => EventLogIsHistory
  BY DEF IInv, RowInv
<1> QED
  BY <1>1, Invariance, PTL

\* Verify never reports a break inside a record's own sub-chain.
THEOREM SubChainsVerify == Spec => []SubChainsHold
<1>1. IInv => SubChainsHold
  BY DEF IInv, RowInv
<1> QED
  BY <1>1, Invariance, PTL

\* Append is idempotent: one row per idempotency key.
THEOREM AppendIsIdempotent == Spec => []OneRowPerKey
<1>1. IInv => OneRowPerKey
  BY DEF IInv, RowInv
<1> QED
  BY <1>1, Invariance, PTL
---------------------------------------------------------------------------
(* Appends on sqlite.  BEGIN IMMEDIATE comes before the lookup, so between   *)
(* an append's first statement and its INSERT nobody else writes.            *)

\* How a call gets to the statements that matter, and who changes a view.
LEMMA Reaches ==
    ASSUME TypeInv, NEW c \in Clients, Step(c)
    PROVE  /\ pc'[c] = "head" => AppendLookup(c)
           /\ pc'[c] = "insert" => AppendHead(c)
           /\ pc'[c] = "events" => GetRow(c)
           /\ pc'[c] = "write" => \E m \in Moves : TransitionLock(c, m)
           /\ pc'[c] \in {"keep", "keepApplied"} =>
                 Window # 0 \/ pc[c] \in {"keep", "keepApplied"}
           /\ \/ UNCHANGED view
              \/ AppendInsert(c) \/ GetEvents(c) \/ TransitionWrite(c)
              \/ \E m \in Moves : TransitionLock(c, m)
           /\ records' # records => AppendInsert(c) \/ TransitionWrite(c) \/ PruneDelete(c)
<1>0. pc \in [Clients -> Statements]
  BY DEF TypeInv, TypeOK
<1>1. ASSUME Return(c) PROVE pc'[c] = "idle"
  BY <1>0, <1>1 DEF Return
<1>2. ASSUME NEW at, NEW what, Goto(c, at, what) PROVE pc'[c] = at
  BY <1>0, <1>2 DEF Goto
<1>3. CASE \E k \in Keys, ref \in Refs, im \in Images : AppendBegin(c, k, ref, im)
  BY <1>2, <1>3 DEF AppendBegin
<1>4. CASE AppendLookup(c)
  <2>1. pc'[c] \in {"head", "row"} /\ UNCHANGED << records, view >>
    BY <1>2, <1>4 DEF AppendLookup
  <2> QED
    BY <1>4, <2>1
<1>5. CASE AppendHead(c)
  <2>1. pc'[c] = "insert" /\ UNCHANGED << records, view >>
    BY <1>2, <1>5 DEF AppendHead
  <2> QED
    BY <1>5, <2>1
<1>6. CASE AppendInsert(c)
  <2>1. pc'[c] = "idle"
    BY <1>1, <1>6 DEF AppendInsert
  <2> QED
    BY <1>6, <2>1
<1>7. CASE Cancel(c)
  <2>1. pc'[c] = "idle" /\ UNCHANGED << records, view >>
    BY <1>1, <1>7 DEF Cancel
  <2> QED
    BY <2>1
<1>8. CASE \E id \in Ids : Get(c, id)
  <2>1. pc'[c] = "row" /\ UNCHANGED << records, view >>
    BY <1>2, <1>8 DEF Get
  <2> QED
    BY <2>1
<1>9. CASE GetRow(c)
  <2>1. pc'[c] \in {"events", "idle"} /\ UNCHANGED << records, view >>
    BY <1>1, <1>2, <1>9 DEF GetRow
  <2> QED
    BY <1>9, <2>1
<1>10. CASE GetEvents(c)
  <2>1. pc'[c] = "idle" /\ UNCHANGED records
    BY <1>1, <1>10 DEF GetEvents
  <2> QED
    BY <1>10, <2>1
<1>11. CASE (\E ref \in Refs : CurrentRunning(c, ref)) \/ CurrentApplied(c)
  <2>1. pc'[c] \in {"row", "applied", "idle"} /\ UNCHANGED << records, view >>
    BY <1>1, <1>2, <1>11 DEF CurrentRunning, CurrentApplied
  <2> QED
    BY <2>1
<1>12. CASE \E m \in Moves : TransitionLock(c, m)
  <2>1. pc'[c] \in {"write", "idle"} /\ UNCHANGED records
    BY <1>1, <1>2, <1>12 DEF TransitionLock
  <2> QED
    BY <1>12, <2>1
<1>13. CASE TransitionWrite(c)
  <2>1. pc'[c] = "idle"
    BY <1>1, <1>13 DEF TransitionWrite
  <2> QED
    BY <1>13, <2>1
<1>14. CASE PruneStart(c)
  <2>1. /\ pc'[c] = "idle" \/ (pc'[c] = "keep" /\ Window # 0)
        /\ UNCHANGED << records, view >>
    BY <1>1, <1>2, <1>14 DEF PruneStart
  <2> QED
    BY <2>1
<1>15. CASE (\E ref \in Refs : PruneKeepRunning(c, ref)) \/ PruneKeepApplied(c)
  <2>1. /\ pc'[c] \in {"keep", "keepApplied"} /\ pc[c] \in {"keep", "keepApplied"}
        /\ UNCHANGED << records, view >>
    BY <1>2, <1>15 DEF PruneKeepRunning, PruneKeepApplied
  <2> QED
    BY <2>1
<1>16. CASE PruneDelete(c)
  <2>1. pc'[c] = "idle" /\ UNCHANGED view
    BY <1>1, <1>16 DEF PruneDelete
  <2> QED
    BY <1>16, <2>1
<1> QED
  BY <1>3, <1>4, <1>5, <1>6, <1>7, <1>8, <1>9, <1>10, <1>11, <1>12, <1>13,
     <1>14, <1>15, <1>16 DEF Step

\* Every row is filed under its Ref and its number.
Filed == \A i \in Ids : records[i].id = IdOf(records[i].ref, records[i].seq)

\* What an open append has read is still so: its key is in no row, and its
\* number is above every number of its Ref.
StillFree ==
    \A c \in Clients :
        /\ pc[c] = "head" => \A i \in Ids : records[i].key # tx[c].key
        /\ pc[c] = "insert" =>
              \A i \in Ids :
                 /\ records[i].key # tx[c].rec.key
                 /\ records[i].ref = tx[c].rec.ref => records[i].seq < tx[c].rec.seq

\* The number and the key an append puts in its row.
LEMMA HeadReads ==
    ASSUME TypeInv, NEW c \in Clients, AppendHead(c)
    PROVE  /\ UNCHANGED records
           /\ tx'[c].rec.key = tx[c].key /\ tx'[c].rec.ref = tx[c].ref
           /\ tx'[c].rec.hash = ChainRecord(tx'[c].rec.prevHash, tx'[c].rec)
           /\ \/ /\ Rows(tx[c].ref) = {}
                 /\ tx'[c].rec.seq = 1 /\ tx'[c].rec.prevHash = Nil
              \/ \E i \in Ids :
                    /\ records[i].ref = tx[c].ref
                    /\ tx'[c].rec.seq = records[i].seq + 1
                    /\ tx'[c].rec.prevHash = records[i].hash
                    /\ \A j \in Ids : records[j].ref = tx[c].ref =>
                                         records[j].seq <= records[i].seq
<1> DEFINE rows == Rows(tx[c].ref)
           seq  == IF rows = {} THEN 1 ELSE Newest(rows).seq + 1
           prev == IF rows = {} THEN Nil ELSE Newest(rows).hash
           rec  == NewRecord(tx[c].key, tx[c].ref, seq, tx[c].image, prev, now)
<1>1. tx'[c].rec = rec /\ UNCHANGED records
  BY DEF AppendHead, Goto, TypeInv, TypeOK
<1>2. /\ rec.key = tx[c].key /\ rec.ref = tx[c].ref
      /\ rec.seq = seq /\ rec.prevHash = prev
      /\ rec.hash = ChainRecord(rec.prevHash, rec)
  <2> HIDE DEF seq, prev
  <2> QED
    BY DEF NewRecord, ChainRecord, ChainedRecord, Link
<1>3. ASSUME rows # {}
      PROVE  \E i \in Ids : /\ records[i].ref = tx[c].ref
                            /\ seq = records[i].seq + 1 /\ prev = records[i].hash
                            /\ \A j \in Ids : records[j].ref = tx[c].ref =>
                                                 records[j].seq <= records[i].seq
  <2>1. rows \subseteq {records[i] : i \in Ids}
    BY DEF Rows
  <2>2. Newest(rows) \in rows /\ \A q \in rows : q.seq <= Newest(rows).seq
    BY <1>3, <2>1, NewestIsARow
  <2>3. seq = Newest(rows).seq + 1 /\ prev = Newest(rows).hash
    BY <1>3
  <2>4. PICK i \in Ids : records[i].ref = tx[c].ref /\ records[i] = Newest(rows)
    BY <2>2 DEF Rows
  <2>5. \A j \in Ids : records[j].ref = tx[c].ref => records[j] \in rows
    BY DEF Rows
  <2> HIDE DEF rows
  <2> QED
    BY <2>2, <2>3, <2>4, <2>5
<1> HIDE DEF rec
<1> QED
  BY <1>1, <1>2, <1>3

\* Inserts and updates leave every row filed where it was.
LEMMA FiledStep ==
    ASSUME IInv, Filed, NEW c \in Clients, Step(c)
    PROVE  Filed'
<1>1. CASE UNCHANGED records
  BY <1>1 DEF Filed
<1>2. CASE Inserts(c)
  <2>1. tx[c].rec.id = IdOf(tx[c].rec.ref, tx[c].rec.seq)
    BY <1>2 DEF IInv, TypeInv, TypeOK, Fits, Inserts, Fresh
  <2> QED
    BY <1>2, <2>1 DEF Inserts, Filed
<1>3. CASE Updates(c)
  <2> DEFINE rec == tx[c].rec
             new == Applied(rec, tx[c].t)
  <2>1. rec \in RecordSet /\ tx[c].t \in RequestSet
    BY <1>3 DEF Updates, Fits, IInv, TypeInv, TypeOK
  <2>2. rec.id \in Ids /\ records[rec.id] = rec
    BY <1>3 DEF IInv, LockInv, LockedRowIsFresh, Updates
  <2>3. new.id = rec.id /\ new.ref = rec.ref /\ new.seq = rec.seq
    BY <2>1, AppliedType
  <2> HIDE DEF new
  <2>4. /\ Ids' = Ids
        /\ \A i \in Ids : records'[i] = IF i = rec.id THEN new ELSE records[i]
    BY <1>3 DEF Updates, new
  <2> QED
    BY <2>2, <2>3, <2>4 DEF Filed
<1>4. CASE Deletes(c)
  BY <1>4 DEF Deletes, Filed
<1> QED
  BY <1>1, <1>2, <1>3, <1>4, RowStep

\* On sqlite nothing an open append has read changes under it.
LEMMA StillFreeStep ==
    ASSUME Engine = "sqlite", IInv, StillFree, NEW c \in Clients, Step(c)
    PROVE  StillFree'
<1>0. TypeInv /\ TypeOK
  BY DEF IInv, TypeInv
<1>1. \A d \in Clients \ {c} : pc'[d] = pc[d] /\ tx'[d] = tx[d]
  BY <1>0, CallStep
<1>2. ASSUME NEW d \in Clients \ {c}, pc'[d] \in {"head", "insert"}
      PROVE  UNCHANGED records /\ pc'[d] = pc[d] /\ tx'[d] = tx[d]
  <2>1. InTx(d) /\ pc'[d] = pc[d] /\ tx'[d] = tx[d]
    BY <1>1, <1>2 DEF InTx
  <2>2. ~ InTx(c)
    BY <2>1 DEF IInv, LockInv, Exclusive
  <2>3. ~ Inserts(c) /\ ~ Updates(c)
    BY <2>2 DEF Inserts, Updates, InTx
  <2>4. ~ Deletes(c)
    BY <2>1 DEF Deletes, MayBegin
  <2> QED
    BY <2>1, <2>3, <2>4, RowStep
<1>3. ASSUME pc'[c] = "head"
      PROVE  \A i \in Ids' : records'[i].key # tx'[c].key
  <2>1. AppendLookup(c)
    BY <1>0, <1>3, Reaches
  <2>2. CASE {i \in Ids : records[i].key = tx[c].key} = {}
    <3>1. UNCHANGED records /\ tx'[c] = tx[c]
      BY <1>0, <2>1, <2>2 DEF AppendLookup, Goto, TypeOK
    <3> QED
      BY <2>2, <3>1
  <2>3. CASE {i \in Ids : records[i].key = tx[c].key} # {}
    <3>1. pc'[c] = "row"
      BY <1>0, <2>1, <2>3 DEF AppendLookup, Goto, TypeOK
    <3> QED
      BY <1>3, <3>1
  <2> QED
    BY <2>2, <2>3
<1>4. ASSUME pc'[c] = "insert"
      PROVE  \A i \in Ids' :
                /\ records'[i].key # tx'[c].rec.key
                /\ records'[i].ref = tx'[c].rec.ref => records'[i].seq < tx'[c].rec.seq
  <2>1. AppendHead(c)
    BY <1>0, <1>4, Reaches
  <2>2. \A i \in Ids : records[i].key # tx[c].key
    BY <2>1 DEF AppendHead, StillFree
  <2>3. \A i \in Ids : records[i].seq \in Nat
    BY <1>0 DEF TypeOK, RecordSet
  <2>4. \A i \in Ids : records[i].ref = tx[c].ref => records[i] \in Rows(tx[c].ref)
    BY DEF Rows
  <2> QED
    BY <1>0, <2>1, <2>2, <2>3, <2>4, HeadReads
<1>5. ASSUME NEW d \in Clients, pc'[d] = "head"
      PROVE  \A i \in Ids' : records'[i].key # tx'[d].key
  BY <1>2, <1>3, <1>5 DEF StillFree
<1>6. ASSUME NEW d \in Clients, pc'[d] = "insert"
      PROVE  \A i \in Ids' :
                /\ records'[i].key # tx'[d].rec.key
                /\ records'[i].ref = tx'[d].rec.ref => records'[i].seq < tx'[d].rec.seq
  <2>1. CASE d = c
    BY <1>4, <1>6, <2>1
  <2>2. CASE d # c
    BY <1>2, <1>6, <2>2 DEF StillFree
  <2> QED
    BY <2>1, <2>2
<1> QED
  BY <1>5, <1>6 DEF StillFree

\* IInv, Filed and, on sqlite, StillFree hold of every reachable state.
LEMMA AppendInvariance ==
    ASSUME Engine = "sqlite"
    PROVE  Spec => [](IInv /\ Filed /\ StillFree)
<1> DEFINE Inv == IInv /\ Filed /\ StillFree
<1>1. Init => Inv
  <2>1. ASSUME Init PROVE Filed /\ StillFree
    BY <2>1 DEF Init, Filed, StillFree
  <2> QED
    BY <2>1, InvInit
<1>2. Inv /\ [Next]_vars => Inv'
  <2> SUFFICES ASSUME Inv, [Next]_vars PROVE Filed' /\ StillFree'
    BY InvStep
  <2>1. CASE Tick \/ UNCHANGED vars
    <3>1. UNCHANGED << records, pc, tx >>
      BY <2>1 DEF Tick, vars
    <3> QED
      BY <3>1 DEF Filed, StillFree
  <2>2. ASSUME NEW c \in Clients, Step(c) PROVE Filed' /\ StillFree'
    BY <2>2, FiledStep, StillFreeStep
  <2> QED
    BY <2>1, <2>2 DEF Next
<1> QED
  BY <1>1, <1>2, PTL DEF Spec

\* On sqlite an append that reaches its INSERT is not a repeated one: a retry is
\* answered by the lookup, with the stored record, whatever prunes and
\* transitions run beside it.
THEOREM RetriesAreAnswered ==
    ASSUME Engine = "sqlite" PROVE Spec => []DuplicateIsAnswered
<1>1. StillFree => DuplicateIsAnswered
  BY DEF StillFree, DuplicateIsAnswered
<1> QED
  BY <1>1, AppendInvariance, PTL

\* The IDs of different Refs differ: no two Refs join to one path.
PathsDiffer ==
    \A r, q \in Refs : r.tenant \o r.app \o r.env = q.tenant \o q.app \o q.env => r = q

\* On sqlite no constraint refuses an append when the Refs' paths differ: the
\* key, the number and the ID it computed are free at its INSERT, at any
\* retention window.
THEOREM AppendsAreAccepted ==
    ASSUME Engine = "sqlite", PathsDiffer PROVE Spec => []AppendIsNeverRefused
<1>1. IInv /\ Filed /\ StillFree => AppendIsNeverRefused
  <2> SUFFICES ASSUME IInv, Filed, StillFree, NEW c \in Clients, pc[c] = "insert"
               PROVE  Insertable(tx[c].rec)
    BY DEF AppendIsNeverRefused
  <2> DEFINE rec == tx[c].rec
  <2>1. rec \in RecordSet /\ rec.id = IdOf(rec.ref, rec.seq)
    BY DEF IInv, TypeInv, TypeOK, Fits, Fresh
  <2>2. rec.ref \in Refs /\ rec.seq \in Nat
    BY <2>1 DEF RecordSet
  <2>3. \A i \in Ids : /\ records[i].ref \in Refs /\ records[i].seq \in Nat
                       /\ records[i].id = i
    BY DEF IInv, TypeInv, TypeOK, RecordSet
  <2>4. \A i \in Ids : /\ records[i].key # rec.key
                       /\ records[i].ref = rec.ref => records[i].seq < rec.seq
    BY DEF StillFree
  <2>5. ASSUME rec.id \in Ids PROVE FALSE
    <3> DEFINE r == records[rec.id]
    <3>1. IdOf(r.ref, r.seq) = IdOf(rec.ref, rec.seq)
      BY <2>1, <2>3, <2>5 DEF Filed
    <3>2. r.seq = rec.seq /\ r.ref = rec.ref
      BY <2>2, <2>3, <2>5, <3>1 DEF IdOf, PathsDiffer
    <3> QED
      BY <2>2, <2>4, <2>5, <3>2
  <2>6. ASSUME NEW i \in Ids
        PROVE  <<records[i].ref, records[i].seq>> # <<rec.ref, rec.seq>>
    BY <2>2, <2>3, <2>4, <2>6
  <2> QED
    BY <2>4, <2>5, <2>6 DEF Insertable
<1> QED
  BY <1>1, AppendInvariance, PTL
---------------------------------------------------------------------------
(* The archive without a retention window.  A Ref's rows are a chain that    *)
(* only grows at its end, and what a caller was given is a prefix of what    *)
(* the table holds.                                                          *)

\* The table holds what v says: its row, and its log from the start.
Kept(table, v) ==
    /\ v.id \in DOMAIN table
    /\ Version(v) <= Version(table[v.id])
    /\ \A k \in 1 .. Version(v) : table[v.id].transitions[k] = v.transitions[k]

\* What open calls and their callers hold.  A caller about to write holds the
\* row it named, at the version the fence compared.
HoldInv ==
    /\ \A c \in Clients : pc[c] \notin {"keep", "keepApplied"}
    /\ \A c \in Clients : view[c] # None => Kept(records, view[c])
    /\ \A c \in Clients : pc[c] = "events" => tx[c].row.id \in Ids
    /\ \A c \in Clients : pc[c] = "write" =>
          /\ view[c] # None /\ tx[c].rec.id = view[c].id
          /\ Fenced => Version(tx[c].rec) = Version(view[c])

\* Without a window no row goes, and a row changes only by one more event.
LEMMA RowsOnlyGrow ==
    ASSUME Window = 0, IInv, HoldInv, NEW c \in Clients, Step(c)
    PROVE  /\ Ids \subseteq Ids'
           /\ \A i \in Ids :
                 /\ records'[i].ref = records[i].ref /\ records'[i].seq = records[i].seq
                 /\ records'[i].hash = records[i].hash
                 /\ records'[i].prevHash = records[i].prevHash
                 /\ Version(records[i]) <= Version(records'[i])
                 /\ \A k \in 1 .. Version(records[i]) :
                       records'[i].transitions[k] = records[i].transitions[k]
<1>0. \A i \in Ids : records[i] \in RecordSet /\ records[i].id = i
  BY DEF IInv, TypeInv, TypeOK
<1>1. \A i \in Ids : Version(records[i]) \in Nat
  BY <1>0 DEF RecordSet, Version
<1>2. CASE UNCHANGED records
  BY <1>1, <1>2
<1>3. CASE AppendInsert(c) /\ Inserts(c)
  <2>1. \A i \in Ids : i \in Ids' /\ records'[i] = records[i]
    BY <1>3 DEF Inserts, Insertable
  <2> QED
    BY <1>1, <2>1
<1>4. CASE TransitionWrite(c) /\ Updates(c)
  <2> DEFINE rec == tx[c].rec
             new == Applied(rec, tx[c].t)
             e   == EventOf(rec, tx[c].t)
  <2>1. rec \in RecordSet /\ tx[c].t \in RequestSet
    BY <1>4 DEF Updates, Fits, IInv, TypeInv, TypeOK
  <2>2. rec.id \in Ids /\ records[rec.id] = rec
    BY <1>4 DEF IInv, LockInv, LockedRowIsFresh, Updates
  <2>3. /\ new.ref = rec.ref /\ new.seq = rec.seq /\ new.hash = rec.hash
        /\ new.transitions = Append(rec.transitions, e) /\ e \in EventSet
    BY <2>1, AppliedType
  <2>4. new.prevHash = rec.prevHash
    BY <2>1 DEF Applied, RecordSet
  <2>5. rec.transitions \in Seq(EventSet)
    BY <2>1 DEF RecordSet
  <2> HIDE DEF new, e
  <2>6. /\ Version(rec) <= Version(new)
        /\ \A k \in 1 .. Version(rec) : new.transitions[k] = rec.transitions[k]
    BY <2>3, <2>5 DEF Version
  <2>7. /\ Ids' = Ids
        /\ \A i \in Ids : records'[i] = IF i = rec.id THEN new ELSE records[i]
    BY <1>4 DEF Updates, new
  <2>8. ASSUME NEW i \in Ids
        PROVE  /\ records'[i].ref = records[i].ref /\ records'[i].seq = records[i].seq
               /\ records'[i].hash = records[i].hash
               /\ records'[i].prevHash = records[i].prevHash
               /\ Version(records[i]) <= Version(records'[i])
               /\ \A k \in 1 .. Version(records[i]) :
                     records'[i].transitions[k] = records[i].transitions[k]
    <3>1. CASE i = rec.id
      <4>1. records[i] = rec /\ records'[i] = new
        BY <2>2, <2>7, <3>1
      <4> HIDE DEF rec
      <4> QED
        BY <2>3, <2>4, <2>6, <4>1
    <3>2. CASE i # rec.id
      <4>1. records'[i] = records[i]
        BY <2>7, <3>2
      <4> QED
        BY <1>1, <4>1
    <3> QED
      BY <3>1, <3>2
  <2> QED
    BY <2>7, <2>8
<1>5. ~ PruneDelete(c)
  BY DEF HoldInv, PruneDelete
<1>6. AppendInsert(c) => UNCHANGED records \/ Inserts(c)
  BY DEF AppendInsert, Inserts
<1>7. TransitionWrite(c) => UNCHANGED records \/ Updates(c)
  BY DEF TransitionWrite, Updates
<1>8. records' # records => AppendInsert(c) \/ TransitionWrite(c) \/ PruneDelete(c)
  BY Reaches DEF IInv
<1> QED
  BY <1>2, <1>3, <1>4, <1>5, <1>6, <1>7, <1>8

\* So what the table holds it goes on holding.
LEMMA KeptStays ==
    ASSUME Window = 0, IInv, HoldInv, NEW c \in Clients, Step(c),
           NEW v \in RecordSet, Kept(records, v)
    PROVE  Kept(records', v)
<1>1. v.id \in Ids' /\ Version(records[v.id]) <= Version(records'[v.id])
  BY RowsOnlyGrow DEF Kept
<1>2. \A k \in 1 .. Version(records[v.id]) :
         records'[v.id].transitions[k] = records[v.id].transitions[k]
  BY RowsOnlyGrow DEF Kept
<1>3. Version(v) \in Nat /\ Version(records[v.id]) \in Nat
  BY DEF Kept, IInv, TypeInv, TypeOK, RecordSet, Version
<1>4. records'[v.id] \in RecordSet
  BY <1>1, TypeStep DEF IInv, TypeInv, TypeOK, Next
<1>5. Version(records'[v.id]) \in Nat
  BY <1>4 DEF RecordSet, Version
<1>6. Version(v) <= Version(records'[v.id])
  BY <1>1, <1>3, <1>5 DEF Kept
<1>7. \A k \in 1 .. Version(v) : records'[v.id].transitions[k] = v.transitions[k]
  BY <1>2, <1>3 DEF Kept
<1> QED
  BY <1>1, <1>6, <1>7 DEF Kept, Version

\* A row of the table is held by the table.
LEMMA RowIsKept ==
    ASSUME NEW table, NEW i \in DOMAIN table, table[i] \in RecordSet, table[i].id = i
    PROVE  Kept(table, table[i])
<1>1. Version(table[i]) \in Nat
  BY DEF RecordSet, Version
<1> QED
  BY <1>1 DEF Kept

\* Every answer of the store is held by the table it leaves.
LEMMA AnswerIsKept ==
    ASSUME Window = 0, IInv, HoldInv, NEW c \in Clients, Step(c), TypeInv',
           view'[c] # view[c]
    PROVE  view'[c] # None => Kept(records', view'[c])
<1>0. TypeOK /\ view \in [Clients -> RecordSet \union {None}]
  BY DEF IInv, TypeInv, TypeOK
<1>r. /\ \A i \in Ids : records[i] \in RecordSet /\ records[i].id = i
      /\ \A i \in Ids' : records'[i] \in RecordSet /\ records'[i].id = i
  BY <1>0 DEF TypeInv, TypeOK
<1>1. CASE AppendInsert(c)
  <2> DEFINE rec == tx[c].rec
  <2>1. /\ view'[c] = rec /\ rec.id \in Ids' /\ records'[rec.id] = rec
    BY <1>0, <1>1 DEF AppendInsert
  <2> QED
    BY <1>r, <2>1, RowIsKept
<1>2. CASE GetEvents(c)
  <2> DEFINE row == tx[c].row
             v   == [row EXCEPT !.transitions = records[row.id].transitions]
  <2>1. row.id \in Ids /\ row \in RecordSet
    BY <1>0, <1>2 DEF GetEvents, HoldInv, TypeOK, Fits
  <2>2. view'[c] = v /\ UNCHANGED records
    BY <1>0, <1>2, <2>1 DEF GetEvents
  <2>3. v.id = row.id /\ v.transitions = records[row.id].transitions
    BY <2>1 DEF RecordSet
  <2>4. Kept(records, records[row.id]) /\ records[row.id].id = row.id
    BY <1>r, <2>1, RowIsKept
  <2> HIDE DEF v
  <2> QED
    BY <2>2, <2>3, <2>4 DEF Kept, Version
<1>3. CASE TransitionWrite(c)
  <2> DEFINE rec == tx[c].rec
             new == Applied(rec, tx[c].t)
  <2>1. rec \in RecordSet /\ tx[c].t \in RequestSet
    BY <1>0, <1>3 DEF TransitionWrite, Fits, TypeOK
  <2>2. rec.id \in Ids
    BY <1>3 DEF IInv, LockInv, LockedRowIsFresh, TransitionWrite
  <2>3. view'[c] = new /\ records' = [records EXCEPT ![rec.id] = new]
    BY <1>0, <1>3 DEF TransitionWrite
  <2>4. new.id = rec.id
    BY <2>1, AppliedType
  <2> HIDE DEF new
  <2>5. rec.id \in Ids' /\ records'[rec.id] = new
    BY <1>0, <2>2, <2>3 DEF TypeOK
  <2> QED
    BY <1>r, <2>3, <2>5, RowIsKept
<1>4. CASE \E m \in Moves : TransitionLock(c, m)
  <2>1. view[c].id \in Ids /\ view'[c] = records[view[c].id] /\ UNCHANGED records
    BY <1>0, <1>4 DEF TransitionLock
  <2>2. Kept(records, records[view[c].id])
    BY <1>r, <2>1, RowIsKept
  <2> QED
    BY <2>1, <2>2
<1>5. \/ AppendInsert(c) \/ GetEvents(c) \/ TransitionWrite(c)
      \/ \E m \in Moves : TransitionLock(c, m)
  BY Reaches DEF IInv
<1> QED
  BY <1>1, <1>2, <1>3, <1>4, <1>5
\* A step gives an answer to its own caller only.
LEMMA ViewStep ==
    ASSUME TypeInv, NEW c \in Clients, Step(c), NEW d \in Clients \ {c}
    PROVE  view'[d] = view[d]
<1>0. view \in [Clients -> RecordSet \union {None}]
  BY DEF TypeInv, TypeOK
<1>1. CASE UNCHANGED view
  BY <1>1
<1>2. CASE AppendInsert(c) \/ GetEvents(c) \/ TransitionWrite(c)
  BY <1>0, <1>2 DEF AppendInsert, GetEvents, TransitionWrite
<1>3. CASE \E m \in Moves : TransitionLock(c, m)
  BY <1>0, <1>3 DEF TransitionLock
<1> QED
  BY <1>1, <1>2, <1>3, Reaches

\* What calls and callers hold stays in the table.
LEMMA HoldStep ==
    ASSUME Window = 0, IInv, IInv', HoldInv, NEW c \in Clients, Step(c)
    PROVE  HoldInv'
<1>0. TypeInv /\ TypeInv' /\ TypeOK
  BY DEF IInv, TypeInv
<1>1. /\ \A d \in Clients \ {c} : pc'[d] = pc[d] /\ tx'[d] = tx[d]
      /\ \A d \in Clients \ {c} : view'[d] = view[d]
  BY <1>0, CallStep, ViewStep
<1>2. \A d \in Clients : view[d] # None => view[d] \in RecordSet
  BY <1>0 DEF TypeOK
<1>3. ASSUME NEW d \in Clients PROVE pc'[d] \notin {"keep", "keepApplied"}
  BY <1>0, <1>1, Reaches DEF HoldInv
<1>4. ASSUME NEW d \in Clients, view'[d] # None PROVE Kept(records', view'[d])
  <2>1. CASE view'[d] = view[d]
    BY <1>2, <1>4, <2>1, KeptStays DEF HoldInv
  <2>2. CASE view'[d] # view[d]
    <3>1. d = c
      BY <1>1, <2>2
    <3> QED
      BY <1>0, <1>4, <2>2, <3>1, AnswerIsKept
  <2> QED
    BY <2>1, <2>2
<1>5. ASSUME NEW d \in Clients, pc'[d] = "events" PROVE tx'[d].row.id \in Ids'
  <2>1. CASE d = c
    <3>1. GetRow(c)
      BY <1>0, <1>5, <2>1, Reaches
    <3>2. tx[c].id \in Ids /\ tx'[c] = [row |-> records[tx[c].id]] /\ UNCHANGED records
      BY <1>0, <1>5, <2>1, <3>1 DEF GetRow, Goto, Return, TypeOK
    <3>3. records[tx[c].id].id = tx[c].id
      BY <1>0, <3>2 DEF TypeOK
    <3> QED
      BY <2>1, <3>2, <3>3
  <2>2. CASE d # c
    <3>1. tx[d].row.id \in Ids /\ tx'[d] = tx[d]
      BY <1>1, <1>5, <2>2 DEF HoldInv
    <3> QED
      BY <3>1, RowsOnlyGrow
  <2> QED
    BY <2>1, <2>2
<1>6. ASSUME NEW d \in Clients, pc'[d] = "write"
      PROVE  /\ view'[d] # None /\ tx'[d].rec.id = view'[d].id
             /\ Fenced => Version(tx'[d].rec) = Version(view'[d])
  <2>1. CASE d = c
    <3>1. PICK m \in Moves : TransitionLock(c, m)
      BY <1>0, <1>6, <2>1, Reaches
    <3> DEFINE id == view[c].id
    <3>2. /\ view[c] # None /\ id \in Ids /\ Accepts(records[id], Request(c, m))
          /\ tx'[c] = [rec |-> records[id], t |-> Request(c, m)]
          /\ UNCHANGED view
      BY <1>0, <1>6, <2>1, <3>1 DEF TransitionLock, Goto, Return, TypeOK
    <3>3. records[id].id = id
      BY <1>0, <3>2 DEF TypeOK
    <3>4. Fenced => Version(records[id]) = Version(view[c])
      BY <3>2 DEF Accepts, Request
    <3> QED
      BY <2>1, <3>2, <3>3, <3>4
  <2>2. CASE d # c
    BY <1>1, <1>6, <2>2 DEF HoldInv
  <2> QED
    BY <2>1, <2>2
<1> QED
  BY <1>3, <1>4, <1>5, <1>6 DEF HoldInv

\* r continues the chain of its Ref in table: it is the first row, or the row
\* before it is there and r carries its hash.
Links(table, r) ==
    /\ r.seq > 0
    /\ r.seq = 1 => r.prevHash = Nil
    /\ r.seq > 1 => \E j \in DOMAIN table :
          /\ table[j].ref = r.ref /\ table[j].seq = r.seq - 1
          /\ table[j].hash = r.prevHash

\* The rows of a Ref are one chain, and a row about to be inserted is its next
\* link or a link it already has.
ChainInv ==
    /\ \A i, j \in Ids :
          records[i].ref = records[j].ref /\ records[i].seq = records[j].seq => i = j
    /\ \A i \in Ids : Links(records, records[i])
    /\ \A c \in Clients : pc[c] = "insert" => Links(records, tx[c].rec)

\* A link stays one: the row before it does not go or change its hash.
LEMMA LinksStay ==
    ASSUME Window = 0, IInv, HoldInv, NEW c \in Clients, Step(c),
           NEW r, Links(records, r)
    PROVE  Links(records', r)
<1>1. ASSUME r.seq > 1
      PROVE  \E j \in Ids' : /\ records'[j].ref = r.ref /\ records'[j].seq = r.seq - 1
                             /\ records'[j].hash = r.prevHash
  <2>1. PICK j \in Ids : /\ records[j].ref = r.ref /\ records[j].seq = r.seq - 1
                         /\ records[j].hash = r.prevHash
    BY <1>1 DEF Links
  <2>2. /\ j \in Ids' /\ records'[j].ref = records[j].ref
        /\ records'[j].seq = records[j].seq /\ records'[j].hash = records[j].hash
    BY RowsOnlyGrow
  <2> QED
    BY <2>1, <2>2
<1> QED
  BY <1>1 DEF Links

\* The chain grows at its end only.
LEMMA ChainStep ==
    ASSUME Window = 0, IInv, HoldInv, ChainInv, NEW c \in Clients, Step(c)
    PROVE  ChainInv'
<1>0. TypeInv /\ TypeOK /\ \A i \in Ids : records[i].seq \in Nat
  BY DEF IInv, TypeInv, TypeOK, RecordSet
<1>1. \A d \in Clients \ {c} : pc'[d] = pc[d] /\ tx'[d] = tx[d]
  BY <1>0, CallStep
<1>2. /\ Ids \subseteq Ids'
      /\ \A i \in Ids : /\ records'[i].ref = records[i].ref
                        /\ records'[i].seq = records[i].seq
                        /\ records'[i].prevHash = records[i].prevHash
  BY RowsOnlyGrow
<1>3. \/ Ids' = Ids
      \/ /\ Ids' = Ids \union {tx[c].rec.id} /\ records'[tx[c].rec.id] = tx[c].rec
         /\ pc[c] = "insert" /\ Insertable(tx[c].rec)
  <2>1. CASE Inserts(c)
    BY <2>1 DEF Inserts
  <2>2. CASE UNCHANGED records \/ Updates(c)
    BY <2>2 DEF Updates
  <2>3. CASE Deletes(c)
    BY <1>2, <2>3 DEF Deletes
  <2> QED
    BY <2>1, <2>2, <2>3, RowStep
<1>4. ASSUME NEW i \in Ids', NEW j \in Ids',
             records'[i].ref = records'[j].ref, records'[i].seq = records'[j].seq
      PROVE  i = j
  <2>1. CASE Ids' = Ids
    BY <1>2, <1>4, <2>1 DEF ChainInv
  <2>2. CASE /\ Ids' = Ids \union {tx[c].rec.id} /\ records'[tx[c].rec.id] = tx[c].rec
             /\ pc[c] = "insert" /\ Insertable(tx[c].rec)
    <3>1. \A k \in Ids : ~ (/\ records[k].ref = tx[c].rec.ref
                            /\ records[k].seq = tx[c].rec.seq)
      BY <2>2 DEF Insertable
    <3>2. CASE i \in Ids /\ j \in Ids
      BY <1>2, <1>4, <3>2 DEF ChainInv
    <3>3. CASE i \notin Ids /\ j \in Ids
      BY <1>2, <1>4, <2>2, <3>1, <3>3
    <3>4. CASE i \in Ids /\ j \notin Ids
      BY <1>2, <1>4, <2>2, <3>1, <3>4
    <3>5. CASE i \notin Ids /\ j \notin Ids
      BY <2>2, <3>5
    <3> QED
      BY <3>2, <3>3, <3>4, <3>5
  <2> QED
    BY <1>3, <2>1, <2>2
<1>5. ASSUME NEW i \in Ids' PROVE Links(records', records'[i])
  <2>1. CASE i \in Ids
    <3>1. Links(records', records[i])
      BY <2>1, LinksStay DEF ChainInv
    <3> QED
      BY <1>2, <2>1, <3>1 DEF Links
  <2>2. CASE i \notin Ids
    <3>1. records'[i] = tx[c].rec /\ Links(records, tx[c].rec)
      BY <1>3, <2>2 DEF ChainInv
    <3>2. Links(records', tx[c].rec)
      BY <3>1, LinksStay
    <3> QED
      BY <3>1, <3>2
  <2> QED
    BY <2>1, <2>2
<1>6. ASSUME NEW d \in Clients, pc'[d] = "insert" PROVE Links(records', tx'[d].rec)
  <2>1. CASE d = c
    <3>1. AppendHead(c)
      BY <1>0, <1>6, <2>1, Reaches
    <3> DEFINE rec == tx'[c].rec
    <3>2. CASE /\ Rows(tx[c].ref) = {} /\ rec.seq = 1 /\ rec.prevHash = Nil
      BY <2>1, <3>2 DEF Links
    <3>3. CASE \E i \in Ids : /\ records[i].ref = tx[c].ref
                              /\ rec.seq = records[i].seq + 1
                              /\ rec.prevHash = records[i].hash
      <4>1. PICK i \in Ids : /\ records[i].ref = tx[c].ref
                             /\ rec.seq = records[i].seq + 1
                             /\ rec.prevHash = records[i].hash
        BY <3>3
      <4>2. rec.ref = tx[c].ref /\ UNCHANGED records
        BY <1>0, <3>1, HeadReads
      <4>3. records[i].seq > 0 /\ records[i].seq \in Nat
        BY <1>0 DEF ChainInv, Links
      <4>4. rec.seq > 0 /\ rec.seq # 1 /\ records[i].seq = rec.seq - 1
        BY <4>1, <4>3
      <4> HIDE DEF rec
      <4>5. Links(records, rec)
        BY <4>1, <4>2, <4>4 DEF Links
      <4> QED
        BY <2>1, <4>2, <4>5 DEF rec
    <3> QED
      BY <1>0, <3>1, <3>2, <3>3, HeadReads
  <2>2. CASE d # c
    <3>1. Links(records, tx[d].rec) /\ tx'[d] = tx[d]
      BY <1>1, <1>6, <2>2 DEF ChainInv
    <3> QED
      BY <3>1, LinksStay
  <2> QED
    BY <2>1, <2>2
<1> QED
  BY <1>4, <1>5, <1>6 DEF ChainInv

\* Without a window the rows are a chain and nothing handed out goes missing.
LEMMA ArchiveInvariance ==
    ASSUME Window = 0
    PROVE  Spec => [](IInv /\ HoldInv /\ ChainInv)
<1> DEFINE Inv == IInv /\ HoldInv /\ ChainInv
<1>1. Init => Inv
  <2>1. ASSUME Init PROVE HoldInv /\ ChainInv
    BY <2>1 DEF Init, HoldInv, ChainInv
  <2> QED
    BY <2>1, InvInit
<1>2. Inv /\ [Next]_vars => Inv'
  <2> SUFFICES ASSUME Inv, [Next]_vars PROVE HoldInv' /\ ChainInv'
    BY InvStep
  <2>1. CASE Tick \/ UNCHANGED vars
    <3>1. UNCHANGED << records, pc, tx, view >>
      BY <2>1 DEF Tick, vars
    <3> QED
      BY <3>1 DEF HoldInv, ChainInv, Kept, Version, Links
  <2>2. ASSUME NEW c \in Clients, Step(c) PROVE HoldInv' /\ ChainInv'
    <3>1. IInv'
      BY InvStep
    <3> QED
      BY <2>2, <3>1, HoldStep, ChainStep
  <2> QED
    BY <2>1, <2>2 DEF Next
<1> QED
  BY <1>1, <1>2, PTL DEF Spec
\* Two logs that agree up to the length of the first: the first is a prefix.
LEMMA PrefixIsSubSeq ==
    ASSUME NEW S, NEW s \in Seq(S), NEW t \in Seq(S), Len(s) <= Len(t),
           \A k \in 1 .. Len(s) : t[k] = s[k]
    PROVE  SubSeq(t, 1, Len(s)) = s
<1> DEFINE u == SubSeq(t, 1, Len(s))
<1>1. Len(s) \in Nat /\ Len(t) \in Nat
  OBVIOUS
<1>2. /\ u \in Seq(S) /\ Len(u) = Len(s)
      /\ \A k \in 1 .. Len(s) : u[k] = t[k]
  BY <1>1, SubSeqProperties
<1> HIDE DEF u
<1>3. \A k \in 1 .. Len(u) : u[k] = s[k]
  BY <1>2
<1> QED
  BY <1>2, <1>3, SeqEqual DEF u

\* Without a window a fenced transition extends exactly the event log its
\* caller had read: nobody's event comes between the read and the write.
THEOREM FenceIsExact ==
    ASSUME Window = 0 PROVE Spec => FencedWriteExtendsWhatWasRead
<1>1. ASSUME IInv, HoldInv, NEW c \in Clients, pc[c] = "write", Fenced
      PROVE  records[tx[c].rec.id].transitions = view[c].transitions
  <2> DEFINE r == tx[c].rec
             v == view[c]
  <2>1. r.id \in Ids /\ records[r.id] = r /\ r \in RecordSet
    BY <1>1 DEF IInv, LockInv, LockedRowIsFresh, TypeInv, TypeOK
  <2>2. v # None /\ r.id = v.id /\ Version(r) = Version(v) /\ Kept(records, v)
    BY <1>1 DEF HoldInv
  <2>3. v \in RecordSet
    BY <1>1, <2>2 DEF IInv, TypeInv, TypeOK
  <2>4. r.transitions \in Seq(EventSet) /\ v.transitions \in Seq(EventSet)
    BY <2>1, <2>3 DEF RecordSet
  <2>5. /\ Len(r.transitions) = Len(v.transitions)
        /\ \A k \in 1 .. Len(v.transitions) : r.transitions[k] = v.transitions[k]
    BY <2>1, <2>2 DEF Kept, Version
  <2> HIDE DEF r, v
  <2>6. r.transitions = v.transitions
    BY <2>4, <2>5, SeqEqual
  <2> QED
    BY <2>1, <2>6 DEF r, v
<1>2. IInv /\ HoldInv /\ ChainInv =>
        [\A c \in Clients : Wrote(c) /\ Fenced =>
            records[tx[c].rec.id].transitions = view[c].transitions]_vars
  BY <1>1 DEF Wrote
<1> QED
  BY <1>2, ArchiveInvariance, PTL DEF FencedWriteExtendsWhatWasRead

\* A chain of rows is numbered from 1 to as many as there are.
LEMMA ChainIsGapless ==
    ASSUME IInv, ChainInv, NEW ref \in Refs
    PROVE  {r.seq : r \in Rows(ref)} = 1 .. Cardinality(Rows(ref))
<1> DEFINE S == {r.seq : r \in Rows(ref)}
           n == Newest(Rows(ref)).seq
<1>0. /\ \A r \in Rows(ref) : r.seq \in Nat /\ r.seq > 0
      /\ \A i \in Ids : records[i].seq \in Nat
  BY DEF IInv, TypeInv, TypeOK, RecordSet, ChainInv, Links, Rows
<1>1. CASE Rows(ref) = {}
  <2>1. S = {} /\ Cardinality(Rows(ref)) = 0
    BY <1>1, FS_EmptySet
  <2>2. 1 .. 0 = {}
    OBVIOUS
  <2> QED
    BY <2>1, <2>2
<1>2. CASE Rows(ref) # {}
  <2>1. Rows(ref) \subseteq {records[i] : i \in Ids}
    BY DEF Rows
  <2>2. Newest(Rows(ref)) \in Rows(ref) /\ \A q \in Rows(ref) : q.seq <= n
    BY <1>2, <2>1, NewestIsARow DEF IInv
  <2>3. n \in Nat /\ n > 0 /\ n \in S
    BY <1>0, <2>2
  <2> HIDE DEF n
  <2>4. S \subseteq 1 .. n
    BY <1>0, <2>2, <2>3
  <2>5. ASSUME NEW s \in S, s # 1 PROVE s - 1 \in S
    <3>1. PICK i \in Ids : records[i].ref = ref /\ records[i].seq = s
      BY DEF Rows
    <3>2. s \in Nat /\ s > 1
      BY <2>4, <2>5
    <3>3. PICK j \in Ids : records[j].ref = records[i].ref /\ records[j].seq = s - 1
      BY <3>1, <3>2 DEF ChainInv, Links
    <3>4. records[j] \in Rows(ref)
      BY <3>1, <3>3 DEF Rows
    <3> QED
      BY <3>3, <3>4
  <2>6. 1 .. n \subseteq S
    <3> DEFINE T == (1 .. n) \ S
    <3>1. SUFFICES ASSUME T # {} PROVE FALSE
      OBVIOUS
    <3>2. T \in SUBSET Nat /\ \A t \in T : t <= n
      OBVIOUS
    <3> HIDE DEF S
    <3>3. PICK t \in T : \A u \in T : u <= t
      <4> HIDE DEF T
      <4> QED
        BY <2>3, <3>1, <3>2, BoundedHasMax
    <3>4. t \in 1 .. n /\ t \notin S /\ t # n
      BY <2>3
    <3>5. t + 1 \in 1 .. n /\ t + 1 \notin T
      BY <2>3, <3>3, <3>4
    <3>6. t + 1 \in S /\ t + 1 # 1
      BY <3>4, <3>5
    <3>7. (t + 1) - 1 \in S
      BY <2>5, <3>6
    <3> QED
      BY <3>4, <3>7
  <2>7. S = 1 .. n
    BY <2>4, <2>6
  <2>8. Cardinality(Rows(ref)) = n
    <3> DEFINE f == [r \in Rows(ref) |-> r.seq]
    <3>1. f \in [Rows(ref) -> 1 .. n]
      BY <2>7
    <3>2. \A a, b \in Rows(ref) : f[a] = f[b] => a = b
      BY DEF Rows, ChainInv
    <3>3. \A t \in 1 .. n : \E r \in Rows(ref) : f[r] = t
      BY <2>7
    <3> HIDE DEF f
    <3>4. f \in Injection(Rows(ref), 1 .. n) /\ f \in Surjection(Rows(ref), 1 .. n)
      BY <3>1, <3>2, <3>3, Fun_IsInj, Fun_IsSurj
    <3>5. IsFiniteSet(1 .. n) /\ Cardinality(1 .. n) = n
      BY <2>3, FS_Interval
    <3> QED
      BY <3>4, <3>5, FS_Injection
  <2> QED
    BY <2>7, <2>8
<1> QED
  BY <1>1, <1>2

\* Without a window the numbers of a Ref are 1 to n, whatever appends were
\* refused, cancelled or lost their answer, and every record the store returned
\* is still there with its log grown at the end only.
THEOREM NothingGoesMissing ==
    ASSUME Window = 0 PROVE Spec => []ArchiveIsWhole
<1>1. ASSUME IInv, ChainInv PROVE SeqIsGapless
  BY <1>1, ChainIsGapless DEF SeqIsGapless
<1>2. ASSUME IInv, HoldInv PROVE ReturnedRowsPersist
  <2> SUFFICES ASSUME NEW c \in Clients, view[c] # None
               PROVE  /\ view[c].id \in Ids
                      /\ Version(view[c]) <= Len(records[view[c].id].transitions)
                      /\ SubSeq(records[view[c].id].transitions, 1, Version(view[c]))
                           = view[c].transitions
    BY DEF ReturnedRowsPersist
  <2> DEFINE s == view[c].transitions
             t == records[view[c].id].transitions
  <2>1. Kept(records, view[c])
    BY <1>2 DEF HoldInv
  <2>2. view[c] \in RecordSet /\ view[c].id \in Ids /\ records[view[c].id] \in RecordSet
    BY <1>2, <2>1 DEF Kept, IInv, TypeInv, TypeOK
  <2>3. s \in Seq(EventSet) /\ t \in Seq(EventSet)
    BY <2>2 DEF RecordSet
  <2>4. Len(s) <= Len(t) /\ \A k \in 1 .. Len(s) : t[k] = s[k]
    BY <2>1 DEF Kept, Version
  <2> HIDE DEF s, t
  <2>5. SubSeq(t, 1, Len(s)) = s
    BY <2>3, <2>4, PrefixIsSubSeq
  <2> QED
    BY <2>2, <2>4, <2>5 DEF s, t, Version
<1>3. IInv /\ HoldInv /\ ChainInv => ArchiveIsWhole
  BY <1>1, <1>2 DEF ArchiveIsWhole
<1> QED
  BY <1>3, ArchiveInvariance, PTL

---------------------------------------------------------------------------
(* Verify over a whole Ref.  It recomputes the digest of a row from the      *)
(* row's present image and admission outcome, so it needs moves that merge   *)
(* neither, as the git writer's and the sweep's do.                          *)

MovesKeep == \A m \in Moves : m.image = "keep" /\ m.admission = "keep"

\* Every row carries the digest of itself after the row before it, and no
\* transition under way is about to change what the digest covers.
HashInv ==
    /\ \A i \in Ids : records[i].hash = ChainRecord(records[i].prevHash, records[i])
    /\ \A c \in Clients : pc[c] = "insert" =>
          tx[c].rec.hash = ChainRecord(tx[c].rec.prevHash, tx[c].rec)
    /\ \A c \in Clients : pc[c] = "write" =>
          tx[c].t.image = "keep" /\ tx[c].t.admission = "keep"

\* Digests are written once and stay true.
LEMMA HashStep ==
    ASSUME MovesKeep, IInv, HashInv, NEW c \in Clients, Step(c)
    PROVE  HashInv'
<1>0. TypeInv /\ TypeOK
  BY DEF IInv, TypeInv
<1>1. \A d \in Clients \ {c} : pc'[d] = pc[d] /\ tx'[d] = tx[d]
  BY <1>0, CallStep
<1>2. ASSUME NEW i \in Ids'
      PROVE  records'[i].hash = ChainRecord(records'[i].prevHash, records'[i])
  <2>1. CASE UNCHANGED records
    BY <2>1 DEF HashInv
  <2>2. CASE Inserts(c)
    <3>1. records'[i] = tx[c].rec \/ (i \in Ids /\ records'[i] = records[i])
      BY <2>2 DEF Inserts
    <3>2. tx[c].rec.hash = ChainRecord(tx[c].rec.prevHash, tx[c].rec)
      BY <2>2 DEF Inserts, HashInv
    <3> QED
      BY <3>1, <3>2 DEF HashInv
  <2>3. CASE Updates(c)
    <3> DEFINE rec == tx[c].rec
               new == Applied(rec, tx[c].t)
    <3>1. rec \in RecordSet /\ rec.id \in Ids /\ records[rec.id] = rec
      BY <1>0, <2>3 DEF Updates, Fits, TypeOK, IInv, LockInv, LockedRowIsFresh
    <3>2. tx[c].t.image = "keep" /\ tx[c].t.admission = "keep"
      BY <2>3 DEF Updates, HashInv
    <3>3. /\ new.key = rec.key /\ new.id = rec.id /\ new.seq = rec.seq
          /\ new.ref = rec.ref /\ new.image = rec.image
          /\ new.admission = rec.admission /\ new.initialState = rec.initialState
          /\ new.createdAt = rec.createdAt /\ new.prevHash = rec.prevHash
          /\ new.hash = rec.hash
      BY <3>1, <3>2 DEF Applied, RecordSet
    <3>4. rec.hash = ChainRecord(rec.prevHash, rec)
      BY <3>1 DEF HashInv
    <3> HIDE DEF new
    <3>5. new.hash = ChainRecord(new.prevHash, new)
      BY <3>3, <3>4 DEF ChainRecord, ChainedRecord
    <3>6. i \in Ids /\ records'[i] = IF i = rec.id THEN new ELSE records[i]
      BY <2>3 DEF Updates, new
    <3> QED
      BY <3>5, <3>6 DEF HashInv
  <2>4. CASE Deletes(c)
    BY <2>4 DEF Deletes, HashInv
  <2> QED
    BY <2>1, <2>2, <2>3, <2>4, RowStep
<1>3. ASSUME NEW d \in Clients, pc'[d] = "insert"
      PROVE  tx'[d].rec.hash = ChainRecord(tx'[d].rec.prevHash, tx'[d].rec)
  <2>1. CASE d = c
    <3>1. AppendHead(c)
      BY <1>0, <1>3, <2>1, Reaches
    <3> QED
      BY <1>0, <2>1, <3>1, HeadReads
  <2>2. CASE d # c
    BY <1>1, <1>3, <2>2 DEF HashInv
  <2> QED
    BY <2>1, <2>2
<1>4. ASSUME NEW d \in Clients, pc'[d] = "write"
      PROVE  tx'[d].t.image = "keep" /\ tx'[d].t.admission = "keep"
  <2>1. CASE d = c
    <3>1. PICK m \in Moves : TransitionLock(c, m)
      BY <1>0, <1>4, <2>1, Reaches
    <3>2. tx'[c].t = Request(c, m)
      BY <1>0, <1>4, <2>1, <3>1 DEF TransitionLock, Goto, Return, TypeOK
    <3> QED
      BY <2>1, <3>2 DEF Request, MovesKeep
  <2>2. CASE d # c
    BY <1>1, <1>4, <2>2 DEF HashInv
  <2> QED
    BY <2>1, <2>2
<1> QED
  BY <1>2, <1>3, <1>4 DEF HashInv

\* A chain of rows with their own digests verifies.
LEMMA ChainOfRowsVerifies ==
    ASSUME IInv, ChainInv, HashInv, NEW ref \in Refs
    PROVE  VerifyHolds(Rows(ref))
<1> SUFFICES ASSUME NEW i \in Ids, records[i].ref = ref
             PROVE  LET r     == records[i]
                        older == {q \in Rows(ref) : q.seq < r.seq}
                        prev  == IF older = {} THEN Nil
                                 ELSE (CHOOSE q \in older :
                                          \A p \in older : p.seq <= q.seq).hash
                    IN  r.hash = ChainRecord(prev, r) /\ SubChainHolds(r)
  BY DEF VerifyHolds, Rows
<1> DEFINE r     == records[i]
           older == {q \in Rows(ref) : q.seq < r.seq}
           top   == CHOOSE q \in older : \A p \in older : p.seq <= q.seq
           prev  == IF older = {} THEN Nil ELSE top.hash
<1>1. \A j \in Ids : records[j].seq \in Nat /\ records[j].seq > 0
  BY DEF IInv, TypeInv, TypeOK, RecordSet, ChainInv, Links
<1>2. SubChainHolds(r)
  BY DEF IInv, RowInv, SubChainsHold
<1>3. r.prevHash = prev
  <2>1. CASE r.seq = 1
    <3>1. older = {}
      BY <1>1, <2>1 DEF Rows
    <3>2. r.prevHash = Nil
      BY <2>1 DEF ChainInv, Links
    <3> QED
      BY <3>1, <3>2
  <2>2. CASE r.seq > 1
    <3>1. PICK j \in Ids : /\ records[j].ref = ref /\ records[j].seq = r.seq - 1
                           /\ records[j].hash = r.prevHash
      BY <2>2 DEF ChainInv, Links
    <3>2. records[j] \in older
      BY <1>1, <3>1 DEF Rows
    <3>3. \A p \in older : p.seq \in Nat /\ p.seq <= records[j].seq
      BY <1>1, <3>1 DEF Rows
    <3>4. top \in older /\ \A p \in older : p.seq <= top.seq
      <4>1. \E q \in older : \A p \in older : p.seq <= q.seq
        BY <3>2, <3>3
      <4> HIDE DEF older
      <4> QED
        BY <4>1
    <3>5. PICK k \in Ids : top = records[k] /\ records[k].ref = ref
      BY <3>4 DEF Rows
    <3> HIDE DEF top, older, r
    <3>6. records[k].seq = records[j].seq
      BY <1>1, <3>2, <3>3, <3>4, <3>5
    <3>7. k = j
      BY <3>1, <3>5, <3>6 DEF ChainInv
    <3> QED
      BY <3>1, <3>2, <3>5, <3>7
  <2> QED
    BY <1>1, <2>1, <2>2
<1>4. r.hash = ChainRecord(r.prevHash, r)
  BY DEF HashInv
<1> QED
  BY <1>2, <1>3, <1>4

\* Without a window, and with moves that leave image and admission outcome
\* alone, Verify over a whole Ref reports no break at any moment.
THEOREM WholeRefsVerify ==
    ASSUME Window = 0, MovesKeep PROVE Spec => []ChainVerifies
<1> DEFINE Inv == IInv /\ HoldInv /\ ChainInv /\ HashInv
<1>1. Init => HashInv
  BY DEF Init, HashInv
<1>2. IInv /\ HashInv /\ [Next]_vars => HashInv'
  <2> SUFFICES ASSUME IInv, HashInv, [Next]_vars PROVE HashInv'
    OBVIOUS
  <2>1. CASE Tick \/ UNCHANGED vars
    <3>1. UNCHANGED << records, pc, tx >>
      BY <2>1 DEF Tick, vars
    <3> QED
      BY <3>1 DEF HashInv, ChainRecord, ChainedRecord, Link
  <2>2. ASSUME NEW c \in Clients, Step(c) PROVE HashInv'
    BY <2>2, HashStep
  <2> QED
    BY <2>1, <2>2 DEF Next
<1>3. Spec => []HashInv
  BY <1>1, <1>2, Invariance, PTL DEF Spec
<1>4. IInv /\ HoldInv /\ ChainInv /\ HashInv => ChainVerifies
  BY ChainOfRowsVerifies DEF ChainVerifies
<1> QED
  BY <1>3, <1>4, ArchiveInvariance, PTL
=============================================================================
