-------------------------- MODULE AuditChainProofs --------------------------
(***************************************************************************)
(* Proofs about AuditChain, for any number of processes, threads and       *)
(* connections: the types; of one process, that no two entries are chained *)
(* to the same one whatever its threads interleave and whatever fails; of  *)
(* processes whose threads share no connection, that the committed chain   *)
(* verifies at any time.                                                   *)
(***************************************************************************)
EXTENDS AuditChain, WellFoundedInduction, TLAPS

USE TopologyAssumption, FaultAssumption, ValueAssumption

-----------------------------------------------------------------------------
(* The last of a set of ids *)

LEMMA LargestExists ==
    ASSUME NEW n \in Nat, NEW ids \in SUBSET (1..n), ids # {}
    PROVE  \E i \in ids : \A j \in ids : j <= i
<1> DEFINE gap == {n - i : i \in ids}
<1>1. gap \subseteq Nat
  OBVIOUS
<1>2. gap # {}
  <2>1. PICK i \in ids : TRUE
    OBVIOUS
  <2>2. n - i \in gap
    BY <2>1
  <2> QED BY <2>2
<1>3. \E x \in gap : \A y \in gap : ~(<<y, x>> \in OpToRel(<, Nat))
  BY <1>1, <1>2, NatLessThanWellFounded, WFMin
<1>4. PICK x \in gap : \A y \in gap : ~(<<y, x>> \in OpToRel(<, Nat))
  BY <1>3
<1>5. \A y \in gap : ~(y < x)
  BY <1>1, <1>4 DEF OpToRel
<1>6. PICK i \in ids : x = n - i
  OBVIOUS
<1>7. \A j \in ids : ~(n - j < n - i)
  BY <1>5, <1>6
<1> QED BY <1>7

\* Latest() is 0 for no ids, else the largest.
LEMMA LatestIsLargest ==
    ASSUME NEW n \in Nat, NEW ids \in SUBSET (1..n)
    PROVE  /\ Latest(ids) \in 0..n
           /\ Latest(ids) = 0 => ids = {}
           /\ Latest(ids) # 0 => Latest(ids) \in ids
           /\ \A j \in ids : j <= Latest(ids)
<1>1. CASE ids = {}
  BY <1>1 DEF Latest
<1>2. CASE ids # {}
  <2>1. \E i \in ids : \A j \in ids : j <= i
    BY <1>2, LargestExists
  <2>2. Latest(ids) \in ids /\ \A j \in ids : j <= Latest(ids)
    BY <1>2, <2>1 DEF Latest
  <2>3. ids \subseteq 1..n /\ 0 \notin 1..n /\ 1..n \subseteq 0..n
    OBVIOUS
  <2>4. Latest(ids) \in 0..n /\ Latest(ids) # 0
    BY <2>2, <2>3
  <2> QED BY <2>2, <2>4
<1> QED BY <1>1, <1>2

\* k is what an entry with id n is to be chained to: the last hashed row before.
LinksToLatest(rows, n, k) ==
    /\ k \in Nat /\ k < n
    /\ k # 0 => Hashed(rows, k)
    /\ \A j \in 1..(n - 1) : Hashed(rows, j) => j <= k

LEMMA PreviousHashIsLatest ==
    ASSUME NEW rows \in Seq(RowType), NEW n \in Nat \ {0}
    PROVE  LinksToLatest(rows, n, PreviousHash(rows, n))
<1> DEFINE ids == {i \in 1..(n - 1) : Hashed(rows, i)}
<1>1. n - 1 \in Nat /\ ids \in SUBSET (1..(n - 1))
  OBVIOUS
<1> HIDE DEF ids
<1>2. /\ Latest(ids) \in 0..(n - 1)
      /\ Latest(ids) # 0 => Latest(ids) \in ids
      /\ \A j \in ids : j <= Latest(ids)
  BY <1>1, LatestIsLargest
<1>3. PreviousHash(rows, n) = Latest(ids)
  BY DEF ids, PreviousHash
<1> QED BY <1>2, <1>3 DEF LinksToLatest, ids

-----------------------------------------------------------------------------
(* Types *)

LEMMA PreviousHashIsId ==
    ASSUME NEW rows \in Seq(RowType), NEW n \in Nat
    PROVE  PreviousHash(rows, n) \in Nat
<1>1. CASE n = 0
  <2>1. {i \in 1..(n - 1) : Hashed(rows, i)} = {}
    BY <1>1
  <2> QED BY <2>1 DEF PreviousHash, Latest
<1>2. CASE n # 0
  BY <1>2, PreviousHashIsLatest DEF LinksToLatest
<1> QED BY <1>1, <1>2

\* A new row, a new hash and a new setting keep the database well formed.
LEMMA DatabaseUpdates ==
    ASSUME NEW db \in Database, NEW g \in BOOLEAN, NEW n \in Nat, NEW k \in Nat
    PROVE  /\ [db EXCEPT !.rows = Append(@, Row(Null, g))] \in Database
           /\ [db EXCEPT !.rows[n].prev = k] \in Database
           /\ [db EXCEPT !.start = k] \in Database
<1>1. db.rows \in Seq(RowType) /\ db.start \in Nat
  BY DEF Database
<1>2. Append(db.rows, Row(Null, g)) \in Seq(RowType)
  BY <1>1 DEF Row, RowType
<1>3. [db.rows EXCEPT ![n].prev = k] \in Seq(RowType)
  <2>1. db.rows \in [1..Len(db.rows) -> RowType] /\ Len(db.rows) \in Nat
    BY <1>1
  <2>2. n \in 1..Len(db.rows) => [db.rows[n] EXCEPT !.prev = k] \in RowType
    BY <2>1 DEF RowType
  <2>3. [db.rows EXCEPT ![n] = [db.rows[n] EXCEPT !.prev = k]] \in [1..Len(db.rows) -> RowType]
    BY <2>1, <2>2
  <2>4. [db.rows EXCEPT ![n].prev = k] = [db.rows EXCEPT ![n] = [db.rows[n] EXCEPT !.prev = k]]
    BY <2>1
  <2>5. \A f \in [1..Len(db.rows) -> RowType] : f \in Seq(RowType)
    BY <2>1
  <2> QED BY <2>3, <2>4, <2>5
<1>4. [db EXCEPT !.rows[n].prev = k] = [db EXCEPT !.rows = [db.rows EXCEPT ![n].prev = k]]
  BY DEF Database
<1> QED BY <1>1, <1>2, <1>3, <1>4 DEF Database

LEMMA TypeInit == Init => TypeOK
<1> SUFFICES ASSUME Init PROVE TypeOK
  OBVIOUS
<1>1. PICK older \in 0..1 :
        durable = [rows |-> [i \in 1..(older + (IF Chained THEN 1 ELSE 0)) |->
                                IF i <= older THEN Row(Null, FALSE) ELSE Row(0, TRUE)],
                   start |-> IF Chained THEN older + 1 ELSE 0]
  BY DEF Init
<1> DEFINE n == older + (IF Chained THEN 1 ELSE 0)
<1>2. n \in Nat
  OBVIOUS
<1> HIDE DEF n
<1>3. [i \in 1..n |-> IF i <= older THEN Row(Null, FALSE) ELSE Row(0, TRUE)] \in Seq(RowType)
  BY <1>2 DEF Row, RowType
<1>4. durable \in Database
  BY <1>1, <1>3 DEF Database, n
<1> QED BY <1>4 DEF Init, TypeOK, Steps

LEMMA TypeStep == TypeOK /\ [Next]_vars => TypeOK'
<1> SUFFICES ASSUME TypeOK, [Next]_vars PROVE TypeOK'
  OBVIOUS
<1> USE DEF TypeOK, Steps, Goto, View, Commit, Rollback, Row
<1>1. ASSUME NEW t \in Threads, Enter(t) PROVE TypeOK'
  BY <1>1 DEF Enter
<1>2. ASSUME NEW t \in Threads, Begin(t) PROVE TypeOK'
  BY <1>2 DEF Begin
<1>3. ASSUME NEW t \in Threads, Insert(t) PROVE TypeOK'
  <2>1. live' \in Database
    BY <1>3, DatabaseUpdates DEF Insert
  <2>2. mine' \in [Threads -> Nat]
    BY <1>3 DEF Insert, Database
  <2> QED BY <1>3, <2>1, <2>2 DEF Insert
<1>4. ASSUME NEW t \in Threads, Link(t) PROVE TypeOK'
  <2>1. PreviousHash(View(ConnOf[t]).rows, mine[t]) \in Nat
    BY PreviousHashIsId DEF Database
  <2> QED BY <1>4, <2>1 DEF Link
<1>5. ASSUME NEW t \in Threads, Update(t) PROVE TypeOK'
  <2>1. live' \in Database
    <3> DEFINE db == View(ConnOf[t])
               n == mine[t]
               k == link[t]
    <3>1. db \in Database /\ n \in Nat /\ k \in Nat
      OBVIOUS
    <3>2. live' = [db EXCEPT !.rows[n].prev = k]
      BY <1>5 DEF Update, OwnId
    <3> HIDE DEF db, n, k
    <3>3. [db EXCEPT !.rows[n].prev = k] \in Database
      BY <3>1, DatabaseUpdates
    <3> QED BY <3>2, <3>3
  <2> QED BY <1>5, <2>1 DEF Update
<1>6. ASSUME NEW t \in Threads, Finish(t) PROVE TypeOK'
  BY <1>6 DEF Finish
<1>7. ASSUME NEW t \in Threads, Fail(t) PROVE TypeOK'
  BY <1>7 DEF Fail
<1>8. ASSUME NEW t \in Threads, Mark(t) PROVE TypeOK'
  <2>1. live' \in Database
    BY <1>8, DatabaseUpdates DEF Mark
  <2> QED BY <1>8, <2>1 DEF Mark
<1>9. ASSUME NEW t \in Threads, Marked(t) PROVE TypeOK'
  BY <1>9 DEF Marked
<1>10. ASSUME NEW t \in Threads, Execute(t) PROVE TypeOK'
  BY <1>10 DEF Execute
<1>11. ASSUME NEW t \in Threads, ExecuteCommit(t) PROVE TypeOK'
  BY <1>11 DEF ExecuteCommit
<1>12. ASSUME NEW p \in Procs, StartProc(p) PROVE TypeOK'
  BY <1>12 DEF StartProc
<1>13. ASSUME NEW p \in Procs, FoundChain(p) PROVE TypeOK'
  BY <1>13 DEF FoundChain
<1>14. ASSUME NEW p \in Procs, Crash(p) PROVE TypeOK'
  BY <1>14 DEF Crash
<1>15. CASE UNCHANGED vars
  BY <1>15 DEF vars
<1> QED BY <1>1, <1>2, <1>3, <1>4, <1>5, <1>6, <1>7, <1>8, <1>9, <1>10, <1>11, <1>12,
           <1>13, <1>14, <1>15 DEF Next, Step

\* The variables keep their types.
THEOREM TypeCorrect == Spec => []TypeOK
BY TypeInit, TypeStep, PTL DEF Spec
-----------------------------------------------------------------------------
(* One process: no fork *)

OneProcess == \A p, q \in Procs : p = q

Appending(t) == pc[t] \in {"begin", "insert", "link", "update", "commit"}

\* Every entry with a hash is chained to the last hashed one before it.
Strict(rows) == \A i \in 1..Len(rows) : Hashed(rows, i) => LinksToLatest(rows, i, rows[i].prev)

\* append_entry() runs in one thread at a time.
MutexHeld == \A t \in Threads : Appending(t) <=> mutex[ProcOf[t]] = t

\* A transaction that has touched audit_log is the appending thread's.
LiveKnown ==
    /\ writer = None => live = durable
    /\ writer # None => \E t \in Threads : ConnOf[t] = writer
    /\ \/ live.rows = durable.rows
       \/ \E t \in Threads : pc[t] \in {"insert", "link", "update", "commit"} /\ writer = ConnOf[t]

\* What append_entry() knows of its row stays true until it is done, whichever
\* transaction the row is in by then.
RowKnown ==
    \A t \in Threads :
        /\ pc[t] \in {"link", "update", "commit"} => mine[t] = Len(live.rows) /\ mine[t] # 0
        /\ pc[t] \in {"link", "update"} => ~Hashed(live.rows, mine[t])
        /\ pc[t] = "update" => LinksToLatest(live.rows, mine[t], link[t])

\* The invariant of one process.
OneInv ==
    /\ TypeOK
    /\ MutexHeld
    /\ LiveKnown
    /\ RowKnown
    /\ Strict(durable.rows)
    /\ Strict(live.rows)

\* The appending thread reads the latest rows, whoever is the writer.
LEMMA AppenderReadsLive ==
    ASSUME OneProcess, OneInv, NEW t \in Threads, Appending(t)
    PROVE  /\ View(ConnOf[t]).rows = live.rows
           /\ \A u \in Threads : Appending(u) => u = t
<1>1. \A u \in Threads : Appending(u) => u = t
  BY DEF OneProcess, OneInv, MutexHeld
<1>2. CASE writer = ConnOf[t]
  BY <1>1, <1>2 DEF View
<1>3. CASE writer # ConnOf[t]
  <2>1. live.rows = durable.rows
    BY <1>1, <1>3 DEF OneInv, LiveKnown, Appending
  <2> QED BY <1>1, <1>3, <2>1 DEF View
<1> QED BY <1>1, <1>2, <1>3

\* An INSERT leaves the rows before it alone.
LEMMA AppendedRow ==
    ASSUME NEW rows \in Seq(RowType), NEW g \in BOOLEAN, NEW new, new = Append(rows, Row(Null, g))
    PROVE  /\ Len(new) = Len(rows) + 1
           /\ new[Len(rows) + 1] = Row(Null, g)
           /\ \A i \in 1..Len(rows) : new[i] = rows[i]
OBVIOUS

\* A row without a hash at the end breaks nothing.
LEMMA StrictAppend ==
    ASSUME NEW rows \in Seq(RowType), Strict(rows), NEW g \in BOOLEAN
    PROVE  /\ Strict(Append(rows, Row(Null, g)))
           /\ Len(Append(rows, Row(Null, g))) = Len(rows) + 1
           /\ ~Hashed(Append(rows, Row(Null, g)), Len(rows) + 1)
<1> DEFINE new == Append(rows, Row(Null, g))
<1>1. /\ Len(new) = Len(rows) + 1 /\ Len(rows) \in Nat
      /\ new[Len(rows) + 1] = Row(Null, g)
      /\ \A i \in 1..Len(rows) : new[i] = rows[i]
  BY AppendedRow
<1>2. ~Hashed(new, Len(rows) + 1)
  BY <1>1 DEF Hashed, Row
<1>3. ASSUME NEW i \in 1..Len(new), Hashed(new, i) PROVE LinksToLatest(new, i, new[i].prev)
  <2> HIDE DEF new
  <2>1. i \in 1..Len(rows) /\ new[i] = rows[i]
    BY <1>1, <1>2, <1>3
  <2>2. LinksToLatest(rows, i, rows[i].prev)
    BY <1>3, <2>1 DEF Strict, Hashed
  <2>3. \A j \in 1..(i - 1) : Hashed(new, j) <=> Hashed(rows, j)
    BY <1>1, <2>1 DEF Hashed
  <2>4. \A j \in 1..(i - 1) : j \in 1..Len(rows)
    BY <1>1, <2>1
  <2> QED BY <2>1, <2>2, <2>3, <2>4 DEF LinksToLatest
<1> QED BY <1>1, <1>2, <1>3 DEF Strict

\* An UPDATE of the last row's hash.
LEMMA LastRowUpdate ==
    ASSUME NEW rows \in Seq(RowType), NEW n \in Nat, n = Len(rows), n # 0, NEW k \in Nat
    PROVE  /\ Len([rows EXCEPT ![n].prev = k]) = Len(rows)
           /\ [rows EXCEPT ![n].prev = k][n].prev = k
           /\ \A i \in 1..(n - 1) : [rows EXCEPT ![n].prev = k][i] = rows[i]
BY DEF RowType

\* The hash of the last row breaks nothing if it links to the latest.
LEMMA StrictUpdate ==
    ASSUME NEW rows \in Seq(RowType), Strict(rows), NEW n \in Nat, n = Len(rows), n # 0,
           NEW k \in Nat, LinksToLatest(rows, n, k)
    PROVE  /\ Strict([rows EXCEPT ![n].prev = k])
           /\ Len([rows EXCEPT ![n].prev = k]) = Len(rows)
<1> DEFINE new == [rows EXCEPT ![n].prev = k]
<1>1. /\ Len(new) = Len(rows)
      /\ new[n].prev = k
      /\ \A i \in 1..(n - 1) : new[i] = rows[i]
  BY LastRowUpdate
<1>2. ASSUME NEW i \in 1..Len(new), Hashed(new, i) PROVE LinksToLatest(new, i, new[i].prev)
  <2> HIDE DEF new
  <2>1. \A j \in 1..(i - 1) : new[j] = rows[j] /\ (Hashed(new, j) <=> Hashed(rows, j))
    BY <1>1 DEF Hashed
  <2>2. LinksToLatest(rows, i, new[i].prev)
    <3>1. CASE i = n
      BY <1>1, <3>1
    <3>2. CASE i # n
      <4>1. i \in 1..Len(rows) /\ new[i] = rows[i]
        BY <1>1, <3>2
      <4> QED BY <1>2, <4>1 DEF Strict, Hashed
    <3> QED BY <3>1, <3>2
  <2> QED BY <2>1, <2>2 DEF LinksToLatest
<1> QED BY <1>1, <1>2 DEF Strict
LEMMA OneInit == Init => OneInv
<1> SUFFICES ASSUME Init PROVE OneInv
  OBVIOUS
<1>1. PICK older \in 0..1 :
        durable = [rows |-> [i \in 1..(older + (IF Chained THEN 1 ELSE 0)) |->
                                IF i <= older THEN Row(Null, FALSE) ELSE Row(0, TRUE)],
                   start |-> IF Chained THEN older + 1 ELSE 0]
  BY DEF Init
<1>2. Len(durable.rows) = older + (IF Chained THEN 1 ELSE 0)
  BY <1>1
<1>3. ASSUME NEW i \in 1..Len(durable.rows), Hashed(durable.rows, i)
      PROVE  LinksToLatest(durable.rows, i, durable.rows[i].prev)
  <2>1. i = older + 1 /\ durable.rows[i].prev = 0
    BY <1>1, <1>2, <1>3 DEF Hashed, Row
  <2>2. \A j \in 1..(i - 1) : ~Hashed(durable.rows, j)
    BY <1>1, <1>2, <2>1 DEF Hashed, Row
  <2> QED BY <2>1, <2>2 DEF LinksToLatest
<1>4. MutexHeld
  BY DEF Init, MutexHeld, Appending
<1>5. LiveKnown /\ RowKnown
  BY DEF Init, LiveKnown, RowKnown
<1> QED BY <1>3, <1>4, <1>5, TypeInit DEF Init, OneInv, Strict

\* append_entry(), statement by statement.
LEMMA OneAppendStep ==
    ASSUME OneProcess, OneInv, TypeOK', NEW t \in Threads,
           Enter(t) \/ Begin(t) \/ Insert(t) \/ Link(t) \/ Update(t) \/ Finish(t) \/ Fail(t)
    PROVE  OneInv'
<1> DEFINE c == ConnOf[t]
<1>1. TypeOK /\ durable.rows \in Seq(RowType) /\ live.rows \in Seq(RowType)
  BY DEF OneInv, TypeOK, Database
<1>2. \A u \in Threads : ProcOf[u] = ProcOf[t] /\ ProcOf[t] \in Procs /\ pc[u] \in Steps
  BY <1>1 DEF OneProcess, TypeOK
<1>3. CASE Enter(t)
  <2>1. \A u \in Threads : ~Appending(u)
    BY <1>2, <1>3 DEF Enter, LockFree, OneInv, MutexHeld
  <2>2. MutexHeld'
    BY <1>1, <1>2, <1>3, <2>1 DEF Enter, MutexHeld, Appending, Goto, TypeOK
  <2>3. LiveKnown' /\ RowKnown'
    BY <1>1, <1>3, <2>1 DEF Enter, Goto, TypeOK, OneInv, LiveKnown, RowKnown, Appending
  <2> QED BY <1>3, <2>2, <2>3 DEF Enter, OneInv
<1>4. CASE Begin(t)
  <2>1. \A u \in Threads : Appending(u) => u = t
    BY <1>4, AppenderReadsLive DEF Begin, Appending
  <2>2. MutexHeld'
    BY <1>1, <1>4 DEF Begin, MutexHeld, Appending, Goto, TypeOK, OneInv
  <2>3. LiveKnown'
    BY <1>1, <1>4 DEF Begin, Commit, Goto, TypeOK, OneInv, LiveKnown
  <2>4. RowKnown'
    BY <1>1, <1>4, <2>1 DEF Begin, Commit, Goto, TypeOK, RowKnown, Appending
  <2>5. Strict(durable.rows)' /\ Strict(live.rows)'
    BY <1>4 DEF Begin, Commit, OneInv
  <2> QED BY <2>2, <2>3, <2>4, <2>5 DEF OneInv
<1>5. CASE Insert(t)
  <2>1. View(c).rows = live.rows /\ \A u \in Threads : Appending(u) => u = t
    BY <1>5, AppenderReadsLive DEF Insert, Appending
  <2>2. View(c) \in Database
    BY <1>1 DEF View, TypeOK
  <2> DEFINE g == proc[ProcOf[t]] = "start"
  <2>3. live'.rows = Append(live.rows, Row(Null, g)) /\ mine'[t] = Len(live.rows) + 1
    BY <1>1, <1>5, <2>1, <2>2 DEF Insert, TypeOK, Database
  <2> HIDE DEF g
  <2>4. g \in BOOLEAN
    BY DEF g
  <2>5. Strict(live.rows)' /\ mine'[t] = Len(live'.rows) /\ mine'[t] # 0
        /\ ~Hashed(live'.rows, mine'[t])
    BY <1>1, <2>3, <2>4, StrictAppend DEF OneInv
  <2>6. MutexHeld'
    BY <1>1, <1>5 DEF Insert, MutexHeld, Appending, Goto, TypeOK, OneInv
  <2>7. LiveKnown'
    BY <1>1, <1>5 DEF Insert, Goto, TypeOK, LiveKnown
  <2>8. RowKnown'
    BY <1>1, <1>5, <2>1, <2>5 DEF Insert, Goto, TypeOK, RowKnown, Appending
  <2> QED BY <1>5, <2>5, <2>6, <2>7, <2>8 DEF Insert, OneInv
<1>6. CASE Link(t)
  <2>1. View(c).rows = live.rows /\ \A u \in Threads : Appending(u) => u = t
    BY <1>6, AppenderReadsLive DEF Link, Appending
  <2>2. mine[t] \in Nat \ {0}
    BY <1>1, <1>6 DEF Link, OneInv, RowKnown, TypeOK
  <2>3. LinksToLatest(live.rows, mine[t], link'[t])
    BY <1>1, <1>6, <2>1, <2>2, PreviousHashIsLatest DEF Link, TypeOK
  <2>4. MutexHeld'
    BY <1>1, <1>6 DEF Link, MutexHeld, Appending, Goto, TypeOK, OneInv
  <2>5. LiveKnown'
    BY <1>1, <1>6 DEF Link, Goto, TypeOK, LiveKnown, OneInv
  <2>6. RowKnown'
    BY <1>1, <1>6, <2>1, <2>3 DEF Link, Goto, TypeOK, RowKnown, Appending, OneInv
  <2> QED BY <1>6, <2>4, <2>5, <2>6 DEF Link, OneInv
<1>7. CASE Update(t)
  <2>1. View(c).rows = live.rows /\ \A u \in Threads : Appending(u) => u = t
    BY <1>7, AppenderReadsLive DEF Update, Appending
  <2>2. View(c) \in Database
    BY <1>1 DEF View, TypeOK
  <2>3. live'.rows = [live.rows EXCEPT ![mine[t]].prev = link[t]]
    BY <1>7, <2>1, <2>2 DEF Update, OwnId, Database
  <2>4. /\ mine[t] \in Nat /\ mine[t] = Len(live.rows) /\ mine[t] # 0 /\ link[t] \in Nat
        /\ LinksToLatest(live.rows, mine[t], link[t])
    BY <1>1, <1>7 DEF Update, OneInv, RowKnown, TypeOK
  <2>5. Strict(live.rows)' /\ Len(live'.rows) = mine[t]
    <3>1. Strict(live.rows)
      BY DEF OneInv
    <3> DEFINE n == mine[t]
               k == link[t]
    <3>2. n \in Nat /\ k \in Nat /\ n = Len(live.rows) /\ n # 0 /\ LinksToLatest(live.rows, n, k)
      BY <2>4
    <3>3. live'.rows = [live.rows EXCEPT ![n].prev = k]
      BY <2>3
    <3>4. Len(live.rows) = mine[t]
      BY <2>4
    <3> HIDE DEF n, k
    <3>5. /\ Strict([live.rows EXCEPT ![n].prev = k])
          /\ Len([live.rows EXCEPT ![n].prev = k]) = Len(live.rows)
      BY <1>1, <3>1, <3>2, StrictUpdate, SMTT(30)
    <3>6. Len(live'.rows) = mine[t]
      BY <3>5, <3>3, <3>4
    <3>7. Strict(live'.rows)
      BY <3>5, <3>3
    <3> QED BY <3>6, <3>7 DEF Strict
  <2>6. MutexHeld'
    BY <1>1, <1>7 DEF Update, MutexHeld, Appending, Goto, TypeOK, OneInv
  <2>7. LiveKnown'
    BY <1>1, <1>7 DEF Update, Goto, TypeOK, LiveKnown
  <2>8. RowKnown'
    BY <1>1, <1>7, <2>1, <2>4, <2>5 DEF Update, Goto, TypeOK, RowKnown, Appending
  <2> QED BY <1>7, <2>5, <2>6, <2>7, <2>8 DEF Update, OneInv
<1>8. CASE Finish(t)
  <2>1. \A u \in Threads : Appending(u) => u = t
    BY <1>8, AppenderReadsLive DEF Finish, Appending
  <2>2. pc'[t] \in {"mark", "idle"} /\ pc' = [pc EXCEPT ![t] = pc'[t]]
    BY <1>1, <1>8 DEF Finish, Goto, TypeOK
  <2>3. MutexHeld'
    BY <1>1, <1>2, <1>8, <2>1, <2>2 DEF Finish, MutexHeld, Appending, TypeOK, OneInv
  <2>4. LiveKnown'
    <3>1. CASE writer = ConnOf[t]
      BY <1>8, <3>1 DEF Finish, Commit, LiveKnown
    <3>2. CASE writer # ConnOf[t]
      <4>1. UNCHANGED <<durable, live, writer>> /\ LiveKnown
        BY <1>8, <3>2 DEF Finish, Commit, OneInv
      <4>2. \A u \in Threads : pc[u] \in {"insert", "link", "update", "commit"} => ConnOf[u] # writer
        BY <2>1, <3>2 DEF Appending
      <4> QED BY <4>1, <4>2 DEF LiveKnown
    <3> QED BY <3>1, <3>2
  <2>5. RowKnown'
    <3>1. \A u \in Threads : pc'[u] = IF u = t THEN pc'[t] ELSE pc[u]
      BY <1>1, <2>2 DEF TypeOK
    <3>2. \A u \in Threads : pc'[u] \notin {"link", "update", "commit"}
      BY <2>1, <2>2, <3>1 DEF Appending
    <3> QED BY <3>2 DEF RowKnown
  <2>6. Strict(durable.rows)' /\ Strict(live.rows)'
    BY <1>8 DEF Finish, Commit, OneInv
  <2> QED BY <2>3, <2>4, <2>5, <2>6 DEF OneInv
<1>9. CASE Fail(t)
  <2>1. \A u \in Threads : Appending(u) => u = t
    BY <1>9, AppenderReadsLive DEF Fail, Appending
  <2>2. pc' = [pc EXCEPT ![t] = "idle"]
    BY <1>9 DEF Fail, Goto
  <2>3. MutexHeld'
    BY <1>1, <1>2, <1>9, <2>1, <2>2 DEF Fail, MutexHeld, Appending, TypeOK, OneInv
  <2>4. LiveKnown'
    BY <1>1, <1>9, <2>1, <2>2 DEF Fail, Rollback, TypeOK, LiveKnown, OneInv, Appending
  <2>5. RowKnown'
    BY <1>1, <2>1, <2>2 DEF TypeOK, RowKnown, Appending
  <2>6. Strict(durable.rows)' /\ Strict(live.rows)'
    BY <1>9 DEF Fail, Rollback, OneInv
  <2> QED BY <2>3, <2>4, <2>5, <2>6 DEF OneInv
<1> QED BY <1>3, <1>4, <1>5, <1>6, <1>7, <1>8, <1>9
LEMMA OneStep ==
    ASSUME OneProcess
    PROVE  OneInv /\ [Next]_vars => OneInv'
<1> SUFFICES ASSUME OneInv, [Next]_vars PROVE OneInv'
  OBVIOUS
<1>1. TypeOK /\ TypeOK' /\ durable.rows \in Seq(RowType) /\ live.rows \in Seq(RowType)
  BY TypeStep DEF OneInv, TypeOK, Database
<1>2. ASSUME NEW t \in Threads,
             Enter(t) \/ Begin(t) \/ Insert(t) \/ Link(t) \/ Update(t) \/ Finish(t) \/ Fail(t)
      PROVE  OneInv'
  BY <1>1, <1>2, OneAppendStep
<1>3. ASSUME NEW t \in Threads, Mark(t) \/ Execute(t) PROVE OneInv'
  <2>1. /\ live'.rows = View(ConnOf[t]).rows /\ durable' = durable /\ writer' = ConnOf[t]
        /\ writer \in {None, ConnOf[t]} /\ UNCHANGED <<mutex, mine, link>>
        /\ ~Appending(t) /\ pc'[t] \in {"marked", "written"} /\ pc' = [pc EXCEPT ![t] = pc'[t]]
    <3>1. View(ConnOf[t]) \in Database
      BY <1>1 DEF View, TypeOK
    <3>2. CASE Mark(t)
      BY <1>1, <3>1, <3>2 DEF Mark, MayWrite, Goto, TypeOK, Database, Appending
    <3>3. CASE Execute(t)
      BY <1>1, <3>3 DEF Execute, MayWrite, Goto, TypeOK, Appending
    <3> QED BY <1>3, <3>2, <3>3
  <2>2. live'.rows = live.rows
    BY <2>1 DEF View, OneInv, LiveKnown
  <2>3. MutexHeld'
    BY <1>1, <2>1 DEF MutexHeld, Appending, TypeOK, OneInv
  <2>4. LiveKnown'
    BY <1>1, <2>1, <2>2 DEF LiveKnown, TypeOK, OneInv, Appending
  <2>5. RowKnown'
    BY <1>1, <2>1, <2>2 DEF RowKnown, TypeOK, OneInv, Appending
  <2> QED BY <1>1, <2>1, <2>2, <2>3, <2>4, <2>5 DEF OneInv
<1>4. ASSUME NEW t \in Threads, Marked(t) \/ ExecuteCommit(t) PROVE OneInv'
  <2>1. /\ Commit(ConnOf[t]) /\ UNCHANGED <<mutex, mine, link>>
        /\ ~Appending(t) /\ pc' = [pc EXCEPT ![t] = "idle"]
    BY <1>4 DEF Marked, ExecuteCommit, Goto, Appending
  <2>2. live' = live /\ durable' \in {live, durable}
        /\ (writer' = writer \/ (writer' = None /\ durable' = live))
        /\ (writer' = writer => durable' = durable \/ durable' = live)
    BY <2>1 DEF Commit
  <2>3. MutexHeld'
    BY <1>1, <2>1 DEF MutexHeld, Appending, TypeOK, OneInv
  <2>4. LiveKnown'
    BY <1>1, <2>1, <2>2 DEF LiveKnown, TypeOK, OneInv, Appending, Commit
  <2>5. RowKnown'
    BY <1>1, <2>1, <2>2 DEF RowKnown, TypeOK, OneInv, Appending
  <2> QED BY <1>1, <2>2, <2>3, <2>4, <2>5 DEF OneInv
<1>5. ASSUME NEW p \in Procs, StartProc(p) \/ FoundChain(p) PROVE OneInv'
  BY <1>1, <1>5 DEF StartProc, FoundChain, OneInv, MutexHeld, LiveKnown, RowKnown, Appending
<1>6. ASSUME NEW p \in Procs, Crash(p) PROVE OneInv'
  <2>1. (\A t \in Threads : pc'[t] = "idle") /\ \A q \in Procs : mutex'[q] = None
    <3>1. \A t \in Threads : ProcOf[t] = p
      BY DEF OneProcess
    <3> QED BY <1>1, <1>6, <3>1 DEF Crash, OneProcess, TypeOK
  <2>2. live' = durable /\ writer' = None /\ durable' = durable
    BY <1>1, <1>6 DEF Crash, OneProcess, OneInv, LiveKnown
  <2>3. MutexHeld'
    BY <2>1 DEF MutexHeld, Appending
  <2>4. LiveKnown' /\ RowKnown'
    BY <2>1, <2>2 DEF LiveKnown, RowKnown
  <2> QED BY <1>1, <2>2, <2>3, <2>4 DEF OneInv
<1>7. CASE UNCHANGED vars
  BY <1>7 DEF vars, OneInv, TypeOK, MutexHeld, LiveKnown, RowKnown, Appending
<1> QED BY <1>2, <1>3, <1>4, <1>5, <1>6, <1>7 DEF Next, Step

\* Two entries chained to the same one: neither can be the last before the other.
LEMMA StrictHasNoFork == TypeOK /\ Strict(durable.rows) => NoFork
<1> SUFFICES ASSUME TypeOK, Strict(durable.rows),
                    NEW i \in 1..Len(durable.rows), NEW j \in 1..Len(durable.rows),
                    Hashed(durable.rows, i), durable.rows[i].prev = durable.rows[j].prev
             PROVE  i = j
  BY DEF NoFork
<1>1. durable.rows \in Seq(RowType)
  BY DEF TypeOK, Database
<1>2. Hashed(durable.rows, j)
  BY DEF Hashed
<1>3. /\ LinksToLatest(durable.rows, i, durable.rows[i].prev)
      /\ LinksToLatest(durable.rows, j, durable.rows[j].prev)
  BY <1>2 DEF Strict
<1>4. CASE i < j
  BY <1>1, <1>2, <1>3, <1>4 DEF LinksToLatest
<1>5. CASE j < i
  BY <1>1, <1>2, <1>3, <1>5 DEF LinksToLatest
<1> QED BY <1>1, <1>4, <1>5

\* However the threads of one process interleave on whatever connections, and
\* whatever statement fails or where the process dies, no two entries of the
\* committed log are chained to the same one (_APPEND_LOCK in append_entry).
THEOREM OneProcessNoFork ==
    ASSUME OneProcess
    PROVE  Spec => []NoFork
<1>1. Init => OneInv
  BY OneInit
<1>2. OneInv /\ [Next]_vars => OneInv'
  BY OneStep
<1>3. OneInv => NoFork
  BY StrictHasNoFork DEF OneInv
<1> QED BY <1>1, <1>2, <1>3, PTL DEF Spec
-----------------------------------------------------------------------------
(* No shared connection: the committed chain verifies at any time *)

Solo ==
    /\ Chained
    /\ \A t, u \in Threads : ConnOf[t] = ConnOf[u] => t = u

\* The entries from the start of the chain on are linked one to the next.
Linked(db) ==
    /\ db.start \in 1..Len(db.rows)
    /\ \A i \in db.start..Len(db.rows) : db.rows[i].prev = IF i = db.start THEN 0 ELSE i - 1

InTransaction == {"insert", "link", "update", "commit", "written"}

\* A thread is in a transaction exactly while it holds the write lock.
OwnTransaction ==
    /\ \A t \in Threads : writer = ConnOf[t] <=> pc[t] \in InTransaction
    /\ writer # None => \E t \in Threads : ConnOf[t] = writer

\* The chain has been started: nobody appends a genesis.
NoGenesis ==
    \A t \in Threads : pc[t] \notin {"mark", "marked"} /\ (Appending(t) => proc[ProcOf[t]] = "up")

\* What thread t's transaction has made of the committed log so far.
LiveOf(t) ==
    /\ pc[t] \in {"insert", "written"} => live = durable
    /\ pc[t] \in {"link", "update"} =>
        live.rows = Append(durable.rows, Row(Null, FALSE)) /\ mine[t] = Len(durable.rows) + 1
    /\ pc[t] = "update" => link[t] = Len(durable.rows)
    /\ pc[t] = "commit" => Linked(live)

LiveAt ==
    /\ live.start = durable.start
    /\ writer = None => live = durable
    /\ \A t \in Threads : LiveOf(t)

\* The invariant of processes that share no connection.
SoloInv ==
    /\ TypeOK
    /\ Linked(durable)
    /\ OwnTransaction
    /\ NoGenesis
    /\ LiveAt

\* In a linked log, the last hashed entry before the end is the one before it.
LEMMA LinkedTail ==
    ASSUME NEW db \in Database, Linked(db)
    PROVE  PreviousHash(Append(db.rows, Row(Null, FALSE)), Len(db.rows) + 1) = Len(db.rows)
<1> DEFINE n == Len(db.rows)
           new == Append(db.rows, Row(Null, FALSE))
<1>1. db.rows \in Seq(RowType) /\ n \in Nat \ {0} /\ db.start \in 1..n
  BY DEF Database, Linked
<1>2. new \in Seq(RowType) /\ new[n] = db.rows[n]
  BY <1>1 DEF RowType, Row
<1>3. Hashed(new, n)
  <2>1. n \in db.start..Len(db.rows)
    BY <1>1
  <2>2. db.rows[n].prev \in Nat
    BY <1>1, <2>1 DEF Linked
  <2> QED BY <1>2, <2>2 DEF Hashed
<1> HIDE DEF new, n
<1>4. LinksToLatest(new, n + 1, PreviousHash(new, n + 1))
  BY <1>1, <1>2, PreviousHashIsLatest
<1>5. n <= PreviousHash(new, n + 1) /\ PreviousHash(new, n + 1) < n + 1
  BY <1>1, <1>3, <1>4 DEF LinksToLatest
<1>6. PreviousHash(new, n + 1) = n
  BY <1>1, <1>4, <1>5 DEF LinksToLatest
<1> QED BY <1>6 DEF new, n

\* A row appended with the right hash keeps the log linked.
LEMMA LinkedAppend ==
    ASSUME NEW db \in Database, Linked(db), NEW new \in Database,
           new.start = db.start,
           NEW n \in Nat, n = Len(db.rows),
           Len(new.rows) = n + 1, new.rows[n + 1].prev = n,
           \A i \in 1..n : new.rows[i] = db.rows[i]
    PROVE  Linked(new)
<1>1. db.start \in 1..n
  BY DEF Linked
<1>2. ASSUME NEW i \in new.start..(n + 1)
      PROVE  new.rows[i].prev = IF i = new.start THEN 0 ELSE i - 1
  <2>1. CASE i = n + 1
    BY <1>1, <2>1
  <2>2. CASE i # n + 1
    <3>1. i \in db.start..n /\ i \in 1..n
      BY <1>1, <2>2
    <3>2. db.rows[i].prev = IF i = db.start THEN 0 ELSE i - 1
      BY <3>1 DEF Linked
    <3> QED BY <3>1, <3>2
  <2> QED BY <2>1, <2>2
<1> QED BY <1>1, <1>2 DEF Linked

\* verify_audit_chain() finds nothing wrong with a linked log.
LEMMA LinkedVerifies ==
    ASSUME NEW db \in Database, Linked(db)
    PROVE  Breaks(db) = {}
<1>1. ChainStart(db) = db.start /\ db.start \in Nat \ {0} /\ Len(db.rows) \in Nat
  BY DEF ChainStart, Linked, Database
<1>2. \A i \in db.start..Len(db.rows) : Hashed(db.rows, i)
  BY <1>1 DEF Linked, Hashed
<1>3. ASSUME NEW i \in db.start..Len(db.rows)
      PROVE  db.rows[i].prev = Latest({j \in db.start..(i - 1) : Hashed(db.rows, j)})
  <2> DEFINE ids == {j \in db.start..(i - 1) : Hashed(db.rows, j)}
  <2>1. i - 1 \in Nat /\ ids \in SUBSET (1..(i - 1))
    BY <1>1
  <2>2. i # db.start => i - 1 \in ids
    BY <1>1, <1>2
  <2>3. i = db.start => ids = {}
    BY <1>1
  <2>4. db.rows[i].prev = IF i = db.start THEN 0 ELSE i - 1
    BY DEF Linked
  <2> HIDE DEF ids
  <2>5. /\ Latest(ids) \in 0..(i - 1)
        /\ Latest(ids) # 0 => Latest(ids) \in ids
        /\ \A j \in ids : j <= Latest(ids)
    BY <2>1, LatestIsLargest
  <2>6. db.rows[i].prev = Latest(ids)
    BY <1>1, <2>1, <2>2, <2>3, <2>4, <2>5
  <2> QED BY <2>6 DEF ids
<1> QED BY <1>1, <1>2, <1>3 DEF Breaks
LEMMA SoloInit ==
    ASSUME Solo
    PROVE  Init => SoloInv
<1> SUFFICES ASSUME Init PROVE SoloInv
  OBVIOUS
<1>1. PICK older \in 0..1 :
        durable = [rows |-> [i \in 1..(older + 1) |->
                                IF i <= older THEN Row(Null, FALSE) ELSE Row(0, TRUE)],
                   start |-> older + 1]
  BY DEF Init, Solo
<1>2. Len(durable.rows) = older + 1 /\ durable.start = older + 1 /\ durable.rows[older + 1].prev = 0
  BY <1>1 DEF Row
<1>3. Linked(durable)
  BY <1>2 DEF Linked
<1>4. OwnTransaction /\ NoGenesis /\ LiveAt
  BY DEF Init, OwnTransaction, InTransaction, NoGenesis, Appending, LiveAt, LiveOf
<1> QED BY <1>3, <1>4, TypeInit DEF SoloInv, Init

\* A step outside any transaction disturbs nobody's.
LEMMA OutsideStep ==
    ASSUME Solo, SoloInv, TypeOK', NEW t \in Threads,
           UNCHANGED <<durable, live, writer, mine, link, proc>>,
           pc[t] \in {"idle", "begin"},
           \/ pc' = [pc EXCEPT ![t] = "begin"] /\ proc[ProcOf[t]] = "up"
           \/ pc' = [pc EXCEPT ![t] = "idle"]
    PROVE  SoloInv'
<1>1. TypeOK
  BY DEF SoloInv
<1>2. OwnTransaction'
  BY <1>1 DEF SoloInv, OwnTransaction, InTransaction, TypeOK
<1>3. NoGenesis'
  BY <1>1 DEF SoloInv, NoGenesis, Appending, TypeOK
<1>4. ASSUME NEW u \in Threads PROVE LiveOf(u)'
  <2>1. CASE u = t
    <3>1. pc'[u] \in {"idle", "begin"}
      BY <1>1, <2>1 DEF TypeOK
    <3> QED BY <3>1 DEF LiveOf
  <2>2. CASE u # t
    <3>1. pc'[u] = pc[u] /\ LiveOf(u)
      BY <1>1, <2>2 DEF TypeOK, SoloInv, LiveAt
    <3>2. Linked(live)' <=> Linked(live)
      BY DEF Linked
    <3> QED BY <3>1, <3>2 DEF LiveOf
  <2> QED BY <2>1, <2>2
<1>5. LiveAt'
  BY <1>4 DEF SoloInv, LiveAt
<1>6. Linked(durable)'
  BY DEF SoloInv, Linked
<1> QED BY <1>2, <1>3, <1>5, <1>6 DEF SoloInv

\* A step that begins, continues or ends the one transaction there is.
LEMMA InsideStep ==
    ASSUME Solo, SoloInv, TypeOK', NEW t \in Threads,
           writer \in {None, ConnOf[t]}, proc' = proc,
           NEW step \in Steps \ {"mark", "marked", "begin"}, pc' = [pc EXCEPT ![t] = step],
           step \in InTransaction \ {"written"} => proc[ProcOf[t]] = "up",
           writer' = IF step \in InTransaction THEN ConnOf[t] ELSE None,
           Linked(durable)', live'.start = durable'.start,
           writer' = None => live' = durable',
           LiveOf(t)'
    PROVE  SoloInv'
<1>1. TypeOK
  BY DEF SoloInv
<1>2. \A u \in Threads : u # t => ConnOf[u] # ConnOf[t] /\ ConnOf[u] # None /\ pc'[u] = pc[u]
  BY <1>1 DEF Solo, TypeOK
<1>3. \A u \in Threads : u # t => pc'[u] \notin InTransaction
  BY <1>2 DEF SoloInv, OwnTransaction
<1>4. pc'[t] = step /\ ConnOf[t] # None
  BY <1>1 DEF TypeOK
<1>5. OwnTransaction'
  BY <1>1, <1>2, <1>3, <1>4 DEF OwnTransaction
<1>6. NoGenesis'
  BY <1>1, <1>2, <1>4 DEF SoloInv, NoGenesis, Appending, InTransaction, Steps
<1>7. \A u \in Threads : LiveOf(u)'
  BY <1>3 DEF LiveOf, InTransaction
<1>8. LiveAt'
  BY <1>7 DEF LiveAt
<1> QED BY <1>5, <1>6, <1>8 DEF SoloInv

\* append_entry(), statement by statement.
LEMMA SoloAppendStep ==
    ASSUME Solo, SoloInv, TypeOK', NEW t \in Threads,
           Enter(t) \/ Begin(t) \/ Insert(t) \/ Link(t) \/ Update(t) \/ Finish(t) \/ Fail(t)
    PROVE  SoloInv'
<1> DEFINE c == ConnOf[t]
<1>1. /\ TypeOK /\ durable \in Database /\ live \in Database /\ pc[t] \in Steps
      /\ Linked(durable) /\ live.start = durable.start
  BY DEF SoloInv, TypeOK, LiveAt
<1>2. durable.rows \in Seq(RowType) /\ live.rows \in Seq(RowType)
  BY <1>1 DEF Database
<1>3. ChainStart(durable) # 0 /\ ChainStart(live) # 0
  BY <1>1 DEF ChainStart, Linked, Database
<1>4. pc[t] \in InTransaction => writer = c
  BY DEF SoloInv, OwnTransaction
<1>5. LiveOf(t) /\ (Appending(t) => proc[ProcOf[t]] = "up")
  BY DEF SoloInv, LiveAt, NoGenesis
<1>6. c # None /\ (durable' = durable => Linked(durable)')
  BY <1>1 DEF Linked
<1>7. CASE Enter(t)
  <2>1. proc[ProcOf[t]] = "up" /\ pc' = [pc EXCEPT ![t] = "begin"] /\ pc[t] = "idle"
    BY <1>3, <1>7 DEF Enter, View, Goto
  <2>2. UNCHANGED <<durable, live, writer, mine, link, proc>>
    BY <1>7 DEF Enter
  <2> QED BY <2>1, <2>2, OutsideStep
<1>8. CASE Begin(t)
  <2>1. /\ writer = None /\ writer' = c /\ live' = durable /\ durable' = durable
        /\ pc[t] = "begin" /\ pc' = [pc EXCEPT ![t] = "insert"] /\ proc' = proc
    BY <1>8 DEF Begin, Goto, SoloInv, OwnTransaction, InTransaction
  <2>2. LiveOf(t)'
    BY <1>1, <2>1 DEF LiveOf, TypeOK
  <2> QED BY <1>5, <1>6, <2>1, <2>2, InsideStep DEF Appending, InTransaction, Steps
<1>9. CASE Insert(t)
  <2>1. writer = c /\ live = durable /\ proc[ProcOf[t]] = "up" /\ pc[t] = "insert"
    BY <1>4, <1>5, <1>9 DEF Insert, LiveOf, Appending, InTransaction
  <2>2. /\ live' = [live EXCEPT !.rows = Append(@, Row(Null, FALSE))]
        /\ mine' = [mine EXCEPT ![t] = Len(durable.rows) + 1]
        /\ writer' = c /\ durable' = durable
        /\ pc' = [pc EXCEPT ![t] = "link"] /\ proc' = proc
    BY <1>9, <2>1 DEF Insert, View, Goto
  <2>3. live'.rows = Append(durable.rows, Row(Null, FALSE)) /\ live'.start = durable'.start
    BY <1>1, <2>1, <2>2 DEF Database
  <2>4. pc'[t] = "link" /\ mine'[t] = Len(durable.rows) + 1
    BY <1>1, <2>2 DEF TypeOK
  <2>5. LiveOf(t)'
    BY <2>2, <2>3, <2>4 DEF LiveOf
  <2>6. "link" \in Steps \ {"mark", "marked", "begin"} /\ "link" \in InTransaction
    BY DEF Steps, InTransaction
  <2> QED BY <1>6, <2>1, <2>2, <2>3, <2>5, <2>6, InsideStep
<1>10. CASE Link(t)
  <2>1. /\ writer = c /\ pc[t] = "link" /\ pc' = [pc EXCEPT ![t] = "update"]
        /\ UNCHANGED <<durable, live, writer, mine, proc>>
    BY <1>4, <1>10 DEF Link, Goto, InTransaction
  <2>2. live.rows = Append(durable.rows, Row(Null, FALSE)) /\ mine[t] = Len(durable.rows) + 1
    BY <1>5, <2>1 DEF LiveOf
  <2>3. link'[t] = PreviousHash(live.rows, mine[t])
    BY <1>1, <1>10, <2>1 DEF Link, View, TypeOK
  <2>4. link'[t] = Len(durable.rows)
    BY <1>1, <2>2, <2>3, LinkedTail
  <2>5. pc'[t] = "update"
    BY <1>1, <2>1 DEF TypeOK
  <2>6. LiveOf(t)'
    BY <2>1, <2>2, <2>4, <2>5 DEF LiveOf
  <2>7. /\ "update" \in Steps \ {"mark", "marked", "begin"} /\ "update" \in InTransaction
        /\ proc[ProcOf[t]] = "up" /\ writer \in {None, c}
    BY <1>5, <2>1 DEF Steps, InTransaction, Appending
  <2> QED BY <1>1, <1>5, <1>6, <2>1, <2>6, <2>7, InsideStep
<1>11. CASE Update(t)
  <2>1. /\ writer = c /\ writer' = c /\ pc[t] = "update" /\ pc' = [pc EXCEPT ![t] = "commit"]
        /\ UNCHANGED <<durable, link, mine, proc>>
    BY <1>4, <1>11 DEF Update, Goto, InTransaction
  <2>2. /\ live.rows = Append(durable.rows, Row(Null, FALSE)) /\ mine[t] = Len(durable.rows) + 1
        /\ link[t] = Len(durable.rows)
    BY <1>5, <2>1 DEF LiveOf
  <2>3. live' = [live EXCEPT !.rows[mine[t]].prev = link[t]]
    BY <1>11, <2>1 DEF Update, OwnId, View
  <2>4. live'.start = durable'.start /\ live'.rows = [live.rows EXCEPT ![mine[t]].prev = link[t]]
    BY <1>1, <2>1, <2>3 DEF Database
  <2>5. /\ Len(live.rows) = Len(durable.rows) + 1
        /\ \A i \in 1..Len(durable.rows) : live.rows[i] = durable.rows[i]
    <3> DEFINE before == durable.rows
               after == live.rows
    <3>1. before \in Seq(RowType) /\ after = Append(before, Row(Null, FALSE))
      BY <1>2, <2>2
    <3> SUFFICES Len(after) = Len(before) + 1 /\ \A i \in 1..Len(before) : after[i] = before[i]
      OBVIOUS
    <3> HIDE DEF before, after
    <3> QED BY <3>1, AppendedRow
  <2>6. Linked(live)'
    <3> DEFINE n == Len(durable.rows)
               m == mine[t]
               k == link[t]
    <3>1. /\ n \in Nat /\ n = Len(durable.rows) /\ k = n
          /\ m \in Nat /\ m = n + 1 /\ m = Len(live.rows) /\ m # 0 /\ 1..(m - 1) = 1..n
      BY <1>2, <2>2, <2>5
    <3>2. live'.rows = [live.rows EXCEPT ![m].prev = k] /\ live' \in Database
      BY <2>4 DEF TypeOK
    <3> HIDE DEF n, m, k
    <3>3. /\ Len([live.rows EXCEPT ![m].prev = k]) = Len(live.rows)
          /\ [live.rows EXCEPT ![m].prev = k][m].prev = k
          /\ \A i \in 1..(m - 1) : [live.rows EXCEPT ![m].prev = k][i] = live.rows[i]
      BY <1>2, <3>1, LastRowUpdate
    <3>4. /\ live'.start = durable.start
          /\ Len(live'.rows) = n + 1 /\ live'.rows[n + 1].prev = n
          /\ \A i \in 1..n : live'.rows[i] = durable.rows[i]
      BY <2>1, <2>4, <2>5, <3>1, <3>2, <3>3
    <3>5. durable \in Database /\ Linked(durable) /\ live' \in Database /\ n \in Nat /\ n = Len(durable.rows)
      BY <1>1, <3>1, <3>2 DEF SoloInv, TypeOK
    <3>6. Linked(live')
      BY <3>4, <3>5, LinkedAppend
    <3> QED BY <3>6
  <2>7. pc'[t] = "commit"
    BY <1>1, <2>1 DEF TypeOK
  <2>8. LiveOf(t)'
    BY <2>6, <2>7 DEF LiveOf
  <2>9. /\ "commit" \in Steps \ {"mark", "marked", "begin"} /\ "commit" \in InTransaction
        /\ proc[ProcOf[t]] = "up" /\ writer \in {None, c}
    BY <1>5, <2>1 DEF Steps, InTransaction, Appending
  <2> QED BY <1>5, <1>6, <2>1, <2>4, <2>8, <2>9, InsideStep
<1>12. CASE Finish(t)
  <2>1. /\ writer = c /\ pc[t] = "commit" /\ proc' = proc /\ proc[ProcOf[t]] = "up"
    BY <1>4, <1>5, <1>12 DEF Finish, Appending, InTransaction
  <2>2. /\ writer' = None /\ durable' = live /\ live' = live
        /\ pc' = [pc EXCEPT ![t] = "idle"]
    BY <1>12, <2>1 DEF Finish, Commit, Goto
  <2>3. Linked(durable)'
    BY <1>5, <2>1, <2>2 DEF LiveOf, Linked
  <2>4. LiveOf(t)'
    BY <1>1, <2>2 DEF LiveOf, TypeOK
  <2> QED BY <2>1, <2>2, <2>3, <2>4, InsideStep DEF InTransaction, Steps
<1>13. CASE Fail(t)
  <2>1. pc' = [pc EXCEPT ![t] = "idle"] /\ proc' = proc /\ UNCHANGED <<mine, link>>
        /\ durable' = durable /\ Appending(t)
    BY <1>5, <1>13 DEF Fail, Rollback, Goto, Appending
  <2>2. CASE pc[t] = "begin"
    BY <1>13, <2>1, <2>2, OutsideStep DEF Fail
  <2>3. CASE pc[t] # "begin"
    <3>1. writer = c /\ writer' = None /\ live' = durable
      BY <1>4, <1>13, <2>3 DEF Fail, Rollback, InTransaction
    <3>2. LiveOf(t)'
      BY <1>1, <2>1 DEF LiveOf, TypeOK
    <3> QED BY <1>6, <2>1, <3>1, <3>2, InsideStep DEF InTransaction, Steps
  <2> QED BY <2>2, <2>3
<1> QED BY <1>7, <1>8, <1>9, <1>10, <1>11, <1>12, <1>13
LEMMA SoloStep ==
    ASSUME Solo
    PROVE  SoloInv /\ [Next]_vars => SoloInv'
<1> SUFFICES ASSUME SoloInv, [Next]_vars PROVE SoloInv'
  OBVIOUS
<1>1. /\ TypeOK /\ TypeOK' /\ durable \in Database /\ live \in Database
      /\ Linked(durable) /\ live.start = durable.start
  BY TypeStep DEF SoloInv, TypeOK, LiveAt
<1>2. /\ \A t \in Threads : ConnOf[t] # None
      /\ durable' = durable => Linked(durable)'
  BY <1>1 DEF Linked
<1>3. ChainStart(durable) # 0 /\ ChainStart(live) # 0
  BY <1>1 DEF ChainStart, Linked, Database
<1>4. ASSUME NEW t \in Threads,
             Enter(t) \/ Begin(t) \/ Insert(t) \/ Link(t) \/ Update(t) \/ Finish(t) \/ Fail(t)
      PROVE  SoloInv'
  BY <1>1, <1>4, SoloAppendStep
<1>5. ASSUME NEW t \in Threads, Mark(t) \/ Marked(t) PROVE SoloInv'
  BY <1>5 DEF Mark, Marked, SoloInv, NoGenesis
<1>6. ASSUME NEW t \in Threads, Execute(t) PROVE SoloInv'
  <2>1. writer # ConnOf[t] /\ writer = None /\ live = durable
    BY <1>6 DEF Execute, MayWrite, SoloInv, OwnTransaction, InTransaction, LiveAt
  <2>2. /\ writer' = ConnOf[t] /\ durable' = durable /\ live' = durable /\ proc' = proc
        /\ pc' = [pc EXCEPT ![t] = "written"]
    BY <1>6, <2>1 DEF Execute, View, Goto
  <2>3. LiveOf(t)'
    BY <1>1, <2>2 DEF LiveOf, TypeOK
  <2> QED BY <1>1, <1>2, <2>1, <2>2, <2>3, InsideStep DEF InTransaction, Steps
<1>7. ASSUME NEW t \in Threads, ExecuteCommit(t) PROVE SoloInv'
  <2>1. writer = ConnOf[t] /\ live = durable
    BY <1>7 DEF ExecuteCommit, SoloInv, OwnTransaction, InTransaction, LiveAt, LiveOf
  <2>2. /\ writer' = None /\ durable' = durable /\ live' = durable /\ proc' = proc
        /\ pc' = [pc EXCEPT ![t] = "idle"]
    BY <1>7, <2>1 DEF ExecuteCommit, Commit, Goto
  <2>3. LiveOf(t)'
    BY <1>1, <2>2 DEF LiveOf, TypeOK
  <2> QED BY <1>1, <1>2, <2>1, <2>2, <2>3, InsideStep DEF InTransaction, Steps
<1>8. ASSUME NEW p \in Procs, StartProc(p) \/ FoundChain(p) PROVE SoloInv'
  <2>1. UNCHANGED <<durable, live, writer, pc, mine, link>>
        /\ \A t \in Threads : proc[ProcOf[t]] = "up" => proc'[ProcOf[t]] = "up"
    BY <1>1, <1>8 DEF StartProc, FoundChain, TypeOK
  <2>2. OwnTransaction' /\ NoGenesis'
    BY <2>1 DEF SoloInv, OwnTransaction, NoGenesis, Appending
  <2>3. \A t \in Threads : LiveOf(t)'
    BY <2>1 DEF SoloInv, LiveAt, LiveOf, Linked
  <2> QED BY <1>1, <1>2, <2>1, <2>2, <2>3 DEF SoloInv, LiveAt
<1>9. ASSUME NEW p \in Procs, Crash(p) PROVE SoloInv'
  <2>1. /\ durable' = durable /\ UNCHANGED <<mine, link>>
        /\ \A t \in Threads : IF ProcOf[t] = p THEN pc'[t] = "idle"
                              ELSE pc'[t] = pc[t] /\ proc'[ProcOf[t]] = proc[ProcOf[t]]
    BY <1>1, <1>9 DEF Crash, TypeOK
  <2>2. NoGenesis'
    BY <2>1 DEF SoloInv, NoGenesis, Appending
  <2>3. CASE \E t \in Threads : ConnOf[t] = writer /\ ProcOf[t] = p
    <3>1. writer' = None /\ live' = durable
      BY <1>2, <1>9, <2>3 DEF Crash
    <3>2. \A t \in Threads : pc'[t] \notin InTransaction
      <4>1. \A t \in Threads : ProcOf[t] # p => ConnOf[t] # writer
        BY <2>3 DEF Solo
      <4> QED BY <2>1, <4>1 DEF SoloInv, OwnTransaction, InTransaction
    <3>3. OwnTransaction'
      BY <1>2, <3>1, <3>2 DEF OwnTransaction
    <3>4. \A t \in Threads : LiveOf(t)'
      BY <3>2 DEF LiveOf, InTransaction
    <3> QED BY <1>1, <1>2, <2>1, <2>2, <3>1, <3>3, <3>4 DEF SoloInv, LiveAt
  <2>4. CASE ~\E t \in Threads : ConnOf[t] = writer /\ ProcOf[t] = p
    <3>1. UNCHANGED <<live, writer>>
      BY <1>9, <2>4 DEF Crash
    <3>2. OwnTransaction'
      BY <2>1, <2>4, <3>1 DEF SoloInv, OwnTransaction, InTransaction
    <3>3. ASSUME NEW t \in Threads PROVE LiveOf(t)'
      <4>1. LiveOf(t) /\ (pc'[t] = pc[t] \/ pc'[t] = "idle") /\ (Linked(live)' <=> Linked(live))
        BY <2>1, <3>1 DEF SoloInv, LiveAt, Linked
      <4> QED BY <2>1, <3>1, <4>1 DEF LiveOf
    <3> QED BY <1>1, <1>2, <2>1, <2>2, <3>1, <3>2, <3>3 DEF SoloInv, LiveAt
  <2> QED BY <2>3, <2>4
<1>10. CASE UNCHANGED vars
  <2>1. \A t \in Threads : LiveOf(t)'
    BY <1>10 DEF vars, SoloInv, LiveAt, LiveOf, Linked
  <2> QED BY <1>1, <1>2, <1>10, <2>1
          DEF vars, SoloInv, LiveAt, OwnTransaction, NoGenesis, Appending
<1> QED BY <1>4, <1>5, <1>6, <1>7, <1>8, <1>9, <1>10 DEF Next, Step

\* Where the chain has been started and no two threads share a connection, what
\* is committed verifies at any time, whichever statement fails and whenever a
\* process dies: append_entry() is one transaction (_begin_immediate).
THEOREM SoloChainSound ==
    ASSUME Solo
    PROVE  Spec => []ChainSound
<1>1. Init => SoloInv
  BY SoloInit
<1>2. SoloInv /\ [Next]_vars => SoloInv'
  BY SoloStep
<1>3. SoloInv => ChainSound
  BY LinkedVerifies DEF SoloInv, TypeOK, ChainSound
<1> QED BY <1>1, <1>2, <1>3, PTL DEF Spec

-----------------------------------------------------------------------------
(* One process that nothing fails in: at rest the chain verifies *)

Quiet == ~May("fail") /\ ~May("crash")

\* The chain starts at row s, if it has come so far: that row is the genesis, and
\* nothing before it is hashed.
Grown(db, s) ==
    /\ Len(db.rows) >= s - 1
    /\ db.start \in {0, s} /\ (db.start = s => s <= Len(db.rows))
    /\ \A i \in 1..Len(db.rows) : (db.rows[i].genesis <=> i = s) /\ (i < s => ~Hashed(db.rows, i))

\* Only the thread that opens the database appends a genesis, and once.
GenesisOnce(s) ==
    /\ \A t \in Threads :
        /\ pc[t] # "idle" => proc[ProcOf[t]] \in {"start", "up"}
        /\ pc[t] \in {"mark", "marked"} => proc[ProcOf[t]] = "start" /\ Len(durable.rows) >= s
        /\ proc[ProcOf[t]] = "start" =>
            /\ pc[t] # "idle" => t = MainOf[ProcOf[t]]
            /\ pc[t] # "written"
            /\ pc[t] \in {"begin", "insert"} => Len(live.rows) = s - 1
            /\ pc[t] \in {"link", "update", "commit", "mark", "marked"} => mine[t] = s
    /\ \A p \in Procs : proc[p] = "up" => Len(durable.rows) >= s /\ Len(live.rows) >= s

\* A row of the chain without its hash is one whose thread is still at it.
AllHashed(s) ==
    \A i \in s..Len(live.rows) :
        Hashed(live.rows, i) \/ \E t \in Threads : pc[t] \in {"link", "update"} /\ mine[t] = i

RestInv(s) == Grown(durable, s) /\ Grown(live, s) /\ GenesisOnce(s) /\ AllHashed(s)

LEMMA GrownStart ==
    ASSUME NEW db \in Database, NEW s \in Nat \ {0}, Grown(db, s)
    PROVE  ChainStart(db) = IF s <= Len(db.rows) THEN s ELSE 0
<1> DEFINE genesis == {i \in 1..Len(db.rows) : db.rows[i].genesis}
<1>1. db.rows \in Seq(RowType) /\ Len(db.rows) \in Nat
  BY DEF Database
<1>2. genesis = IF s <= Len(db.rows) THEN {s} ELSE {}
  BY <1>1 DEF Grown
<1>3. ChainStart(db) = IF db.start # 0 THEN db.start
                       ELSE IF genesis = {} THEN 0 ELSE CHOOSE i \in genesis : \A j \in genesis : i <= j
  BY DEF ChainStart
<1> HIDE DEF genesis
<1>4. CASE db.start = s
  BY <1>3, <1>4 DEF Grown
<1>5. CASE db.start = 0 /\ s <= Len(db.rows)
  <2>1. genesis = {s}
    BY <1>2, <1>5
  <2>2. (CHOOSE i \in {s} : \A j \in {s} : i <= j) = s
    OBVIOUS
  <2> QED BY <1>3, <1>5, <2>1, <2>2
<1>6. CASE db.start = 0 /\ ~(s <= Len(db.rows))
  BY <1>2, <1>3, <1>6
<1> QED BY <1>4, <1>5, <1>6 DEF Grown

LEMMA RestInit == Init => \E s \in Nat \ {0} : RestInv(s)
<1> SUFFICES ASSUME Init PROVE \E s \in Nat \ {0} : RestInv(s)
  OBVIOUS
<1>1. PICK older \in 0..1 :
        durable = [rows |-> [i \in 1..(older + (IF Chained THEN 1 ELSE 0)) |->
                                IF i <= older THEN Row(Null, FALSE) ELSE Row(0, TRUE)],
                   start |-> IF Chained THEN older + 1 ELSE 0]
  BY DEF Init
<1> DEFINE s == older + 1
           n == older + (IF Chained THEN 1 ELSE 0)
<1>2. /\ n \in Nat /\ Len(durable.rows) = n
      /\ \A i \in 1..n : durable.rows[i] = IF i <= older THEN Row(Null, FALSE) ELSE Row(0, TRUE)
  <2>1. n \in Nat
    OBVIOUS
  <2>2. durable.rows = [i \in 1..n |-> IF i <= older THEN Row(Null, FALSE) ELSE Row(0, TRUE)]
    BY <1>1
  <2> HIDE DEF n
  <2> QED BY <2>1, <2>2
<1>3. s \in Nat \ {0} /\ n \in {s - 1, s} /\ (Chained <=> n = s)
  OBVIOUS
<1>4. durable.start = IF Chained THEN s ELSE 0
  BY <1>1
<1> HIDE DEF s, n
<1>5. \A i \in 1..n : (i < s <=> i <= older) /\ (i = s <=> ~(i <= older))
  BY <1>3 DEF s
<1>6. Grown(durable, s)
  <2>1. \A i \in 1..n : (durable.rows[i].genesis <=> i = s) /\ (i < s => ~Hashed(durable.rows, i))
    BY <1>2, <1>5 DEF Row, Hashed
  <2> QED BY <1>2, <1>3, <1>4, <2>1 DEF Grown
<1>7. AllHashed(s)
  BY <1>2, <1>3, <1>5, ValueAssumption DEF Init, AllHashed, Row, Hashed
<1>8. GenesisOnce(s)
  BY DEF Init, GenesisOnce
<1> QED BY <1>3, <1>6, <1>7, <1>8 DEF Init, RestInv

\* append_entry(), statement by statement.
LEMMA RestAppendStep ==
    ASSUME OneProcess, Quiet, OneInv, OneInv', NEW s \in Nat \ {0}, RestInv(s), NEW t \in Threads,
           Enter(t) \/ Begin(t) \/ Insert(t) \/ Link(t) \/ Update(t) \/ Finish(t) \/ Fail(t)
    PROVE  RestInv(s)'
<1> DEFINE c == ConnOf[t]
<1>1. /\ TypeOK /\ durable \in Database /\ live \in Database
      /\ durable.rows \in Seq(RowType) /\ live.rows \in Seq(RowType)
      /\ Len(durable.rows) \in Nat /\ Len(live.rows) \in Nat
  BY SMTT(30) DEF OneInv, TypeOK, Database
<1>2. \A u \in Threads : ProcOf[u] = ProcOf[t] /\ ProcOf[t] \in Procs /\ pc[u] \in Steps
  BY <1>1, TopologyAssumption DEF OneProcess, TypeOK
<1>3. CASE Enter(t)
  <2>1. \A u \in Threads : ~Appending(u)
    BY <1>2, <1>3, ValueAssumption DEF Enter, LockFree, OneInv, MutexHeld
  <2>2. live.rows = durable.rows
    BY <2>1 DEF OneInv, LiveKnown, Appending
  <2>3. proc[ProcOf[t]] = "start" => Len(live.rows) = s - 1
    <3>1. View(c) \in Database /\ Grown(View(c), s) /\ View(c).rows = live.rows
      BY <1>1, <2>2 DEF View, RestInv
    <3>2. proc[ProcOf[t]] = "start" => ChainStart(View(c)) = 0
      BY <1>3 DEF Enter
    <3> QED BY <1>1, <3>1, <3>2, GrownStart DEF Grown
  <2>4. /\ UNCHANGED <<durable, live, mine, proc>> /\ pc' = [pc EXCEPT ![t] = "begin"]
        /\ pc[t] = "idle" /\ proc[ProcOf[t]] \in {"start", "up"}
        /\ proc[ProcOf[t]] = "start" => t = MainOf[ProcOf[t]]
    BY <1>3 DEF Enter, Goto
  <2>5. GenesisOnce(s)'
    BY <1>1, <2>3, <2>4 DEF RestInv, GenesisOnce, TypeOK
  <2>6. AllHashed(s)'
    BY <1>1, <2>4 DEF RestInv, AllHashed, TypeOK
  <2> QED BY <2>4, <2>5, <2>6 DEF RestInv, Grown
<1>4. CASE Begin(t)
  <2>1. /\ UNCHANGED <<mine, proc>> /\ pc[t] = "begin" /\ pc' \in {pc, [pc EXCEPT ![t] = "insert"]}
        /\ durable' \in {durable, live} /\ live' \in {durable, live}
    BY <1>4 DEF Begin, Commit, Goto
  <2>2. live.rows = durable.rows
    BY <1>4, AppenderReadsLive DEF Begin, Appending, OneInv, LiveKnown
  <2>a. durable'.rows = durable.rows /\ live'.rows = live.rows
    BY <2>1, <2>2
  <2>b. \A u \in Threads : pc'[u] = pc[u] \/ (u = t /\ pc'[u] = "insert")
    BY <1>1, <2>1 DEF TypeOK
  <2>3. GenesisOnce(s)'
    <3>1. GenesisOnce(s)
      BY DEF RestInv
    <3> QED BY <2>1, <2>a, <2>b, <3>1 DEF GenesisOnce
  <2>4. AllHashed(s)'
    BY <1>1, <2>1, <2>2 DEF RestInv, AllHashed, TypeOK
  <2> QED BY <2>1, <2>3, <2>4 DEF RestInv, Grown
<1>5. CASE Insert(t)
  <2>1. View(c).rows = live.rows
    BY <1>5, AppenderReadsLive DEF Insert, Appending
  <2>2. View(c) \in Database /\ Grown(View(c), s)
    BY <1>1 DEF View, RestInv
  <2> DEFINE g == proc[ProcOf[t]] = "start"
  <2>3. /\ live'.rows = Append(live.rows, Row(Null, g)) /\ live'.start = View(c).start
        /\ mine' = [mine EXCEPT ![t] = Len(live.rows) + 1] /\ pc' = [pc EXCEPT ![t] = "link"]
        /\ UNCHANGED <<durable, proc>> /\ pc[t] = "insert"
    BY <1>1, <1>5, <2>1, <2>2 DEF Insert, Database, Goto
  <2>4. g \in BOOLEAN
    OBVIOUS
  <2>5. IF g THEN Len(live.rows) = s - 1 ELSE Len(live.rows) >= s
    BY <1>2, <2>3 DEF RestInv, GenesisOnce
  <2> HIDE DEF g
  <2>6. /\ Len(live'.rows) = Len(live.rows) + 1
        /\ live'.rows[Len(live.rows) + 1] = Row(Null, g)
        /\ \A i \in 1..Len(live.rows) : live'.rows[i] = live.rows[i]
    BY <1>1, <2>3, <2>4, AppendedRow
  <2>7. Grown(live, s)'
    <3>1. \A i \in 1..Len(live'.rows) :
            (live'.rows[i].genesis <=> i = s) /\ (i < s => ~Hashed(live'.rows, i))
      <4> SUFFICES ASSUME NEW i \in 1..Len(live'.rows)
                   PROVE  (live'.rows[i].genesis <=> i = s) /\ (i < s => ~Hashed(live'.rows, i))
        OBVIOUS
      <4>1. CASE i = Len(live.rows) + 1
        BY <1>1, <2>4, <2>5, <2>6, <4>1 DEF Row
      <4>2. CASE i \in 1..Len(live.rows)
        BY <2>6, <4>2 DEF RestInv, Grown, Hashed
      <4> QED BY <1>1, <2>6, <4>1, <4>2
    <3> QED BY <1>1, <2>1, <2>2, <2>3, <2>5, <2>6, <3>1 DEF Grown
  <2>8. GenesisOnce(s)'
    <3>1. g => mine'[t] = s
      BY <1>1, <2>3, <2>5 DEF TypeOK
    <3>2. \A u \in Threads : g /\ pc[u] # "idle" => u = t
      BY <1>2, <2>3 DEF RestInv, GenesisOnce, g
    <3>3. \A u \in Threads : pc'[u] = IF u = t THEN "link" ELSE pc[u]
      BY <1>1, <2>3 DEF TypeOK
    <3>4. \A u \in Threads : u # t => mine'[u] = mine[u]
      BY <1>1, <2>3 DEF TypeOK
    <3>5. \A p \in Procs : proc'[p] = "up" => Len(durable'.rows) >= s /\ Len(live'.rows) >= s
      BY <1>1, <2>3, <2>6 DEF RestInv, GenesisOnce
    <3>6. ASSUME NEW u \in Threads, proc[ProcOf[u]] = "start"
          PROVE  /\ pc'[u] # "idle" => u = MainOf[ProcOf[u]]
                 /\ pc'[u] \notin {"written", "begin", "insert"}
                 /\ pc'[u] \in {"link", "update", "commit", "mark", "marked"} => mine'[u] = s
      <4>1. g
        BY <1>2, <3>6 DEF g
      <4> QED BY <2>3, <3>1, <3>2, <3>3, <3>6, <4>1 DEF RestInv, GenesisOnce
    <3>7. ASSUME NEW u \in Threads
          PROVE  /\ pc'[u] # "idle" => proc[ProcOf[u]] \in {"start", "up"}
                 /\ pc'[u] \in {"mark", "marked"} => proc[ProcOf[u]] = "start" /\ Len(durable.rows) >= s
      BY <2>3, <3>3 DEF RestInv, GenesisOnce
    <3> QED BY <2>3, <3>5, <3>6, <3>7 DEF GenesisOnce
  <2>9. AllHashed(s)'
    <3> SUFFICES ASSUME NEW i \in s..Len(live'.rows)
                 PROVE  Hashed(live'.rows, i) \/ \E u \in Threads : pc'[u] \in {"link", "update"} /\ mine'[u] = i
      BY DEF AllHashed
    <3>1. CASE i = Len(live.rows) + 1
      BY <1>1, <2>3, <3>1 DEF TypeOK
    <3>2. CASE i \in s..Len(live.rows)
      <4>1. \A u \in Threads : pc[u] \notin {"link", "update"}
        BY <1>5, AppenderReadsLive DEF Insert, Appending
      <4>2. Hashed(live.rows, i)
        BY <3>2, <4>1 DEF RestInv, AllHashed
      <4> QED BY <2>6, <3>2, <4>2 DEF Hashed
    <3> QED BY <1>1, <2>6, <3>1, <3>2
  <2> QED BY <2>3, <2>7, <2>8, <2>9 DEF RestInv, Grown
<1>6. CASE Link(t)
  <2>1. UNCHANGED <<durable, live, mine, proc>> /\ pc[t] = "link" /\ pc' = [pc EXCEPT ![t] = "update"]
    BY <1>6 DEF Link, Goto
  <2>2. GenesisOnce(s)'
    BY <1>1, <2>1 DEF RestInv, GenesisOnce, TypeOK
  <2>3. AllHashed(s)'
    BY <1>1, <2>1 DEF RestInv, AllHashed, TypeOK
  <2> QED BY <2>1, <2>2, <2>3 DEF RestInv, Grown
<1>7. CASE Update(t)
  <2>1. View(c).rows = live.rows /\ \A u \in Threads : Appending(u) => u = t
    BY <1>7, AppenderReadsLive DEF Update, Appending
  <2>2. View(c) \in Database /\ Grown(View(c), s)
    BY <1>1 DEF View, RestInv
  <2>3. /\ live'.rows = [live.rows EXCEPT ![mine[t]].prev = link[t]] /\ live'.start = View(c).start
        /\ UNCHANGED <<durable, mine, proc>> /\ pc[t] = "update" /\ pc' = [pc EXCEPT ![t] = "commit"]
    BY <1>7, <2>1, <2>2 DEF Update, OwnId, Database, Goto
  <2>4. /\ mine[t] = Len(live.rows) /\ mine[t] \in 1..Len(live.rows) /\ mine[t] >= s
        /\ link[t] \in Nat /\ link[t] # Null
    <3>1. mine[t] = Len(live.rows) /\ mine[t] # 0 /\ link[t] \in Nat
      BY <1>7 DEF Update, OneInv, RowKnown, TypeOK
    <3>2. mine[t] >= s
      BY <1>1, <1>2, <2>3, <3>1 DEF RestInv, GenesisOnce
    <3> QED BY <1>1, <3>1, <3>2, ValueAssumption
  <2>5. /\ Len(live'.rows) = Len(live.rows) /\ Hashed(live'.rows, mine[t])
        /\ \A i \in 1..Len(live.rows) :
            /\ live'.rows[i].genesis = live.rows[i].genesis
            /\ i # mine[t] => live'.rows[i] = live.rows[i]
    BY <1>1, <2>3, <2>4 DEF Hashed, RowType
  <2>6. Grown(live, s)'
    <3>1. \A i \in 1..Len(live'.rows) :
            (live'.rows[i].genesis <=> i = s) /\ (i < s => ~Hashed(live'.rows, i))
      BY <1>1, <2>4, <2>5 DEF RestInv, Grown, Hashed
    <3> QED BY <1>1, <2>1, <2>2, <2>3, <2>5, <3>1 DEF Grown
  <2>7. GenesisOnce(s)'
    BY <1>1, <2>3, <2>5 DEF RestInv, GenesisOnce, TypeOK
  <2>8. AllHashed(s)'
    <3> SUFFICES ASSUME NEW i \in s..Len(live'.rows) PROVE Hashed(live'.rows, i)
      BY DEF AllHashed
    <3>1. CASE i = mine[t]
      BY <2>5, <3>1
    <3>2. CASE i # mine[t]
      <4>1. i \in s..Len(live.rows) /\ i \in 1..Len(live.rows)
        BY <1>1, <2>5
      <4>2. \A u \in Threads : pc[u] \in {"link", "update"} => mine[u] # i
        BY <2>1, <3>2 DEF Appending
      <4>3. Hashed(live.rows, i)
        BY <4>1, <4>2 DEF RestInv, AllHashed
      <4> QED BY <2>5, <3>2, <4>1, <4>3 DEF Hashed
    <3> QED BY <3>1, <3>2
  <2> QED BY <2>3, <2>6, <2>7, <2>8 DEF RestInv, Grown
<1>8. CASE Finish(t)
  <2>1. \A u \in Threads : Appending(u) => u = t
    BY <1>8, AppenderReadsLive DEF Finish, Appending
  <2>2. /\ UNCHANGED <<live, mine, proc>> /\ pc[t] = "commit"
        /\ pc' = [pc EXCEPT ![t] = IF proc[ProcOf[t]] = "start" THEN "mark" ELSE "idle"]
        /\ durable' \in {durable, live}
    BY <1>8 DEF Finish, Commit, Goto
  <2>3. durable'.rows = live.rows
    BY <1>8, <2>1 DEF Finish, Commit, OneInv, LiveKnown, Appending
  <2>4. mine[t] = Len(live.rows)
    BY <2>2 DEF OneInv, RowKnown
  <2>5. GenesisOnce(s)'
    BY <1>1, <1>2, <2>2, <2>3, <2>4 DEF RestInv, GenesisOnce, TypeOK
  <2>6. AllHashed(s)'
    BY <1>1, <2>2 DEF RestInv, AllHashed, TypeOK
  <2> QED BY <2>2, <2>5, <2>6 DEF RestInv, Grown
<1>9. ~Fail(t)
  BY DEF Fail, Quiet
<1> QED BY <1>3, <1>4, <1>5, <1>6, <1>7, <1>8, <1>9

LEMMA RestStep ==
    ASSUME OneProcess, Quiet, OneInv, OneInv', NEW s \in Nat \ {0}, RestInv(s), [Next]_vars
    PROVE  RestInv(s)'
<1>1. /\ TypeOK /\ durable \in Database /\ live \in Database
      /\ Len(durable.rows) \in Nat /\ Len(live.rows) \in Nat
  BY DEF OneInv, TypeOK, Database
<1>2. ASSUME NEW t \in Threads,
             Enter(t) \/ Begin(t) \/ Insert(t) \/ Link(t) \/ Update(t) \/ Finish(t) \/ Fail(t)
      PROVE  RestInv(s)'
  BY <1>2, RestAppendStep
<1>3. ASSUME NEW t \in Threads, Mark(t) \/ Execute(t) PROVE RestInv(s)'
  <2>1. View(ConnOf[t]) \in Database /\ Grown(View(ConnOf[t]), s)
    BY <1>1 DEF View, RestInv
  <2>2. /\ UNCHANGED <<durable, mine, proc>> /\ pc' = [pc EXCEPT ![t] = pc'[t]]
        /\ live'.rows = View(ConnOf[t]).rows
        /\ \/ pc[t] = "idle" /\ pc'[t] = "written" /\ proc[ProcOf[t]] = "up" /\ live' = View(ConnOf[t])
           \/ pc[t] = "mark" /\ pc'[t] = "marked" /\ live'.start = mine[t]
    BY <1>1, <1>3, <2>1 DEF Mark, Execute, Goto, TypeOK, Database
  <2>3. View(ConnOf[t]).rows = live.rows
    BY <1>3 DEF Mark, Execute, MayWrite, View, OneInv, LiveKnown
  <2>4. Grown(live, s)'
    <3>1. CASE pc[t] = "idle"
      BY <2>1, <2>2, <3>1
    <3>2. CASE pc[t] = "mark"
      <4>1. mine[t] = s /\ Len(durable.rows) >= s /\ live.rows = durable.rows
        <5>1. mine[t] = s /\ Len(durable.rows) >= s /\ proc[ProcOf[t]] = "start"
          BY <3>2 DEF RestInv, GenesisOnce
        <5>2. \A u \in Threads : ~Appending(u)
          BY <3>2, <5>1, TopologyAssumption DEF RestInv, GenesisOnce, Appending, OneProcess
        <5> QED BY <5>1, <5>2 DEF OneInv, LiveKnown, Appending
      <4> QED BY <1>1, <2>2, <2>3, <3>2, <4>1 DEF RestInv, Grown, Hashed
    <3> QED BY <2>2, <3>1, <3>2
  <2>5. GenesisOnce(s)'
    BY <1>1, <2>2, <2>3 DEF RestInv, GenesisOnce, TypeOK
  <2>6. AllHashed(s)'
    BY <1>1, <2>2, <2>3 DEF RestInv, AllHashed, TypeOK
  <2> QED BY <2>2, <2>4, <2>5, <2>6 DEF RestInv, Grown
<1>4. ASSUME NEW t \in Threads, Marked(t) \/ ExecuteCommit(t) PROVE RestInv(s)'
  <2>1. /\ UNCHANGED <<live, mine>> /\ pc' = [pc EXCEPT ![t] = "idle"]
        /\ durable' \in {durable, live}
        /\ \/ pc[t] = "written" /\ UNCHANGED proc
           \/ pc[t] = "marked" /\ proc' = [proc EXCEPT ![ProcOf[t]] = "up"]
    BY <1>4 DEF Marked, ExecuteCommit, Commit, Goto
  <2>2. AllHashed(s)'
    BY <1>1, <2>1 DEF RestInv, AllHashed, TypeOK
  <2>3. GenesisOnce(s)'
    <3>1. CASE pc[t] = "written"
      <4>1. proc[ProcOf[t]] = "up" /\ UNCHANGED proc
        BY <2>1, <3>1 DEF RestInv, GenesisOnce
      <4>2. \A p \in Procs : proc[p] = "up"
        BY <4>1, TopologyAssumption DEF OneProcess
      <4>3. \A u \in Threads : pc[u] \notin {"mark", "marked"} /\ proc[ProcOf[u]] = "up"
        BY <4>2, TopologyAssumption DEF RestInv, GenesisOnce
      <4>4. \A u \in Threads : pc'[u] \notin {"mark", "marked"}
        BY <1>1, <2>1, <4>3 DEF TypeOK
      <4> QED BY <2>1, <4>1, <4>3, <4>4 DEF RestInv, GenesisOnce
    <3>2. CASE pc[t] = "marked"
      <4>1. Len(durable.rows) >= s /\ proc[ProcOf[t]] = "start"
        BY <3>2 DEF RestInv, GenesisOnce
      <4>2. \A u \in Threads : ~Appending(u) /\ (u # t => pc[u] = "idle")
        BY <3>2, <4>1, TopologyAssumption DEF RestInv, GenesisOnce, Appending, OneProcess
      <4>3. live.rows = durable.rows
        BY <4>2 DEF OneInv, LiveKnown, Appending
      <4>4. \A u \in Threads : pc'[u] = "idle"
        BY <1>1, <2>1, <4>2 DEF TypeOK
      <4> QED BY <2>1, <4>1, <4>3, <4>4 DEF GenesisOnce
    <3> QED BY <2>1, <3>1, <3>2
  <2> QED BY <2>1, <2>2, <2>3 DEF RestInv, Grown
<1>5. ASSUME NEW p \in Procs, StartProc(p) \/ FoundChain(p) PROVE RestInv(s)'
  <2>1. UNCHANGED <<durable, live, pc, mine>>
    BY <1>5 DEF StartProc, FoundChain
  <2>2. AllHashed(s)'
    BY <2>1 DEF RestInv, AllHashed
  <2>3. \A t \in Threads : ProcOf[t] = p
    BY TopologyAssumption DEF OneProcess
  <2>4. CASE StartProc(p)
    <3>1. \A t \in Threads : pc[t] = "idle"
      BY <2>3, <2>4 DEF StartProc, RestInv, GenesisOnce
    <3>2. \A q \in Procs : proc'[q] = "start"
      BY <1>1, <2>4 DEF StartProc, OneProcess, TypeOK
    <3>3. GenesisOnce(s)'
      BY <2>1, <3>1, <3>2 DEF GenesisOnce
    <3> QED BY <2>1, <2>2, <3>3 DEF RestInv, Grown
  <2>5. CASE FoundChain(p)
    <3> DEFINE t == MainOf[p]
    <3>1. t \in Threads /\ pc[t] = "idle" /\ proc[p] = "start" /\ ChainStart(View(ConnOf[t])) # 0
      BY <2>5, TopologyAssumption DEF FoundChain
    <3>2. \A u \in Threads : pc[u] = "idle"
      BY <2>3, <3>1 DEF RestInv, GenesisOnce
    <3>3. live.rows = durable.rows
      BY <3>2 DEF OneInv, LiveKnown
    <3>4. View(ConnOf[t]) \in Database /\ Grown(View(ConnOf[t]), s) /\ View(ConnOf[t]).rows = live.rows
      BY <1>1, <3>3 DEF View, RestInv
    <3>5. Len(live.rows) >= s
      BY <1>1, <3>1, <3>4, GrownStart
    <3>6. GenesisOnce(s)'
      BY <2>1, <3>2, <3>3, <3>5 DEF GenesisOnce
    <3> QED BY <2>1, <2>2, <3>6 DEF RestInv, Grown
  <2> QED BY <1>5, <2>4, <2>5
<1>6. \A p \in Procs : ~Crash(p)
  BY DEF Crash, Quiet
<1>7. CASE UNCHANGED vars
  BY <1>7 DEF vars, RestInv, Grown, GenesisOnce, AllHashed
<1> QED BY <1>2, <1>3, <1>4, <1>5, <1>6, <1>7 DEF Next, Step

\* Rows that are all hashed and strict are what verify_audit_chain() expects.
LEMMA RestVerifies ==
    ASSUME OneInv, NEW s \in Nat \ {0}, RestInv(s)
    PROVE  ChainSoundAtRest
<1> SUFFICES ASSUME \A t \in Threads : pc[t] \in {"idle", "written"}, ChainStart(durable) # 0
             PROVE  Breaks(durable) = {}
  BY DEF ChainSoundAtRest, ChainSound
<1> DEFINE rows == durable.rows
<1>1. durable \in Database /\ rows \in Seq(RowType) /\ Len(rows) \in Nat /\ Strict(rows)
  BY DEF OneInv, TypeOK, Database
<1>2. live.rows = rows
  BY DEF OneInv, LiveKnown
<1>3. ChainStart(durable) = s /\ s <= Len(rows)
  BY <1>1, GrownStart DEF RestInv
<1>4. \A i \in s..Len(rows) : Hashed(rows, i)
  BY <1>2 DEF RestInv, AllHashed
<1>5. \A i \in 1..Len(rows) : i < s => ~Hashed(rows, i)
  BY DEF RestInv, Grown
<1> SUFFICES ASSUME NEW i \in s..Len(rows)
             PROVE  rows[i].prev = Latest({j \in s..(i - 1) : Hashed(rows, j)})
  BY <1>3, <1>4 DEF Breaks
<1>6. LinksToLatest(rows, i, rows[i].prev)
  BY <1>1, <1>4 DEF Strict
<1> DEFINE ids == {j \in s..(i - 1) : Hashed(rows, j)}
<1>7. ids = s..(i - 1)
  BY <1>4
<1> HIDE DEF ids
<1>8. CASE i = s
  <2>1. ids = {}
    BY <1>7, <1>8
  <2>2. rows[i].prev = 0
    BY <1>1, <1>5, <1>6, <1>8 DEF LinksToLatest
  <2> QED BY <2>1, <2>2 DEF Latest, ids
<1>9. CASE i > s
  <2>1. i - 1 \in ids /\ i - 1 \in 1..(i - 1)
    BY <1>7, <1>9
  <2>2. Hashed(rows, i - 1)
    BY <1>4, <1>9
  <2>3. rows[i].prev = i - 1
    BY <1>6, <2>1, <2>2 DEF LinksToLatest
  <2>4. Latest(ids) = i - 1
    <3>1. ids \in SUBSET (1..(i - 1)) /\ i - 1 \in Nat
      BY <1>7, <1>9
    <3>2. Latest(ids) \in 0..(i - 1) /\ \A j \in ids : j <= Latest(ids)
      BY <3>1, LatestIsLargest
    <3> QED BY <2>1, <3>2
  <2> QED BY <2>3, <2>4 DEF ids
<1> QED BY <1>8, <1>9

\* One process, whatever connections its threads share and whatever statements they
\* interleave, as long as no statement fails and the process does not die: with no
\* append pending the committed chain verifies, from the genesis of the first start on.
THEOREM OneProcessSoundAtRest ==
    ASSUME OneProcess, Quiet
    PROVE  Spec => []ChainSoundAtRest
<1> DEFINE I == OneInv /\ \E s \in Nat \ {0} : RestInv(s)
<1>1. Init => I
  BY OneInit, RestInit
<1>2. I /\ [Next]_vars => I'
  <2> SUFFICES ASSUME OneInv, NEW s \in Nat \ {0}, RestInv(s), [Next]_vars PROVE I'
    OBVIOUS
  <2>1. OneInv'
    BY OneStep
  <2>2. RestInv(s)'
    BY <2>1, RestStep
  <2> QED BY <2>1, <2>2
<1>3. I => ChainSoundAtRest
  BY RestVerifies
<1> QED BY <1>1, <1>2, <1>3, PTL DEF Spec
=============================================================================
