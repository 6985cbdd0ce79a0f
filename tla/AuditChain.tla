----------------------------- MODULE AuditChain -----------------------------
(***************************************************************************)
(* The hash chain of the audit log (CORE/audit_chain.py: append_entry,     *)
(* ensure_chain_started, chain_start_id, verify_audit_chain) and the way   *)
(* DB/db_manager.py's shared connection commits.                           *)
(*                                                                         *)
(* Several processes write to one SQLite database in WAL mode.  The        *)
(* threads of a process share DBManager's connection (the GUI thread, the  *)
(* workers of a bulk upload, the scheduler); a scan thread opens one of    *)
(* its own.  A connection is in at most one transaction, one connection at *)
(* a time holds the database's write lock, and every statement is a step   *)
(* of its own: between two statements of one thread another thread may     *)
(* run, on the same connection too.                                        *)
(*                                                                         *)
(* SHA-256 does not collide, so the hash of an entry is known by the entry *)
(* it was chained to: a row stores the id of that entry, 0 for             *)
(* GENESIS_HASH, or Null while entry_hash IS NULL.                         *)
(***************************************************************************)
EXTENDS Naturals, Sequences, FiniteSets

CONSTANTS
    Procs,      \* processes: the application, its second window, the CLI tools
    Threads,    \* their threads
    Conns,      \* SQLite connections
    ProcOf,     \* the process of each thread
    ConnOf,     \* the connection each thread uses
    MainOf,     \* the thread of each process that opens the database
    Chained,    \* the database has its chain already when the processes start
    Faults,     \* the kinds of failure the environment may inject
    MaxRows,    \* bound: rows of audit_log
    Null,       \* entry_hash IS NULL
    None        \* nobody

ASSUME TopologyAssumption ==
    /\ ProcOf \in [Threads -> Procs]
    /\ ConnOf \in [Threads -> Conns]
    /\ MainOf \in [Procs -> Threads]
    /\ \A p \in Procs : ProcOf[MainOf[p]] = p
    \* No connection is shared between processes.
    /\ \A t, u \in Threads : ConnOf[t] = ConnOf[u] => ProcOf[t] = ProcOf[u]
ASSUME FaultAssumption == Faults \subseteq {"fail", "crash"}
ASSUME ValueAssumption ==
    Chained \in BOOLEAN /\ MaxRows \in Nat /\ Null \notin Nat /\ None \notin Threads \cup Conns

VARIABLES
    durable,    \* the committed database: audit_log and settings.audit_chain_start_id
    live,       \* the same as its present writer sees it
    writer,     \* the connection in a write transaction, or None
    mutex,      \* _APPEND_LOCK: the thread of each process that holds it, or None
    pc,         \* the next statement of each thread
    mine,       \* new_id of append_entry()
    link,       \* the result of its _previous_hash()
    proc        \* where each process is in its life

vars == <<durable, live, writer, mutex, pc, mine, link, proc>>

Steps == {"idle", "begin", "insert", "link", "update", "commit", "mark", "marked", "written"}

\* A row of audit_log: what it is chained to, and whether it is the genesis.
Row(prev, genesis) == [prev |-> prev, genesis |-> genesis]

Hashed(rows, i) == rows[i].prev # Null

\* The last of a set of ids, 0 (GENESIS_HASH) if there is none.
Latest(ids) == IF ids = {} THEN 0 ELSE CHOOSE i \in ids : \A j \in ids : j <= i

\* _previous_hash(): the last row before id n that has a hash.
PreviousRow(rows, n) == n - 1
HashColumn(rows, n) ==
    IF n = 1 THEN 0 ELSE IF Hashed(rows, n - 1) THEN n - 1 ELSE Null
PreviousHash(rows, n) == Latest({i \in 1..(n - 1) : Hashed(rows, i)})

\* chain_start_id(): the setting, else the first genesis row; 0 for none.
ChainStart(db) ==
    LET genesis == {i \in 1..Len(db.rows) : db.rows[i].genesis} IN
    IF db.start # 0 THEN db.start
    ELSE IF genesis = {} THEN 0 ELSE CHOOSE i \in genesis : \A j \in genesis : i <= j

\* verify_audit_chain(): the rows it reports as unhashed or modified.
Breaks(db) ==
    LET start == ChainStart(db) IN
    {i \in start..Len(db.rows) :
        \/ ~Hashed(db.rows, i)
        \/ db.rows[i].prev # Latest({j \in start..(i - 1) : Hashed(db.rows, j)})}

\* What a statement on connection c reads.
View(c) == IF writer = c THEN live ELSE durable

\* The write lock is free, or held by connection c itself.
MayWrite(c) == writer \in {None, c}

\* `with _APPEND_LOCK': no other thread of the process is inside append_entry().
LockIgnored(t) == TRUE
LockFree(t) == mutex[ProcOf[t]] = None

Goto(t, step) == pc' = [pc EXCEPT ![t] = step]

May(kind) == kind \in Faults

\* COMMIT on connection c, a no-op outside a transaction.
Commit(c) ==
    IF writer = c THEN durable' = live /\ writer' = None /\ UNCHANGED live
    ELSE UNCHANGED <<durable, live, writer>>

\* ROLLBACK on connection c.
Rollback(c) ==
    IF writer = c THEN live' = durable /\ writer' = None /\ UNCHANGED durable
    ELSE UNCHANGED <<durable, live, writer>>

-----------------------------------------------------------------------------
(* append_entry() *)

\* `with _APPEND_LOCK'; a process that opens the database appends its genesis.
Enter(t) ==
    /\ pc[t] = "idle" /\ LockFree(t)
    /\ \/ proc[ProcOf[t]] = "up"
       \/ proc[ProcOf[t]] = "start" /\ t = MainOf[ProcOf[t]] /\ ChainStart(View(ConnOf[t])) = 0
    /\ Len(durable.rows) < MaxRows
    /\ mutex' = [mutex EXCEPT ![ProcOf[t]] = t]
    /\ Goto(t, "begin")
    /\ UNCHANGED <<durable, live, writer, mine, link, proc>>

\* _begin_immediate(): a transaction another thread left open on this connection
\* is committed, then BEGIN IMMEDIATE takes the write lock, or waits for it.
Begin(t) ==
    LET c == ConnOf[t] IN
    /\ pc[t] = "begin"
    /\ \/ writer = c /\ Commit(c) /\ UNCHANGED pc
       \/ writer = None /\ writer' = c /\ live' = durable /\ Goto(t, "insert")
          /\ UNCHANGED durable
    /\ UNCHANGED <<mutex, mine, link, proc>>

\* INSERT (it opens a transaction if there is none any more), then lastrowid.
Insert(t) ==
    LET c == ConnOf[t] IN
    /\ pc[t] = "insert" /\ MayWrite(c)
    /\ live' = [View(c) EXCEPT !.rows =
                    Append(@, Row(Null, proc[ProcOf[t]] = "start"))]
    /\ writer' = c
    /\ mine' = [mine EXCEPT ![t] = Len(View(c).rows) + 1]
    /\ Goto(t, "link")
    /\ UNCHANGED <<durable, mutex, link, proc>>

\* SELECT the row and the hash before it.
Link(t) ==
    /\ pc[t] = "link"
    /\ link' = [link EXCEPT ![t] = PreviousHash(View(ConnOf[t]).rows, mine[t])]
    /\ Goto(t, "update")
    /\ UNCHANGED <<durable, live, writer, mutex, mine, proc>>

\* UPDATE audit_log SET entry_hash = ? WHERE id = ?
OwnId(t) == mine[t]
Update(t) ==
    LET c == ConnOf[t] IN
    /\ pc[t] = "update" /\ MayWrite(c)
    /\ live' = [View(c) EXCEPT !.rows[OwnId(t)].prev = link[t]]
    /\ writer' = c
    /\ Goto(t, "commit")
    /\ UNCHANGED <<durable, mutex, mine, link, proc>>

\* COMMIT, and the lock is released.
Finish(t) ==
    /\ pc[t] = "commit"
    /\ Commit(ConnOf[t])
    /\ mutex' = [mutex EXCEPT ![ProcOf[t]] = None]
    /\ Goto(t, IF proc[ProcOf[t]] = "start" THEN "mark" ELSE "idle")
    /\ UNCHANGED <<mine, link, proc>>

\* A statement fails (busy for 5 s, disk full): rollback, and the exception
\* leaves append_entry().  A process that cannot open the database ends.
Fail(t) ==
    /\ May("fail") /\ pc[t] \in {"begin", "insert", "link", "update", "commit"}
    /\ IF pc[t] = "begin" THEN UNCHANGED <<durable, live, writer>> ELSE Rollback(ConnOf[t])
    /\ mutex' = [mutex EXCEPT ![ProcOf[t]] = None]
    /\ Goto(t, "idle")
    /\ proc' = IF proc[ProcOf[t]] = "start" THEN [proc EXCEPT ![ProcOf[t]] = "dead"] ELSE proc
    /\ UNCHANGED <<mine, link>>

-----------------------------------------------------------------------------
(* ensure_chain_started() *)

\* The chain exists already: nothing to do.
FoundChain(p) ==
    LET t == MainOf[p] IN
    /\ proc[p] = "start" /\ pc[t] = "idle"
    /\ ChainStart(View(ConnOf[t])) # 0
    /\ proc' = [proc EXCEPT ![p] = "up"]
    /\ UNCHANGED <<durable, live, writer, mutex, pc, mine, link>>

\* INSERT INTO settings ... ON CONFLICT(key) DO UPDATE, then commit.
Mark(t) ==
    LET c == ConnOf[t] IN
    /\ pc[t] = "mark" /\ MayWrite(c)
    /\ live' = [View(c) EXCEPT !.start = mine[t]]
    /\ writer' = c
    /\ Goto(t, "marked")
    /\ UNCHANGED <<durable, mutex, mine, link, proc>>

Marked(t) ==
    /\ pc[t] = "marked"
    /\ Commit(ConnOf[t])
    /\ Goto(t, "idle")
    /\ proc' = [proc EXCEPT ![ProcOf[t]] = "up"]
    /\ UNCHANGED <<mutex, mine, link>>

-----------------------------------------------------------------------------
(* DBManager.execute(): a statement on any other table, then a commit of       *)
(* whatever transaction the connection is in; no lock of the process guards it *)

Execute(t) ==
    LET c == ConnOf[t] IN
    /\ pc[t] = "idle" /\ proc[ProcOf[t]] = "up" /\ MayWrite(c)
    /\ live' = View(c) /\ writer' = c
    /\ Goto(t, "written")
    /\ UNCHANGED <<durable, mutex, mine, link, proc>>

ExecuteCommit(t) ==
    /\ pc[t] = "written"
    /\ Commit(ConnOf[t])
    /\ Goto(t, "idle")
    /\ UNCHANGED <<mutex, mine, link, proc>>

-----------------------------------------------------------------------------
StartProc(p) ==
    /\ proc[p] = "off"
    /\ proc' = [proc EXCEPT ![p] = "start"]
    /\ UNCHANGED <<durable, live, writer, mutex, pc, mine, link>>

\* The process dies; SQLite rolls its transaction back.
Crash(p) ==
    /\ May("crash") /\ proc[p] \in {"start", "up"}
    /\ proc' = [proc EXCEPT ![p] = "dead"]
    /\ pc' = [t \in Threads |-> IF ProcOf[t] = p THEN "idle" ELSE pc[t]]
    /\ mutex' = [mutex EXCEPT ![p] = None]
    /\ IF writer # None /\ \E t \in Threads : ConnOf[t] = writer /\ ProcOf[t] = p
       THEN live' = durable /\ writer' = None
       ELSE UNCHANGED <<live, writer>>
    /\ UNCHANGED <<durable, mine, link>>

\* Rows older than the chain are not hashed.
Init ==
    /\ \E older \in 0..1 :
        durable = [rows |-> [i \in 1..(older + (IF Chained THEN 1 ELSE 0)) |->
                                IF i <= older THEN Row(Null, FALSE) ELSE Row(0, TRUE)],
                   start |-> IF Chained THEN older + 1 ELSE 0]
    /\ live = durable
    /\ writer = None
    /\ mutex = [p \in Procs |-> None]
    /\ pc = [t \in Threads |-> "idle"]
    /\ mine = [t \in Threads |-> 0]
    /\ link = [t \in Threads |-> 0]
    /\ proc = [p \in Procs |-> "off"]

Step(t) ==
    \/ Enter(t) \/ Begin(t) \/ Insert(t) \/ Link(t) \/ Update(t) \/ Finish(t) \/ Fail(t)
    \/ Mark(t) \/ Marked(t) \/ Execute(t) \/ ExecuteCommit(t)

Next ==
    \/ \E t \in Threads : Step(t)
    \/ \E p \in Procs : StartProc(p) \/ FoundChain(p) \/ Crash(p)

Spec == Init /\ [][Next]_vars
-----------------------------------------------------------------------------
(* Properties *)

RowType == [prev : Nat \cup {Null}, genesis : BOOLEAN]
Database == [rows : Seq(RowType), start : Nat]

TypeOK ==
    /\ durable \in Database
    /\ live \in Database
    /\ writer \in Conns \cup {None}
    /\ mutex \in [Procs -> Threads \cup {None}]
    /\ pc \in [Threads -> Steps]
    /\ mine \in [Threads -> Nat]
    /\ link \in [Threads -> Nat]
    /\ proc \in [Procs -> {"off", "start", "up", "dead"}]

\* The committed chain verifies at any time, whatever fails: verify_audit_chain()
\* reports no break that nobody made.
ChainSound == ChainStart(durable) # 0 => Breaks(durable) = {}

\* The same of a moment without a pending append.
ChainSoundAtRest == (\A t \in Threads : pc[t] \in {"idle", "written"}) => ChainSound

\* No two entries are chained to the same one.  (True of one process, whatever
\* statements its threads interleave on the shared connection: _APPEND_LOCK.)
NoFork ==
    \A i, j \in 1..Len(durable.rows) :
        Hashed(durable.rows, i) /\ durable.rows[i].prev = durable.rows[j].prev => i = j
-----------------------------------------------------------------------------
(* What comments say of the code, and the code does not keep                   *)

\* append_entry(): "hash'siz yarim kayit birakilmaz": an entry without its hash
\* is one whose thread is still at it.  (DBManager.execute() on the shared
\* connection commits the INSERT of another thread, which then dies.)
NoHalfEntry ==
    \A i \in 1..Len(durable.rows) :
        (ChainStart(durable) # 0 /\ i >= ChainStart(durable) /\ ~Hashed(durable.rows, i))
            => \E t \in Threads : mine[t] = i /\ pc[t] \in {"link", "update", "commit"}

\* _begin_immediate(): without it "iki yazar ayni onceki hash'i okuyup iki kaydi
\* ayni halkaya baglayabilirdi ve zincir catallanirdi".  NoFork above, of two
\* processes: a commit of another thread ends the transaction it opened.

\* ensure_chain_started() is "idempotent, her acilista cagrilabilir": the chain
\* has one genesis.
OneGenesis ==
    Cardinality({i \in 1..Len(durable.rows) : durable.rows[i].genesis}) <= 1
=============================================================================
