------------------------------ MODULE Checkout ------------------------------
(***************************************************************************)
(* Transparent access (CORE/checkout.py, CORE/safezone.py and the parts of *)
(* main.py and UI/main_window_open.py that drive them).                    *)
(*                                                                         *)
(* Several runs of the application share one data directory: the encrypted *)
(* documents (.hcl), the SQLite tables `files` and `file_locks`, and the   *)
(* SafeZone directory that holds decrypted copies while they are edited.   *)
(* Each run has one GUI thread; it starts, opens documents, writes them    *)
(* back, closes them and quits, or it crashes at any step.  A restart is a *)
(* new run, so `Sessions' is the set of runs (each draws its own random    *)
(* SESSION_ID) and a run that ended never comes back.                      *)
(*                                                                         *)
(* A document's content is the set of edits it contains: an edit is lost   *)
(* exactly when a set that had it is replaced by one that does not.        *)
(* SHA-256 comparisons are comparisons of contents.                        *)
(***************************************************************************)
EXTENDS FiniteSets

CONSTANTS
    Sessions,   \* runs of the application
    Hosts,      \* machines
    HostOf,     \* the machine each run executes on (socket.gethostname())
    Files,      \* rows of `files', each with its .hcl document
    Edits,      \* bound: the edits users may make
    Faults,     \* the kinds of failure the environment may inject
    None        \* no row / no document

FaultKinds == {"decrypt", "allocate", "write", "encrypt", "shred",
               "unreadable", "busy", "pidreuse"}

ASSUME HostAssumption == HostOf \in [Sessions -> Hosts]
ASSUME FaultAssumption == Faults \subseteq FaultKinds
ASSUME NoneAssumption == None \notin Sessions \cup Files \cup Edits

VARIABLES
    phase,      \* where each run is in its life
    lock,       \* file_locks: file_id -> session_id of the row, or None
    rows,       \* the rows a starting run fetched and has not yet judged
    reg,        \* CheckoutRegistry._acik: the documents each run has open
    copy,       \* SafeZone: content of each run's copy, or Gone
    base,       \* CheckedOutFile.baseline_sha256
    vault,      \* content of each .hcl
    header,     \* original_sha256 in the header of each .hcl
    digest,     \* files.original_sha256
    task,       \* what each run's GUI thread is doing
    made,       \* edits made so far
    stolen      \* history: files whose row was deleted under a live holder

vars == <<phase, lock, rows, reg, copy, base, vault, header, digest, task, made, stolen>>

Content == SUBSET Edits

\* A SafeZone copy that is not on disk: no content is equal to it.
Gone == {None}

Phases == {"off", "purge", "fetch", "sweep", "up", "exit", "closed", "crashed"}
Steps == {"idle", "decrypt", "write", "look", "hash", "replace", "shred",
          "release", "next", "wipe"}
Row == [file : Files, holder : Sessions]
Result == [file : Files, sha : Content]
Task == [at : Steps, file : Files \cup {None}, sha : Content, close : BOOLEAN,
         todo : SUBSET Files, results : SUBSET Result]

Idle == [at |-> "idle", file |-> None, sha |-> {}, close |-> FALSE,
         todo |-> {}, results |-> {}]

Alive(s) == phase[s] \notin {"off", "closed", "crashed"}

\* The GUI thread is between two operations.
Ready(s) == phase[s] = "up" /\ task[s] = Idle

\* The GUI thread of s is inside check_out / check_in at the named step.
At(s, step) == Alive(s) /\ task[s].at = step

May(kind) == kind \in Faults

-----------------------------------------------------------------------------
(* The lock table *)

\* acquire_lock(): the INSERT finds no row, or one of this very run.
LockableByAnyone(s, f) == TRUE
Lockable(s, f) == lock[f] \in {None, s}

\* release_lock(): deletes the row only if it is this run's own.
Unlock(s, f) == IF lock[f] = s THEN [lock EXCEPT ![f] = None] ELSE lock

\* What a call of release_lock() may leave: SQLite can stay busy past
\* busy_timeout, and then the row survives and the call raises.
NoUnlock(s, f) == {lock}
AfterUnlock(s, f) == {Unlock(s, f)} \cup (IF May("busy") THEN {lock} ELSE {})

\* What _pid_alive() may answer: true of a running process, and of a dead one
\* when its pid has been given to another program.
AlwaysAlive(s) == {TRUE}
PidAlive(s) == {Alive(s)} \cup (IF May("pidreuse") THEN {TRUE} ELSE {})

\* purge_on_exit() or purge_orphans() left out.
NoPurge == UNCHANGED copy

\* safezone.purge(): every file of the directory, whatever run wrote it, is
\* shredded; one that cannot be shredded is reported and skipped.
Purge ==
    \E kept \in IF May("shred") THEN SUBSET (Sessions \X Files) ELSE {{}} :
        copy' = [s \in Sessions |-> [f \in Files |->
                    IF <<s, f>> \in kept THEN copy[s][f] ELSE Gone]]

-----------------------------------------------------------------------------
(* Startup: main.py, in this order, before the login dialog *)

Start(s) ==
    /\ phase[s] = "off"
    /\ phase' = [phase EXCEPT ![s] = "purge"]
    /\ UNCHANGED <<lock, rows, reg, copy, base, vault, header, digest, task, made, stolen>>

PurgeOrphans(s) ==
    /\ phase[s] = "purge"
    /\ Purge
    /\ phase' = [phase EXCEPT ![s] = "fetch"]
    /\ UNCHANGED <<lock, rows, reg, base, vault, header, digest, task, made, stolen>>

\* release_stale_locks(): SELECT * FROM file_locks ...
FetchLocks(s) ==
    /\ phase[s] = "fetch"
    /\ rows' = [rows EXCEPT ![s] = {r \in Row : lock[r.file] = r.holder}]
    /\ phase' = [phase EXCEPT ![s] = "sweep"]
    /\ UNCHANGED <<lock, reg, copy, base, vault, header, digest, task, made, stolen>>

\* ... then, row by row, skip it or DELETE ... WHERE file_id = ?
SweepRow(s) ==
    /\ phase[s] = "sweep"
    /\ \E r \in rows[s] : \E alive \in PidAlive(r.holder) :
        /\ rows' = [rows EXCEPT ![s] = @ \ {r}]
        /\ \/ /\ HostOf[r.holder] # HostOf[s] \/ alive
              /\ UNCHANGED <<lock, stolen>>
           \/ /\ HostOf[r.holder] = HostOf[s] /\ ~alive
              /\ lock' = [lock EXCEPT ![r.file] = None]
              /\ stolen' = IF \E h \in Sessions : lock[r.file] = h /\ Alive(h)
                           THEN stolen \cup {r.file} ELSE stolen
    /\ UNCHANGED <<phase, reg, copy, base, vault, header, digest, task, made>>

\* The sweep ends, or a busy database aborts it; main.py goes on to the login.
EnterSession(s) ==
    /\ phase[s] = "sweep"
    /\ rows[s] = {} \/ May("busy")
    /\ rows' = [rows EXCEPT ![s] = {}]
    /\ phase' = [phase EXCEPT ![s] = "up"]
    /\ UNCHANGED <<lock, reg, copy, base, vault, header, digest, task, made, stolen>>

Startup(s) ==
    PurgeOrphans(s) \/ FetchLocks(s) \/ SweepRow(s) \/ EnterSession(s)

-----------------------------------------------------------------------------
(* check_out() *)

\* A registered document whose copy is still there is handed back as it is,
\* which changes nothing.  Otherwise a stale entry is dropped and the row is
\* INSERTed: one of another run raises FileLockedError, one of this run is
\* taken over.
Open(s, f) ==
    /\ Ready(s)
    /\ f \notin reg[s] \/ copy[s][f] = Gone
    /\ reg' = [reg EXCEPT ![s] = @ \ {f}]
    /\ \/ /\ Lockable(s, f)
          /\ lock' = [lock EXCEPT ![f] = s]
          /\ task' = [task EXCEPT ![s] = [Idle EXCEPT !.at = "decrypt", !.file = f]]
       \/ /\ ~Lockable(s, f) \/ May("busy")
          /\ UNCHANGED <<lock, task>>
    /\ UNCHANGED <<phase, rows, copy, base, vault, header, digest, made, stolen>>

\* decrypt_file(): the content, and the digest its header names, which becomes
\* the baseline.
Decrypt(s) ==
    /\ At(s, "decrypt")
    /\ \/ /\ task' = [task EXCEPT ![s].at = "write", ![s].sha = vault[task[s].file]]
          /\ base' = [base EXCEPT ![s][task[s].file] = header[task[s].file]]
          /\ UNCHANGED lock
       \/ /\ May("decrypt")
          /\ lock' \in AfterUnlock(s, task[s].file)
          /\ task' = [task EXCEPT ![s] = Idle]
          /\ UNCHANGED base
    /\ UNCHANGED <<phase, rows, reg, copy, vault, header, digest, made, stolen>>

\* allocate() a random name, write the copy, register it.  A failing
\* allocate() is outside the try blocks; a failing write may leave a part of
\* the copy on disk.
WriteCopy(s) ==
    LET f == task[s].file IN
    /\ At(s, "write")
    /\ task' = [task EXCEPT ![s] = Idle]
    /\ \/ /\ copy' = [copy EXCEPT ![s][f] = task[s].sha]
          /\ reg' = [reg EXCEPT ![s] = @ \cup {f}]
          /\ UNCHANGED lock
       \/ /\ May("allocate")
          /\ UNCHANGED <<lock, reg, copy>>
       \/ /\ May("write")
          /\ lock' \in AfterUnlock(s, f)
          /\ \E left \in {Gone, task[s].sha} : copy' = [copy EXCEPT ![s][f] = left]
          /\ UNCHANGED reg
    /\ UNCHANGED <<phase, rows, base, vault, header, digest, made, stolen>>

\* The user saves in the editor, a process of its own: it may happen between
\* any two steps of the application, also while that closes the document.
Save(s, f) ==
    /\ Alive(s) /\ f \in reg[s] /\ copy[s][f] # Gone
    /\ \E e \in Edits \ made :
        /\ copy' = [copy EXCEPT ![s][f] = @ \cup {e}]
        /\ made' = made \cup {e}
    /\ UNCHANGED <<phase, lock, rows, reg, base, vault, header, digest, task, stolen>>

-----------------------------------------------------------------------------
(* check_in(), check_in_all() and discard() *)

\* One document: "Bitir" closes it (shred=True), the autosave sweep of a
\* changed document keeps it open (shred=False).
CheckIn(s, f, close) ==
    /\ Ready(s) /\ f \in reg[s]
    /\ close \/ copy[s][f] \notin {Gone, base[s][f]}
    /\ task' = [task EXCEPT ![s] = [Idle EXCEPT !.at = "look", !.file = f, !.close = close]]
    /\ UNCHANGED <<phase, lock, rows, reg, copy, base, vault, header, digest, made, stolen>>

CloseAllTask(s) == [Idle EXCEPT !.at = "next", !.close = TRUE, !.todo = reg[s]]

\* _lock(): the screen lock closes every open document.
LockScreen(s) ==
    /\ Ready(s) /\ reg[s] # {}
    /\ task' = [task EXCEPT ![s] = CloseAllTask(s)]
    /\ UNCHANGED <<phase, lock, rows, reg, copy, base, vault, header, digest, made, stolen>>

\* closeEvent(): so does quitting.
Quit(s) ==
    /\ Ready(s)
    /\ phase' = [phase EXCEPT ![s] = "exit"]
    /\ task' = [task EXCEPT ![s] = CloseAllTask(s)]
    /\ UNCHANGED <<lock, rows, reg, copy, base, vault, header, digest, made, stolen>>

\* The loop of check_in_all() and, once it is through, apply_checkin() for
\* each result: UPDATE files SET original_sha256 = ...
NextDocument(s) ==
    /\ At(s, "next") /\ task[s].todo # {}
    /\ \E f \in task[s].todo :
        task' = [task EXCEPT ![s].at = "look", ![s].file = f, ![s].todo = @ \ {f}]
    /\ UNCHANGED <<phase, lock, rows, reg, copy, base, vault, header, digest, made, stolen>>

ApplyCheckin(s) ==
    /\ At(s, "next") /\ task[s].todo = {}
    /\ \/ /\ task[s].results = {}
          /\ task' = [task EXCEPT ![s] = Idle]
          /\ UNCHANGED digest
       \/ \E r \in task[s].results :
            /\ task' = [task EXCEPT ![s].results = @ \ {r}]
            /\ \/ digest' = [digest EXCEPT ![r.file] = r.sha]
               \/ May("busy") /\ UNCHANGED digest
    /\ UNCHANGED <<phase, lock, rows, reg, copy, base, vault, header, made, stolen>>

\* Where check_in() goes once the document is written back or unchanged:
\* shred=False leaves the copy, the entry and the lock row alone.
ReleaseUnlessClosing(s) == IF task[s].close THEN "shred" ELSE "release"
AfterWriteBack(s) == IF task[s].close THEN "shred" ELSE "next"

\* has_changed(): a missing or unreadable copy counts as unchanged.
LookForChange(s) ==
    LET f == task[s].file IN
    /\ At(s, "look")
    /\ \/ /\ copy[s][f] \notin {Gone, base[s][f]}
          /\ task' = [task EXCEPT ![s].at = "hash"]
       \/ /\ copy[s][f] \in {Gone, base[s][f]} \/ May("unreadable")
          /\ task' = [task EXCEPT ![s].at = AfterWriteBack(s)]
    /\ UNCHANGED <<phase, lock, rows, reg, copy, base, vault, header, digest, made, stolen>>

\* The failed document reported as rewritten; the failed document tried again.
GiveUpAsRewritten(s) ==
    task' = [task EXCEPT ![s].at = "next",
                         ![s].results = @ \cup {[file |-> task[s].file, sha |-> task[s].sha]}]
RetryForEver(s) == task' = [task EXCEPT ![s].at = "look"]

\* CheckoutError: copy, entry and lock row stay; check_in_all() goes on.
GiveUp(s) == task' = [task EXCEPT ![s].at = "next", ![s].file = None, ![s].sha = {}]

\* The copy can be opened for reading.
AlwaysReadable(s, f) == TRUE
Readable(s, f) == copy[s][f] # Gone

\* encrypt_file() reads the copy twice: first for its SHA-256 ...
HashCopy(s) ==
    LET f == task[s].file IN
    /\ At(s, "hash")
    /\ \/ /\ Readable(s, f)
          /\ task' = [task EXCEPT ![s].at = "replace", ![s].sha = copy[s][f]]
       \/ /\ ~Readable(s, f) \/ May("encrypt")
          /\ GiveUp(s)
    /\ UNCHANGED <<phase, lock, rows, reg, copy, base, vault, header, digest, made, stolen>>

\* ... then for the ciphertext, which os.replace() puts in place.
ReplaceVault(s) ==
    LET f == task[s].file IN
    /\ At(s, "replace")
    /\ \/ /\ Readable(s, f)
          /\ vault' = [vault EXCEPT ![f] = copy[s][f]]
          /\ header' = [header EXCEPT ![f] = task[s].sha]
          /\ base' = [base EXCEPT ![s][f] = task[s].sha]
          /\ task' = [task EXCEPT ![s].at = AfterWriteBack(s),
                                  ![s].results = @ \cup {[file |-> f, sha |-> task[s].sha]}]
       \/ /\ ~Readable(s, f) \/ May("encrypt")
          /\ GiveUp(s)
          /\ UNCHANGED <<vault, header, base>>
    /\ UNCHANGED <<phase, lock, rows, reg, copy, digest, made, stolen>>

\* _shred() may fail: the entry is dropped all the same.
Shred(s) ==
    LET f == task[s].file IN
    /\ At(s, "shred")
    /\ \/ copy' = [copy EXCEPT ![s][f] = Gone]
       \/ May("shred") /\ UNCHANGED copy
    /\ reg' = [reg EXCEPT ![s] = @ \ {f}]
    /\ task' = [task EXCEPT ![s].at = "release"]
    /\ UNCHANGED <<phase, lock, rows, base, vault, header, digest, made, stolen>>

\* A busy database is not a CheckoutError: it ends check_in_all() as well, and
\* the results it had gathered are lost with it.
Release(s) ==
    /\ At(s, "release")
    /\ \/ /\ lock' = Unlock(s, task[s].file)
          /\ task' = [task EXCEPT ![s].at = "next", ![s].file = None, ![s].sha = {}]
       \/ /\ May("busy")
          /\ task' = [task EXCEPT ![s] = Idle]
          /\ UNCHANGED lock
    /\ UNCHANGED <<phase, rows, reg, copy, base, vault, header, digest, made, stolen>>

\* discard(): entry, then lock row, then the copy.
Discard(s, f) ==
    /\ Ready(s) /\ f \in reg[s]
    /\ reg' = [reg EXCEPT ![s] = @ \ {f}]
    /\ \/ /\ lock' = Unlock(s, f)
          /\ task' = [task EXCEPT ![s] = [Idle EXCEPT !.at = "wipe", !.file = f]]
       \/ May("busy") /\ UNCHANGED <<lock, task>>
    /\ UNCHANGED <<phase, rows, copy, base, vault, header, digest, made, stolen>>

Wipe(s) ==
    /\ At(s, "wipe")
    /\ \/ copy' = [copy EXCEPT ![s][task[s].file] = Gone]
       \/ May("shred") /\ UNCHANGED copy
    /\ task' = [task EXCEPT ![s] = Idle]
    /\ UNCHANGED <<phase, lock, rows, reg, base, vault, header, digest, made, stolen>>

-----------------------------------------------------------------------------
(* The end of a run *)

\* aboutToQuit: purge_on_exit(), after the window has closed.
Exit(s) ==
    /\ phase[s] = "exit" /\ task[s] = Idle
    /\ Purge
    /\ phase' = [phase EXCEPT ![s] = "closed"]
    /\ reg' = [reg EXCEPT ![s] = {}]
    /\ UNCHANGED <<lock, rows, base, vault, header, digest, task, made, stolen>>

\* The process dies: its memory is gone, disk and database stay.
Crash(s) ==
    /\ Alive(s)
    /\ phase' = [phase EXCEPT ![s] = "crashed"]
    /\ rows' = [rows EXCEPT ![s] = {}]
    /\ reg' = [reg EXCEPT ![s] = {}]
    /\ task' = [task EXCEPT ![s] = Idle]
    /\ UNCHANGED <<lock, copy, base, vault, header, digest, made, stolen>>

-----------------------------------------------------------------------------
Init ==
    /\ phase = [s \in Sessions |-> "off"]
    /\ lock = [f \in Files |-> None]
    /\ rows = [s \in Sessions |-> {}]
    /\ reg = [s \in Sessions |-> {}]
    /\ copy = [s \in Sessions |-> [f \in Files |-> Gone]]
    /\ base = [s \in Sessions |-> [f \in Files |-> {}]]
    /\ vault = [f \in Files |-> {}]
    /\ header = [f \in Files |-> {}]
    /\ digest = [f \in Files |-> {}]
    /\ task = [s \in Sessions |-> Idle]
    /\ made = {}
    /\ stolen = {}

\* The steps a running GUI thread owes once an operation has begun.
Proceed(s) ==
    \/ Decrypt(s) \/ WriteCopy(s)
    \/ NextDocument(s) \/ ApplyCheckin(s) \/ LookForChange(s) \/ HashCopy(s)
    \/ ReplaceVault(s) \/ Shred(s) \/ Release(s) \/ Wipe(s)
    \/ Exit(s)

Request(s) ==
    \/ LockScreen(s) \/ Quit(s)
    \/ \E f \in Files : Open(s, f) \/ Discard(s, f)
    \/ \E f \in Files, close \in BOOLEAN : CheckIn(s, f, close)

Next ==
    \E s \in Sessions :
        \/ Start(s) \/ Startup(s) \/ Request(s) \/ Proceed(s) \/ Crash(s)
        \/ \E f \in Files : Save(s, f)

Spec == Init /\ [][Next]_vars

\* Python runs straight-line code to its end unless the process dies: startup
\* and every operation begun take their next step.  Users, editors and crashes
\* are under no obligation.
Fairness == \A s \in Sessions : WF_vars(Startup(s)) /\ WF_vars(Proceed(s))

FairSpec == Spec /\ Fairness
-----------------------------------------------------------------------------
(* Properties *)

TypeOK ==
    /\ phase \in [Sessions -> Phases]
    /\ lock \in [Files -> Sessions \cup {None}]
    /\ rows \in [Sessions -> SUBSET Row]
    /\ reg \in [Sessions -> SUBSET Files]
    /\ copy \in [Sessions -> [Files -> Content \cup {Gone}]]
    /\ base \in [Sessions -> [Files -> Content]]
    /\ vault \in [Files -> Content]
    /\ header \in [Files -> Content]
    /\ digest \in [Files -> Content]
    /\ task \in [Sessions -> Task]
    /\ made \in SUBSET Edits
    /\ stolen \in SUBSET Files

\* Two runs never have the same document open for editing, except after a
\* startup sweep deleted the lock row of a live holder: that sweep is the only
\* way around the lock, whatever fails and whoever crashes.  (file_locks'
\* reason to exist: acquire_lock, release_lock, the order of check_in.)
OneEditorPerFile ==
    \A f \in Files \ stolen, s, t \in Sessions :
        f \in reg[s] /\ f \in reg[t] => s = t

\* No write-back silently erases an edit that another run, or an earlier
\* write-back, put into the document ("son geri yazan digerinin isini
\* silerdi"): check_out decrypts under the lock, check_in replaces under it.
NoLostUpdate ==
    [][\A f \in Files \ stolen' : vault[f] \subseteq vault'[f]]_vars

\* Between operations a run's lock rows are exactly its open documents: no
\* error path of check_out or check_in leaves a document locked and not open,
\* or open and not locked.
LocksMatchRegistry ==
    \A s \in Sessions, f \in Files \ stolen :
        Ready(s) => (lock[f] = s <=> f \in reg[s])

\* A run that quit normally leaves no decrypted copy, neither of a document whose
\* write-back failed nor of one whose opening did.
NoPlaintextAfterQuit ==
    \A s \in Sessions, f \in Files : phase[s] = "closed" => copy[s][f] = Gone

\* files.original_sha256 never names an edit the .hcl lacks, also when a crash
\* or a busy database separates os.replace() from the UPDATE: duplicate
\* detection and timestamps may look at an older content, never at one that was
\* never stored.
DigestNotAhead ==
    \A f \in Files \ stolen : digest[f] \subseteq vault[f]

\* The run works on f, or has it open: it must be the holder of the lock row.
Owns(s, f) ==
    f \in reg[s] \/ (task[s].file = f /\ task[s].at \in {"decrypt", "write", "release"})

\* A run that is not alive remembers nothing.
DeadForget == \A s \in Sessions : ~Alive(s) => reg[s] = {} /\ task[s] = Idle

\* The step a GUI thread is at and its registry agree.
TaskFits(s) ==
    /\ task[s].at = "idle" => task[s] = Idle
    /\ task[s].at \notin {"idle", "next"} => task[s].file \in Files
    /\ task[s].at \in {"look", "hash", "replace", "shred"} =>
            task[s].file \in reg[s] \ task[s].todo
    /\ task[s].at \in {"decrypt", "write", "release", "wipe"} => task[s].file \notin reg[s]
    /\ task[s].todo \subseteq reg[s]

TaskMatchesRegistry == \A s \in Sessions : TaskFits(s)

OwnersHoldLock ==
    \A s \in Sessions, f \in Files \ stolen : Owns(s, f) => lock[f] = s

\* Whatever run s may write to f later contains what f holds now.
UpToDate(s, f) ==
    /\ f \in reg[s] /\ copy[s][f] # Gone => vault[f] \subseteq copy[s][f]
    /\ task[s].at = "write" /\ task[s].file = f => vault[f] \subseteq task[s].sha

CopiesUpToDate == \A s \in Sessions, f \in Files \ stolen : UpToDate(s, f)

\* A digest on its way to `files' is that of a content already stored, or about
\* to be.
Stored(s, f) ==
    /\ task[s].at = "replace" /\ task[s].file = f /\ copy[s][f] # Gone
           => task[s].sha \subseteq copy[s][f]
    /\ \A r \in task[s].results : r.file = f => r.sha \subseteq vault[f]

DigestsStored == \A s \in Sessions, f \in Files \ stolen : Stored(s, f)

\* The inductive invariant behind the safety properties above: the lock table,
\* the registries and the contents agree in every state, not only between
\* operations.
IInv ==
    /\ TypeOK
    /\ DeadForget
    /\ TaskMatchesRegistry
    /\ OwnersHoldLock
    /\ CopiesUpToDate
    /\ DigestNotAhead
    /\ DigestsStored

\* The abstract view: every document has at most one editor, content only
\* grows and only its editor makes it grow, unless the lock was broken.
Edit == INSTANCE ExclusiveEdit
            WITH Editors <- Sessions, Docs <- Files, Nobody <- None,
                 editor <- lock, content <- vault, broken <- stolen

\* The lock table and the vault implement that view.  (acquire_lock,
\* release_lock, rewrite_encrypted, release_stale_locks)
ImplementsExclusiveEdit == Edit!Spec

\* The row of a crashed run is gone after the next startup on its machine: the
\* document can be opened again.  (release_stale_locks)
StaleLockReleased ==
    \A s, h \in Sessions, f \in Files :
        (phase[s] = "purge" /\ phase[h] = "crashed" /\ lock[f] = h /\ HostOf[s] = HostOf[h])
            ~> (lock[f] # h \/ phase[s] = "crashed")

\* Quitting comes to an end: neither a failing document nor a busy database
\* keeps the run in its closing loop.
QuitTerminates ==
    \A s \in Sessions : phase[s] = "exit" ~> phase[s] \in {"closed", "crashed"}

-----------------------------------------------------------------------------
(* What comments, documents and tests say of the code, and the code does not   *)
(* keep                                                                        *)

\* check_in(): "Geri yazma BASARISIZ olursa gecici kopya SILINMEZ ... onu
\* silmek veri kaybi olurdu": the copy whose write-back failed outlives the
\* end of the run.  (purge_on_exit() wipes it, purge_orphans() would.)
KeptCopySurvivesExit ==
    [][\A s \in Sessions, f \in Files :
        phase[s] = "exit" /\ phase'[s] = "closed" /\ f \in reg[s] /\ copy[s][f] # Gone
            => copy[s][f] \subseteq vault[f] \/ copy'[s][f] = copy[s][f]]_vars

\* SECURITY.md: "Even if every watcher event is missed, the change is caught
\* before the copy is shredded."  check_in() asks has_changed() once, and a
\* save may come after the question.
ChangeCaughtBeforeShred ==
    [][\A s \in Sessions, f \in Files :
        At(s, "shred") /\ task[s].file = f /\ copy[s][f] # Gone /\ copy'[s][f] = Gone
            => copy[s][f] \subseteq vault[f] \/ f \in stolen]_vars

\* release_stale_locks(): a row of a process that still lives is not touched.
\* (It judges the row it fetched and deletes by file_id alone.)
NoLiveLockStolen == stolen = {}

\* purge_orphans(): "SafeZone'da ne varsa ONCEKI OTURUMDAN kalmistir": the copy
\* of a running session disappears only by that session's own step.
OnlyOwnRunRemovesCopy ==
    [][\A s \in Sessions, f \in Files :
        Alive(s) /\ f \in reg[s] /\ copy[s][f] # Gone /\ copy'[s][f] = Gone
            => task'[s] # task[s] \/ phase'[s] # phase[s]]_vars

\* apply_checkin(): the new digest is recorded so that nobody goes on looking
\* at the old one: a recorded digest is never replaced by that of an older
\* content.  (The batch releases the lock before it applies the result.)
DigestNeverGoesBack ==
    [][\A f \in Files \ stolen' : digest[f] \subseteq digest'[f]]_vars

\* check_in_all(): "Bir belgenin basarisiz olmasi digerlerini DURDURMUYOR": the
\* loop does not end with documents it has not visited, unless the run dies.
BatchVisitsEveryDocument ==
    [][\A s \in Sessions :
        task[s].todo # {} /\ task'[s] = Idle => ~Alive(s)']_vars
=============================================================================
