------------------------------ MODULE Disposal ------------------------------
(***************************************************************************)
(* Disposal of stored documents (CORE/disposal.py) and the clocks that     *)
(* drive it: the 24-hour timer of Karantina and of the disposal chamber    *)
(* Imha (CORE/scheduler.py: _purge_expired, UI/main_window_table.py:       *)
(* _tick_expiry) and the retention period (CORE/retention.py,              *)
(* sweep_retention_expired).                                               *)
(*                                                                         *)
(* Several instances of the application share one database and one         *)
(* directory of encrypted files.  In each instance the GUI thread, the     *)
(* purge job and the sweep job of the scheduler run concurrently; every    *)
(* statement on the database commits by itself, so another thread or       *)
(* instance may run between two of them.  A permanent deletion is three    *)
(* such steps (shred the file, delete the row, remove the queue entry)     *)
(* announced by a fourth, the entry in disposal_queue, which               *)
(* resume_pending_disposals() takes up at the next start.                  *)
(*                                                                         *)
(* A file is known by its path, CORE/crypto.py names it after the document *)
(* that was added, and a row of table files by its AUTOINCREMENT id.       *)
(***************************************************************************)
EXTENDS Integers, FiniteSets

CONSTANTS
    Procs,      \* instances of the application
    Files,      \* paths of encrypted files
    Terms,      \* the retention terms a profile may give a file
    Listings,   \* what the user opens in the main window: labels, a search
    Overlap,    \* operations that may hit a file in the middle of its purge
    Faults,     \* the kinds of failure the environment may inject
    MaxClock,   \* bound: the hours that pass
    MaxId,      \* bound: rows of table files ever inserted
    MaxQueue,   \* bound: rows of disposal_queue ever inserted
    NoRow       \* a path without a row

ASSUME TermsAssumption == Terms \subseteq {"none", "undated", "unlimited", "over", "running"}
ASSUME ListingAssumption == Listings \subseteq {"Genel", "Kritik", "Karantina", "Imha", "search"}
ASSUME OverlapAssumption == Overlap \subseteq {"add", "assign"}
ASSUME FaultAssumption == Faults \subseteq {"crash", "unlink", "db"}
ASSUME BoundAssumption == MaxClock \in Nat /\ MaxId \in Nat /\ MaxQueue \in Nat

VARIABLES
    clock,      \* the time, in the unit of imha_ttl_hours
    row,        \* table files: the row of each path
    stored,     \* the paths that exist on the disk
    queue,      \* table disposal_queue
    ids,        \* the last id of table files
    entries,    \* the last id of table disposal_queue
    adding,     \* the files each instance has encrypted and not recorded yet
    proc,       \* where each instance is in its life
    tab,        \* _current_label of each main window
    view,       \* the rows in its table
    job,        \* the deletions of the GUI thread and of the purge job
    sweep       \* the sweep job

vars == <<clock, row, stored, queue, ids, entries, adding, proc, tab, view, job, sweep>>

Threads == {"gui", "purge"}
Labels == {"Genel", "Kritik", "Karantina", "Imha"}

\* expires_at IS NULL; retention_profile_id IS NULL; a profile whose start date
\* is missing; a profile without an end ("suresiz").
NoTimer == -1
NoProfile == -1
Undated == -2
Unlimited == -3

Term(t) ==
    CASE t = "none" -> NoProfile [] t = "undated" -> Undated [] t = "unlimited" -> Unlimited
      [] t = "over" -> clock [] t = "running" -> clock + 1

Times == 0..(MaxClock + 1)
\* A line of the table in the main window.
Shown == [id : 1..MaxId, file : Files, label : Labels, timer : Times \cup {NoTimer}]
Row == [id : 1..MaxId, label : Labels, timer : Times \cup {NoTimer},
        retention : Times \cup {NoProfile, Undated, Unlimited}]
ASSUME NoRowAssumption == NoRow \notin Row
\* A deletion: the row, its path, who asked for it, and its entry in disposal_queue.
Item == [id : 1..MaxId, file : Files, action : {"purge_file", "purge_expired_file"},
         entry : 0..MaxQueue]
Steps == {"idle", "pick", "enqueue", "shred", "delete", "dequeue"}
Idle == [pc |-> "idle", todo |-> {}, cur |-> {}]
Asleep == [pc |-> "idle", todo |-> {}]

Recorded == {f \in Files : row[f] # NoRow}
Line(f) == [id |-> row[f].id, file |-> f, label |-> row[f].label, timer |-> row[f].timer]
Deletion(id, f, action, entry) == [id |-> id, file |-> f, action |-> action, entry |-> entry]

\* countdown_for(), and the WHERE clause of _purge_expired().
Due(timer) == timer # NoTimer /\ timer <= clock

\* check_disposal(): the retention period is over; a decision other than ALLOWED.
Over(r) == r.retention >= 0 /\ r.retention <= clock
NeedsApproval(r) == r.retention = Unlimited \/ r.retention > clock
\* Mutant: only a missing start date protects a file from a timer.
ProtectedUndated(id) ==
    \A f \in Recorded : row[f].id = id => row[f].retention = Undated
\* is_retention_protected(): NeedsApproval, or no decision at all.
Protected(id) ==
    LET known == {f \in Recorded : row[f].id = id} IN
    \/ known = {}
    \/ \E f \in known : NeedsApproval(row[f]) \/ row[f].retention = Undated

\* Somebody has decided to delete f, or read that another had, and is not done.
Busy(f) ==
    \/ \E e \in queue : e.file = f
    \/ \E p \in Procs : proc[p] = "start" /\ \E e \in job[p]["gui"].todo : e.file = f
    \/ \E p \in Procs, t \in Threads : \E e \in job[p][t].cur : e.file = f

TypeOK ==
    /\ clock \in 0..MaxClock
    /\ row \in [Files -> Row \cup {NoRow}]
    /\ stored \subseteq Files
    /\ queue \subseteq Item
    /\ ids \in 0..MaxId
    /\ entries \in 0..MaxQueue
    /\ adding \in [Procs -> SUBSET Files]
    /\ proc \in [Procs -> {"down", "start", "up"}]
    /\ tab \in [Procs -> Labels]
    /\ view \in [Procs -> SUBSET Shown]
    /\ job \in [Procs -> [Threads -> [pc : Steps, todo : SUBSET Item, cur : SUBSET Item]]]
    /\ \A p \in Procs, t \in Threads :
        /\ Cardinality(job[p][t].cur) <= 1
        /\ job[p][t].cur = {} <=> job[p][t].pc \in {"idle", "pick"}
    /\ sweep \in [Procs -> [pc : {"idle", "pick", "move"}, todo : SUBSET (1..MaxId)]]

Init ==
    /\ clock = 0
    /\ row = [f \in Files |-> NoRow]
    /\ stored = {}
    /\ queue = {}
    /\ ids = 0
    /\ entries = 0
    /\ adding = [p \in Procs |-> {}]
    /\ proc = [p \in Procs |-> "down"]
    /\ tab = [p \in Procs |-> "Genel"]
    /\ view = [p \in Procs |-> {}]
    /\ job = [p \in Procs |-> [t \in Threads |-> Idle]]
    /\ sweep = [p \in Procs |-> Asleep]

\* The event loop of the main window is free.
AtRest(p) == proc[p] = "up" /\ job[p]["gui"] = Idle

-----------------------------------------------------------------------------
(* Time, and documents that come in.                                       *)

Tick ==
    /\ clock < MaxClock
    /\ clock' = clock + 1
    /\ UNCHANGED <<row, stored, queue, ids, entries, adding, proc, tab, view, job, sweep>>

\* _FileRunnable.run(): encrypt_file() writes the file.
AddEncrypt(p, f) ==
    /\ proc[p] = "up"
    /\ f \notin adding[p]
    /\ "add" \in Overlap \/ (f \notin Recorded /\ ~Busy(f) /\ \A q \in Procs : f \notin adding[q])
    /\ ids + Cardinality(UNION {adding[q] : q \in Procs}) < MaxId
    /\ stored' = stored \cup {f}
    /\ adding' = [adding EXCEPT ![p] = @ \cup {f}]
    /\ UNCHANGED <<clock, row, queue, ids, entries, proc, tab, view, job, sweep>>

\* _FileRunnable.run(): record_encrypted_file() inserts the row of the path or
\* refreshes it, the retention profile of an old row stays; _on_file_done() puts
\* it into the table, whatever the table shows.  (Its signal is
\* taken to arrive at once.)
AddRecord(p, f) ==
    LET new == [id |-> IF f \in Recorded THEN row[f].id ELSE ids + 1,
                label |-> "Karantina", timer |-> clock + 1,
                retention |-> IF f \in Recorded THEN row[f].retention ELSE NoProfile] IN
    /\ f \in adding[p]
    /\ new.id <= MaxId
    /\ adding' = [adding EXCEPT ![p] = @ \ {f}]
    /\ row' = [row EXCEPT ![f] = new]
    /\ ids' = IF f \in Recorded THEN ids ELSE new.id
    /\ view' = [view EXCEPT ![p] = @ \cup {Line(f)'}]
    /\ UNCHANGED <<clock, stored, queue, entries, proc, tab, job, sweep>>

-----------------------------------------------------------------------------
(* The user, on the GUI thread.  Every action but a folder's works on a row *)
(* of the table, which shows the database as it was when it was filled.     *)

SetLabel(id, label) ==
    row' = [f \in Files |-> IF f \in Recorded /\ row[f].id = id
                            THEN [row[f] EXCEPT !.label = label] ELSE row[f]]

\* _on_sidebar_click(), _load_label(), _populate_table().
LoadLabel(p, label) ==
    /\ AtRest(p)
    /\ label \in Listings
    /\ tab' = [tab EXCEPT ![p] = label]
    /\ view' = [view EXCEPT ![p] = {Line(f) : f \in {g \in Recorded : row[g].label = label}}]
    /\ UNCHANGED <<clock, row, stored, queue, ids, entries, adding, proc, job, sweep>>

\* _search_files(): what the term matches, of any label; _current_label stays.
Search(p, found) ==
    /\ AtRest(p)
    /\ "search" \in Listings
    /\ view' = [view EXCEPT ![p] = {Line(f) : f \in found}]
    /\ UNCHANGED <<clock, row, stored, queue, ids, entries, adding, proc, tab, job, sweep>>

\* _on_ctx_move_label(): a quarantined file is approved, or rejected into the
\* chamber by the label alone.
MoveLabel(p, v, label) ==
    /\ AtRest(p)
    /\ v.label = "Karantina"
    /\ SetLabel(v.id, label)
    /\ view' = [view EXCEPT ![p] = @ \ {v}]
    /\ UNCHANGED <<clock, stored, queue, ids, entries, adding, proc, tab, job, sweep>>

\* _on_ctx_move_to_kritik(), _on_ctx_bulk_move_to_kritik().
MoveToKritik(p, v) ==
    /\ AtRest(p)
    /\ v.label # "Kritik"
    /\ SetLabel(v.id, "Kritik")
    /\ view' = [view EXCEPT ![p] = @ \ {v}]
    /\ UNCHANGED <<clock, stored, queue, ids, entries, adding, proc, tab, job, sweep>>

\* move_to_imha(), from the table and, whatever the file's label, for all files
\* of a folder.  A file whose retention runs moves only with approval, one
\* without a start date not at all.
MoveToImha(p, f, approved) ==
    /\ AtRest(p)
    /\ f \in Recorded
    /\ row[f].retention # Undated
    /\ NeedsApproval(row[f]) => approved
    /\ row' = [row EXCEPT ![f] = [@ EXCEPT !.label = "Imha", !.timer = clock + 1]]
    /\ view' = [view EXCEPT ![p] = {v \in @ : v.id # row[f].id}]
    /\ UNCHANGED <<clock, stored, queue, ids, entries, adding, proc, tab, job, sweep>>

\* assign_profile(), update_profile(), delete_profile().
AssignProfile(p, f, r) ==
    /\ AtRest(p)
    /\ f \in Recorded
    /\ "assign" \in Overlap \/ ~Busy(f)
    /\ row[f].retention # r
    /\ row' = [row EXCEPT ![f].retention = r]
    /\ UNCHANGED <<clock, stored, queue, ids, entries, adding, proc, tab, view, job, sweep>>

-----------------------------------------------------------------------------
(* What starts a deletion.                                                 *)

\* purge_file(): the user deletes one file for good.
PurgeFile(p, f, approved) ==
    /\ AtRest(p)
    /\ f \in Recorded
    /\ row[f].retention # Undated
    /\ NeedsApproval(row[f]) => approved
    /\ job' = [job EXCEPT ![p]["gui"] =
        [pc |-> "enqueue", todo |-> {}, cur |-> {Deletion(row[f].id, f, "purge_file", 0)}]]
    /\ UNCHANGED <<clock, row, stored, queue, ids, entries, adding, proc, tab, view, sweep>>

\* _tick_expiry(): the rows of the table whose countdown is over, while the
\* window is at the chamber.
TickExpiry(p) ==
    LET over == {v \in view[p] : Due(v.timer)} IN
    /\ AtRest(p)
    /\ tab[p] = "Imha"
    /\ over # {}
    /\ view' = [view EXCEPT ![p] = @ \ over]
    /\ job' = [job EXCEPT ![p]["gui"] =
        [pc |-> "pick", cur |-> {},
         todo |-> {Deletion(v.id, v.file, "purge_expired_file", 0) : v \in over}]]
    /\ UNCHANGED <<clock, row, stored, queue, ids, entries, adding, proc, tab, sweep>>

\* Mutant: the purge job looks at the chamber only.
PurgeChamber(p) ==
    LET over == {f \in Recorded : row[f].label = "Imha" /\ Due(row[f].timer)} IN
    /\ proc[p] = "up"
    /\ job[p]["purge"] = Idle
    /\ over # {}
    /\ job' = [job EXCEPT ![p]["purge"] =
        [pc |-> "pick", cur |-> {},
         todo |-> {Deletion(row[f].id, f, "purge_expired_file", 0) : f \in over}]]
    /\ UNCHANGED <<clock, row, stored, queue, ids, entries, adding, proc, tab, view, sweep>>

\* _purge_expired(): the rows with a timer that is over.
Expired == {f \in Recorded : row[f].label \in {"Karantina", "Imha"} /\ Due(row[f].timer)}
PurgeExpired(p) ==
    /\ proc[p] = "up"
    /\ job[p]["purge"] = Idle
    /\ Expired # {}
    /\ job' = [job EXCEPT ![p]["purge"] =
        [pc |-> "pick", cur |-> {},
         todo |-> {Deletion(row[f].id, f, "purge_expired_file", 0) : f \in Expired}]]
    /\ UNCHANGED <<clock, row, stored, queue, ids, entries, adding, proc, tab, view, sweep>>

\* Mutant: the start empties the queue it takes up.
StartTaking(p) ==
    /\ proc[p] = "down"
    /\ proc' = [proc EXCEPT ![p] = "start"]
    /\ job' = [job EXCEPT ![p]["gui"] = [pc |-> "pick", cur |-> {}, todo |-> queue]]
    /\ queue' = {}
    /\ UNCHANGED <<clock, row, stored, ids, entries, adding, tab, view, sweep>>

\* main.py: an instance starts; resume_pending_disposals() reads the queue.
Start(p) ==
    /\ proc[p] = "down"
    /\ proc' = [proc EXCEPT ![p] = "start"]
    /\ job' = [job EXCEPT ![p]["gui"] = [pc |-> "pick", cur |-> {}, todo |-> queue]]
    /\ UNCHANGED <<clock, row, stored, queue, ids, entries, adding, tab, view, sweep>>

-----------------------------------------------------------------------------
(* A deletion, step by step.                                               *)

Resuming(p, t) == proc[p] = "start" /\ t = "gui"

At(p, t, pc) == proc[p] # "down" /\ job[p][t].pc = pc

\* The next file of the list: purge_expired_file() passes over one whose
\* retention runs, resume_pending_disposals() takes every entry in turn.
Pick(p, t) ==
    /\ At(p, t, "pick")
    /\ \E e \in job[p][t].todo :
        /\ Resuming(p, t) => \A d \in job[p][t].todo : e.entry <= d.entry
        /\ job' = [job EXCEPT ![p][t] =
            [pc |-> IF Resuming(p, t) THEN "shred" ELSE IF Protected(e.id) THEN "pick" ELSE "enqueue",
             todo |-> @.todo \ {e},
             cur |-> IF ~Resuming(p, t) /\ Protected(e.id) THEN {} ELSE {e}]]
    /\ UNCHANGED <<clock, row, stored, queue, ids, entries, adding, proc, tab, view, sweep>>

\* The list is done; after resume_pending_disposals() the application is up.
Finish(p, t) ==
    /\ At(p, t, "pick")
    /\ job[p][t].todo = {}
    /\ job' = [job EXCEPT ![p][t] = Idle]
    /\ proc' = [proc EXCEPT ![p] = "up"]
    /\ UNCHANGED <<clock, row, stored, queue, ids, entries, adding, tab, view, sweep>>

\* _enqueue().
Enqueue(p, t) ==
    /\ At(p, t, "enqueue")
    /\ entries < MaxQueue
    /\ entries' = entries + 1
    /\ \E e \in job[p][t].cur :
        /\ queue' = queue \cup {[e EXCEPT !.entry = entries']}
        /\ job' = [job EXCEPT ![p][t] = [@ EXCEPT !.pc = "shred", !.cur = {[e EXCEPT !.entry = entries']}]]
    /\ UNCHANGED <<clock, row, stored, ids, adding, proc, tab, view, sweep>>

\* Mutant: an OSError ends the deletion of this file.
ShredOrGiveUp(p, t) ==
    /\ At(p, t, "shred")
    /\ \/ /\ stored' = stored \ {e.file : e \in job[p][t].cur}
          /\ job' = [job EXCEPT ![p][t] = [@ EXCEPT !.pc = "delete"]]
       \/ /\ "unlink" \in Faults
          /\ job' = [job EXCEPT ![p][t] = [@ EXCEPT !.pc = "pick", !.cur = {}]]
          /\ UNCHANGED stored
    /\ UNCHANGED <<clock, row, queue, ids, entries, adding, proc, tab, view, sweep>>

\* shred_file(), or unlink() when a deletion is resumed; an OSError is logged
\* and the deletion goes on.
Shred(p, t) ==
    /\ At(p, t, "shred")
    /\ job' = [job EXCEPT ![p][t] = [@ EXCEPT !.pc = "delete"]]
    /\ \/ stored' = stored \ {e.file : e \in job[p][t].cur}
       \/ "unlink" \in Faults /\ UNCHANGED stored
    /\ UNCHANGED <<clock, row, queue, ids, entries, adding, proc, tab, view, sweep>>

\* DELETE FROM files WHERE id = ?
DeleteRow(p, t) ==
    /\ At(p, t, "delete")
    /\ job' = [job EXCEPT ![p][t] = [@ EXCEPT !.pc = "dequeue"]]
    /\ row' = [f \in Files |-> IF f \in Recorded /\ \E e \in job[p][t].cur : e.id = row[f].id
                               THEN NoRow ELSE row[f]]
    /\ UNCHANGED <<clock, stored, queue, ids, entries, adding, proc, tab, view, sweep>>

\* Mutant: the file just deleted stays in hand.
DequeueKeeping(p, t) ==
    /\ At(p, t, "dequeue")
    /\ queue' = {q \in queue : \A e \in job[p][t].cur : q.entry # e.entry}
    /\ job' = [job EXCEPT ![p][t] = [@ EXCEPT !.pc = "pick"]]
    /\ UNCHANGED <<clock, row, stored, ids, entries, adding, proc, tab, view, sweep>>

\* _dequeue().
Dequeue(p, t) ==
    /\ At(p, t, "dequeue")
    /\ queue' = {q \in queue : \A e \in job[p][t].cur : q.entry # e.entry}
    /\ job' = [job EXCEPT ![p][t] = [@ EXCEPT !.pc = "pick", !.cur = {}]]
    /\ UNCHANGED <<clock, row, stored, ids, entries, adding, proc, tab, view, sweep>>

\* A statement fails: the purge job gives up its whole list, the countdown and
\* resume_pending_disposals() go on with the next file.
StatementFails(p, t) ==
    /\ "db" \in Faults
    /\ proc[p] # "down"
    /\ job[p][t].pc \in {"enqueue", "delete", "dequeue"}
    /\ job' = [job EXCEPT ![p][t] =
        [pc |-> "pick", todo |-> IF t = "purge" THEN {} ELSE @.todo, cur |-> {}]]
    /\ UNCHANGED <<clock, row, stored, queue, ids, entries, adding, proc, tab, view, sweep>>

Delete(p, t) ==
    \/ Pick(p, t) \/ Finish(p, t) \/ Enqueue(p, t) \/ Shred(p, t) \/ DeleteRow(p, t) \/ Dequeue(p, t)

-----------------------------------------------------------------------------
(* sweep_retention_expired(): files whose retention is over go to the       *)
(* chamber without a timer.                                                 *)

Candidates == {row[f].id : f \in {g \in Recorded : row[g].retention # NoProfile /\ row[g].label # "Imha"}}

SweepSelect(p) ==
    /\ proc[p] = "up"
    /\ sweep[p] = Asleep
    /\ Candidates # {}
    /\ sweep' = [sweep EXCEPT ![p] = [pc |-> "pick", todo |-> Candidates]]
    /\ UNCHANGED <<clock, row, stored, queue, ids, entries, adding, proc, tab, view, job>>

\* check_disposal() of one candidate; the first of todo is the one at hand.
SweepCheck(p) ==
    /\ sweep[p].pc = "pick"
    /\ IF sweep[p].todo = {}
       THEN sweep' = [sweep EXCEPT ![p] = Asleep]
       ELSE \E id \in sweep[p].todo :
            /\ \A j \in sweep[p].todo : id <= j
            /\ sweep' = [sweep EXCEPT ![p] =
                IF \E f \in Recorded : row[f].id = id /\ Over(row[f])
                THEN [@ EXCEPT !.pc = "move"] ELSE [pc |-> "pick", todo |-> @.todo \ {id}]]
    /\ UNCHANGED <<clock, row, stored, queue, ids, entries, adding, proc, tab, view, job>>

SweepMove(p) ==
    /\ sweep[p].pc = "move"
    /\ \E id \in sweep[p].todo :
        /\ \A j \in sweep[p].todo : id <= j
        /\ row' = [f \in Files |-> IF f \in Recorded /\ row[f].id = id
                                   THEN [row[f] EXCEPT !.label = "Imha", !.timer = NoTimer]
                                   ELSE row[f]]
        /\ sweep' = [sweep EXCEPT ![p] = [pc |-> "pick", todo |-> @.todo \ {id}]]
    /\ UNCHANGED <<clock, stored, queue, ids, entries, adding, proc, tab, view, job>>

\* The instance ends, killed or closed: stop_scheduler() does not wait.
Stop(p) ==
    /\ "crash" \in Faults
    /\ proc[p] # "down"
    /\ proc' = [proc EXCEPT ![p] = "down"]
    /\ tab' = [tab EXCEPT ![p] = "Genel"]
    /\ adding' = [adding EXCEPT ![p] = {}]
    /\ view' = [view EXCEPT ![p] = {}]
    /\ job' = [job EXCEPT ![p] = [t \in Threads |-> Idle]]
    /\ sweep' = [sweep EXCEPT ![p] = Asleep]
    /\ UNCHANGED <<clock, row, stored, queue, ids, entries>>

User(p) ==
    \/ \E f \in Files : AddEncrypt(p, f) \/ AddRecord(p, f)
    \/ \E label \in Labels : LoadLabel(p, label)
    \/ \E found \in SUBSET Recorded : Search(p, found)
    \/ \E v \in view[p] : MoveLabel(p, v, "Genel") \/ MoveLabel(p, v, "Imha") \/ MoveToKritik(p, v)
    \/ \E f \in Files, approved \in BOOLEAN : MoveToImha(p, f, approved) \/ PurgeFile(p, f, approved)
    \/ \E f \in Files, t \in Terms : AssignProfile(p, f, Term(t))

Next ==
    \/ Tick
    \/ \E p \in Procs :
        \/ User(p) \/ Start(p) \/ Stop(p)
        \/ TickExpiry(p) \/ PurgeExpired(p)
        \/ \E t \in Threads : Delete(p, t) \/ StatementFails(p, t)
        \/ SweepSelect(p) \/ SweepCheck(p) \/ SweepMove(p)

\* The threads of a running instance run, and the scheduler's purge job comes
\* round again and again.
Fairness ==
    \A p \in Procs :
        /\ \A t \in Threads : WF_vars(Delete(p, t))
        /\ WF_vars(PurgeExpired(p))

Spec == Init /\ [][Next]_vars /\ Fairness

-----------------------------------------------------------------------------
(* Properties.                                                             *)

\* A row whose file is gone is on the queue: whenever and wherever a deletion
\* stops, the next start finds it and finishes it (disposal_queue, _enqueue).
HalfDoneIsQueued ==
    \A f \in Recorded \ stored : \E e \in queue : e.id = row[f].id

\* No file whose retention still runs is destroyed unless the user deleted it
\* and had the approval: not by a timer, not by a start that resumes a deletion
\* (is_retention_protected, _require_approval).
HeldFileSurvives ==
    [][\A f \in (stored \ stored') \cap Recorded : NeedsApproval(row[f]) =>
        \E p \in Procs, t \in Threads :
            \E e \in job[p][t].cur : e.file = f /\ e.action = "purge_file"]_vars

\* What a start finds on the queue is finished, in that run or, if the instance
\* ends, in a later one (resume_pending_disposals).
PendingResumed ==
    \A n \in 1..MaxQueue, p \in Procs :
        (\E e \in job[p]["gui"].todo : e.entry = n /\ proc[p] = "start")
            ~> ((\A e \in queue : e.entry # n) \/ proc[p] = "down")

\* While an instance runs, a file of the chamber whose timer is over is deleted,
\* gets another label or timer, or is held (_purge_expired).
DueFileGoes ==
    \A f \in Files, p \in Procs :
        (proc[p] = "up" /\ f \in Expired /\ ~Protected(row[f].id))
            ~> (proc[p] = "down" \/ f \notin Expired \/ Protected(row[f].id))

(* What comments of the source say and the code does not keep.             *)

\* What the countdown of the main window deletes is in the disposal chamber, or
\* in quarantine, not approved (UI/main_window_table.py:464).
CountdownSparesApproved ==
    \A p \in Procs : proc[p] = "up" =>
        \A e \in job[p]["gui"].todo, f \in Recorded :
            row[f].id = e.id => row[f].label \in {"Karantina", "Imha"}

\* A row without a timer is not deleted by a timer (CORE/scheduler.py:78).
UntimedRowsUntouched ==
    [][\A f \in Recorded :
        (row[f].timer = NoTimer /\ row'[f] = NoRow) =>
            \E p \in Procs, t \in Threads :
                \E e \in job[p][t].cur : e.id = row[f].id /\ e.action = "purge_file"]_vars
=============================================================================
