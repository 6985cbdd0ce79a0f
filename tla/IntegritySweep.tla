--------------------------- MODULE IntegritySweep ---------------------------
(***************************************************************************)
(* The weekly integrity sweep (CORE/integrity.py) behind its gate          *)
(* (CORE/scheduled_checks.py), run hourly by the scheduler thread          *)
(* (CORE/scheduler.py) with the key and the hardware id of the session     *)
(* main() opened, while the window goes on adding, saving and deleting.    *)
(*                                                                         *)
(* The rows are fetched once and their files looked at one by one; the     *)
(* verdicts are written in lots.                                           *)
(***************************************************************************)
EXTENDS Integers, FiniteSets

CONSTANTS
    Files,      \* rows of files, each with its path
    Tokens,     \* owners of the keys the files are encrypted with
    Session,    \* the token whose key and id the scheduler was given
    SameKey,    \* tokens with the session's master key (recovered onto another stick)
    Owners,     \* the owners the files may have had at the start
    FlushEvery, \* _FLUSH_EVERY
    MinFiles,   \* _WRONG_KEY_MIN_FILES
    Spared,     \* files that stay as they are
    Week,       \* SWEEP_INTERVAL_DAYS
    MaxQuits    \* bound: how often the application is closed

VARIABLES
    disk,       \* what is at the path: "good", "flipped", "short", "locked" or "gone"
    owner,      \* the token whose key encrypted it, as its header says
    row,        \* files.integrity_status ("none": not looked at, "absent": no row)
    age,        \* days since integrity_last_sweep; -1: the clock was set back; Week: a week or never
    todo,       \* rows fetched and not looked at yet
    found,      \* the verdicts of this sweep, as pairs <<file, status>>
    pending,    \* files whose verdict is not written yet
    at,         \* the job: "off", "sweep", "report" or "mark"
    up,         \* the application runs (the stop event is not set)
    quits

vars == <<disk, owner, row, age, todo, found, pending, at, up, quits>>
Job == <<todo, found, pending, at>>
World == <<disk, owner, age, up, quits>>

OK == "ok"
CORRUPT_STATUSES == {"tag_mismatch", "missing", "unreadable", "malformed"}
Statuses == CORRUPT_STATUSES \cup {OK, "hwid_mismatch"}

TypeOK ==
    /\ disk \in [Files -> {"good", "flipped", "short", "locked", "gone"}]
    /\ owner \in [Files -> Tokens]
    /\ row \in [Files -> Statuses \cup {"none", "absent"}]
    /\ age \in -1..Week
    /\ todo \subseteq Files /\ pending \subseteq Files
    /\ found \subseteq Files \X Statuses
    /\ at \in {"off", "sweep", "report", "mark"} /\ up \in BOOLEAN /\ quits \in 0..MaxQuits

Init ==
    /\ disk = [f \in Files |-> "good"]
    /\ owner \in [Files -> Owners]
    /\ row = [f \in Files |-> "none"]
    /\ age = Week
    /\ todo = {} /\ found = {} /\ pending = {} /\ at = "off"
    /\ up = TRUE /\ quits = 0

Rows == {f \in Files : row[f] # "absent"}

(***************************************************************************)
(* The sweep.                                                              *)
(***************************************************************************)
\* verify_file() and _classify(): the tag is checked before the header's token is
\* compared, so a file under another key fails by its tag.
_classify(f) ==
    CASE disk[f] = "gone" -> "missing"
      [] disk[f] = "locked" -> "unreadable"
      [] disk[f] = "short" -> "malformed"
      [] disk[f] = "flipped" \/ owner[f] \notin SameKey -> "tag_mismatch"
      [] disk[f] = "good" /\ owner[f] \in SameKey \ {Session} -> "hwid_mismatch"
      [] OTHER -> OK

\* vakti_geldi_mi(): never, or at least a week ago.
sweep_due == age = Week

maybe_run_weekly_sweep ==
    /\ sweep_due
    /\ todo' = Rows /\ found' = {} /\ pending' = {} /\ at' = "sweep"
    /\ UNCHANGED <<World, row>>
\* The job of every hour, with the key the scheduler was given.
_integrity_sweep == up /\ at = "off" /\ maybe_run_weekly_sweep

\* _flush_statuses(): an UPDATE by id, which a deleted row ignores.
Verdict(f, all) == (CHOOSE v \in all : v[1] = f)[2]
_flush_statuses(lot, all) ==
    row' = [f \in Files |-> IF f \in lot /\ row[f] # "absent" THEN Verdict(f, all) ELSE row[f]]

\* The next row; a full lot is written at once.
sweep_integrity ==
    /\ at = "sweep" /\ up
    /\ \E f \in todo :
        LET all == found \cup {<<f, _classify(f)>>}
            lot == pending \cup {f}
        IN  /\ todo' = todo \ {f}
            /\ found' = all
            /\ IF Cardinality(lot) >= FlushEvery
               THEN _flush_statuses(lot, all) /\ pending' = {}
               ELSE UNCHANGED row /\ pending' = lot
    /\ UNCHANGED <<World, at>>

\* Everything looked at failed by its tag: the key is suspected, not the files.
suspected_wrong_key ==
    /\ Cardinality(found) >= MinFiles
    /\ \A v \in found : v[2] = "tag_mismatch"

\* should_continue() says no between two rows: the rest is left.
aborted == todo # {}

LotDropped == UNCHANGED row
LotWritten == IF suspected_wrong_key THEN UNCHANGED row ELSE _flush_statuses(pending, found)
report ==
    /\ at = "sweep" /\ (todo = {} \/ ~up)
    /\ LotWritten
    /\ pending' = {} /\ at' = "mark"
    /\ UNCHANGED <<World, todo, found>>

\* The gate closes after a sweep that was neither stopped nor suspect.
MarkEnds == IF aborted \/ suspected_wrong_key THEN age ELSE 0
isaretle ==
    /\ at = "mark"
    /\ age' = MarkEnds
    /\ todo' = {} /\ found' = {} /\ at' = "off"
    /\ UNCHANGED <<disk, owner, row, pending, up, quits>>

(***************************************************************************)
(* Around it.                                                              *)
(***************************************************************************)
\* Bytes go bad, a program has the file open, the file comes back from a copy.
Damage(f) ==
    /\ f \notin Spared /\ disk[f] # "gone"
    /\ \E d \in {"good", "flipped", "short", "locked", "gone"} \ {disk[f]} : disk' = [disk EXCEPT ![f] = d]
    /\ UNCHANGED <<owner, row, age, Job, up, quits>>

\* The document is added again by the session's token: the upsert leaves the status.
\* (A row that comes up during a sweep was not fetched by it.  One that was deleted gets a
\* new id, which the sweep does not know: it comes back after it.)
Fetched(f) == f \in todo \/ \E v \in found : v[1] = f
Add(f) ==
    /\ f \notin Spared /\ up /\ (row[f] = "absent" => ~Fetched(f))
    /\ disk' = [disk EXCEPT ![f] = "good"] /\ owner' = [owner EXCEPT ![f] = Session]
    /\ row' = [row EXCEPT ![f] = IF @ = "absent" THEN "none" ELSE @]
    /\ UNCHANGED <<age, Job, up, quits>>

\* A deletion: the file, then its row.
Unlink(f) ==
    /\ f \notin Spared /\ row[f] # "absent" /\ up
    /\ disk' = [disk EXCEPT ![f] = "gone"]
    /\ UNCHANGED <<owner, row, age, Job, up, quits>>
DropRow(f) ==
    /\ row[f] # "absent" /\ disk[f] = "gone" /\ up
    /\ row' = [row EXCEPT ![f] = "absent"]
    /\ UNCHANGED <<disk, owner, age, Job, up, quits>>

\* A day passes, or the clock is set.
Day ==
    /\ age < Week /\ age' = age + 1
    /\ UNCHANGED <<disk, owner, row, Job, up, quits>>

ClockSet ==
    /\ up /\ quits < MaxQuits /\ quits' = quits + 1
    /\ age' = -1
    /\ UNCHANGED <<disk, owner, row, Job, up>>

\* stop_scheduler(); the thread is a daemon, a process that ends takes it along.
stop_scheduler ==
    /\ up /\ quits < MaxQuits /\ up' = FALSE /\ quits' = quits + 1
    /\ UNCHANGED <<disk, owner, row, age, Job>>

start_scheduler ==
    /\ ~up /\ up' = TRUE
    /\ todo' = {} /\ found' = {} /\ pending' = {} /\ at' = "off"
    /\ UNCHANGED <<disk, owner, row, age, quits>>

Next ==
    \/ _integrity_sweep \/ sweep_integrity \/ report \/ isaretle
    \/ Day \/ ClockSet \/ stop_scheduler \/ start_scheduler
    \/ \E f \in Files : Damage(f) \/ Add(f) \/ Unlink(f) \/ DropRow(f)

Spec == Init /\ [][Next]_vars

\* The scheduler comes round, time passes, the application is opened again.
Fairness ==
    /\ WF_vars(_integrity_sweep) /\ WF_vars(sweep_integrity) /\ WF_vars(report)
    /\ WF_vars(isaretle) /\ WF_vars(Day) /\ WF_vars(start_scheduler)
FairSpec == Spec /\ Fairness

-----------------------------------------------------------------------------
\* What a row says catches up with its file: a file that stays damaged, lost, held by
\* another program or whole is found out by some sweep, although sweeps are stopped,
\* the clock is set back, and files come and go while it looks.
VerdictCatchesUp ==
    \A f \in Files, s \in Statuses :
        <>[](row[f] # "absent" /\ _classify(f) = s) => <>[](row[f] = s)

\* The gate closes for a week only after a sweep that has looked at every row it has
\* fetched, with the verdict of that sweep in each that is still there, and no older one
\* anywhere: however it was cut into lots, and whatever is added, saved or deleted.
GateClosesOnVerdicts ==
    [][at = "mark" /\ at' = "off" /\ age # 0 /\ age' = 0 =>
        /\ todo = {}
        /\ \A v \in found : row[v[1]] \in {v[2], "absent"}
        /\ \A f \in Files : row[f] \in Statuses => Fetched(f)]_vars

\* integrity.py: a sweep whose files ALL fail by their tag "marks no row": where every
\* file is whole and under another key, no row says otherwise when it ends.
WrongKeyMarksNothing ==
    at = "mark" /\ suspected_wrong_key /\ (\A f \in Files : disk[f] = "good" /\ owner[f] \notin SameKey)
        => \A f \in Files : row[f] # "tag_mismatch"
=============================================================================
