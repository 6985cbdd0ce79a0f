------------------------------- MODULE Backup -------------------------------
(***************************************************************************)
(* Backups (CORE/backup.py), the menu that takes one                       *)
(* (UI/main_window_open.py) and the reminder (CORE/backup_reminder.py).    *)
(*                                                                         *)
(* create_backup() runs in the GUI thread and lets the event loop turn     *)
(* before each file it copies: a save, a deletion, a lock or the PIN of    *)
(* another token come in between, as pool threads and other instances do   *)
(* at any time.  It works with the key BUFFER of the window and the        *)
(* hardware id of the moment it was asked for.                             *)
(***************************************************************************)
EXTENDS Integers, FiniteSets

CONSTANTS
    Files,      \* paths in the vault
    Tokens,     \* USB tokens, each with a key of its own
    Zero,       \* the key buffer filled with zero bytes
    MaxBackups, \* bound: backups taken
    MaxVersion, \* bound: contents of a file
    Esik        \* backup_reminder_days

VARIABLES
    vault,      \* the file at each path, {} or one: its version and owner, "half" while it is written
    rows,       \* paths with a row in files
    hwid, key,  \* of the window
    job,        \* the call under way: where it stands, what is left, its hwid
    dirs,       \* the backup directories
    last,       \* days since backup_last_run, -1: never
    snoozed,    \* days since backup_reminder_snoozed_at, -1: not
    restore     \* restore_backup(): the directory and what it has brought back

vars == <<vault, rows, hwid, key, job, dirs, last, snoozed, restore>>
Live == <<vault, rows>>
Window == <<hwid, key>>
Reminder == <<last, snoozed>>

Versions == 1..MaxVersion
Content == [ver : Versions, owner : Tokens, half : BOOLEAN]
Entry == Files \X Content
\* copies: in files/; plain: _metadata.json; sealed: metadata.hcl; manifest.json.
Dir == [copies : SUBSET Entry, plain : BOOLEAN,
        sealed : SUBSET [key : Tokens \cup {Zero}, hwid : Tokens, entries : SUBSET Entry, rows : SUBSET Files],
        manifest : SUBSET [entries : SUBSET Entry]]
Empty == [copies |-> {}, plain |-> FALSE, sealed |-> {}, manifest |-> {}]

TypeOK ==
    /\ vault \in [Files -> SUBSET Content] /\ rows \subseteq Files
    /\ hwid \in Tokens /\ key \in Tokens \cup {Zero}
    /\ job.at \in {"off", "copy", "dump", "seal", "manifest", "note"} /\ job.todo \subseteq Files
    /\ job.n \in 0..MaxBackups /\ job.hwid \in Tokens
    /\ \A n \in DOMAIN dirs : dirs[n].copies \subseteq Entry /\ dirs[n].plain \in BOOLEAN
    /\ last \in -1..Esik /\ snoozed \in -1..Esik
    /\ restore.n \in 0..MaxBackups /\ restore.done \subseteq Entry /\ restore.clean \in BOOLEAN

Init ==
    /\ hwid \in Tokens /\ key = hwid
    /\ vault \in [Files -> {{}, {[ver |-> 1, owner |-> hwid, half |-> FALSE]}}]
    /\ rows = {f \in Files : vault[f] # {}}
    /\ job = [at |-> "off", todo |-> {}, n |-> 0, hwid |-> hwid]
    /\ dirs = [n \in 1..MaxBackups |-> Empty]
    /\ last = -1 /\ snoozed = -1
    /\ restore = [n |-> 0, done |-> {}, clean |-> TRUE]

At(place) == job.at = place
Goto(place) == job' = [job EXCEPT !.at = place]
n == job.n
SetDir(d) == dirs' = [dirs EXCEPT ![n] = d]
Untouched == UNCHANGED <<Live, Window, restore>>

(***************************************************************************)
(* create_backup().                                                        *)
(***************************************************************************)
\* _on_create_backup(): the menu needs an unlocked window; the names are listed.
_on_create_backup ==
    /\ At("off") /\ key # Zero /\ n < MaxBackups
    /\ job' = [at |-> "copy", todo |-> {f \in Files : vault[f] # {}}, n |-> n + 1, hwid |-> hwid]
    /\ UNCHANGED <<dirs, Reminder>> /\ Untouched

\* copy2() and the digest of the copy; a file that is gone or cannot be read is skipped.
Copy ==
    /\ At("copy")
    /\ \E f \in job.todo :
        /\ job' = [job EXCEPT !.todo = @ \ {f}]
        /\ dirs' = [dirs EXCEPT ![n].copies = @ \cup {<<f, c>> : c \in vault[f]}]
    /\ UNCHANGED Reminder /\ Untouched

\* BEGIN, _dump_tables(), COMMIT, and the dump goes to a plain file.  BEGIN fails
\* where another thread has a transaction open on the shared connection.
_dump_tables ==
    /\ At("copy") /\ job.todo = {}
    /\ \/ /\ Goto("seal")
          /\ SetDir([dirs[n] EXCEPT !.plain = TRUE,
                        !.sealed = {[key |-> Zero, hwid |-> job.hwid, entries |-> dirs[n].copies, rows |-> rows]}])
       \/ Goto("off") /\ UNCHANGED dirs
    /\ UNCHANGED Reminder /\ Untouched

\* encrypt_file(): a zero buffer is refused (BackupError); the dump is shredded in
\* either case.
Seal ==
    /\ At("seal")
    /\ IF key = Zero
       THEN Goto("off") /\ SetDir([dirs[n] EXCEPT !.plain = FALSE, !.sealed = {}])
       ELSE /\ Goto("manifest")
            /\ SetDir([dirs[n] EXCEPT !.plain = FALSE, !.sealed = {[s EXCEPT !.key = key] : s \in @}])
    /\ UNCHANGED Reminder /\ Untouched

ManifestEarly(at) == at \in {"copy", "manifest"}
ManifestLast(at) == at = "manifest"
WriteManifest ==
    /\ ManifestLast(job.at)
    /\ Goto("note")
    /\ SetDir([dirs[n] EXCEPT !.manifest = {[entries |-> dirs[n].copies]}])
    /\ UNCHANGED Reminder /\ Untouched

\* yedek_alindi(); a failure here is only logged.
yedek_alindi ==
    /\ At("note") /\ Goto("off")
    /\ \/ last' = 0 /\ snoozed' = -1
       \/ UNCHANGED Reminder
    /\ UNCHANGED dirs /\ Untouched

\* The process dies, and is started again.
Crash ==
    /\ ~At("off") /\ Goto("off")
    /\ \E t \in Tokens : hwid' = t /\ key' = t
    /\ UNCHANGED <<Live, dirs, Reminder, restore>>

(***************************************************************************)
(* verify_backup(), with the key, and restore_backup().                    *)
(***************************************************************************)
\* verify_file(): the copy opens with the key and names the token.
verify_file(c, t) == ~c.half /\ c.owner = t

\* The digests alone: without comparing the two lists.
verify_quick(b, t) ==
    \E m \in dirs[b].manifest : \A e \in m.entries : e \in dirs[b].copies /\ verify_file(e[2], t)

verify_backup(b, t) ==
    \E m \in dirs[b].manifest, s \in dirs[b].sealed :
        /\ \A e \in m.entries : e \in dirs[b].copies /\ verify_file(e[2], t)
        /\ s.key = t /\ s.hwid = t
        /\ s.entries = m.entries

\* The whole backup is verified; then the copies are made.
Verified ==
    /\ restore.n = 0
    /\ \E b \in 1..MaxBackups, t \in Tokens :
        verify_backup(b, t) /\ restore' = [n |-> b, done |-> {}, clean |-> TRUE]
    /\ UNCHANGED <<Live, Window, job, dirs, Reminder>>

restore_backup ==
    /\ restore.n # 0 /\ restore.done = {}
    /\ \E m \in dirs[restore.n].manifest :
        restore' = [restore EXCEPT !.done = {e \in dirs[restore.n].copies : \E x \in m.entries : x[1] = e[1]}]
    /\ UNCHANGED <<Live, Window, job, dirs, Reminder>>

\* The medium goes bad, or the plain manifest is edited.
Decay ==
    /\ restore.done = {}
    /\ \E b \in 1..MaxBackups : ~(b = n /\ ~At("off")) /\
        \/ \E e \in dirs[b].copies : dirs' = [dirs EXCEPT ![b].copies = @ \ {e}]
        \/ \E m \in dirs[b].manifest : \E e \in m.entries :
            dirs' = [dirs EXCEPT ![b].manifest = {[entries |-> m.entries \ {e}]}]
    /\ restore' = [restore EXCEPT !.clean = (restore.n = 0)]
    /\ UNCHANGED <<Live, Window, job, Reminder>>

(***************************************************************************)
(* Around it.                                                              *)
(***************************************************************************)
\* A pool thread adds a document: its file grows in place, then its row is written.
AddBegins(f) ==
    /\ vault[f] = {} /\ key # Zero
    /\ vault' = [vault EXCEPT ![f] = {[ver |-> 1, owner |-> hwid, half |-> TRUE]}]
    /\ UNCHANGED <<rows, Window, job, dirs, Reminder, restore>>
AddEnds(f) ==
    /\ \E c \in vault[f] : c.half /\ vault' = [vault EXCEPT ![f] = {[c EXCEPT !.half = FALSE]}]
    /\ rows' = rows \cup {f}
    /\ UNCHANGED <<Window, job, dirs, Reminder, restore>>

\* A check-in replaces the file in one step, under the key of the window.
CheckIn(f) ==
    /\ key # Zero
    /\ \E c \in vault[f] : /\ ~c.half /\ c.ver < MaxVersion
                           /\ vault' = [vault EXCEPT ![f] = {[c EXCEPT !.ver = @ + 1, !.owner = key]}]
    /\ UNCHANGED <<rows, Window, job, dirs, Reminder, restore>>

\* A deletion: the file, then its row.
Unlink(f) ==
    /\ f \in rows /\ vault[f] # {} /\ vault' = [vault EXCEPT ![f] = {}]
    /\ UNCHANGED <<rows, Window, job, dirs, Reminder, restore>>
DropRow(f) ==
    /\ f \in rows /\ vault[f] = {} /\ rows' = rows \ {f}
    /\ UNCHANGED <<vault, Window, job, dirs, Reminder, restore>>

Lock ==
    /\ key # Zero /\ key' = Zero
    /\ UNCHANGED <<Live, hwid, job, dirs, Reminder, restore>>
Unlock(t) ==
    /\ key = Zero /\ hwid' = t /\ key' = t
    /\ UNCHANGED <<Live, job, dirs, Reminder, restore>>

\* A day passes.
Older(days) == IF days = -1 \/ days = Esik THEN days ELSE days + 1
Day ==
    /\ last' = Older(last) /\ snoozed' = Older(snoozed) /\ <<last', snoozed'>> # Reminder
    /\ UNCHANGED <<Live, Window, job, dirs, restore>>

\* yedek_durumu(): the reminder is due, and then "later" may be chosen.
yedek_durumu == IF last \in 0..Esik - 1 \/ snoozed \in 0..Esik - 1 THEN "guncel"
                ELSE IF last = -1 THEN "hic_yedek_yok" ELSE "eski"
ertele ==
    /\ yedek_durumu # "guncel" /\ snoozed' = 0
    /\ UNCHANGED <<Live, Window, job, dirs, last, restore>>

Next ==
    \/ _on_create_backup \/ Copy \/ _dump_tables \/ Seal \/ WriteManifest \/ yedek_alindi \/ Crash
    \/ Verified \/ restore_backup \/ Decay \/ Lock \/ Day \/ ertele
    \/ \E t \in Tokens : Unlock(t)
    \/ \E f \in Files : AddBegins(f) \/ AddEnds(f) \/ CheckIn(f) \/ Unlink(f) \/ DropRow(f)

Spec == Init /\ [][Next]_vars

-----------------------------------------------------------------------------
\* A manifest is the last thing written, and the reminder falls silent after it: a
\* directory with one has its metadata encrypted under a token's key, and some
\* directory has one whenever a backup counts as taken -- wherever the window was
\* locked, the process died or the database refused in between.
QuietMeansBackup ==
    /\ \A b \in 1..MaxBackups : dirs[b].manifest # {} =>
            dirs[b].sealed # {} /\ \A s \in dirs[b].sealed : s.key # Zero
    /\ last # -1 => \E b \in 1..MaxBackups : dirs[b].manifest # {}

\* What a restore brings back is exactly the list sealed in the metadata: a copy that
\* is lost, and an edited manifest, stop it -- unless they go bad after it was verified.
RestoredAsSealed ==
    restore.done # {} /\ restore.clean =>
        \E s \in dirs[restore.n].sealed : restore.done = s.entries

\* "Yedek Tamamlandı": a backup that was completed and not touched since passes the
\* verification of the token it was taken for.
RestorableByItsMaker ==
    \A b \in 1..MaxBackups : \A m \in dirs[b].manifest, s \in dirs[b].sealed :
        m.entries = s.entries /\ m.entries = dirs[b].copies => verify_backup(b, s.hwid)

\* Every row of the dump has its file in the backup.
RowsHaveCopies ==
    \A b \in 1..MaxBackups : dirs[b].manifest # {} =>
        \A s \in dirs[b].sealed : \A f \in s.rows : \E e \in s.entries : e[1] = f
=============================================================================
