# HYCLEUS: specification, model checking, proofs

HYCLEUS is a desktop application for encrypted documents. A USB token and a PIN
open a vault, the vault gives a master key, and with it documents are encrypted
into `.hcl` files in a data directory, edited through decrypted copies in a
"SafeZone", retained for as long as their retention profile says, and destroyed.
Everything it does is written to a hash-chained audit log in one SQLite database.
Several instances may run on one data directory, and each has a GUI thread, bulk
workers and a scheduler.

This directory holds TLA+ models of the parts where that concurrency, and the
failures and crashes it meets, decide whether documents, keys and the record of
what happened survive. Each module is read off the Python source; each property
is about something a unit test of one function in one process can hardly reach.

Contents: [Inventory](#inventory) · [Modules](#modules) · [Runs](#runs) ·
[Fairness](#fairness) · [Proofs](#proofs) ·
[Where code and text disagree](#where-code-and-text-disagree) ·
[Not modelled](#not-modelled) · [Plan](#plan) · [Running](#running)

## Inventory

| Component | Source | State it keeps | Operations | Hard behaviour | What makes it correct |
|---|---|---|---|---|---|
| Transparent access | `CORE/checkout.py`, `CORE/safezone.py`, `UI/main_window_open.py` | `file_locks` and `files` rows, `.hcl` files, the SafeZone directory, `CheckoutRegistry` of a run | check_out, check_in, discard, autosave and closing batches, startup sweeps, quit | two runs on one document, crash between any two of its writes, failing encryption, a stale lock swept while another run takes it | one editor per document, no edit lost, the digest never ahead of the document, no copy left behind |
| Session lock | `UI/main_window_lock.py`, `CORE/idle_lock.py`, `CORE/session_user.py` | set of lock reasons, key buffer, idle tracker, open dialogs | USB poll, idle tick, re-authentication, logout, unlock | nested event loops: timers fire behind an open PIN dialog; an administrator changes the token meanwhile | key belongs to the session's token, each reason has its own way out, a session that must lock does |
| Audit log chain | `CORE/audit_chain.py`, `DB/db_manager.py` | `audit_log` rows with hashes, the start setting | append_entry, ensure_chain_started, verify_audit_chain | threads share a connection, any statement of one commits the other's transaction; several processes | the committed chain verifies and does not fork |
| Audit anchors | `CORE/audit_chain.py` | anchor file, its copy on the token | write_anchor, maybe_write_daily_anchor, the checks | two processes append, the token is pulled | an untouched log never looks manipulated |
| Disposal | `CORE/disposal.py`, `CORE/scheduler.py`, `CORE/expiry.py`, `CORE/retention.py`, `UI/main_window_table.py`, `UI/main_window_files.py` | `files.label`, `expires_at`, retention columns, `disposal_queue`, the window's table | moves between labels, purge, countdown, purge job, retention sweep, resumption at startup | stale lists, deletion in four statements, crash in the middle, three threads and several instances | what was begun is finished, a held file survives, a due file goes |
| Vault lifecycle | `CORE/vault_manager.py`, `CORE/registration.py`, `CORE/usb_takeover.py`, `CORE/pin_rotation.py`, `CORE/recovery_share.py` | vault file, share in the key store, rows of `usb_tokens` and `users` | create, change PIN or role, recover, re-provision, take over, register, approve | four stores written one after the other, rollback that may fail | two of three shares always give the key; no half-made account becomes an approved one |
| Login guard | `CORE/rate_limit.py`, `CORE/totp_guard.py` | `login_attempts`, `totp_replay_guard` | check, record_failure, record_success, verify | read and write in separate statements, a clock | a failure counts, a code is accepted once |
| Secret store | `CORE/secret_store.py`, `CORE/tpm_sealing.py` | the records of the key store, on Windows two names for one record, and the TPM they may be sealed to | store, load, erase, re-seal, the probe at start-up | a write moves somebody else's record; the TPM comes, goes, is cleared | a call takes effect once or not at all; no older value comes back |
| Start-up and migrations | `main.py`, `DB/migrations.py`, `CORE/secret_migration.py`, `CORE/secure_erase.py` | schema, `schema_migrations`, `user_version`, the old places of the secrets | gates, numbered migrations, copy, read back, erase, raise the version | crash between any two of them, run again | a secret is in at least one place, and at the login in the right one |
| Integrity sweep, scheduled gates | `CORE/integrity.py`, `CORE/scheduled_checks.py`, `CORE/backup_reminder.py` | integrity columns of `files`, time stamps in `settings` | sweep, gate, mark | stopped half way, racing a check-in, a wrong key | no wrong mark, no sweep skipped for ever |
| Backup | `CORE/backup.py` | backup directory and manifest | create, verify, restore, apply_metadata | database and files are not read in one step | a verified backup restores |
| File records, folders, duplicates | `CORE/file_records.py`, `CORE/folders.py`, `CORE/duplicates.py` | rows of `files`, `folders` | upsert, create, move, delete | moving a folder below itself, two files of one name | the tree has no cycle |
| Bulk intake | `UI/main_window_table.py`, `CORE/crypto.py`, `CORE/scanner.py` | batch counters, the runnable of each document, its file, row and verdict | drop, duplicate question, encrypt, record, scan, count | pool threads share the key buffer the lock zeroes; two documents of one name | every batch is counted to its end |
| Database layer | `DB/db_manager.py` | connection, role of the session | execute, system_write | the connection is shared by all threads | a commit ends only what it began |
| Timestamps, Merkle tree, packages | `CORE/timestamp*.py`, `CORE/merkle.py`, `CORE/hclx.py`, `CORE/trusted_roots*.py` | trailers of `.hcl` files, stored roots | request, attach, verify | files change while the authority is asked; a call stops between two files | a stamp that verifies is true; a proof verifies exactly for its leaf |
| The rest | dialogs, views, reports, scanner, USB probing, packaging | presentation and single rows | | | |

How they interact. The GUI thread of the main window calls checkout, disposal and
the lock directly; the scheduler's jobs call disposal, the anchors and the
integrity sweep on their own threads; bulk workers encrypt and record files on a
thread pool; every one of them writes the audit log through the shared
`DBManager`. The session lock closes every checked-out document before it zeroes
the key. Start-up (`main.py`) purges the SafeZone, resumes half-done deletions
and sweeps stale locks, in this order, before the window opens; quitting writes
every document back and purges again. Instances meet only in the database and
the data directory.

## Modules

| Module | Models | What it is |
|---|---|---|
| `Checkout` | checkout.py, safezone.py, main_window_open.py, parts of main.py and crypto.py | documents, locks and copies of several runs |
| `ExclusiveEdit` | (abstract) | what transparent access promises: one editor, content only grows |
| `SessionLock` | main_window_lock.py, idle_lock.py, parts of session_user.py and vault_manager.py | the lock of one window |
| `LoginGuard` | rate_limit.py, totp_guard.py, their callers in login_dialog.py and main_window_files.py | the guards of what a user types |
| `AuditChain` | audit_chain.py (first half), `DBManager.execute` | appends of several threads, connections and processes |
| `AuditAnchor` | audit_chain.py (second half), parts of main.py, scheduler.py, security_actions.py | the anchors of the log and their comparison |
| `Disposal` | disposal.py, scheduler.py, expiry.py, parts of retention.py and of the table | deletions, timers, retention |
| `Enrolment` | vault_manager.py, registration.py, usb_takeover.py, recover_vault.py, setup_usb.py, pin_rotation.py, session_user.py and their dialogs | accounts, keys and shares over four stores |
| `Custody` | (abstract) | what the two-of-three scheme promises |
| `SecretStore` | secret_store.py, tpm_sealing.py | the records of the key store |
| `KeyStore` | (abstract) | what a key store promises its callers |
| `Startup` | main.py, db_manager.py, migrations.py, secret_migration.py, secure_erase.py | a start from its gates to the login |
| `Intake` | main_window_table.py, crypto.py, file_records.py, duplicates.py, scanner.py | documents dropped on the window |
| `IntegritySweep` | integrity.py, scheduled_checks.py, scheduler.py | the weekly sweep |
| `Backup` | backup.py, backup_cli.py, backup_reminder.py | backups, their verification and restoration |
| `Merkle` | merkle.py | the tree of a batch: pure operators |
| `Timestamp` | timestamp.py, timestamp_verify.py, trusted_roots.py | time stamps and their trailers |
| `*Proofs` | | proofs about `Checkout`, `Disposal`, `AuditChain`, `Enrolment`; `BackgroundProofs` about `AuditAnchor`, `Intake` and `IntegritySweep`, `SessionProofs` about `SessionLock` and `LoginGuard`, `InstallationProofs` about `Startup`, `SecretStore` and `Backup`, `EvidenceProofs` about `Timestamp` and the threads of `AuditChain` |
| `MC*` | | instances for TLC |

A definition has the name of the function or the table it models where there is
one; `PROJECT.json` gives the lines of each.

### Checkout

*State.* `lock` is the table `file_locks` (the session id of each file's row),
`rows` what a starting run's `release_stale_locks()` fetched and has not judged
yet, `reg` the `CheckoutRegistry`, `copy`/`base` the SafeZone copies with their
baseline digest, `vault`/`header`/`digest` the `.hcl` file, the digest in its
header and `files.original_sha256`, `task` the position of a run's GUI thread
inside an operation, `phase` its life cycle. A content is a set of edits, so
"an edit was lost" is a set that shrank; a digest is the content it is of.

*Actions.* `Open`, `Decrypt`, `WriteCopy` are check_out; `LookForChange`,
`HashCopy`, `ReplaceVault`, `Shred`, `Release` check_in with rewrite_encrypted,
`ApplyCheckin` the caller's UPDATE; `NextDocument` the batches; `Start`,
`PurgeOrphans`, `FetchLocks`, `SweepRow`, `EnterSession` the start-up; `Quit`,
`Exit` the end; `Crash` at any step. Every failure branch the code has
("busy" database, failing encryption, decryption, allocation, shredding, an
unreadable copy, a reused process id) is a disjunct guarded by the constant
`Faults`. A restart is a new run, with a new session id, as in the code.

### SessionLock

*State.* `reasons` is `_lock_reasons`, `key` whose master key the buffer holds
(or `Zero`), `hwid` the session's token, `dialog`/`reauth` the modal dialogs in
front of it, `idleOn`/`armed`/`overdue` the `IdleTracker`, `open`/`sealed` a
checked-out document and the key it will be encrypted with, and `plugged`,
`account`, `token` the world: the port and the database. A slot is one action,
except that a modal dialog splits it in two, since timers go on firing in its
event loop.

### LoginGuard

*State.* `count`/`until` are the rows of `login_attempts` (the login and the
reference code of a registration are two keys), `son` the last step of
`totp_replay_guard`, `job` the check a process is in the middle of, `greyed` the
form's `_locked_out`. `taken`, `wrong` and `last` count what users saw happen.
Time is a code's step of 30 seconds, a code is named by its step, and the clock
may be set back (`SetBack`).

*Actions.* `_on_login`, `_on_register` and `_on_ctx_download` begin a check; `ReadStep`
and `verify_totp_no_replay` are the SELECT and the write of the replay guard,
`ReadCount`, `record_failure` and `record_success` those of the counter; `Quit` falls
between any two.

### AuditChain

*State.* `durable` is the committed database, `live` what the connection that
holds SQLite's write lock sees, `mutex` `_APPEND_LOCK`, `pc`, `mine`, `link` the
position and locals of each thread's `append_entry()`. A row stores the id of
the entry its hash was computed over (hashes do not collide), or `Null` while
`entry_hash IS NULL`. Each SQL statement is an action. `Execute` /
`ExecuteCommit` are `DBManager.execute()`, whose `commit()` ends whatever
transaction the shared connection is in.

### AuditAnchor

*State.* `log` is the committed log as a sequence of hashes (0 where a row was cut
out), `open` the uncommitted row of the shared connection, `local` and `usb` the
lines of the anchor file and of its copy on each token, `base` what a thread read
for the anchor it is about to write, `at` how far the start has come. `tampered`
and `torn` remember why an alarm would be right.

*Actions.* `ReadTip`, `ReadCount`, `write_anchor` are the two reads and the write of
write_anchor(), whose causes are `Daily`, `_anchor_audit_chain`, `_anchor_on_quit`
and `_kaydet_ve_cipaya_kazi`; `main`, `verify_against_anchor` and `Compared` the
comparisons of a start; `append_entry`, `Commit`, `Rollback` the other writers;
`Tamper` a person with the file while the program is off.

### Disposal

*State.* `row` is the table `files` by path, `stored` the files on disk, `queue`
`disposal_queue`, `job[p][t]` the deletion a thread works through (`gui`: a
purge, the countdown, or the resumption at start-up; `purge`: the scheduler),
`sweep` the retention sweep, `view` and `tab` the table of the main window and
`_current_label`, `adding` the files encrypted and not recorded yet. Time is the
unit of `imha_ttl_hours`; a retention profile gives a file one of five terms
(none, no start date, without end, over, running).

*Actions.* `Enqueue`, `Shred`, `DeleteRow`, `Dequeue` are the four statements of a
deletion; `Pick` the protection check before it; `TickExpiry`, `PurgeExpired`,
`PurgeFile`, `Start` its four causes; `SweepSelect`, `SweepCheck`, `SweepMove`
sweep_retention_expired; `MoveLabel`, `MoveToKritik`, `MoveToImha`, `LoadLabel`,
`Search`, `AddEncrypt`, `AddRecord` the user and the bulk workers. `Overlap`
names what the user may do to a file while it is being destroyed: with `{}` a
document is not added, and a profile not assigned, in that moment. (No menu
reaches assign_profile() or purge_file() today; they are modelled as the
functions they are.)

### Enrolment and Custody

*State.* A token is bound to four stores no transaction spans: `vault` (the file,
with share 1), `share2` and `totp` (the key store), `row` (`usb_tokens`) and
`users`. `papers` are the printed recovery shares, `docs` the keys documents were
sealed under. A line of Shamir's scheme is a number: two shares of one line give
its key, shares of two lines another one. `job` is the operation a process is in,
with what it would put back (`back`, `back2`). `adrift` names the tokens an operation
on users is half done on: nothing is sealed with one of those in the model, and
`ProvisionedOnPurpose` excepts them. `mixed` names the tokens whose row was completed (with
a check value, or a mark that the share was given out) from a vault it is not the row of,
until the row is written anew: `RowTellsTheTruth` excepts those, and `CheckValueIsCertain`
says of a check value what the code's comment says, without exception.

*Actions.* The wizard, register_new_user, rejection, deletion, reset, setup_usb, the
changes of role and PIN, recover and takeover each are a first step (their gates)
and one action per write, shared where the code shares the function: `SaveRow`,
`CreateFile`, `ReplaceVault`, `EraseTotp`, `DeleteRow`, `UnlinkVault`, `MoveAccount`
and so on. `RegistrationFails`, `ReprovisionFails` and `_eski_kasayi_geri_yukle` are
the branches that put something back; `Kill` ends an operation at any step. Approval,
blacklisting, login, the entry of a session and the re-authentication of a plugged
token run against all of that.

`Custody` is the abstract specification: while documents are sealed under a key,
two of its three shares exist and no step takes two of them at once. Enrolment
implements it (`KeysInCustody`), with `held` mapped to the places a share of the
line is in.

### SecretStore and KeyStore

*State.* `bare` and `comp` are the two names under which Windows keeps a record: one
bare target for the service and one compound target per user; `tpm`, `key` the chip
and its sealing key; `op` the call a process is in; `soiled` a session in which a
write ended before its clean-up.

*Actions.* Each call of the operating system is one: `Evict` and `Write` are the
library's two writes, `Verify` and `_windows_golge_sil` the read-back and the removal
of the shadow, `EraseCompound`, `EraseBare` an erasure, `DeleteProbe` the end of the
probe. `KeyStore` is what a caller is promised: a record changes in one step of a
call on that very record. `KeepsPromise` is the refinement; the value of a record is
what get_password() would read.

### Startup

*State.* `built`/`stamped` are the schema changes made and recorded, `version`
`PRAGMA user_version`, `column`, `ring`, `file`, `global`, `codes` the old and new
places of the two secrets, `pages` the columns whose text is still in the free pages,
`mac` the key a vault file is signed under, `clash` two users of one token, `at`,
`todo`, `row` the position in main() and in its loops.

*Actions.* Each ends at a commit, a file operation or a call of the key store:
`_apply_schema`, `Migration`, `_damgala`, `senkronize`, the four moves of
secret_migration.py step by step, `set_schema_version`, `Tidy`, `Login`; `Crash` falls
between any two, and a failing step ends the process (`GatesFail`).

### Intake

*State.* `key` is the key buffer all pool threads share (`Zero` after a lock), `work`
the stage of each runnable and the hardware id it was queued with, `disk`, `row`,
`verdict` the file, the rows of `files` and `quarantine` of each path, `total`/`done` the
banner. Two documents may have one path, since its name alone decides it.

*Actions.* `dropEvent` and `_check_duplicates` (a modal dialog, behind which workers go on)
start a batch, also while another is outstanding; `run`, `_derive_file_key`, `encrypt_file`, `stat`,
`record_encrypted_file`, `scan_file`, `_save_to_db` are the stages of a worker, with
their failures; `_on_file_done` and `_on_batch_complete` the signals.

### IntegritySweep

*State.* `disk` is what a file's bytes are like, `owner` whose key they are under, `row`
its verdict in `files`, `todo`/`found`/`pending` the sweep's rows, verdicts and unwritten
lot, `age` the gate's days. `_integrity_sweep` asks the gate, `sweep_integrity` looks at
one file, `LotWritten` and `suspected_wrong_key` are the lot and its guard, `isaretle`
the mark; the user adds, deletes and quits meanwhile.

### Backup

*State.* `vault` and `rows` are the live files and rows, `job` the create_backup() under
way, `dirs` the directories written, `last`/`snoozed` the reminder, `restore` a
restoration. `Copy` takes one file and lets the event loop run, `_dump_tables`, `Seal`,
`WriteManifest`, `yedek_alindi` follow; `Verified` and `restore_backup` are the command
line; `Decay` and the live window interfere.

### Timestamp and Merkle

A digest is the term it is computed over. `Timestamp` keeps each file's text, its
trailers and whether a trailer is cut off, each call's kind (one file, a batch, a batch
with the entry of the log as its last leaf), list and position, and which texts existed when a token was issued (`before`). `file_digest`, `request_token`,
`parse_response`, `attach_trailer`, `Replace` are the steps of a call; check-ins, other
calls, crashes and trailers moved from one file to another interfere.

### Side by side

`MCSession`, `MCBackground`, `MCEvidence` and `MCInstallation` each put two or three
components that share no state into one run. `part` is chosen in the initial state and
says which of them moves; fairness is demanded of the part that runs. Nothing is lost
or added by this: the reachable states are those of the components alone.

## Runs

Bounds are constants or guards (`Sessions`, `Edits`, `MaxRows`, `MaxClock`,
`MaxId`, `MaxQueue`, `MaxMade`, `MaxNow`, `MaxCrashes`, ...), never state constraints.

| Run | Instance | Shows |
|---|---|---|
| CheckoutFaults | 3 runs, 1 document, 2 edits; a busy database, a reused pid, a name that cannot be allocated, failing overwriting | `OneEditorPerFile`, `DigestNotAhead`; `ImplementsExclusiveEdit`, the refinement of `ExclusiveEdit`, from which `NoLostUpdate` follows: only `Extend` changes the content of a document whose lock was not broken, and it adds to it. Three runs, because a sweep that breaks a lock needs the dead holder, the sweeper and the new holder. The runs and the edits are alike, so the run uses their symmetry. |
| CheckoutErrors | 2 runs, 2 documents, 1 edit, the failures check_out and check_in answer with an error, fair | `LocksMatchRegistry`, `NoPlaintextAfterQuit`, `StaleLockReleased`, `QuitTerminates`. Two documents, for the batches. |
| Session: lock | 2 tokens, failing database, fair | `NoDocumentBehindLock`, `OwnWayOut`, `SealedKeyStays`; `PulledTokenLocks`, `LostAuthorityLocks`, `IdleSessionLocks`. |
| Session: login | 1 process, lock after 2 attempts, 3 steps of time, 1 set-back, fair | `NoCodeTwice`, `WaitedOut`, `FormComesBack`. |
| Background: intake | 2 documents of one name, 2 pool threads, 1 token, failing encryption and database, a pulled medium, fair | `ToldAtTheEnd`; `BatchEnds`. |
| Background: sweep | 2 files (one left alone), lots of 2, 2 tokens with one key, 1 restart, fair | `GateClosesOnVerdicts`; `VerdictCatchesUp`. |
| Background: anchors | 1 token, 4 rows, 2 anchors, 2 days | `AlarmHasCause`, `TamperReported`. |
| Evidence: processes | 2 processes of one thread, 5 rows, failing statements and crashes | `ChainSound`: the committed chain verifies in every state. |
| Evidence: threads | 1 process, 3 threads, 2 connections, 5 rows, a fresh chain | `ThreadsSound`: `ChainSoundAtRest` and `NoFork`; `_APPEND_LOCK` suffices inside a process. |
| Evidence: stamps | 2 files, 2 calls, in one behaviour of `timestamp_file`, in another of `timestamp_batch` over one file or both with the entry of the log (trees of 2 and 3 leaves); 2 texts, 2 tokens whose chains may end in 2 anchors, 1 moved trailer | `ValidMeansEarlier`, `StampedFileOpens`. |
| Evidence: trees | up to 6 leaves (of 5, two levels have an odd one out) over 2 payloads, one of them two digests in a row | `ProofsExact`, against the definition "a proof leads to the root for its own leaf and index, and for nothing else". |
| DisposalCrash | 2 windows, 1 path, 2 rows, 2 queue entries, 1 hour; crashes, failing statements | `HalfDoneIsQueued`. Two rows of one path, because the danger is a document that comes back under an old name. |
| DisposalHeld | 1 window, every retention term, files that cannot be unlinked, crashes, fair | `HeldFileSurvives`, `DueFileGoes`, `PendingResumed`. |
| EnrolmentCrash | 2 tokens, 1 process, every operation, failing writes, a lost share; every operation but a takeover cut anywhere | `KeysInCustody` (the refinement of `Custody`), `RowTellsTheTruth`, `ProvisionedOnPurpose`. Two tokens, because a registration needs an administrator's and a takeover an old and a new one; the tokens are alike, so the run uses their symmetry (every property is a safety property). |
| Installation: start | 2 tokens, an installation of any age, 2 crashes | `SecretsSurvive`, `ReadyAtLogin`. |
| Installation: secrets | 2 names and the probe, 2 values, 1 process, the TPM cleared once | `KeepsPromise` (the refinement of `KeyStore`), `NoStaleCopy`. |
| Installation: backup | 2 files of 2 versions, 1 token, 1 backup | `QuietMeansBackup`, `RestoredAsSealed`. |
| KcvAfterUndo | 2 tokens, one of them without a check value, set-up and recovery, failing writes | a violation, see below. |
| UnlockedWithoutKey | as Session | a violation, see below. |
| SearchPurged | 1 window, no failure | a violation, see below. |

Two documents, two tokens or two processes are enough for the pairwise
properties: each is a statement about one document and at most two actors, and
where a third actor matters (the sweeper) it is there. Seven leaves give the Merkle
tree three levels with and without an odd one out at each. Two crashes are one more
than a move of secret_migration.py needs to be cut in the middle of being run again.
Of all but one of the thirty safety properties of the runs the unbounded case is proved,
see [Proofs](#proofs).

`CHECK_DEADLOCK FALSE` throughout: every modelled program may end (all runs
closed, the row bound reached).

In DisposalCrash the clock runs for one hour, the length of a timer in the
model: a timer set at hour 0 is over at hour 1, and one set at hour 1 never, so
both kinds meet; a second purge of the same path is then the user's.

The login is one process in Session, the key store one in Installation and the
operations on accounts one in EnrolmentCrash, because their properties are those of one process: the
replay guard reads a step in one statement and writes it in another, and two windows
may accept one code; two processes that write one record of Windows' key store lose
each other's. The application does not exclude a second instance; [below](#where-code-and-text-disagree).

## Fairness

- `Checkout`: `Proceed(s)`, the next step of an operation a GUI thread is in,
  and the steps of start-up and quit, are weakly fair: they run in straight-line
  code without waiting for the user. Opening, saving, quitting, crashing are not.
- `SessionLock`: the USB poll and the idle tick are weakly fair: `QTimer`s that
  run for the life of the window, in nested event loops too. Plugging, typing
  and clicking are not.
- `LoginGuard`: time passes, a check goes on, and the timer of a greyed form fires
  again and again whenever the event loop is idle (strongly fair, since a check
  interrupts it). Trying, setting the clock back and closing are not fair.
- `Disposal`: the steps of a deletion in hand are weakly fair, and the purge job
  is started again and again by the scheduler. The user, the clock and the
  sweep are not; the properties exempt an instance that ends.
- `Intake`: a pool thread and the delivery of a signal are weakly fair; answering
  the duplicate question and unlocking are the user's.
- `IntegritySweep`: the hourly job and its steps, the passing of a day and the next
  start of the application are weakly fair; nothing that damages or repairs a file is.
- The other modules have no liveness property: nothing obliges a process to append,
  to start again or to take a backup.

Liveness is model-checked only: neither fairness nor ENABLED can be reasoned
about by the proof system used here.

## Proofs

Each proof module proves its components for every value of the constants that
satisfies its named assumptions: any number of runs, machines, documents, edits,
tokens, processes, threads and files, any bounds, and any set of failures. Where a
theorem needs more, it assumes it in its own statement.

Two kinds of statement occur. Most are about the specification of one component
(`Spec`). Where the runs compose components side by side, the theorem is about the
composition (`MCSpec`) and states the very property of the run: at a step the part that
moves takes a step of its own, and the other variables stay.

`InstallationProofs` (assumptions `StartAssumption`, `StoreAssumption`,
`BackupAssumption`; the last two theorems assume `OneProcess`):

| Theorem | Statement |
|---|---|
| `TypeCorrect`, `Invariance` | `Spec => []TypeOK`, `Spec => []IInv` (of `Startup`) |
| `NothingLost` | `Spec => SecretsSurvive` |
| `LoginReady` | `Spec => []ReadyAtLogin` |
| `QuietIsTrue` | `MCSpec => []QuietMeansBackup` |
| `RestoreIsExact` | `MCSpec => []RestoredAsSealed` |
| `NoCopyLeft` | `MCSpec => []NoStaleCopy` |
| `StorePromise` | `MCSpec => KeepsPromise`, the refinement of `KeyStore` |

That a start comes to the login with everything moved, however many starts before it
were cut short and wherever, is not inductive: the version in the database must say what
is already done. `IInv` is a conjunction of one part per store. `VersionInv` says which
versions main() can meet at each of its places, and with each version, which old places
are empty; `SchemaInv` that the built and stamped migrations are those the loop has
passed; `ShareInv` that a column is overwritten only after its share was read back from
the key store; `CodeInv` the same of the one-time secret in its file, under its shared
name and with its heir; `SignInv` that vaults are signed anew only where the share
allows it; `PageInv` that without a crash the VACUUM came before the stamp. The proof
goes through the places of main(), one lemma per action.

The two names of a record of the key store need not agree: `Clean`, that no user has two
records that differ, is broken inside set_password() and by a write that ends early.
`StoreInv` says when it holds (`Settled`: the process runs, no write of its session ended
early, and it is not between the write and the removal of the shadow), and of every call
what it has done so far (`Done`): before the library writes, every other user's record has
been moved to its own name; after it, the record that is read back is the one that was
given. From `Done` follows that the value a caller reads changes in one step: it is the
refinement, step by step (`NextPromise`). Why one process: another may evict the record
between the write and the read-back.

`BackupInv` says of every directory that a manifest comes after the sealed list and that
list after a key that is not zero (`Finished`), that each file was copied once
(`OneOfAFile`), and how far the backup under way is (`DirInv`); that a backup that counts
as taken has its manifest (`TakenInv`); and that a restore which found nothing wrong holds
the copies the seal names (`RestoreInv`). What decays, is altered or is deleted in a
directory after its sealing takes away from the copies, and the seal does not change.

`SessionProofs`, second part (assumption `LoginAssumption`, that the constants are those
of a list of waits; each theorem assumes `OneWindow`, that one window is open):

| Theorem | Statement |
|---|---|
| `LoginInvariance` | `MCSpec => []LoginInv`, with the types |
| `CodeOnce` | `MCSpec => []NoCodeTwice` |
| `LockWaitedOut` | `MCSpec => WaitedOut` |

`CodeInv` says that a code on its way from the question to the write is still later than
the step on record, `LockInv` that count and lock in the row are those of the wrong answers
shown, and that what was read of the row is still there when it is written. Both fail with
two windows: nothing holds the database between the two statements.

`EvidenceProofs` (assumption `AppAssumption`, that the threads of that part are those of
one process):

| Theorem | Statement |
|---|---|
| `AppendsInThreads` | `MCSpec => []ThreadsSound` |
| `FileStaysWhole` | `MCSpec => []StampedFileOpens` |
| `StampIsTrue` | `MCSpec => []ValidMeansEarlier` |
| `ProofsAreExact` | `MCSpec => []ProofsExact` |

`AppendsInThreads` uses `AuditChainProofs` as a library: the part of the run with the
threads of one process is an instance of `AuditChain`, whose assumptions are shown of it,
and two of its theorems are instantiated. For the stamps, that a trailer tells the truth
is said of the trailer alone (`Earlier`): whichever text has the digest its token was
issued for, or leads along its path to the root its token was issued for, was there before
the token was. A trailer may therefore be moved to any file. `CallsInv` says of a round
that what it has read was there by then, and, once the authority has signed, before that;
`AloneInv` that a file only one call has in hand has no trailer before its turn and one
after it.

Trees are of any size. What holds of every number is not had from the induction theorem of
the library, which takes an operator, but from the well-foundedness of `<`, said of the
set of numbers for which a fact holds (`Induction`). A recursive function is chosen by its
equation; `WalkSteps`, `ClimbSteps` and `LevelSteps` show that the choice satisfies it.
From there: a proof leads from its leaf to the node above it on each level and at last to
the root, and from two different leaves never to the same one (`Leads`, `ProofExact`). The
root tells the leaves: the way down its left edge (`Deep`) ends in a leaf after as many
steps as the tree has levels, and not before (`DeepOnce`), since the prefixes keep leaves
and inner nodes apart; each level is nodes over full subtrees but for the last (`Shape`),
and so the level above tells the one below (`UpOnce`, `RootOnce`).

`BackgroundProofs` (the first three assume `Bounds`, that the three bounds of `AuditAnchor`
are numbers, the fourth that there are finitely many documents):

| Theorem | Statement |
|---|---|
| `Invariance` | `Spec => []IInv`, with `TypeOK` |
| `CausedAlarm` | `Spec => []AlarmHasCause` |
| `ReportedFirst` | `Spec => TamperReported` |
| `MessageComesLast` | `MCSpec => []ToldAtTheEnd` |
| `GateIsHonest` | `MCSpec => GateClosesOnVerdicts` |

An anchor is written over a row that need not be committed, so it is not true that the log
vouches for its newest anchor. `WitnessInv` says it does, or the open transaction will make
it, unless a person or a rollback came between. `TamperInv` says that the row that is gone
stays gone, which rests on `HashInv`: no hash is given twice, and one that is named by an
anchor was given before the next. A log that grows vouches for what it vouched for
(`VouchedGrows`), with the cardinality theorems of the library for the number of rows.

That the message comes last is not inductive: `ImportInv` says that what is outstanding on
the banner is at least the number of documents in hand (more, where a worker ended without
a result), and that nobody works on a document the user is being asked about. So the
counters start again when nobody is at work, and each result takes one off both sides. For
the gate, `SweepInv` follows the verdicts: every row that bears one waits for its turn or
was looked at; each file that was has one verdict, which stands in its row or is in the
lot, and once all were looked at it stands in the row, unless the key is suspected, where
the gate stays open. It rests on AUTOINCREMENT: a row that was deleted comes back under a
new id (`Add`), to which the sweep under way writes nothing.

`EnrolmentProofs` (each theorem assumes `OneProcess`, and `TakeoverRunsThrough`, that a
takeover is not cut short):

| Theorem | Statement |
|---|---|
| `Invariance` | `Spec => []IInv`, with `TypeOK` |
| `Implementation` | `Spec => KeysInCustody`, the refinement of `Custody` |
| `NotByAccident` | `Spec => ProvisionedOnPurpose` |
| `RowsAreTrue` | `Spec => []RowTellsTheTruth` |

That two shares exist is not inductive: what an operation will remove, or put back, is in
its job. `DocInv` says that the documents of an account are under one key and that two of
its shares are at the account's own token or on paper (`Pair`), or else that the new token
of a takeover has both (`TakenOver`). `ApartInv` says that no two tokens have shares of one
line but while a takeover runs, so what is removed for one token takes nothing from another.
`JobInv` says of every job which places it passes through (`Way`), whose line it writes
(`Owner`), what it has written by then (`Written`) and that its way back leads to a state
with two shares (`WayBack`). `LineInv` and `RowInv` are what these rest on. Both assumptions
are needed: a takeover cut after the old vault is gone leaves the documents at a token that
cannot open, and a second process may discard a vault the first has just read.

An account nobody approved is made from what lies at a token that has no account.
`PurposeInv` therefore says that whatever lies at a token, a vault, a share or a row, or
waits to enter a session, has an account, was founded by the wizard or setup_usb.py, or is
what an operation has left half done; and of an operation, that the token it works on has
such a reason (`Errand`).

`TruthInv` says that a row tells the truth about the vault that has its token_id (`Truth`,
`Together`). That is preserved because an operation makes up a token_id and writes the vault
first and the row last, so before the row nobody has it (`Told`), and because the vault
that may be put back is one the row tells the truth about. The proof found the earlier
statement of `RowTellsTheTruth` to be false: it excepted lines laid through an unchecked
share, and two UPDATEs complete a row by its hwid without comparing its token_id. A login
or an export of the recovery share, at the moment a vault that may yet be put back is out
of its place, writes into the row of the one what is true of the other. That takes a third
line, and the run has two, so TLC had not met it; with `MaxMade = 3` it does. The property
excepts those rows now (`mixed`), and [KcvAfterUndo](#where-code-and-text-disagree) shows
what the code's comment says of it.

`CheckoutProofs` (assumptions `HostAssumption`, `FaultAssumption`,
`NoneAssumption`):

| Theorem | Statement |
|---|---|
| `TypeCorrect` | `Spec => []TypeOK` |
| `Invariance` | `Spec => []IInv` |
| `OneEditor` | `Spec => []OneEditorPerFile` |
| `DigestSafe` | `Spec => []DigestNotAhead` |
| `NoEditLost` | `Spec => NoLostUpdate` |
| `Refinement` | `Spec => ImplementsExclusiveEdit` |
| `LockedIsOpen` | with no busy release and no refused name, `Spec => []LocksMatchRegistry` |
| `NothingLeft` | with no failing overwrite, `Spec => []NoPlaintextAfterQuit` |

`OneEditorPerFile` is not inductive: that two registries never hold one document
follows only if each of them holds its lock row, also in the middle of an
operation, when the document is not yet or no longer in the registry. `IInv`
therefore says who *owns* a document (`Owns`: it is in the registry, or the GUI
thread is between acquiring and registering, or between removing and releasing)
and that an owner's row is in the table (`OwnersHoldLock`), unless the row was
deleted under a living holder (`stolen`). `NoLostUpdate` needs more: what an
owner may still write contains what the document holds (`CopiesUpToDate`), and a
digest on its way to `files` belongs to a content already stored
(`DigestsStored`). `TaskMatchesRegistry` ties the position of a GUI thread to its
registry and `DeadForget` empties a run that is gone. One lemma per action shows
that it preserves the parts of `IInv`; the theorems combine them. The refinement
maps `editor` to the lock table, `content` to the vaults and `broken` to
`stolen`: acquiring is `Take`, replacing the file `Extend`, releasing `Leave`,
the sweep's deletion under a living holder `Break`, everything else a stutter.
`LocksMatchRegistry` needs the converse of `OwnersHoldLock`: a lock row of a run is that of
a document it owns, or the run is over (`RowsWorkedOn`). A release that finds the database
busy leaves a row nobody owns, and so does allocate(), which check_out() calls outside its
`try`; the theorem assumes both away, and names them. `NoPlaintextAfterQuit` holds because
a run is "closed" only after the purge, and no thread of it writes a copy afterwards.

`SessionProofs`, first part (`Spec` is that of `SessionLock`; assumptions `NoneAssumption`,
`ZeroAssumption`, `FaultAssumption`):

| Theorem | Statement |
|---|---|
| `TypeCorrect`, `Invariance` | `Spec => []TypeOK`, `Spec => []IInv` |
| `KeySafe` | `Spec => []KeyMatchesToken` |
| `TrackerSafe` | `Spec => []IdleStaysArmed` |
| `LockCloses` | `Spec => []NoDocumentBehindLock` |
| `SealedSafe` | with no encryption failure, `Spec => SealedKeyStays` |
| `WaysOut` | `Spec => OwnWayOut` |

`IInv` adds to the properties themselves that a re-authentication is behind the
"usb" lock (`ReauthBehindLock`), without which a dialog could finish in an
unlocked session, and that an open document matches the key in the buffer
(`OpenMatchesKey`), without which `SealedKeyStays` is not preserved by closing.
`KeyMatchesToken` is a part of `IInv` that no run checks by itself.

`AuditChainProofs` (assumptions `TopologyAssumption`, `FaultAssumption`,
`ValueAssumption`):

| Theorem | Statement |
|---|---|
| `TypeCorrect` | `Spec => []TypeOK` |
| `OneProcessNoFork` | with one process, `Spec => []NoFork` |
| `SoloChainSound` | with a started chain and no connection shared by two threads, `Spec => []ChainSound` |
| `OneProcessSoundAtRest` | with one process, no failing statement and no crash, `Spec => []ChainSoundAtRest` |

`OneProcessNoFork` covers any threads on any connections and every failure (the
run has none). `OneInv` says that at most one thread is inside
append_entry() (`MutexHeld`), that its row is the last of the log, without a hash
until it updates it, and its link the last hashed row before (`RowKnown`), and that the live and the
committed log are `Strict`: each hashed entry is chained to the last hashed one
before it, from which no fork follows. `LiveKnown` ties the live log to the
committed one while nobody writes. `SoloChainSound` needs no mutex, since the
writer of the transaction is the thread itself (`OwnTransaction`); `SoloInv` says
of every position inside a transaction what the live log looks like (`LiveAt`)
and that the committed one is `Linked` row by row. That the maximum of a finite
set of ids exists is derived from the well-foundedness of the natural numbers.
`OneProcessSoundAtRest` is about a chain that threads of one process may be starting, on
connections they may share, so that a statement of one commits what another has half done.
`RestInv(s)` says, for some row s fixed from the first state on, that row s is the genesis
if there is one and nothing before it is hashed (`Grown`), that only the thread which opens
the database appends a genesis, once (`GenesisOnce`), and that from s on every row is hashed
but the one that is being appended (`AllHashed`); with no append pending that leaves no gap. A statement that fails, or a crash, may leave a half entry in a transaction another
thread has committed, which is why the theorem excludes them.

`DisposalProofs` (assumptions `TermsAssumption`, `ListingAssumption`,
`OverlapAssumption`, `FaultAssumption`, `BoundAssumption`, `NoRowAssumption`):

| Theorem | Statement |
|---|---|
| `TypeCorrect` | `Spec => []TypeOK` |
| `HalfDone` | with `"add" \notin Overlap`, `Spec => []HalfDoneIsQueued` |
| `HeldSurvives` | with `Overlap` empty, `Spec => HeldFileSurvives` |

A deletion is *on record* (`OnRecord`) from the moment its entry is written until
nobody works on it any more, and *decided* (`Decided`) from the moment some thread
has it in hand. `HalfDoneIsQueued` is not inductive, because several threads and
instances may work on the same file, and an entry may be taken off by one while
another still deletes. `IInv` adds that an entry on record is in the queue or its
row is gone (`Announced`), that two different deletions on record have different
entries (`EntriesDiffer`), that no other document takes the place of a file
somebody has decided to delete (`PlaceKept`) or is being added under its path
(`AddingNew`), and that every list, table line and entry speaks of a row there
has been (`AllKnown`, `RowIds`). `HeldSurvives` needs `TimerSpares` on top: no
timer has decided on a file whose retention runs. `PlaceKept` and `AddingNew` fail
when a document is added again during its purge, and `TimerSpares` when a profile
is assigned to it then; the theorems assume that away, and the table below shows
what the code does otherwise.

Model-checked only: every liveness property (`StaleLockReleased`, `QuitTerminates`,
`PulledTokenLocks`, `LostAuthorityLocks`, `IdleSessionLocks`, `FormComesBack`, `BatchEnds`,
`VerdictCatchesUp`, `DueFileGoes`, `PendingResumed`), since neither fairness nor ENABLED is
in reach of the prover; and `ChainSound` for threads that share a
connection, which the code does not keep.

## Where code and text disagree

Three disagreements have a run of their own:

- **UnlockedWithoutKey.** `_poll_usb()` lifts the "usb" lock when the same token
  is back and does not refill the key that `_lock()` zeroed, so the session goes
  on with the zero key. `tests/test_lock_overlay.py:490` calls that state locked
  for good, and the overlay promises that the session goes on by itself.
- **SearchPurged.** A search from the chamber's tab lists documents of every
  label and leaves `_current_label` at `Imha`; an approved document still carries
  the timer of its upload (`expires_at` is never cleared); `_tick_expiry()` looks
  at neither label and purges it. `UI/main_window_table.py:464` says it deletes
  files whose time in the chamber is over.

- **KcvAfterUndo.** `CORE/vault_manager.py:289` asks that a missing key check value is
  filled in with a key that is certain only, "or else, after a recovery that is broken
  off, the RIGHT share would be refused", and `:1425` says that the key of open_vault()
  is such a one, since it comes from two system shares. While the command line's
  recover has the vault of an unchecked share and its share 2 in place, and the INSERT
  of its row is refused, the two system shares are those of the wrong key. A login at
  that moment fills its check value into the old row; the undo puts back the file and
  share 2 and not the row (`:1972`), and the right share is refused from then on.

Others are stated in the modules, below a heading of their own, or follow from a
property under a constant, and TLC refutes them on the instances named:

| Property | Instance | What happens |
|---|---|---|
| `Checkout!KeptCopySurvivesExit` | CheckoutErrors with one document | the copy whose write-back failed at quit is shredded by purge_on_exit() |
| `Checkout!ChangeCaughtBeforeShred` | one run, `Faults = {}` | a save after has_changed() is shredded |
| `Checkout!NoLiveLockStolen` | CheckoutFaults, `Faults = {}` | the sweep deletes by file_id the row another run inserted meanwhile |
| `Checkout!OnlyOwnRunRemovesCopy` | two runs, `Faults = {}` | a second window's start-up shreds the first one's open copies |
| `Checkout!DigestNeverGoesBack` | two runs, `Faults = {}` | the lock is released before the digest is recorded |
| `Checkout!BatchVisitsEveryDocument` | two documents, `Faults = {"busy"}` | a busy database ends check_in_all() |
| `SessionLock!LockedKeyIsZero` | Session | a PIN lifts one of two reasons and refills the key behind the overlay |
| `LoginGuard!NoCodeTwice` | two processes | both read the last step before either writes it |
| `AuditChain!NoHalfEntry`, `AuditChain!NoFork` | `MixThreads`, two processes | a commit of another thread ends append_entry()'s transaction |
| `AuditChain!OneGenesis` | Evidence, `Chained = FALSE` | two processes open a fresh database |
| `AuditAnchor!ReplicasAgree` | Background | lines are compared by their number: a token that missed one anchor differs from then on, and the start calls its copy manipulated |
| `Disposal!HalfDoneIsQueued` | DisposalCrash, `Overlap = {"add"}` | a document added again during its purge loses its file, and nothing on the queue says so |
| `Disposal!HeldFileSurvives` | DisposalHeld, `Overlap = {"assign"}` | the protection is checked before the deletion; a profile assigned between the two comes too late |
| `Disposal!UntimedRowsUntouched` | DisposalHeld | the sweep clears a timer after the purge job read it |
| `Enrolment!NobodyProvisioned` | EnrolmentCrash | between the two commits of register_new_user(), or after a cut there, the token opens a session and gets an approved account; CORE/registration.py:13-17 calls this ended |
| `Enrolment!ProvisionedOnPurpose` | `"takeover" \in Killed` | after a cut between its stores the new token provisions an account of its own, against CORE/usb_takeover.py:23-36 |
| `SecretStore!KeepsPromise` | two processes | one evicts the record the other has just verified |
| `Startup!RerunIsSafe` | Installation | a start cut inside shred_file() leaves a scrambled file, and every later start is refused over it; CORE/secret_migration.py:38 says a run that was cut short may be repeated |
| `Intake!NeverUnderZero`, `Intake!RowOpens` | Background | the buffer is checked, then read again after the lock zeroed or refilled it; CORE/crypto.py:216 says work stops there. Two documents of one name overwrite each other |
| `IntegritySweep!WrongKeyMarksNothing` | Background, two owners or a missing file | one file that fails otherwise defeats the guard, and whole files are marked damaged; CORE/integrity.py:39 |
| `Backup!RestorableByItsMaker`, `Backup!RowsHaveCopies` | Installation | a file that was under another key, or half written, is copied; a row may be written after its file was passed |
| `Timestamp!EveryFileOpens` | Evidence | two calls with one file in hand give it two trailers |

What the modules show besides, without a property of its own:

- `INSERT OR REPLACE` in _save_usb_token() resets `blacklisted`; change_vault_role() leaves
  `users.role`; a takeover turns 'Salt Okunur' into 'Standart' (`Enrolment`).
- A clock set back lengthens a lock; the docstring of rate_limit.py expects it to end early
  (`LoginGuard`).
- _reseal_firsatci() overwrites the only copy of a record before it reads it back
  (`SecretStore`).
- A start cut between overwriting a column and the VACUUM leaves the old text in the free
  pages for ever, since the next start finds nothing to move (`Startup`).
- The row main() logs before the comparison stands in for a row that was cut off, as far as
  the number of rows goes (`AuditAnchor`, the exception in `TamperReported`).
- `src.stat()` lies outside the `try` of a worker: a medium pulled there ends the worker
  without a signal, and the banner never completes (`Intake`, the exception in `BatchEnds`).
- A crash before the sealing leaves `_metadata.json` in plain text (`Backup`, `plain`).

## Not modelled

Cryptography (an encrypted file is a value with a key and a content), file formats,
ASN.1, X.509, the look of dialogs and reports, names and messages, the antivirus engine
(its verdict is a free choice), the platforms' USB queries. SQLite's busy timeout
is a failure that may or may not happen. Dates are terms: what month arithmetic
yields is not modelled. A worker's `file_done` signal reaches `Disposal` at once; `Intake`
has it wait.

Of modelled components: the per-role write check of `DBManager` (set_active_role(),
system_write()), and two first starts at once (`Startup`); two operations on accounts
in two processes and a sealed document while its token is being replaced (`Enrolment`);
verify_anchor_file(), which nothing calls (`AuditAnchor`); apply_metadata(), which nothing
calls, and the cancel button of the progress window, which nothing reads while a backup
is taken (`Backup`); the two buttons that add and remove a trusted root
(`Timestamp`; timestamp_file() and timestamp_batch() have no caller in the application
but their tests); folders and tags but for moving a folder to the chamber (`Disposal`).
Deletion does not look at `file_locks` in the code, and the two modules are not composed.

Delivery packages (`CORE/hclx.py`) are marked experimental and called by nothing. Reports,
inventory, themes, help and packaging keep no state the program reads again. Everything
else that is left out is named, with its reason, in `PROJECT.json`.

## Plan

Done: the modules above, and the unbounded case of every safety property of the runs.
Left, the most important first:

1. `Vaults`, a composition of `Checkout`, `Disposal` and `Intake` over one table of files: what a
   purge, or a document dropped under its name, does to an open document.
2. `RetentionDates` (month arithmetic) and the folder tree, against reference definitions
   over bounded inputs.
3. The per-role write check of the database layer, with the roles an administrator changes
   while a session runs.

## Running

    tlc -workers 2 -config CheckoutFaults.cfg MCCheckout      (also CheckoutErrors)
    tlc -workers 2 -config Session.cfg MCSession
    tlc -workers 2 -config Background.cfg MCBackground
    tlc -workers 2 -config Evidence.cfg MCEvidence
    tlc -workers 2 -config DisposalHeld.cfg MCDisposal        (also DisposalCrash, SearchPurged)
    tlc -workers 2 -config EnrolmentCrash.cfg MCEnrolment    (also KcvAfterUndo)
    tlc -workers 2 -config Installation.cfg MCInstallation
    tlc -workers 2 -config UnlockedWithoutKey.cfg MCSessionLock
    tlapm CheckoutProofs.tla                                  (and the other seven *Proofs)

Each run takes between a few seconds and three minutes, the proofs some minutes each.
