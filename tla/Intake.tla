------------------------------- MODULE Intake -------------------------------
(***************************************************************************)
(* Documents dropped on the window (UI/main_window_table.py): the          *)
(* duplicate question (CORE/duplicates.py), the batch of pool workers that *)
(* encrypt (CORE/crypto.py), record (CORE/file_records.py) and scan        *)
(* (CORE/scanner.py) one document each, and the counters of the progress   *)
(* banner.                                                                 *)
(*                                                                         *)
(* A worker gets the key BUFFER of the window, not a copy of it, and the   *)
(* hardware id of the moment it was queued.  The lock of the window fills  *)
(* that buffer with zero bytes and an unlock refills it, with the key of   *)
(* another token where the token was exchanged.                            *)
(***************************************************************************)
EXTENDS Naturals, FiniteSets

CONSTANTS
    Docs,       \* documents outside the vault
    Paths,      \* their encrypted files, quarantine/<name>.hcl
    Path,       \* the path of each document: its name alone, not its directory
    Tokens,     \* USB tokens
    Zero,       \* the key buffer filled with zero bytes
    Threads,    \* threads of the pool
    Faults,     \* kinds of failure the environment may inject
    MaxTotal    \* bound: the documents counted by one run of the banner

VARIABLES
    source,     \* documents whose file is still where it was dropped from
    hwid,       \* _hwid
    key,        \* _key: the token whose key the shared buffer holds, or Zero
    plugged,    \* get_usb_hwid() is not None
    asked,      \* _check_duplicates() is in front of the user: documents it is about
    work,       \* the runnable of each document: where it stands, and what it holds
    disk,       \* the encrypted file: [doc, key, whole], at most one a path
    row,        \* the row of files: [doc, hwid], at most one a path
    verdict,    \* the document the row of quarantine judges, at most one a path
    total, done,\* _batch_total, _batch_done
    told        \* the message "Tamamlandı" is in front of the user

vars == <<source, hwid, key, plugged, asked, work, disk, row, verdict, total, done, told>>
Window == <<hwid, key, plugged>>
Vault == <<disk, row, verdict>>
Batch == <<total, done, told>>

\* A worker sits in the pool's queue, digests, encrypts, reads the size, records,
\* logs, scans, saves the verdict; then its result waits for the GUI thread.
Stages == {"idle", "queued", "digest", "encrypt", "size", "record", "scan", "save", "emitted"}
Running == Stages \ {"idle", "queued", "emitted"}
Held == Tokens \cup {Zero}

TypeOK ==
    /\ source \subseteq Docs
    /\ hwid \in Tokens /\ key \in Held /\ plugged \in BOOLEAN
    /\ asked \in SUBSET Docs
    /\ work \in [Docs -> [at : Stages, hwid : Tokens, key : Held, seen : SUBSET Docs]]
    /\ disk \in [Paths -> SUBSET [doc : Docs, key : Held, whole : BOOLEAN]]
    /\ row \in [Paths -> SUBSET [doc : Docs, hwid : Tokens]]
    /\ verdict \in [Paths -> SUBSET Docs]
    /\ total \in 0..MaxTotal /\ done \in 0..total /\ told \in BOOLEAN

Init ==
    /\ source = Docs
    /\ hwid \in Tokens /\ key = hwid /\ plugged = TRUE
    /\ asked = {} /\ told = FALSE
    /\ work = [d \in Docs |-> [at |-> "idle", hwid |-> hwid, key |-> Zero, seen |-> {}]]
    /\ disk = [p \in Paths |-> {}] /\ row = [p \in Paths |-> {}] /\ verdict = [p \in Paths |-> {}]
    /\ total = 0 /\ done = 0

May(kind) == kind \in Faults
Locked == key = Zero
Modal == asked # {} \/ told
Busy(d) == work[d].at # "idle"
At(d, stage) == work[d].at = stage
Step(d, stage) ==
    work' = [work EXCEPT ![d] = IF stage \in {"idle", "emitted"}
                                THEN [at |-> stage, hwid |-> hwid, key |-> Zero, seen |-> {}]
                                ELSE [@ EXCEPT !.at = stage]]

(***************************************************************************)
(* The window.                                                             *)
(***************************************************************************)
\* _lock(): the timers that lock fire behind a modal dialog as well.
_lock ==
    /\ key # Zero /\ key' = Zero
    /\ UNCHANGED <<source, hwid, plugged, asked, work, Vault, Batch>>

\* _refill_session_key(), after the PIN of the same or of another token.
_refill_session_key(t) ==
    /\ Locked /\ hwid' = t /\ key' = t
    /\ UNCHANGED <<source, plugged, asked, work, Vault, Batch>>

Plug ==
    /\ plugged' = ~plugged
    /\ UNCHANGED <<source, hwid, key, asked, work, Vault, Batch>>

\* find_duplicates_for_file(): a row says the same content is in the vault.
find_duplicates_for_file(d) == \E p \in Paths : \E r \in row[p] : r.doc = d

\* Mutant: every drop starts the counters again.
ResetAlways == TRUE
\* The counters start again when nothing is outstanding; every runnable is queued.
ResetCounters == done >= total
_start_batch(files) ==
    /\ total' = IF ResetCounters THEN Cardinality(files) ELSE total + Cardinality(files)
    /\ done' = IF ResetCounters THEN 0 ELSE done
    /\ work' = [d \in Docs |-> IF d \in files
                               THEN [at |-> "queued", hwid |-> hwid, key |-> Zero, seen |-> {}]
                               ELSE work[d]]

\* dropEvent(): a single file needs a token in the port, a folder does not.
dropEvent ==
    /\ ~Locked /\ ~Modal
    /\ \E files \in SUBSET source \ {{}} :
        /\ \A d \in files : ~Busy(d)
        /\ ~ResetCounters => total + Cardinality(files) <= MaxTotal
        /\ Cardinality(files) = 1 => plugged
        /\ IF \E d \in files : find_duplicates_for_file(d)
           THEN asked' = files /\ UNCHANGED <<work, total, done>>
           ELSE _start_batch(files) /\ UNCHANGED asked
    /\ UNCHANGED <<source, Window, Vault, told>>

\* _check_duplicates() is answered: add anyway, or skip the known ones.
_check_duplicates ==
    /\ asked # {} /\ ~told /\ asked' = {}
    /\ \E files \in {asked, {d \in asked : ~find_duplicates_for_file(d)}} :
        IF files = {} THEN UNCHANGED <<work, total, done>> ELSE _start_batch(files)
    /\ UNCHANGED <<source, Window, Vault, told>>

\* _on_file_done(), in the GUI thread; the last one brings up the message.
_on_file_done(d) ==
    /\ At(d, "emitted")
    /\ Step(d, "idle")
    /\ done' = done + 1
    /\ told' = (done' >= total)
    /\ UNCHANGED <<source, Window, asked, Vault, total>>

_on_batch_complete ==
    /\ told /\ told' = FALSE
    /\ UNCHANGED <<source, Window, asked, work, Vault, total, done>>

(***************************************************************************)
(* _FileRunnable.run(), in a thread of the pool.                           *)
(***************************************************************************)
World == <<source, Window, asked, Batch>>

\* encrypt_file() begins: the buffer must not be degenerate now.
_degenere_anahtar_mi == key = Zero
run(d) ==
    /\ At(d, "queued") /\ Cardinality({e \in Docs : work[e].at \in Running}) < Threads
    /\ IF d \notin source \/ _degenere_anahtar_mi THEN Step(d, "emitted") ELSE Step(d, "digest")
    /\ UNCHANGED <<World, Vault>>

\* The whole file is digested; then the file key is derived from what the buffer
\* holds by then, and the target is opened for writing.
_derive_file_key(d) ==
    /\ At(d, "digest") /\ d \in source
    /\ work' = [work EXCEPT ![d].at = "encrypt", ![d].key = key]
    /\ disk' = [disk EXCEPT ![Path[d]] = {[doc |-> d, key |-> key, whole |-> FALSE]}]
    /\ UNCHANGED <<World, row, verdict>>

\* Two workers that write one path at once may leave a mixture.
Overlap(d) == \E f \in disk[Path[d]] : f.doc # d
encrypt_file(d) ==
    /\ At(d, "encrypt") /\ d \in source
    /\ \E whole \in IF Overlap(d) THEN BOOLEAN ELSE {TRUE} :
        disk' = [disk EXCEPT ![Path[d]] = {[doc |-> d, key |-> work[d].key, whole |-> whole]}]
    /\ Step(d, "size")
    /\ UNCHANGED <<World, row, verdict>>

\* A read or write error; what was written stays.
EndUnreported(d) == Step(d, "idle")
EndReported(d) == Step(d, "emitted")
EncryptFails(d) ==
    /\ work[d].at \in {"digest", "encrypt"} /\ (May("encrypt") \/ d \notin source)
    /\ EndReported(d)
    /\ UNCHANGED <<World, Vault>>

\* src.stat() is outside of every try: where the source is gone by now, the
\* runnable ends without a result.
stat(d) ==
    /\ At(d, "size")
    /\ IF d \in source THEN Step(d, "record") ELSE Step(d, "idle")
    /\ UNCHANGED <<World, Vault>>

record_encrypted_file(d) ==
    /\ At(d, "record")
    /\ row' = [row EXCEPT ![Path[d]] = {[doc |-> d, hwid |-> work[d].hwid]}]
    /\ Step(d, "scan")
    /\ UNCHANGED <<World, disk, verdict>>

\* The row, or the log entry after it, cannot be written.
RecordFails(d) ==
    /\ May("db") /\ work[d].at \in {"record", "scan"}
    /\ Step(d, "emitted")
    /\ UNCHANGED <<World, Vault>>

\* scan_file(): what is at the path by then is judged.
scan_file(d) ==
    /\ At(d, "scan")
    /\ work' = [work EXCEPT ![d].at = "save", ![d].seen = {f.doc : f \in disk[Path[d]]}]
    /\ UNCHANGED <<World, Vault>>

\* _save_to_db() on a connection of its own; its errors are swallowed.
_save_to_db(d) ==
    /\ At(d, "save")
    /\ \/ verdict' = [verdict EXCEPT ![Path[d]] = work[d].seen]
       \/ May("db") /\ UNCHANGED verdict
    /\ Step(d, "emitted")
    /\ UNCHANGED <<World, disk, row>>

\* The medium the documents are dropped from is pulled.
SourceGone ==
    /\ May("vanish") /\ source # {} /\ source' = {}
    /\ UNCHANGED <<Window, asked, work, Vault, Batch>>

Worker(d) ==
    \/ run(d) \/ _derive_file_key(d) \/ encrypt_file(d) \/ EncryptFails(d) \/ stat(d)
    \/ record_encrypted_file(d) \/ RecordFails(d) \/ scan_file(d) \/ _save_to_db(d)

Next ==
    \/ _lock \/ (\E t \in Tokens : _refill_session_key(t)) \/ Plug
    \/ dropEvent \/ _check_duplicates \/ _on_batch_complete \/ SourceGone
    \/ \E d \in Docs : Worker(d) \/ _on_file_done(d)

Spec == Init /\ [][Next]_vars

\* The pool runs its queue, the GUI thread delivers signals; the user answers.
Fairness ==
    /\ \A d \in Docs : WF_vars(Worker(d)) /\ WF_vars(_on_file_done(d))
    /\ WF_vars(_on_batch_complete)
FairSpec == Spec /\ Fairness

-----------------------------------------------------------------------------
\* Every batch ends: once documents are outstanding, the count of the banner reaches
\* its total and the user is told, whatever fails in between -- unless the medium
\* they came from was pulled: a worker whose source is gone at stat() ends without a
\* result, and the banner stays.
BatchEnds == (done < total) ~> (told \/ source = {})

\* The message that a batch is done comes up when every document dropped so far was
\* worked on and is counted, those that were dropped while others were in hand
\* included, and while it is there no other begins.
ToldAtTheEnd == told => done = total /\ \A d \in Docs : ~Busy(d)

\* encrypt_file() refuses a buffer of zero bytes ("işlem burada durmalı"): no file
\* in the vault is encrypted under it.
NeverUnderZero == \A p \in Paths : \A f \in disk[p] : f.key # Zero

\* What a worker has recorded opens with the key its row names, and is the document
\* the row describes.
RowOpens ==
    \A p \in Paths : (\A d \in Docs : Path[d] = p => ~Busy(d)) =>
        \A r \in row[p], f \in disk[p] : f.whole => f.key = r.hwid /\ f.doc = r.doc
=============================================================================
