---------------------------- MODULE AuditAnchor ----------------------------
(***************************************************************************)
(* The anchors of the audit log (CORE/audit_chain.py, the second half): a  *)
(* file outside the database that names the last row and the number of     *)
(* rows, a second copy on the token, and the comparisons at the start of   *)
(* the program (main.py).  AuditChain has the chain itself; here a row is  *)
(* its id and a number that stands for its hash.                           *)
(*                                                                         *)
(* Anchors are written by the main thread (start, recovery share, end) and *)
(* by the scheduler (_anchor_audit_chain), which share one connection and  *)
(* so see a row before it is committed.  The log is altered by a person    *)
(* with the file, while no program runs.                                   *)
(***************************************************************************)
EXTENDS Integers, Sequences, FiniteSets

CONSTANTS
    Tokens,         \* tokens registered in usb_tokens
    NoToken,        \* the port is empty
    MaxRows,        \* bound: rows ever hashed
    MaxAnchors,     \* bound: lines of the local file
    MaxDays         \* bound: days that pass

Strands == {"main", "job"}

VARIABLES
    log,            \* hash of each row of audit_log; 0: the row is gone
    open,           \* the hash of a row in a transaction not yet committed
    fresh,          \* hashes given so far
    local, usb,     \* lines of the local file, and of the file on each token
    plugged, hwid,  \* the token in the port, and the one the session was opened with
    day,
    at,             \* where the process is
    base,           \* what a thread has read for the anchor it is about to write
    reported,       \* this start has logged audit_anchor_mismatch
    tampered,       \* what was altered: the row the last anchor names, or one it counts
    torn            \* the last anchor vouches for a row that was rolled back

files == <<local, usb>>
vars == <<log, open, fresh, local, usb, plugged, hwid, day, at, base, reported, tampered, torn>>

Row == [id : 1..MaxRows, hash : 1..MaxRows, count : 0..MaxRows]
Anchor == [id : 1..MaxRows, hash : 1..MaxRows, count : 0..MaxRows, day : 0..MaxDays, stamp : 1..MaxAnchors]

TypeOK ==
    /\ log \in Seq(0..MaxRows) /\ Len(log) <= MaxRows
    /\ open \subseteq 1..MaxRows /\ fresh \in 0..MaxRows
    /\ local \in Seq(Anchor) /\ Len(local) <= MaxAnchors
    /\ usb \in [Tokens -> Seq(Anchor)]
    /\ plugged \in Tokens \cup {NoToken} /\ hwid \in Tokens
    /\ day \in 0..MaxDays
    /\ at \in {"off", "schema", "verify", "mismatch", "daily", "replicas", "run", "quit"}
    /\ base \in [Strands -> SUBSET Row]
    /\ reported \in BOOLEAN /\ tampered \in {"none", "counted", "named"} /\ torn \in BOOLEAN

Init ==
    /\ log = <<>> /\ open = {} /\ fresh = 0
    /\ local = <<>> /\ usb = [t \in Tokens |-> <<>>]
    /\ plugged \in Tokens /\ hwid = plugged
    /\ day = 0 /\ at = "off"
    /\ base = [th \in Strands |-> {}]
    /\ reported = FALSE /\ tampered = "none" /\ torn = FALSE

\* What the shared connection sees.
Seen == IF open = {} THEN log ELSE Append(log, CHOOSE h \in open : TRUE)
Count(l) == Cardinality({i \in DOMAIN l : l[i] # 0})
Named(a, l) == a.id <= Len(l) /\ l[a.id] = a.hash
\* Mutant: a log that has grown is a mismatch.
VouchedExactly(a, l) == Named(a, l) /\ Count(l) = a.count
Vouched(a, l) == Named(a, l) /\ Count(l) >= a.count

(***************************************************************************)
(* The rows.                                                               *)
(***************************************************************************)
\* append_entry() up to the hash, and its commit or its rollback.
append_entry ==
    /\ at \in {"schema", "mismatch", "run"} /\ open = {} /\ fresh < MaxRows /\ Len(log) < MaxRows
    /\ fresh' = fresh + 1 /\ open' = {fresh + 1}
    /\ UNCHANGED <<log, files, plugged, hwid, day, at, base, reported, tampered, torn>>

Commit ==
    /\ open # {}
    /\ log' = Seen /\ open' = {}
    /\ at' = CASE at = "schema" -> "verify" [] at = "mismatch" -> "daily" [] OTHER -> at
    /\ reported' = (reported \/ at = "mismatch")
    /\ UNCHANGED <<fresh, files, plugged, hwid, day, base, tampered, torn>>

\* What a rollback takes from under the last anchor.
Torn == torn \/ (open # {} /\ local # <<>> /\ Vouched(local[Len(local)], Seen) /\ ~Vouched(local[Len(local)], log))
Rollback ==
    /\ open # {} /\ at = "run"
    /\ open' = {} /\ torn' = Torn
    /\ UNCHANGED <<log, fresh, files, plugged, hwid, day, at, base, reported, tampered>>

(***************************************************************************)
(* Anchors.                                                                *)
(***************************************************************************)
\* The last row and the number of rows are two statements, before the lock.
ReadTip(th) ==
    /\ base[th] = {} /\ Len(local) < MaxAnchors
    /\ \E tip \in DOMAIN Seen :
        /\ Seen[tip] # 0 /\ \A i \in tip + 1..Len(Seen) : Seen[i] = 0
        /\ base' = [base EXCEPT ![th] = {[id |-> tip, hash |-> Seen[tip], count |-> 0]}]
    /\ UNCHANGED <<log, open, fresh, files, plugged, hwid, day, reported, tampered, torn>>

ReadCount(th) == \E b \in base[th] :
    /\ b.count = 0
    /\ base' = [base EXCEPT ![th] = {[b EXCEPT !.count = Count(Seen)]}]
    /\ UNCHANGED <<log, open, fresh, files, plugged, hwid, day, at, reported, tampered, torn>>

\* The session knows its token, and no other is written to; a token that cannot be
\* written is passed over.
_usb_hwid_dogrulanmis_mi == plugged = hwid
_append_anchor_line(line) ==
    /\ local' = Append(local, line)
    /\ \/ _usb_hwid_dogrulanmis_mi /\ usb' = [usb EXCEPT ![plugged] = Append(@, line)]
       \/ UNCHANGED usb

write_anchor(th) == \E b \in base[th] :
    /\ b.count > 0 /\ Len(local) < MaxAnchors
    /\ _append_anchor_line([id |-> b.id, hash |-> b.hash, count |-> b.count, day |-> day, stamp |-> Len(local) + 1])
    /\ IF th = "main" /\ at = "quit"       \* the last thing the process does
       THEN at' = "off" /\ open' = {} /\ base' = [x \in Strands |-> {}] /\ torn' = ~Vouched(b, log)
       ELSE /\ at' = IF th = "main" /\ at = "daily" THEN "replicas" ELSE at
            /\ base' = [base EXCEPT ![th] = {}]
            /\ torn' = ~Vouched(b, Seen)
            /\ UNCHANGED open
    /\ tampered' = "none"
    /\ UNCHANGED <<log, fresh, plugged, hwid, day, reported>>

\* Only the last line is looked at.
Today == local # <<>> /\ local[Len(local)].day = day
maybe_write_daily_anchor == IF Today THEN at' = "replicas" /\ UNCHANGED <<log, open, fresh, files, plugged, hwid, day, base, reported, tampered, torn>>
                            ELSE ReadTip("main") /\ UNCHANGED at
_anchor_audit_chain == at = "run" /\ ~Today /\ ReadTip("job") /\ UNCHANGED at

\* The end of the program, and a recovery share shown.
_anchor_on_quit == at = "run" /\ ReadTip("main") /\ at' = "quit"
_kaydet_ve_cipaya_kazi == at = "run" /\ open = {} /\ ReadTip("main") /\ UNCHANGED at

(***************************************************************************)
(* The start.  One row is logged before the comparison.                    *)
(***************************************************************************)
main ==
    /\ at = "off" /\ plugged # NoToken
    /\ at' = "schema" /\ hwid' = plugged /\ reported' = FALSE
    /\ UNCHANGED <<log, open, fresh, files, plugged, day, base, tampered, torn>>

Mismatch == local # <<>> /\ ~Vouched(local[Len(local)], log)
\* Mutant: the number of rows is all that is compared.
CountOnly ==
    /\ at = "verify"
    /\ at' = IF local # <<>> /\ Count(log) < local[Len(local)].count THEN "mismatch" ELSE "daily"
    /\ UNCHANGED <<log, open, fresh, files, plugged, hwid, day, base, reported, tampered, torn>>
verify_against_anchor ==
    /\ at = "verify"
    /\ at' = IF Mismatch THEN "mismatch" ELSE "daily"
    /\ UNCHANGED <<log, open, fresh, files, plugged, hwid, day, base, reported, tampered, torn>>

Daily == at = "daily" /\ base["main"] = {} /\ maybe_write_daily_anchor

\* Line by line, as far as both copies go.
verify_anchor_replicas(t) == \A i \in 1..Len(local) : i <= Len(usb[t]) => local[i] = usb[t][i]
Compared ==
    /\ at = "replicas"
    /\ at' = "run"
    /\ UNCHANGED <<log, open, fresh, files, plugged, hwid, day, base, reported, tampered, torn>>

(***************************************************************************)
(* The token, the day, the end of a process, and the hand in the file.     *)
(***************************************************************************)
Plug == \E t \in Tokens \cup {NoToken} :
    /\ t # plugged /\ at \in {"off", "run"}
    /\ plugged' = t
    /\ UNCHANGED <<log, open, fresh, files, hwid, day, at, base, reported, tampered, torn>>

Tomorrow ==
    /\ day < MaxDays
    /\ day' = day + 1
    /\ UNCHANGED <<log, open, fresh, files, plugged, hwid, at, base, reported, tampered, torn>>

Crash ==
    /\ at # "off"
    /\ at' = "off" /\ open' = {} /\ torn' = Torn
    /\ base' = [th \in Strands |-> {}]
    /\ UNCHANGED <<log, fresh, files, plugged, hwid, day, reported, tampered>>

\* Rows cut from the end, with or without the memory of their ids, or written anew.
Tamper == \E k \in 0..Len(log) - 1 :
    /\ at = "off" /\ tampered = "none" /\ ~torn
    /\ \/ log' = SubSeq(log, 1, k) /\ UNCHANGED fresh
       \/ log' = [i \in 1..Len(log) |-> IF i <= k THEN log[i] ELSE 0] /\ UNCHANGED fresh
       \/ /\ fresh + Len(log) - k <= MaxRows
          /\ log' = [i \in 1..Len(log) |-> IF i <= k THEN log[i] ELSE fresh + i - k]
          /\ fresh' = fresh + Len(log) - k
    /\ tampered' = CASE local = <<>> -> "none"
                     [] local # <<>> /\ Vouched(local[Len(local)], log') -> "none"
                     [] local # <<>> /\ ~Named(local[Len(local)], log') -> "named"
                     [] OTHER -> "counted"
    /\ UNCHANGED <<open, files, plugged, hwid, day, at, base, reported, torn>>

Next ==
    \/ append_entry \/ Commit \/ Rollback
    \/ \E th \in Strands : ReadCount(th) \/ write_anchor(th)
    \/ Daily \/ _anchor_audit_chain \/ _anchor_on_quit \/ _kaydet_ve_cipaya_kazi
    \/ main \/ verify_against_anchor \/ Compared
    \/ Plug \/ Tomorrow \/ Crash \/ Tamper

Spec == Init /\ [][Next]_vars

\* When the row the last anchor names was altered or cut while the program was off,
\* the next start reports it before another anchor vouches for what is left: the row
\* main() logs ahead of the comparison does not make up for the missing one.  (It
\* does for one the anchor only counts.)
TamperReported == [][Len(local') > Len(local) /\ tampered = "named" => reported]_vars

\* A start reports nothing without a cause: a hand in the file, or an anchor that
\* was written over a row another thread had not committed and never did.
AlarmHasCause == at = "mismatch" => tampered # "none" \/ torn

\* What verify_anchor_replicas() says of a difference: one of the copies was changed,
\* and a token that was out for an anchor is none.  No action here changes a copy,
\* yet lines are compared by their number and a missed line shifts all later ones.
ReplicasAgree == at = "replicas" /\ plugged # NoToken => verify_anchor_replicas(plugged)
=============================================================================
