------------------------------ MODULE Startup ------------------------------
(***************************************************************************)
(* One start of the program, from main() of main.py to the window: the     *)
(* gates, DBManager.connect() with the numbered schema migrations          *)
(* (DB/db_manager.py, DB/migrations.py), and the move of the secrets of an *)
(* older installation into the key store (CORE/secret_migration.py,        *)
(* CORE/secure_erase.py), whose progress is PRAGMA user_version.           *)
(*                                                                         *)
(* Every action ends at a commit, a file operation or a call of the key    *)
(* store; the process may die between any two.  A key store that fails and *)
(* a VACUUM that finds the database locked end the process as well.        *)
(***************************************************************************)
EXTENDS Integers

CONSTANTS
    Tokens,         \* hwids with a row in usb_tokens
    NoToken,        \* no user is approved
    MaxCrashes      \* bound: starts cut short

ASSUME StartAssumption == NoToken \notin Tokens /\ MaxCrashes \in Nat

VARIABLES
    built, stamped, \* schema changes made; rows of schema_migrations
    clash,          \* two rows of users carry one hwid
    version,        \* PRAGMA user_version
    column,         \* usb_tokens.share_2
    pages,          \* columns whose old text is still in the WAL or in free pages
    ring,           \* the key store's share_2
    file,           \* data/totp_secret.json
    global, codes,  \* the key store's shared one-time secret, and the one per hwid
    mac,            \* the key the vault file is signed under
    heir,           \* the first approved user
    at, todo, row,  \* where main() is, the rows its loop has left, the one it works on
    crashes

schema == <<built, stamped>>
shares == <<column, pages, ring>>
totp == <<file, global, codes>>
vars == <<built, stamped, clash, version, column, pages, ring, file, global, codes, mac, heir, at, todo, row, crashes>>

TEMEL_SURUM == 21
MIGRATIONS == TEMEL_SURUM..29           \* 21 stands for the migrations up to it
CURRENT_SCHEMA_VERSION == 4

Moving == {"share", "blot", "blank", "purge", "stamp1", "totp", "adopt", "scramble", "empty", "unlink", "stamp2",
           "inherit", "drop", "stamp3", "sign"}
Places == {"off", "refused", "gates", "schema", "temel", "goc", "damga", "tidy", "version"} \cup Moving \cup {"login", "session"}

TypeOK ==
    /\ built \subseteq MIGRATIONS /\ stamped \subseteq MIGRATIONS
    /\ clash \in BOOLEAN
    /\ version \in 0..CURRENT_SCHEMA_VERSION
    /\ column \in [Tokens -> {"cleared", "right", "stale", "noise"}]
    /\ pages \subseteq Tokens
    /\ ring \in [Tokens -> {"none", "right", "stale"}]
    /\ file \in {"absent", "code", "broken", "noise", "empty"}
    /\ global \in {"none", "code"}
    /\ codes \in [Tokens -> {"none", "code"}]
    /\ mac \in [Tokens -> {"legacy", "share", "unverifiable"}]
    /\ heir \in Tokens \cup {NoToken}
    /\ at \in Places /\ todo \subseteq Tokens /\ row \in Tokens \cup {NoToken}
    /\ crashes \in 0..MaxCrashes

(***************************************************************************)
(* An installation some older release left behind: of before the key store *)
(* (0), or of a release that knew the first so many steps.  A token may    *)
(* have been enrolled again on this machine after the database was copied: *)
(* its column is stale and the key store has the share that opens it.      *)
(***************************************************************************)
Init ==
    /\ built \in {{}, {21}, 21..23, MIGRATIONS} /\ stamped \in {{}, built}
    /\ clash \in BOOLEAN /\ (23 \in built => ~clash)
    /\ version \in 0..CURRENT_SCHEMA_VERSION
    /\ heir \in Tokens \cup {NoToken}
    /\ mac \in [Tokens -> {"legacy", "share", "unverifiable"}]
    /\ column \in [Tokens -> {"cleared", "right", "stale"}]
    /\ ring = [h \in Tokens |-> IF column[h] = "right" THEN "none" ELSE "right"]
    /\ file \in {"absent", "code", "broken"}
    /\ global \in {"none", "code"}
    /\ codes \in [Tokens -> {"none", "code"}]
    /\ version >= 1 => \A h \in Tokens : column[h] = "cleared"
    /\ IF version = 2 THEN file = "absent" ELSE global = "none"
    /\ IF version < 3 THEN codes = [h \in Tokens |-> "none"] ELSE file = "absent"
    /\ version = 4 => \A h \in Tokens : mac[h] # "legacy"
    /\ pages = {} /\ at = "off" /\ todo = {} /\ row = NoToken /\ crashes = 0

Step(from, to) == at = from /\ at' = to

(***************************************************************************)
(* main() up to the database: the token is in, the key store answers.      *)
(***************************************************************************)
main ==
    /\ at \in {"off", "refused"} /\ at' = "gates"
    /\ UNCHANGED <<schema, clash, version, shares, totp, mac, heir, todo, row, crashes>>

GatesFail ==
    /\ Step("gates", "off")
    /\ UNCHANGED <<schema, clash, version, shares, totp, mac, heir, todo, row, crashes>>

connect ==
    /\ Step("gates", "schema")
    /\ UNCHANGED <<schema, clash, version, shares, totp, mac, heir, todo, row, crashes>>

\* _apply_schema() builds what the migrations up to TEMEL_SURUM would; they are
\* stamped without being run.
_apply_schema ==
    /\ Step("schema", "temel")
    /\ built' = built \cup {TEMEL_SURUM}
    /\ UNCHANGED <<stamped, clash, version, shares, totp, mac, heir, todo, row, crashes>>

_temeli_damgala ==
    /\ Step("temel", "goc")
    /\ stamped' = stamped \cup {TEMEL_SURUM}
    /\ UNCHANGED <<built, clash, version, shares, totp, mac, heir, todo, row, crashes>>

bekleyenler == MIGRATIONS \ stamped
Due(n) == n \in bekleyenler /\ \A k \in bekleyenler : n <= k

\* _m22() to _m29(), each with its own commit; 23 refuses while two rows share a hwid,
\* and main() does not catch the error.
Migration(n) ==
    IF n = 23 /\ clash THEN at' = "off" /\ UNCHANGED built
    ELSE at' = "damga" /\ built' = built \cup {n}
senkronize == \E n \in MIGRATIONS :
    /\ Due(n)
    /\ at = "goc" /\ Migration(n)
    /\ UNCHANGED <<stamped, clash, version, shares, totp, mac, heir, todo, row, crashes>>

_damgala == \E n \in MIGRATIONS :
    /\ Due(n)
    /\ Step("damga", "goc")
    /\ stamped' = stamped \cup {n}
    /\ UNCHANGED <<built, clash, version, shares, totp, mac, heir, todo, row, crashes>>

Migrated ==
    /\ bekleyenler = {} /\ Step("goc", "tidy")
    /\ UNCHANGED <<schema, clash, version, shares, totp, mac, heir, todo, row, crashes>>

\* The audit log is compared with its anchors, the leftovers of the last session
\* are purged, its deletions finished and its file locks dropped: AuditAnchor,
\* Checkout and Disposal.  A failure of one of these is logged and passed over.
Tidy ==
    /\ Step("tidy", "version")
    /\ UNCHANGED <<schema, clash, version, shares, totp, mac, heir, todo, row, crashes>>

(***************************************************************************)
(* run_migrations().                                                       *)
(***************************************************************************)
run_migrations ==
    /\ at = "version"
    /\ at' = CASE version = 0 -> "share" [] version = 1 -> "totp" [] version = 2 -> "inherit"
               [] version = 3 -> "sign" [] OTHER -> "login"
    /\ todo' = CASE version = 0 -> {h \in Tokens : column[h] # "cleared"} [] version = 3 -> Tokens [] OTHER -> {}
    /\ UNCHANGED <<schema, clash, version, shares, totp, mac, heir, row, crashes>>

\* Mutant: the text of the database wins.
KeepColumn(h) ==
    /\ Step("share", "blot") /\ h \in todo /\ row' = h
    /\ ring' = [ring EXCEPT ![h] = column[h]]
    /\ UNCHANGED <<schema, clash, version, column, pages, totp, mac, heir, todo, crashes>>
\* The key store is written when it has no share; what it has stays, for the text
\* of the column may be random already.
migrate_share_2(h) ==
    /\ Step("share", "blot") /\ h \in todo /\ row' = h
    /\ ring' = [ring EXCEPT ![h] = IF @ = "none" THEN column[h] ELSE @]
    /\ UNCHANGED <<schema, clash, version, column, pages, totp, mac, heir, todo, crashes>>

\* Random text, three times over, then the empty text; each is a commit.
overwrite_text_column ==
    /\ Step("blot", "blank")
    /\ column' = [column EXCEPT ![row] = "noise"]
    /\ pages' = IF column[row] = "noise" THEN pages ELSE pages \cup {row}
    /\ UNCHANGED <<schema, clash, version, ring, totp, mac, heir, todo, row, crashes>>

BlankColumn ==
    /\ todo' = todo \ {row}
    /\ Step("blank", IF todo' = {} THEN "purge" ELSE "share")
    /\ column' = [column EXCEPT ![row] = "cleared"]
    /\ row' = NoToken
    /\ UNCHANGED <<schema, clash, version, pages, ring, totp, mac, heir, crashes>>

\* Checkpoint and VACUUM, when this run has touched a row.
purge_sqlite_residue ==
    /\ Step("purge", "stamp1")
    /\ pages' = {}
    /\ UNCHANGED <<schema, clash, version, column, ring, totp, mac, heir, todo, row, crashes>>

NoRows ==
    /\ todo = {} /\ Step("share", "stamp1")
    /\ UNCHANGED <<schema, clash, version, shares, totp, mac, heir, todo, row, crashes>>

\* Mutant: the first step stamps the last version.
StampLast(n, from, to) ==
    /\ Step(from, to)
    /\ version' = CURRENT_SCHEMA_VERSION
    /\ todo' = IF n = 3 THEN Tokens ELSE {}
    /\ UNCHANGED <<schema, clash, shares, totp, mac, heir, row, crashes>>
\* set_schema_version(), once per step; todo is fetched anew for the last one.
set_schema_version(n, from, to) ==
    /\ Step(from, to)
    /\ version' = n
    /\ todo' = IF n = 3 THEN Tokens ELSE {}
    /\ UNCHANGED <<schema, clash, shares, totp, mac, heir, row, crashes>>

\* A file that cannot be read is an error to the user and the end of the start; so
\* is one this program has begun to shred.
migrate_totp_secret ==
    /\ Step("totp", CASE file = "absent" -> "stamp2" [] file = "code" -> "adopt" [] OTHER -> "refused")
    /\ UNCHANGED <<schema, clash, version, shares, totp, mac, heir, todo, row, crashes>>

AdoptCode ==
    /\ Step("adopt", "scramble")
    /\ global' = "code"
    /\ UNCHANGED <<schema, clash, version, shares, file, codes, mac, heir, todo, row, crashes>>

\* shred_file(): random bytes, the empty file, no file.
Shred(from, to, content) ==
    /\ Step(from, to)
    /\ file' = content
    /\ UNCHANGED <<schema, clash, version, shares, global, codes, mac, heir, todo, row, crashes>>
shred_file == Shred("scramble", "empty", "noise") \/ Shred("empty", "unlink", "empty") \/ Shred("unlink", "stamp2", "absent")

\* The first approved user inherits the shared secret; with none it goes.
migrate_totp_to_per_hwid ==
    /\ at = "inherit"
    /\ at' = IF global = "none" THEN "stamp3" ELSE "drop"
    /\ codes' = [h \in Tokens |-> IF h = heir /\ global # "none" THEN global ELSE codes[h]]
    /\ UNCHANGED <<schema, clash, version, shares, file, global, mac, heir, todo, row, crashes>>

EraseGlobal ==
    /\ Step("drop", "stamp3")
    /\ global' = "none"
    /\ UNCHANGED <<schema, clash, version, shares, file, codes, mac, heir, todo, row, crashes>>

\* The vault is signed again, in one replacement of the file, when the old signature
\* holds; any other is left as it is, and so is one whose share the key store lacks.
migrate_vault_hmac_to_share2(h) == IF mac[h] = "legacy" THEN "share" ELSE mac[h]
migrate_vault_hmac(h) ==
    /\ Step("sign", "sign") /\ h \in todo /\ todo' = todo \ {h}
    /\ mac' = [mac EXCEPT ![h] = IF ring[h] = "none" THEN @ ELSE migrate_vault_hmac_to_share2(h)]
    /\ UNCHANGED <<schema, clash, version, shares, totp, heir, row, crashes>>

(***************************************************************************)
(* The login, the window, and the end of the process.                      *)
(***************************************************************************)
Login ==
    /\ Step("login", "session")
    /\ UNCHANGED <<schema, clash, version, shares, totp, mac, heir, todo, row, crashes>>

Quit ==
    /\ at \in {"login", "session"} /\ at' = "off"
    /\ UNCHANGED <<schema, clash, version, shares, totp, mac, heir, todo, row, crashes>>

Crash ==
    /\ at \notin {"off", "refused"} /\ crashes < MaxCrashes
    /\ at' = "off" /\ todo' = {} /\ row' = NoToken
    /\ crashes' = crashes + 1
    /\ UNCHANGED <<schema, clash, version, shares, totp, mac, heir>>

\* The administrator removes the second row, as the error message asks.
ResolveClash ==
    /\ clash /\ at = "off"
    /\ clash' = FALSE
    /\ UNCHANGED <<schema, version, shares, totp, mac, heir, at, todo, row, crashes>>

Move ==
    \/ \E h \in Tokens : migrate_share_2(h) \/ migrate_vault_hmac(h)
    \/ overwrite_text_column \/ BlankColumn \/ purge_sqlite_residue \/ NoRows
    \/ migrate_totp_secret \/ AdoptCode \/ shred_file
    \/ migrate_totp_to_per_hwid \/ EraseGlobal
    \/ set_schema_version(1, "stamp1", "totp") \/ set_schema_version(2, "stamp2", "inherit")
    \/ set_schema_version(3, "stamp3", "sign")
    \/ todo = {} /\ set_schema_version(4, "sign", "login")

Start ==
    \/ main \/ connect \/ _apply_schema \/ _temeli_damgala \/ senkronize \/ _damgala \/ Migrated
    \/ Tidy \/ run_migrations \/ Move \/ Login

Next == Start \/ GatesFail \/ Quit \/ Crash \/ ResolveClash

Spec == Init /\ [][Next]_vars

(***************************************************************************)
(* What a start, cut short or not, owes the installation it found.         *)
(***************************************************************************)
Share(h) == "right" \in {column[h], ring[h]}
Code == "code" \in {file, global, codes[heir]}

\* However often a move is cut short, what opens a vault stays somewhere: the share
\* of a token in its column or in the key store, the one-time secret in its file,
\* under its shared name or with its heir.
SecretsSurvive == [][(\A h \in Tokens : Share(h) => Share(h)') /\ (heir # NoToken /\ Code => Code')]_vars

\* A start that comes as far as the login has finished all that earlier ones left
\* undone: every schema change is built and stamped, the file and the columns of the
\* old secrets are gone, no vault is signed under the old key, and unless a start was
\* cut short the database holds no old page.
ReadyAtLogin == at \in {"login", "session"} =>
    /\ built = MIGRATIONS /\ stamped = MIGRATIONS /\ ~clash
    /\ version = CURRENT_SCHEMA_VERSION
    /\ \A h \in Tokens : column[h] = "cleared" /\ ring[h] # "none" /\ mac[h] # "legacy"
    /\ file = "absent" /\ global = "none"
    /\ crashes = 0 => pages = {}

\* What secret_migration.py says of a move that is cut short: it is safe to run it
\* again.  The start is refused only over a file someone else has spoilt.  The code
\* refuses one it has begun to shred itself, on this start and on every later one.
RerunIsSafe == at = "refused" => file = "broken"
=============================================================================
