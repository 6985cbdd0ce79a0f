------------------------------ MODULE Enrolment ------------------------------
(***************************************************************************)
(* The life of an account and of its master key: CORE/vault_manager.py     *)
(* (vault files, Shamir shares), CORE/registration.py,                     *)
(* CORE/usb_takeover.py, CORE/recover_vault.py, CORE/setup_usb.py,         *)
(* CORE/pin_rotation.py, CORE/session_user.py, the wizard and the forms of *)
(* UI/login_dialog.py and UI/RegisterDialog.py, the pages                  *)
(* UI/PendingRegistrationsView.py and UI/UsbTokensView.py.                 *)
(*                                                                         *)
(* A token (HWID) is bound to four stores that no transaction spans: the   *)
(* vault file (share 1), the keyring (share 2 and the one-time-code        *)
(* secret), the row of usb_tokens and the row of users.  An operation      *)
(* writes them one after the other; it may be cut short between two.       *)
(*                                                                         *)
(* The line of Shamir's scheme through a key is a number.  Two shares of   *)
(* one line give its key, shares of two lines give another key.  A PIN is  *)
(* typed right, or the operation stops before it has written anything.     *)
(***************************************************************************)
EXTENDS Integers, FiniteSets

CONSTANTS
    HWIDs,      \* the tokens
    Procs,      \* processes: the application, a command line tool
    Ops,        \* the operations that are started
    Killed,     \* the operations that may be cut short at any step
    Faults,     \* "write": a write raises; "loss": a share is lost
    MaxMade,    \* bound: vaults prepared
    NoVault, NoRow

AllOps == {"wizard", "register", "reject", "delete", "reset", "setup", "rewrite", "recover", "takeover"}

ASSUME OpsAssumption == Ops \subseteq AllOps /\ Killed \subseteq AllOps
ASSUME FaultAssumption == Faults \subseteq {"write", "loss"}
ASSUME MadeAssumption == MaxMade \in Nat

VARIABLES
    vault,      \* <data>/vaults/<hwid>.hclv
    share2,     \* share_2 of each token in the keyring
    row,        \* table usb_tokens
    totp,       \* the one-time-code secret of each token in the keyring
    users,      \* table users: the status of the account bound to the token
    papers,     \* the printed recovery shares
    docs,       \* the keys the documents of the account are sealed under
    shown,      \* the one-time-code secrets somebody has in an authenticator
    entering,   \* tokens between LoginDialog and sync_session_user()
    job,        \* the operation each process is in
    made,       \* the vaults prepared so far
    mixed,      \* tokens whose row was completed from a vault it is not the row of
    founded,    \* the tokens the setup wizard or setup_usb.py was run for
    adrift      \* the tokens an operation on users is, or was left, half done on

vars == <<vault, share2, row, totp, users, papers, docs, shown, entering, job, made, mixed, founded, adrift>>

Nil == 0
Lines == 1..MaxMade
Vault == [line : Lines, token : Lines, signer : Lines]
Row == [token : Lines, kcv : Lines \cup {Nil}, black : BOOLEAN, issued : BOOLEAN]
ASSUME NoValueAssumption == NoVault \notin Vault /\ NoRow \notin Row

Places == {"file", "share", "row", "totp", "user", "open", "read", "replace", "issue", "check", "copy", "move",
           "undo_file", "undo_share", "drop_user", "drop_totp", "drop_share", "drop_row", "drop_file",
           "reset_file", "reset_share", "reset_row"}
Job == [op : AllOps, at : Places, h : HWIDs, old : HWIDs, line : Lines \cup {Nil}, token : Lines \cup {Nil},
        back : Vault \cup {NoVault}, back2 : Lines \cup {Nil}]

TypeOK ==
    /\ vault \in [HWIDs -> Vault \cup {NoVault}]
    /\ share2 \in [HWIDs -> Lines \cup {Nil}]
    /\ row \in [HWIDs -> Row \cup {NoRow}]
    /\ totp \in [HWIDs -> Lines \cup {Nil}]
    /\ users \in [HWIDs -> {"none", "pending", "approved"}]
    /\ papers \subseteq Lines
    /\ docs \in [HWIDs -> SUBSET (Lines \cup {Nil})]
    /\ shown \subseteq Lines
    /\ entering \subseteq HWIDs
    /\ job \in [Procs -> SUBSET Job]
    /\ \A p \in Procs : \A i, j \in job[p] : i = j
    /\ made \in 0..MaxMade
    /\ mixed \subseteq HWIDs
    /\ founded \subseteq HWIDs
    /\ adrift \subseteq HWIDs

\* A new installation, or one whose token was set up before the key check value
\* existed (usb_tokens.kcv is NULL).
Init ==
    /\ made \in {0, 1} /\ made <= MaxMade
    /\ \E h \in HWIDs :
        LET old(value, none) == [g \in HWIDs |-> IF made = 1 /\ g = h THEN value ELSE none] IN
        /\ vault = old([line |-> 1, token |-> 1, signer |-> 1], NoVault)
        /\ share2 = old(1, Nil)
        /\ row = old([token |-> 1, kcv |-> Nil, black |-> FALSE, issued |-> FALSE], NoRow)
        /\ totp = old(1, Nil)
        /\ users = old("approved", "none")
    /\ shown = Lines \cap {made}
    /\ papers = {}
    /\ docs = [h \in HWIDs |-> {}]
    /\ entering = {}
    /\ job = [p \in Procs |-> {}]
    /\ mixed = {}
    /\ founded = {}
    /\ adrift = {}

(***************************************************************************)
(* What the stores say about a token.                                      *)
(***************************************************************************)
\* _sss_recover(): shares of two lines give a key nothing is sealed under.
Recover(a, b) == IF a = b THEN a ELSE Nil
_reject_if_blacklisted(h) == ~(row[h] # NoRow /\ row[h].black)
\* The HMAC of the vault file is keyed with share 2.
verify_vault(h) == vault[h] # NoVault /\ share2[h] # Nil /\ vault[h].signer = share2[h]
\* Without share 2 the signature cannot be checked and share 1 is still read.
_decrypt_vault(h) ==
    /\ _reject_if_blacklisted(h)
    /\ vault[h] # NoVault
    /\ share2[h] # Nil => verify_vault(h)
open_vault(h) == _decrypt_vault(h) /\ row[h] # NoRow /\ share2[h] # Nil
Key(h) == Recover(vault[h].line, share2[h])
authenticate_usb(h) ==
    /\ row[h] # NoRow
    /\ _reject_if_blacklisted(h)
    /\ verify_vault(h)
    /\ vault[h].token = row[h].token
read_vault_role(h) == _reject_if_blacklisted(h) /\ verify_vault(h)
sistem_kurulmus_mu == \E h \in HWIDs : users[h] = "approved"
\* oturum_yetkisi_gecerli_mi(), with the token of an administrator in place.
yonetici_hala_yetkili == \E h \in HWIDs : users[h] = "approved" /\ _reject_if_blacklisted(h)
\* Two UPDATEs complete a row by its hwid; neither compares the token_id.
Completed(h) == mixed' = IF row' # row /\ vault[h].token # row[h].token THEN mixed \cup {h} ELSE mixed
\* open_vault() fills in a key check value that is missing.
_kcv_eksikse_yaz(h) ==
    /\ row' = IF row[h].kcv = Nil /\ Key(h) # Nil THEN [row EXCEPT ![h].kcv = Key(h)] ELSE row
    /\ Completed(h)

(***************************************************************************)
(* Operations as jobs.                                                     *)
(***************************************************************************)
Begin(p, op, at, h, old, line, token) ==
    /\ op \in Ops
    /\ job[p] = {}
    /\ job' = [job EXCEPT ![p] = {[op |-> op, at |-> at, h |-> h, old |-> old, line |-> line, token |-> token,
                                   back |-> NoVault, back2 |-> Nil]}]
Goto(p, j, at) == job' = [job EXCEPT ![p] = {[j EXCEPT !.at = at]}]
End(p) == job' = [job EXCEPT ![p] = {}]
At(p, at) == {j \in job[p] : j.at = at}
Busy(h) == \E p \in Procs : \E j \in job[p] : h \in {j.h, j.old}

\* _kasa_hazirla(): a key and a line of its own, or the line through a recovered
\* key and the recovery share; always a new token_id.
_kasa_hazirla(p, op, at, h, old, line) ==
    /\ _reject_if_blacklisted(h)
    /\ made < MaxMade
    /\ made' = made + 1
    /\ Begin(p, op, at, h, old, IF line = Nil THEN made + 1 ELSE line, made + 1)

create_vault(p, op, h) == _kasa_hazirla(p, op, "file", h, h, Nil)

\* _rewrite_vault(), _atomik_yaz(): the whole file or nothing.
_rewrite_vault(h, line, token, signer) ==
    vault' = [vault EXCEPT ![h] = [line |-> line, token |-> token, signer |-> signer]]

\* Mutant: an UPDATE that leaves the columns it does not name.
SaveRowUpdating(h, line, token) ==
    row' = [row EXCEPT ![h] = [token |-> token, kcv |-> line,
                               black |-> FALSE, issued |-> row[h] # NoRow /\ row[h].issued]]
\* INSERT OR REPLACE of _save_usb_token(): blacklisted and recovery_issued_at
\* take their defaults.
SaveRow(h, line, token) ==
    row' = [row EXCEPT ![h] = [token |-> token, kcv |-> line, black |-> FALSE, issued |-> FALSE]]

(***************************************************************************)
(* The forms that make an account.                                         *)
(***************************************************************************)
\* UI/login_dialog.py, _on_setup_confirm(): the secret was scanned before.
_on_setup_confirm(p, h) ==
    /\ ~sistem_kurulmus_mu
    /\ create_vault(p, "wizard", h)
    /\ shown' = shown \cup {made + 1}
    /\ docs' = [docs EXCEPT ![h] = {}]
    /\ founded' = founded \cup {h}
    /\ UNCHANGED <<vault, share2, row, totp, users, papers, entering, mixed, adrift>>

\* Mutant: a token that has an account is not refused (B-060).
RegisterAnyToken(p, h) ==
    /\ create_vault(p, "register", h)
    /\ adrift' = adrift \cup {h}
    /\ UNCHANGED <<vault, share2, row, totp, users, papers, docs, shown, entering, mixed, founded>>
\* A token some account is bound to is refused.
register_new_user(p, h) ==
    /\ users[h] = "none"
    /\ create_vault(p, "register", h)
    /\ adrift' = adrift \cup {h}
    /\ UNCHANGED <<vault, share2, row, totp, users, papers, docs, shown, entering, mixed, founded>>

\* The form of the login dialog, and the one an administrator opens.
_on_register(p, h) == sistem_kurulmus_mu /\ register_new_user(p, h)
_on_detect(p, h) == yonetici_hala_yetkili /\ row[h] = NoRow /\ register_new_user(p, h)

\* create_vault(): the file, then _save_usb_token(): share 2, then the row.
CreateFile(p) == \E j \in At(p, "file") :
    /\ _rewrite_vault(j.h, j.line, j.token, j.line)
    /\ Goto(p, j, "share")
    /\ UNCHANGED <<share2, row, totp, users, papers, docs, shown, entering, made, mixed, founded, adrift>>

_save_usb_token(p) == \E j \in At(p, "share") :
    /\ share2' = [share2 EXCEPT ![j.h] = j.line]
    /\ Goto(p, j, "row")
    /\ UNCHANGED <<vault, row, totp, users, papers, docs, shown, entering, made, mixed, founded, adrift>>

InsertToken(p) == \E j \in At(p, "row") :
    /\ SaveRow(j.h, j.line, j.token)
    /\ IF j.op \in {"setup", "reset"} THEN End(p)
       ELSE Goto(p, j, CASE j.op \in {"recover", "takeover"} -> "issue" [] j.op = "wizard" -> "open" [] OTHER -> "totp")
    /\ mixed' = mixed \ {j.h}
    /\ UNCHANGED <<vault, share2, totp, users, papers, docs, shown, entering, made, founded, adrift>>

\* The wizard goes on when the new vault opens.
OpenFirstVault(p) == \E j \in At(p, "open") :
    /\ IF open_vault(j.h) THEN Goto(p, j, "totp") ELSE End(p)
    /\ UNCHANGED <<vault, share2, row, totp, users, papers, docs, shown, entering, made, mixed, founded, adrift>>

\* The wizard is through, and main() goes on to the session; a registration has
\* its account still to write.
store_totp_secret_for_hwid(p) == \E j \in At(p, "totp") :
    /\ totp' = [totp EXCEPT ![j.h] = j.token]
    /\ IF j.op = "wizard" THEN End(p) /\ entering' = entering \cup {j.h}
       ELSE Goto(p, j, "user") /\ UNCHANGED entering
    /\ UNCHANGED <<vault, share2, row, users, papers, docs, shown, made, mixed, founded, adrift>>

\* INSERT INTO users; only then the form shows the secret.  users.hwid is UNIQUE:
\* a second registration of the token raises and is taken back.
InsertUser(p) == \E j \in At(p, "user") :
    /\ IF users[j.h] = "none"
       THEN /\ users' = [users EXCEPT ![j.h] = "pending"]
            /\ shown' = shown \cup {j.token}
            /\ adrift' = adrift \ {j.h}
            /\ End(p)
       ELSE Goto(p, j, "drop_totp") /\ UNCHANGED <<users, shown, adrift>>
    /\ UNCHANGED <<vault, share2, row, totp, papers, docs, entering, made, mixed, founded>>

\* The secret or the row could not be written: the vault is discarded.
RegistrationFails(p) == \E j \in job[p] :
    /\ "write" \in Faults /\ j.op = "register" /\ j.at \in {"totp", "user"}
    /\ Goto(p, j, "drop_totp")
    /\ UNCHANGED <<vault, share2, row, totp, users, papers, docs, shown, entering, made, mixed, founded, adrift>>

(***************************************************************************)
(* discard_vault(j.old): the secret, share 2, the row, the file.           *)
(***************************************************************************)
EraseTotp(p) == \E j \in At(p, "drop_totp") :
    /\ totp' = [totp EXCEPT ![j.old] = Nil]
    /\ Goto(p, j, "drop_share")
    /\ UNCHANGED <<vault, share2, row, users, papers, docs, shown, entering, made, mixed, founded, adrift>>

delete_usb_token(p) == \E j \in job[p] :
    /\ j.at \in {"drop_share", "reset_share"}
    /\ share2' = [share2 EXCEPT ![j.old] = Nil]
    /\ Goto(p, j, IF j.at = "drop_share" THEN "drop_row" ELSE "reset_row")
    /\ UNCHANGED <<vault, row, totp, users, papers, docs, shown, entering, made, mixed, founded, adrift>>

DeleteRow(p) == \E j \in job[p] :
    /\ j.at \in {"drop_row", "reset_row"}
    /\ row' = [row EXCEPT ![j.old] = NoRow]
    /\ Goto(p, j, IF j.at = "drop_row" THEN "drop_file" ELSE "file")
    /\ UNCHANGED <<vault, share2, totp, users, papers, docs, shown, entering, made, mixed, founded, adrift>>

UnlinkVault(p) == \E j \in At(p, "drop_file") :
    /\ vault' = [vault EXCEPT ![j.old] = NoVault]
    /\ IF j.old # j.h THEN Goto(p, j, "move") /\ UNCHANGED adrift
       ELSE End(p) /\ adrift' = adrift \ ({j.h} \ entering)
    /\ UNCHANGED <<share2, row, totp, users, papers, docs, shown, entering, made, mixed, founded>>

(***************************************************************************)
(* Recovery with a printed share.                                          *)
(***************************************************************************)
\* recover_master_key(): the recovery share and what is left, share 1 from the
\* vault or share 2 from the keyring.  The key is checked against the key check
\* value, or else against a document; with neither it is taken as it is.
Rest(h, way) == IF way = 1 THEN vault[h].line ELSE share2[h]
_hcl_ile_dogrula(h, key) == key \in docs[h]
_kurtarilan_anahtari_dogrula(h, key) ==
    IF row[h] # NoRow /\ row[h].kcv # Nil THEN key = row[h].kcv
    ELSE docs[h] = {} \/ _hcl_ile_dogrula(h, key)
recover_master_key(h, paper, way) ==
    /\ IF way = 1 THEN _decrypt_vault(h) ELSE share2[h] # Nil
    /\ _kurtarilan_anahtari_dogrula(h, Recover(Rest(h, way), paper))

\* reprovision_vault(): the new vault is staged beside the old one and opened
\* there.  The recovery share lies on its line, whatever key came out.
reprovision_vault(p, op, new, old, paper, way) ==
    /\ recover_master_key(old, paper, way)
    /\ _kasa_hazirla(p, op, "replace", new, old, Recover(Rest(old, way), paper))
    /\ LET key == Recover(Rest(old, way), paper) IN
       papers' = papers \cup {IF key = Nil THEN made + 1 ELSE key}

_cmd_recover(p, h) == \E paper \in papers, way \in {1, 2} :
    /\ reprovision_vault(p, "recover", h, h, paper, way)
    /\ UNCHANGED <<vault, share2, row, totp, users, docs, shown, entering, mixed, founded, adrift>>

_cmd_takeover(p, old, new) == \E paper \in papers, way \in {1, 2} :
    /\ users[old] # "none" /\ users[new] = "none"
    /\ reprovision_vault(p, "takeover", new, old, paper, way)
    /\ UNCHANGED <<vault, share2, row, totp, users, docs, shown, entering, mixed, founded, adrift>>

\* os.replace() of the staged file; what was there is kept for the way back.
ReplaceVault(p) == \E j \in At(p, "replace") :
    /\ _rewrite_vault(j.h, j.line, j.token, j.line)
    /\ job' = [job EXCEPT ![p] = {[j EXCEPT !.at = "share", !.back = vault[j.h], !.back2 = share2[j.h]]}]
    /\ adrift' = IF j.op = "takeover" THEN adrift \cup {j.h} ELSE adrift
    /\ UNCHANGED <<share2, row, totp, users, papers, docs, shown, entering, made, mixed, founded>>

\* The staged file does not open: it is removed.
_hazirlanan_kasayi_dogrula(p) == \E j \in At(p, "replace") :
    /\ "write" \in Faults
    /\ End(p)
    /\ UNCHANGED <<vault, share2, row, totp, users, papers, docs, shown, entering, made, mixed, founded, adrift>>

\* The keyring or the database refuses: file and share 2 are put back.
ReprovisionFails(p) == \E j \in job[p] :
    /\ "write" \in Faults /\ j.op \in {"recover", "takeover"} /\ j.at \in {"share", "row"}
    /\ Goto(p, j, "undo_file")
    /\ UNCHANGED <<vault, share2, row, totp, users, papers, docs, shown, entering, made, mixed, founded, adrift>>

_eski_kasayi_geri_yukle(p) == \E j \in job[p] :
    /\ \/ /\ j.at = "undo_file"
          /\ vault' = [vault EXCEPT ![j.h] = j.back]
          /\ Goto(p, j, "undo_share")
          /\ UNCHANGED share2
       \/ /\ j.at = "undo_share"
          /\ share2' = [share2 EXCEPT ![j.h] = j.back2]
          /\ End(p)
          /\ UNCHANGED vault
    /\ UNCHANGED <<row, totp, users, papers, docs, shown, entering, made, mixed, founded, adrift>>

MarkIssued(p) == \E j \in At(p, "issue") :
    /\ row' = [row EXCEPT ![j.h].issued = TRUE]
    /\ IF j.op = "takeover" THEN Goto(p, j, "check") ELSE End(p)
    /\ UNCHANGED <<vault, share2, totp, users, papers, docs, shown, entering, made, mixed, founded, adrift>>

\* takeover_usb(): the new vault must open with the recovered key, or it is
\* discarded; then the secret is copied and the old token discarded.
takeover_usb(p) == \E j \in At(p, "check") :
    /\ IF open_vault(j.h) /\ row[j.h].kcv = Key(j.h) /\ Key(j.h) = j.line
       THEN Goto(p, j, "copy")
       ELSE job' = [job EXCEPT ![p] = {[j EXCEPT !.at = "drop_totp", !.old = j.h]}]
    /\ UNCHANGED <<vault, share2, row, totp, users, papers, docs, shown, entering, made, mixed, founded, adrift>>

CopyTotp(p) == \E j \in At(p, "copy") :
    /\ totp' = IF totp[j.old] = Nil THEN totp ELSE [totp EXCEPT ![j.h] = totp[j.old]]
    /\ Goto(p, j, "drop_totp")
    /\ adrift' = adrift \cup {j.old}
    /\ UNCHANGED <<vault, share2, row, users, papers, docs, shown, entering, made, mixed, founded>>

\* UPDATE users SET hwid: the account, and the documents it owns.
MoveAccount(p) == \E j \in At(p, "move") :
    /\ users[j.h] = "none"
    /\ users' = [users EXCEPT ![j.h] = users[j.old], ![j.old] = "none"]
    /\ docs' = [docs EXCEPT ![j.h] = docs[j.old], ![j.old] = {}]
    /\ adrift' = adrift \ ({j.h, j.old} \ entering)
    /\ End(p)
    /\ UNCHANGED <<vault, share2, row, totp, papers, shown, entering, made, mixed, founded>>

(***************************************************************************)
(* The pages of the administrator.                                         *)
(***************************************************************************)
_on_approve(h) ==
    /\ yonetici_hala_yetkili
    /\ users[h] = "pending"
    /\ users' = [users EXCEPT ![h] = "approved"]
    /\ UNCHANGED <<vault, share2, row, totp, papers, docs, shown, entering, job, made, mixed, founded, adrift>>

\* Mutant: only the row of users goes.
RejectRowOnly(p, h) ==
    /\ yonetici_hala_yetkili
    /\ users[h] = "pending"
    /\ users' = [users EXCEPT ![h] = "none"]
    /\ UNCHANGED <<vault, share2, row, totp, papers, docs, shown, entering, job, made, mixed, founded, adrift>>
\* The row of users goes first, the vault after it.
_on_reject(p, h) ==
    /\ yonetici_hala_yetkili
    /\ users[h] = "pending"
    /\ Begin(p, "reject", "drop_totp", h, h, Nil, Nil)
    /\ users' = [users EXCEPT ![h] = "none"]
    /\ adrift' = adrift \cup {h}
    /\ UNCHANGED <<vault, share2, row, totp, papers, docs, shown, entering, made, mixed, founded>>

\* Never the token of the administrator himself.  Its documents are given up.
_on_delete(p, h) ==
    /\ \E g \in HWIDs \ {h} : users[g] = "approved"
    /\ row[h] # NoRow
    /\ Begin(p, "delete", "drop_totp", h, h, Nil, Nil)
    /\ users' = [users EXCEPT ![h] = "none"]
    /\ docs' = [docs EXCEPT ![h] = {}]
    /\ adrift' = adrift \cup {h}
    /\ UNCHANGED <<vault, share2, row, totp, papers, shown, entering, made, mixed, founded>>

blacklist_usb(h) ==
    /\ \E g \in HWIDs \ {h} : users[g] = "approved"
    /\ row[h] # NoRow
    /\ row' = [row EXCEPT ![h].black = ~row[h].black]
    /\ UNCHANGED <<vault, share2, totp, users, papers, docs, shown, entering, job, made, mixed, founded, adrift>>

\* change_vault_pin() and change_vault_role(): the vault is verified and read,
\* then the same share and token_id are sealed anew under the present share 2.
ReadVault(p, h) ==
    /\ read_vault_role(h)
    /\ Begin(p, "rewrite", "read", h, h, vault[h].line, vault[h].token)
    /\ UNCHANGED <<vault, share2, row, totp, users, papers, docs, shown, entering, made, mixed, founded, adrift>>
_on_change_role(p, h) == yonetici_hala_yetkili /\ ReadVault(p, h)
rotate_pin(p, h) == ReadVault(p, h)

SealAnew(p) == \E j \in At(p, "read") :
    /\ IF share2[j.h] = Nil THEN UNCHANGED vault
       ELSE _rewrite_vault(j.h, j.line, j.token, share2[j.h])
    /\ End(p)
    /\ UNCHANGED <<share2, row, totp, users, papers, docs, shown, entering, made, mixed, founded, adrift>>

export_recovery_share(h) ==
    /\ _decrypt_vault(h) /\ share2[h] # Nil
    /\ papers' = papers \cup ({Key(h)} \ {Nil})
    /\ row' = IF row[h] = NoRow THEN row ELSE [row EXCEPT ![h].issued = TRUE]
    /\ Completed(h)
    /\ UNCHANGED <<vault, share2, totp, users, docs, shown, entering, job, made, founded, adrift>>

(***************************************************************************)
(* CORE/setup_usb.py.                                                      *)
(***************************************************************************)
\* Over an old vault only when its owner agrees: the documents are given up.
Setup(p, h) ==
    /\ create_vault(p, "setup", h)
    /\ docs' = [docs EXCEPT ![h] = {}]
    /\ founded' = founded \cup {h}
    /\ UNCHANGED <<vault, share2, row, totp, users, papers, shown, entering, mixed, adrift>>

_do_reset(p, h) ==
    /\ read_vault_role(h)
    /\ _kasa_hazirla(p, "reset", "reset_file", h, h, Nil)
    /\ docs' = [docs EXCEPT ![h] = {}]
    /\ founded' = founded \cup {h}
    /\ UNCHANGED <<vault, share2, row, totp, users, papers, shown, entering, mixed, adrift>>

ResetFile(p) == \E j \in At(p, "reset_file") :
    /\ vault' = [vault EXCEPT ![j.h] = NoVault]
    /\ Goto(p, j, "reset_share")
    /\ UNCHANGED <<share2, row, totp, users, papers, docs, shown, entering, made, mixed, founded, adrift>>

(***************************************************************************)
(* Sessions.                                                               *)
(***************************************************************************)
\* _on_login(): PIN and one-time code are right, the account is not pending.
_on_login(h) ==
    /\ sistem_kurulmus_mu
    /\ open_vault(h)
    /\ totp[h] \in shown
    /\ users[h] # "pending"
    /\ h \notin entering
    /\ _kcv_eksikse_yaz(h)
    /\ entering' = entering \cup {h}
    /\ UNCHANGED <<vault, share2, totp, users, papers, docs, shown, job, made, founded, adrift>>

\* Mutant: a status nobody else writes.
SyncActive(h) == users' = IF users[h] = "none" THEN [users EXCEPT ![h] = "active"] ELSE users
\* A row for whoever has none.
sync_session_user(h) == users' = IF users[h] = "none" THEN [users EXCEPT ![h] = "approved"] ELSE users

\* main(), after the dialogs that follow the login.
EnterSession(h) ==
    /\ h \in entering
    /\ entering' = entering \ {h}
    /\ sync_session_user(h)
    /\ UNCHANGED <<vault, share2, row, totp, papers, docs, shown, job, made, mixed, founded, adrift>>

\* _trigger_usb_reauth(): another token in a session that runs.  No one-time
\* code, and nobody asks for the status.
_trigger_usb_reauth(h) ==
    /\ \E g \in HWIDs \ {h} : users[g] = "approved"
    /\ authenticate_usb(h) /\ open_vault(h)
    /\ _kcv_eksikse_yaz(h)
    /\ sync_session_user(h)
    /\ UNCHANGED <<vault, share2, totp, papers, docs, shown, entering, job, made, founded, adrift>>

\* The session of an approved account seals a document.
SealDocument(h) ==
    /\ users[h] = "approved" /\ h \notin adrift
    /\ open_vault(h)
    /\ ~Busy(h)
    /\ docs' = [docs EXCEPT ![h] = @ \cup {Key(h)}]
    /\ UNCHANGED <<vault, share2, row, totp, users, papers, shown, entering, job, made, mixed, founded, adrift>>

(***************************************************************************)
(* Faults.                                                                 *)
(***************************************************************************)
\* The process dies, or a write raises where nothing is put back.
Kill(p) == \E j \in job[p] :
    /\ j.op \in Killed
    /\ End(p)
    /\ UNCHANGED <<vault, share2, row, totp, users, papers, docs, shown, entering, made, mixed, founded, adrift>>

\* The vault file or the keyring entry is lost while all three shares exist
\* and no operation is under way.
Lose(h) ==
    /\ "loss" \in Faults
    /\ \A p \in Procs : job[p] = {}
    /\ vault[h] # NoVault /\ vault[h].line = share2[h] /\ share2[h] \in papers
    /\ \/ vault' = [vault EXCEPT ![h] = NoVault] /\ UNCHANGED share2
       \/ share2' = [share2 EXCEPT ![h] = Nil] /\ UNCHANGED vault
    /\ UNCHANGED <<row, totp, users, papers, docs, shown, entering, job, made, mixed, founded, adrift>>

Start(p) == \E h \in HWIDs :
    \/ _on_setup_confirm(p, h) \/ _on_register(p, h) \/ _on_detect(p, h)
    \/ _on_reject(p, h) \/ _on_delete(p, h) \/ _on_change_role(p, h) \/ rotate_pin(p, h)
    \/ Setup(p, h) \/ _do_reset(p, h) \/ _cmd_recover(p, h)
    \/ \E g \in HWIDs \ {h} : _cmd_takeover(p, h, g)

Continue(p) ==
    \/ CreateFile(p) \/ _save_usb_token(p) \/ InsertToken(p) \/ store_totp_secret_for_hwid(p)
    \/ OpenFirstVault(p) \/ InsertUser(p) \/ RegistrationFails(p)
    \/ EraseTotp(p) \/ delete_usb_token(p) \/ DeleteRow(p) \/ UnlinkVault(p)
    \/ ReplaceVault(p) \/ _hazirlanan_kasayi_dogrula(p) \/ ReprovisionFails(p) \/ _eski_kasayi_geri_yukle(p)
    \/ MarkIssued(p) \/ takeover_usb(p) \/ CopyTotp(p) \/ MoveAccount(p)
    \/ ResetFile(p) \/ SealAnew(p) \/ Kill(p)

Next ==
    \/ \E p \in Procs : Start(p) \/ Continue(p)
    \/ \E h \in HWIDs :
        \/ _on_approve(h) \/ blacklist_usb(h) \/ export_recovery_share(h)
        \/ _on_login(h) \/ EnterSession(h) \/ _trigger_usb_reauth(h) \/ SealDocument(h) \/ Lose(h)

Spec == Init /\ [][Next]_vars

(***************************************************************************)
(* Properties.                                                             *)
(***************************************************************************)
Share(k) ==
    {i \in 1..3 : \/ i = 1 /\ \E h \in HWIDs : vault[h] # NoVault /\ vault[h].line = k
                  \/ i = 2 /\ \E h \in HWIDs : share2[h] = k
                  \/ i = 3 /\ k \in papers}
Abstract == INSTANCE Custody WITH
    Keys <- Lines,
    sealed <- UNION {docs[h] : h \in HWIDs},
    held <- [k \in Lines |-> Share(k)]

\* The key of every sealed document can be put together from two shares after
\* any step of any operation, whichever of them is cut short, and although one
\* share may have been lost before (vault_manager.py: reprovision_vault,
\* discard_vault, recover_master_key).
KeysInCustody == Abstract!Spec

\* Between two operations, finished or cut short, what usb_tokens says of a token
\* that may log in is true: the key check value is the one of its key, and a recovery
\* share that counts as issued is a share of its line, unless the row was completed
\* while a vault it is not the row of lay there (_save_usb_token, _kcv_eksikse_yaz,
\* export_recovery_share, reprovision_vault, authenticate_usb).
RowTellsTheTruth ==
    \A h \in HWIDs \ mixed :
        authenticate_usb(h) /\ ~Busy(h) =>
            /\ row[h].kcv \in {Nil, Key(h)}
            /\ row[h].issued => Key(h) \in papers

\* An account nobody approved comes from the wizard or from setup_usb.py, or
\* else from a registration, a removal or a takeover that is under way or was
\* cut short (session_user.py: sync_session_user).
ProvisionedOnPurpose ==
    [][\A h \in HWIDs : users[h] = "none" /\ users'[h] = "approved" => h \in founded \cup adrift]_vars

\* registration.py:13-17 says this module put an end to accounts nobody
\* approved after a crash between create_vault() and INSERT INTO users.
NobodyProvisioned ==
    [][\A h \in HWIDs : users[h] = "none" /\ users'[h] = "approved" => h \in founded]_vars

\* vault_manager.py:288-293 asks that a key check value is written for a key that is
\* certain only: one of a recovery that is broken off would have the right share
\* refused.
CheckValueIsCertain ==
    \A h \in HWIDs : authenticate_usb(h) /\ ~Busy(h) => row[h].kcv \in {Nil, Key(h)}
=============================================================================
