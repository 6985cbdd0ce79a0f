---------------------------- MODULE SessionLock ----------------------------
(***************************************************************************)
(* The session lock of the main window (UI/main_window_lock.py) and the    *)
(* idle tracker it asks (CORE/idle_lock.py).                               *)
(*                                                                         *)
(* One window, one GUI thread.  A 3 s timer polls the USB port, a 1 s timer *)
(* asks the idle tracker, and the user clicks.  Every slot runs to its end *)
(* before the next one starts, except that a modal dialog runs an event    *)
(* loop of its own: while a PIN is typed the timers go on firing, so the   *)
(* window may be locked again, or handed to another token, behind a dialog *)
(* that is still open.  Meanwhile an administrator, in another process,    *)
(* changes what the database says of a token.                              *)
(*                                                                         *)
(* The code keeps a flag _locked beside the set _lock_reasons; it is TRUE  *)
(* exactly when the set is not empty, and the model keeps the set.         *)
(***************************************************************************)
EXTENDS FiniteSets

CONSTANTS
    Tokens,     \* USB tokens, named by their hardware id
    None,       \* no token, no dialog
    Zero,       \* the key buffer filled with zero bytes
    Faults      \* the kinds of failure the environment may inject

ASSUME NoneAssumption == None \notin Tokens
ASSUME ZeroAssumption == Zero \notin Tokens
ASSUME FaultAssumption == Faults \subseteq {"db", "encrypt"}

VARIABLES
    plugged,    \* get_usb_hwid(): the token in the port, or None
    account,    \* users.status of the row of each token
    token,      \* usb_tokens (and the vault file) of each token
    hwid,       \* _hwid: the token the session belongs to
    reasons,    \* _lock_reasons
    key,        \* _key: the token whose master key the buffer holds, or Zero
    idleOn,     \* IdleTracker.timeout_seconds > 0
    armed,      \* IdleTracker.armed
    overdue,    \* idle_seconds() >= timeout_seconds
    dialog,     \* the modal dialog the user has in front of them
    reauth,     \* the new token whose PIN is asked (_authenticating), or None
    open,       \* a document is checked out and not yet written back
    sealed      \* the token under whose key that document is encrypted

vars == <<plugged, account, token, hwid, reasons, key, idleOn, armed, overdue,
          dialog, reauth, open, sealed>>

Reasons == {"usb", "idle", "manual", "revoked"}
Dialogs == {None, "logout", "idle", "manual"}

Locked == reasons # {}
May(kind) == kind \in Faults

\* oturum_yetkisi_gecerli_mi(): the account is approved, and the token is not
\* blacklisted (a missing usb_tokens row is not asked about).
Authorised(t) == account[t] = "approved" /\ token[t] # "blacklisted"

\* authenticate_usb(), open_vault(): the row is there, and not blacklisted.
VaultOpens(t) == token[t] = "ok"

-----------------------------------------------------------------------------
(* The parts of a step *)

\* _close_all_checkouts() with key k in the buffer: an unchanged document is
\* just closed, a changed one is encrypted with k; the zero key is refused, and
\* then the document stays checked out.
CloseDocuments(k) ==
    \/ open' = FALSE /\ UNCHANGED sealed
    \/ open /\ k # Zero /\ open' = FALSE /\ sealed' = k
    \/ open /\ (k = Zero \/ May("encrypt")) /\ UNCHANGED <<open, sealed>>

\* _lock(): the documents are closed first, then the key is zeroed.  (The other
\* way round, nothing could be written back.)
LockZeroFirst(reason) ==
    /\ reasons' = reasons \cup {reason}
    /\ key' = Zero
    /\ CloseDocuments(Zero)
Lock(reason) ==
    /\ reasons' = reasons \cup {reason}
    /\ CloseDocuments(key)
    /\ key' = Zero

\* _unlock(): one reason goes; the overlay stays while another remains.
LiftAll(reason) == reasons' = {}
Lift(reason) == reasons' = reasons \ {reason}

\* _refill_session_key()
Refill(t) == key' = t

\* The user may start something: no overlay, no dialog.
Free == ~Locked /\ dialog = None /\ reauth = None

-----------------------------------------------------------------------------
(* The world around the window *)

Plug ==
    /\ \E t \in Tokens \cup {None} : t # plugged /\ plugged' = t
    /\ UNCHANGED <<account, token, hwid, reasons, key, idleOn, armed, overdue,
                   dialog, reauth, open, sealed>>

\* blacklist_usb()
Blacklist(t) ==
    /\ token[t] = "ok"
    /\ token' = [token EXCEPT ![t] = "blacklisted"]
    /\ UNCHANGED <<plugged, account, hwid, reasons, key, idleOn, armed, overdue,
                   dialog, reauth, open, sealed>>

\* _unblacklist()
Unblacklist(t) ==
    /\ token[t] = "blacklisted"
    /\ token' = [token EXCEPT ![t] = "ok"]
    /\ UNCHANGED <<plugged, account, hwid, reasons, key, idleOn, armed, overdue,
                   dialog, reauth, open, sealed>>

\* _on_delete(), _on_reject(): the users row goes first ...
DeleteAccount(t) ==
    /\ account[t] # "absent"
    /\ account' = [account EXCEPT ![t] = "absent"]
    /\ UNCHANGED <<plugged, token, hwid, reasons, key, idleOn, armed, overdue,
                   dialog, reauth, open, sealed>>

\* ... then discard_vault() takes the usb_tokens row and the vault file.
DiscardVault(t) ==
    /\ account[t] = "absent" /\ token[t] # "absent"
    /\ token' = [token EXCEPT ![t] = "absent"]
    /\ UNCHANGED <<plugged, account, hwid, reasons, key, idleOn, armed, overdue,
                   dialog, reauth, open, sealed>>

\* _on_approve()
Approve(t) ==
    /\ account[t] = "pending"
    /\ account' = [account EXCEPT ![t] = "approved"]
    /\ UNCHANGED <<plugged, token, hwid, reasons, key, idleOn, armed, overdue,
                   dialog, reauth, open, sealed>>

\* eventFilter(): input counts as activity only while nothing is locked.
Activity ==
    /\ ~Locked /\ overdue
    /\ overdue' = FALSE
    /\ UNCHANGED <<plugged, account, token, hwid, reasons, key, idleOn, armed,
                   dialog, reauth, open, sealed>>

\* The configured minutes pass without any.
TimePasses ==
    /\ idleOn /\ ~overdue
    /\ overdue' = TRUE
    /\ UNCHANGED <<plugged, account, token, hwid, reasons, key, idleOn, armed,
                   dialog, reauth, open, sealed>>

\* reload_idle_timeout(), after the setting was saved; 0 minutes disables.
ReloadTimeout ==
    /\ Free
    /\ idleOn' \in BOOLEAN
    /\ overdue' = FALSE
    /\ UNCHANGED <<plugged, account, token, hwid, reasons, key, armed, dialog,
                   reauth, open, sealed>>

\* check_out(): a document whose key is not the one in the buffer does not
\* decrypt.
OpenDocument ==
    /\ Free /\ ~open /\ key = sealed
    /\ open' = TRUE
    /\ UNCHANGED <<plugged, account, token, hwid, reasons, key, idleOn, armed,
                   overdue, dialog, reauth, sealed>>

\* _on_ctx_close_file(): "Bitir".
FinishDocument ==
    /\ Free /\ open
    /\ CloseDocuments(key)
    /\ UNCHANGED <<plugged, account, token, hwid, reasons, key, idleOn, armed,
                   overdue, dialog, reauth>>

\* _sweep_checkouts(): a timer slot that does not ask whether the window is
\* locked; the document is encrypted and stays open.
Autosave ==
    /\ open /\ key # Zero
    /\ sealed' = key
    /\ UNCHANGED <<plugged, account, token, hwid, reasons, key, idleOn, armed,
                   overdue, dialog, reauth, open>>

-----------------------------------------------------------------------------
(* _poll_usb(), every 3 s; inert while a new token is authenticated *)

\* The poll asked in every case, or between dialogs only.
PollingAlways == TRUE
PollingBetweenDialogs == reauth = None /\ dialog = None
Polling == reauth = None

PollNoToken ==
    /\ Polling /\ plugged = None /\ ~Locked
    /\ Lock("usb")
    /\ UNCHANGED <<plugged, account, token, hwid, idleOn, armed, overdue, dialog, reauth>>

\* _trigger_usb_reauth(): lock, check the new token, ask for its PIN.
PollOtherToken ==
    /\ Polling /\ plugged \notin {None, hwid}
    /\ Lock("usb")
    /\ reauth' = IF VaultOpens(plugged) THEN plugged ELSE None
    /\ UNCHANGED <<plugged, account, token, hwid, idleOn, armed, overdue, dialog>>

\* An authority that is gone locks for good, one that stands lifts "usb".  When
\* the database cannot be read the poll returns and asks again 3 s later, which
\* changes nothing.
PollSameToken ==
    /\ Polling /\ plugged = hwid
    /\ \/ ~Authorised(hwid) /\ Lock("revoked")
       \/ Authorised(hwid) /\ Locked /\ Lift("usb") /\ UNCHANGED <<key, open, sealed>>
    /\ UNCHANGED <<plugged, account, token, hwid, idleOn, armed, overdue, dialog, reauth>>

Poll == PollNoToken \/ PollOtherToken \/ PollSameToken

\* The PIN dialog of _trigger_usb_reauth() is answered.  open_vault() opens the
\* new vault, sync_session_user() creates a missing account as approved.
ReauthSucceeds ==
    /\ reauth # None /\ VaultOpens(reauth)
    /\ account' = [account EXCEPT ![reauth] = IF @ = "absent" THEN "approved" ELSE @]
    /\ hwid' = reauth
    /\ Refill(reauth)
    /\ Lift("usb")
    /\ reauth' = None
    /\ UNCHANGED <<plugged, token, idleOn, armed, overdue, dialog, open, sealed>>

\* No PIN, a wrong one, or an error: the window stays locked.
ReauthFails ==
    /\ reauth # None
    /\ reauth' = None
    /\ UNCHANGED <<plugged, account, token, hwid, reasons, key, idleOn, armed,
                   overdue, dialog, open, sealed>>

-----------------------------------------------------------------------------
(* _tick_idle(), every second, whatever dialog is open *)

\* An early return under the "usb" lock.
IdleDueUnlocked == ~Locked /\ idleOn /\ armed /\ overdue

\* should_lock()
IdleDue == "idle" \notin reasons /\ idleOn /\ armed /\ overdue

TickIdle ==
    /\ IdleDue
    /\ armed' = FALSE
    /\ Lock("idle")
    /\ UNCHANGED <<plugged, account, token, hwid, idleOn, overdue, dialog, reauth>>

-----------------------------------------------------------------------------
(* The user's own locks and unlocks *)

\* ProfileView asks whether to log out ...
AskLogout ==
    /\ Free
    /\ dialog' = "logout"
    /\ UNCHANGED <<plugged, account, token, hwid, reasons, key, idleOn, armed,
                   overdue, reauth, open, sealed>>

\* ... and _on_manual_logout() writes the audit record, then locks: when the
\* record cannot be written the exception leaves the session as it was.
AnswerLogout ==
    /\ dialog = "logout" /\ reauth = None
    /\ dialog' = None
    /\ \/ Lock("manual")
       \/ UNCHANGED <<reasons, key, open, sealed>>
    /\ UNCHANGED <<plugged, account, token, hwid, idleOn, armed, overdue, reauth>>

\* _on_overlay_clicked()
ClickOverlay ==
    /\ dialog = None /\ reauth = None
    /\ \/ "idle" \in reasons /\ dialog' = "idle"
       \/ "idle" \notin reasons /\ "manual" \in reasons /\ dialog' = "manual"
    /\ UNCHANGED <<plugged, account, token, hwid, reasons, key, idleOn, armed,
                   overdue, reauth, open, sealed>>

\* _unlock_idle(), _unlock_manual(): the PIN opens the vault of the session's
\* token, wherever that token is; refill the key, write the audit record (which
\* may fail), re-arm the tracker, lift the reason.
PinAccepted ==
    /\ dialog \in {"idle", "manual"} /\ reauth = None
    /\ VaultOpens(hwid)
    /\ Refill(hwid)
    /\ dialog' = None
    /\ \/ armed' = TRUE /\ overdue' = FALSE /\ Lift(dialog)
       \/ May("db") /\ UNCHANGED <<armed, overdue, reasons>>
    /\ UNCHANGED <<plugged, account, token, hwid, idleOn, reauth, open, sealed>>

PinRefused ==
    /\ dialog \in {"idle", "manual"} /\ reauth = None
    /\ dialog' = None
    /\ UNCHANGED <<plugged, account, token, hwid, reasons, key, idleOn, armed,
                   overdue, reauth, open, sealed>>

-----------------------------------------------------------------------------
\* main.py opens the window for a logged-in, approved token, key in hand.
Init ==
    /\ hwid \in Tokens /\ plugged = hwid /\ key = hwid
    /\ account \in [Tokens -> {"approved", "pending"}] /\ account[hwid] = "approved"
    /\ token = [t \in Tokens |-> "ok"]
    /\ reasons = {}
    /\ idleOn \in BOOLEAN /\ armed = TRUE /\ overdue = FALSE
    /\ dialog = None /\ reauth = None
    /\ open = FALSE /\ sealed \in Tokens

World ==
    \/ Plug \/ Activity \/ TimePasses \/ ReloadTimeout
    \/ OpenDocument \/ FinishDocument \/ Autosave
    \/ \E t \in Tokens :
        Blacklist(t) \/ Unblacklist(t) \/ DeleteAccount(t) \/ DiscardVault(t) \/ Approve(t)

User ==
    \/ ReauthSucceeds \/ ReauthFails
    \/ AskLogout \/ AnswerLogout \/ ClickOverlay \/ PinAccepted \/ PinRefused

Next == World \/ Poll \/ TickIdle \/ User

Spec == Init /\ [][Next]_vars

\* QTimer keeps both timers running for the life of the window, in every
\* (nested) event loop; nobody is obliged to plug, type or click.
FairSpec == Spec /\ WF_vars(Poll) /\ WF_vars(TickIdle)
-----------------------------------------------------------------------------
(* Properties *)

TypeOK ==
    /\ plugged \in Tokens \cup {None}
    /\ account \in [Tokens -> {"approved", "pending", "absent"}]
    /\ token \in [Tokens -> {"ok", "blacklisted", "absent"}]
    /\ hwid \in Tokens
    /\ reasons \in SUBSET Reasons
    /\ key \in Tokens \cup {Zero}
    /\ idleOn \in BOOLEAN /\ armed \in BOOLEAN /\ overdue \in BOOLEAN
    /\ dialog \in Dialogs
    /\ reauth \in Tokens \cup {None}
    /\ open \in BOOLEAN
    /\ sealed \in Tokens

\* The key in memory is never that of another token than the session's, also
\* when the token was changed behind an open PIN dialog.  (_lock,
\* _refill_session_key, _trigger_usb_reauth)
KeyMatchesToken == key \in {Zero, hwid}

\* The idle tracker is disarmed only while its own lock is up: no order of
\* locks and unlocks leaves a session in which idling is no longer noticed.
\* (_tick_idle disarms, _unlock_idle and _unlock_manual re-arm.)
IdleStaysArmed == armed \/ "idle" \in reasons

\* While a new token is authenticated, which stops the poll, the "usb" lock is
\* up: no unlocked session is ever without its poll.
ReauthBehindLock == reauth # None => "usb" \in reasons

\* A session that locks leaves no document checked out behind the overlay, as
\* long as encryption itself does not fail.  (_lock closes them before it
\* zeroes the key they are closed with.)
NoDocumentBehindLock == "encrypt" \notin Faults /\ Locked => ~open

\* What is open was decrypted with the key in the buffer.
OpenMatchesKey == "encrypt" \notin Faults /\ open => key = sealed

\* The inductive invariant.
IInv ==
    /\ TypeOK
    /\ KeyMatchesToken
    /\ IdleStaysArmed
    /\ ReauthBehindLock
    /\ NoDocumentBehindLock
    /\ OpenMatchesKey

\* No document is written back under the key of another user than the one it
\* was opened for, however the session changes hands.
SealedKeyStays == [][sealed' = sealed]_vars

\* Every lock reason has its own way out and no other step lifts it: "usb" the
\* session's authorised token back in the port or a new token's PIN, "idle" and
\* "manual" the PIN asked for that very reason, "revoked" none.  ("if the USB is
\* reinserted while the session is idle-locked, the session stays locked")
OwnWayOut ==
    [][\A r \in reasons \ reasons' :
        \/ r = "usb" /\ (reauth # None \/ (plugged = hwid /\ Authorised(hwid)))
        \/ r \in {"idle", "manual"} /\ dialog = r /\ reauth = None]_vars

\* A token pulled from an unlocked session locks it, unless it is back.
PulledTokenLocks ==
    (plugged = None /\ ~Locked) ~> (Locked \/ plugged # None)

\* A session whose token lost its authority in the database, also one that was
\* switched to a token without it, is locked, unless the token leaves or its
\* authority is given back.
LostAuthorityLocks ==
    \A t \in Tokens :
        (~Locked /\ hwid = t /\ plugged = t /\ ~Authorised(t))
            ~> (Locked \/ hwid # t \/ plugged # t \/ Authorised(t))

\* An idle session is idle-locked, whatever other lock or dialog is up.
IdleSessionLocks ==
    (idleOn /\ overdue) ~> ("idle" \in reasons \/ ~overdue \/ ~idleOn)

-----------------------------------------------------------------------------
(* What tests and comments say of the code, and the code does not keep         *)

\* The test of B-130 calls a session that goes on with the zero key locked for
\* good; _LOCK_MESSAGES promises that the session goes on by itself when the
\* same USB is back.  (_poll_usb lifts "usb" and refills nothing.)
UnlockedHasKey == ~Locked => key # Zero

\* B-130: behind the overlay the key does not stay in memory.  (A PIN that lifts
\* one of two reasons refills it all the same.)
LockedKeyIsZero == Locked => key = Zero
=============================================================================
