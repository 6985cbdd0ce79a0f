----------------------------- MODULE LoginGuard -----------------------------
(***************************************************************************)
(* The guards of the secrets a user types: the attempt counter of          *)
(* CORE/rate_limit.py, the replay guard of CORE/totp_guard.py, and their   *)
(* callers: the login and the registration form of UI/login_dialog.py, the *)
(* forced new PIN (UI/PinRotationDialog.py) and the downloads of           *)
(* UI/main_window_files.py, main_window_tree.py and main_window_bulk.py.   *)
(*                                                                         *)
(* Both guards keep their state in the database and read it in one         *)
(* statement and write it in another.  Time is counted in steps of the     *)
(* one-time code (30 s); a code is named by the step it belongs to.        *)
(***************************************************************************)
EXTENDS Integers, Sequences

CONSTANTS
    Procs,          \* windows of the application on one token
    MaxAttempts,    \* MAX_ATTEMPTS
    Backoff,        \* BACKOFF_SECONDS
    MaxNow,         \* bound: no attempt begins after this step
    MaxBack         \* bound: how often the clock is set back

VARIABLES
    now,            \* the clock of the machine
    back,           \* set-backs of the clock so far
    count, until,   \* table login_attempts: fail_count and locked_until (0: NULL)
    son,            \* totp_replay_guard.son_adim (0: no row)
    window,         \* what each process shows
    greyed,         \* LoginDialog._locked_out
    job,            \* the check each process is in the middle of
    taken,          \* how often the code of a step was accepted
    wrong,          \* wrong answers shown since the row of login_attempts went
    last            \* when the last of them was shown

vars == <<now, back, count, until, son, window, greyed, job, taken, wrong, last>>

\* _rl_key() and _referans_rl_key().
Keys == {"login", "reference"}
Pins == {"right", "short", "wrong"}
Places == {"code", "accept", "count", "store", "rotate", "clear"}
Job == [gate : {"login", "register", "download"}, at : Places, key : Keys, pin : Pins, code : Nat, read : Nat]

TypeOK ==
    /\ now \in Nat /\ back \in 0..MaxBack
    /\ count \in [Keys -> Nat] /\ until \in [Keys -> Nat]
    /\ son \in Nat
    /\ window \in [Procs -> {"off", "form", "session"}]
    /\ greyed \in [Procs -> BOOLEAN]
    /\ job \in [Procs -> SUBSET Job]
    /\ \A p \in Procs : \A i, j \in job[p] : i = j
    /\ taken \in [1..MaxNow + 1 -> Nat]
    /\ wrong \in [Keys -> Nat] /\ last \in [Keys -> Nat]

Init ==
    /\ now = 1 /\ back = 0
    /\ count = [k \in Keys |-> 0] /\ until = [k \in Keys |-> 0]
    /\ son = 0
    /\ window = [p \in Procs |-> "off"]
    /\ greyed = [p \in Procs |-> FALSE]
    /\ job = [p \in Procs |-> {}]
    /\ taken = [c \in 1..MaxNow + 1 |-> 0]
    /\ wrong = [k \in Keys |-> 0] /\ last = [k \in Keys |-> 0]

backoff_for(n) ==
    IF n < MaxAttempts THEN 0
    ELSE LET level == n - MaxAttempts + 1 IN Backoff[IF level > Len(Backoff) THEN Len(Backoff) ELSE level]

\* check(): what is left of the lock.
check(k) == until[k] > now

Goto(p, j, at) == job' = [job EXCEPT ![p] = {[j EXCEPT !.at = at]}]
End(p) == job' = [job EXCEPT ![p] = {}]
At(p, at) == {j \in job[p] : j.at = at}
Idle(p) == job[p] = {}

Begin(p, gate, at, key, pin, code) ==
    /\ now <= MaxNow
    /\ job' = [job EXCEPT ![p] = {[gate |-> gate, at |-> at, key |-> key, pin |-> pin, code |-> code, read |-> 0]}]

(***************************************************************************)
(* The forms.                                                              *)
(***************************************************************************)
LoginDialog(p) ==
    /\ window[p] = "off"
    /\ window' = [window EXCEPT ![p] = "form"]
    /\ greyed' = [greyed EXCEPT ![p] = FALSE]
    /\ UNCHANGED <<now, back, count, until, son, job, taken, wrong, last>>

\* The window is closed, or the process dies in the middle of a check.
Quit(p) ==
    /\ window[p] # "off"
    /\ window' = [window EXCEPT ![p] = "off"]
    /\ End(p)
    /\ UNCHANGED <<now, back, count, until, son, greyed, taken, wrong, last>>

\* The lock is looked up on every attempt; a form that is greyed already does
\* nothing.  The code is checked whether or not the PIN opened the vault; a vault
\* that was tampered with, or a blacklisted token, ends the attempt uncounted.
_on_login(p) ==
    /\ window[p] = "form" /\ Idle(p)
    /\ IF check("login") THEN greyed' = [greyed EXCEPT ![p] = TRUE] /\ UNCHANGED job
       ELSE /\ ~greyed[p]
            /\ \E pin \in Pins, code \in {0} \cup (1..MaxNow) : Begin(p, "login", "code", "login", pin, code)
            /\ UNCHANGED greyed
    /\ UNCHANGED <<now, back, count, until, son, window, taken, wrong, last>>

\* Mutant: the form comes back only when a login has removed the lock.
TickCleared(p) ==
    /\ greyed[p] /\ window[p] = "form" /\ Idle(p) /\ until["login"] = 0
    /\ greyed' = [greyed EXCEPT ![p] = FALSE]
    /\ UNCHANGED <<now, back, count, until, son, window, job, taken, wrong, last>>
_tick_lockout(p) ==
    /\ greyed[p] /\ window[p] = "form" /\ Idle(p)
    /\ ~check("login")
    /\ greyed' = [greyed EXCEPT ![p] = FALSE]
    /\ UNCHANGED <<now, back, count, until, son, window, job, taken, wrong, last>>

\* The reference code of an organisation has a counter of its own.
_on_register(p) ==
    /\ window[p] = "form" /\ Idle(p)
    /\ ~check("reference")
    /\ \/ Begin(p, "register", "count", "reference", "wrong", 0)
       \/ Begin(p, "register", "clear", "reference", "right", 0)
    /\ UNCHANGED <<now, back, count, until, son, window, greyed, taken, wrong, last>>

\* A download asks for a code, and counts nothing.
_on_ctx_download(p) ==
    /\ window[p] = "session" /\ Idle(p)
    /\ \E code \in {0} \cup (1..MaxNow) : Begin(p, "download", "code", "login", "right", code)
    /\ UNCHANGED <<now, back, count, until, son, window, greyed, taken, wrong, last>>

(***************************************************************************)
(* verify_totp_no_replay().                                                *)
(***************************************************************************)
\* Mutant: only the same step is refused, not an older one.
FreshOther(code) == code \in now - 1..now + 1 /\ code > 0 /\ code # son
\* valid_window=1, and a step later than the last one accepted.
_eslesen_adimi_bul(code) == code \in now - 1..now + 1 /\ code > 0 /\ code > son

ReadStep(p) == \E j \in At(p, "code") :
    /\ CASE _eslesen_adimi_bul(j.code) -> Goto(p, j, "accept")
         [] ~_eslesen_adimi_bul(j.code) /\ j.gate = "login" -> Goto(p, j, "count")
         [] OTHER -> End(p)
    /\ UNCHANGED <<now, back, count, until, son, window, greyed, taken, wrong, last>>

\* The code is spent although the PIN may be wrong, or the account pending.
verify_totp_no_replay(p) == \E j \in At(p, "accept") :
    /\ son' = j.code
    /\ taken' = [taken EXCEPT ![j.code] = @ + 1]
    /\ \/ j.gate = "login" /\ j.pin = "wrong" /\ Goto(p, j, "count")
       \/ j.gate = "login" /\ j.pin = "short" /\ Goto(p, j, "rotate")
       \/ j.gate = "login" /\ j.pin = "right" /\ Goto(p, j, "clear")
       \/ j.gate = "login" /\ j.pin # "wrong" /\ End(p)
       \/ j.gate = "download" /\ End(p)
    /\ UNCHANGED <<now, back, count, until, window, greyed, wrong, last>>

\* A PIN of the old length: without a new one there is no login.
_zorunlu_pin_yenileme(p) == \E j \in At(p, "rotate") :
    /\ Goto(p, j, "clear") \/ End(p)
    /\ UNCHANGED <<now, back, count, until, son, window, greyed, taken, wrong, last>>

(***************************************************************************)
(* record_failure() and record_success().                                  *)
(***************************************************************************)
ReadCount(p) == \E j \in At(p, "count") :
    /\ job' = [job EXCEPT ![p] = {[j EXCEPT !.at = "store", !.read = count[j.key]]}]
    /\ UNCHANGED <<now, back, count, until, son, window, greyed, taken, wrong, last>>

\* Mutant: the lock of the failures before this one.
LockedFrom(n) == IF backoff_for(n - 1) = 0 THEN 0 ELSE now + backoff_for(n - 1)
locked_until(n) == IF backoff_for(n) = 0 THEN 0 ELSE now + backoff_for(n)

record_failure(p) == \E j \in At(p, "store") :
    LET n == j.read + 1 IN
    /\ count' = [count EXCEPT ![j.key] = n]
    /\ until' = [until EXCEPT ![j.key] = locked_until(n)]
    /\ wrong' = [wrong EXCEPT ![j.key] = @ + 1]
    /\ last' = [last EXCEPT ![j.key] = now]
    /\ greyed' = [greyed EXCEPT ![p] = @ \/ (j.key = "login" /\ backoff_for(n) # 0)]
    /\ End(p)
    /\ UNCHANGED <<now, back, son, window, taken>>

record_success(p) == \E j \in At(p, "clear") :
    /\ count' = [count EXCEPT ![j.key] = 0]
    /\ until' = [until EXCEPT ![j.key] = 0]
    /\ wrong' = [wrong EXCEPT ![j.key] = 0]
    /\ last' = [last EXCEPT ![j.key] = 0]
    /\ window' = IF j.gate = "login" THEN [window EXCEPT ![p] = "session"] ELSE window
    /\ End(p)
    /\ UNCHANGED <<now, back, son, greyed, taken>>

(***************************************************************************)
(* The clock goes on as long as a lock lasts; it may be set back.          *)
(***************************************************************************)
Clock ==
    /\ now < MaxNow \/ \E k \in Keys : check(k)
    /\ now' = now + 1
    /\ UNCHANGED <<back, count, until, son, window, greyed, job, taken, wrong, last>>

SetBack ==
    /\ back < MaxBack /\ now > 1
    /\ back' = back + 1
    /\ now' = now - 1
    /\ UNCHANGED <<count, until, son, window, greyed, job, taken, wrong, last>>

Proceed(p) ==
    \/ ReadStep(p) \/ verify_totp_no_replay(p) \/ _zorunlu_pin_yenileme(p)
    \/ ReadCount(p) \/ record_failure(p) \/ record_success(p)

Next ==
    \/ \E p \in Procs :
        \/ LoginDialog(p) \/ Quit(p) \/ _on_login(p) \/ _tick_lockout(p) \/ _on_register(p) \/ _on_ctx_download(p)
        \/ Proceed(p)
    \/ Clock \/ SetBack

Spec == Init /\ [][Next]_vars

\* Time passes, a check that has begun goes on, and the timer of a greyed form
\* fires every second the event loop is idle, whatever its owner does in between.
FairSpec == Spec /\ WF_vars(Clock) /\ \A p \in Procs : SF_vars(_tick_lockout(p)) /\ WF_vars(Proceed(p))

(***************************************************************************)
(* Properties.                                                             *)
(***************************************************************************)
\* The code of a step opens one gate, once: not a second login, nor a download,
\* nor after the clock was set back or the application started again
\* (totp_guard.py).  True of one process: the step is read in one statement and
\* written in another.
NoCodeTwice == \A c \in DOMAIN taken : taken[c] <= 1

\* After enough wrong answers no guess is looked at before the lock of the last
\* one is over, also when the application was closed in between, and a guess at
\* the reference code never shortens the lock of the login (rate_limit.py).
WaitedOut ==
    [][\A p \in Procs : \A j \in job'[p] :
        Idle(p) /\ j.gate # "download" /\ backoff_for(wrong[j.key]) > 0
            => now >= last[j.key] + backoff_for(wrong[j.key])]_vars

\* A greyed form comes back by itself: waiting is enough, blocked attempts and a
\* clock set back only delay it (login_dialog.py: _tick_lockout).
FormComesBack == \A p \in Procs : greyed[p] /\ window[p] = "form" ~> ~greyed[p] \/ window[p] # "form"
=============================================================================
