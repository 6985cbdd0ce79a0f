----------------------------- MODULE MCSession -----------------------------
(***************************************************************************)
(* The two guards of a session, side by side: the lock of its window and   *)
(* the guard of its login.  Each behaviour is one of them; they touch no   *)
(* state of each other.                                                    *)
(***************************************************************************)
EXTENDS SessionLock, Integers, Sequences, TLC

CONSTANTS
    a, b,                                   \* tokens
    Procs, MaxAttempts, Backoff, MaxNow, MaxBack     \* the login

\* Some attempts are free, and every entry of BACKOFF_SECONDS is a time to wait.
ASSUME LoginAssumption ==
    /\ MaxAttempts \in Nat \ {0}
    /\ Backoff \in Seq(Nat \ {0}) /\ Len(Backoff) > 0
    /\ MaxNow \in Nat /\ MaxBack \in Nat

VARIABLES
    part,
    now, back, count, until, son, window, greyed, job, taken, wrong, last

MCTokens == {a, b}
MCBackoff == <<1, 2>>

Guard == INSTANCE LoginGuard

guardVars == <<now, back, count, until, son, window, greyed, job, taken, wrong, last>>
all == <<part, vars, guardVars>>

MCInit ==
    /\ part \in {"lock", "login"}
    /\ Init
    /\ part # "lock" => hwid = a /\ account[b] = "approved" /\ ~idleOn /\ sealed = a
    /\ Guard!Init

InLock(A) == part = "lock" /\ A /\ UNCHANGED <<part, guardVars>>
InGuard(A) == part = "login" /\ A /\ UNCHANGED <<part, vars>>

MCNext == InLock(Next) \/ InGuard(Guard!Next)

\* The fairness of each part, while it is the one that runs.
MCSpec ==
    /\ MCInit /\ [][MCNext]_all
    /\ WF_all(InLock(Poll)) /\ WF_all(InLock(TickIdle))
    /\ WF_all(InGuard(Guard!Clock))
    /\ \A p \in Procs : SF_all(InGuard(Guard!_tick_lockout(p))) /\ WF_all(InGuard(Guard!Proceed(p)))
-----------------------------------------------------------------------------
\* The code of a step opens one gate, once, in one process (totp_guard.py).
NoCodeTwice == part = "login" => Guard!NoCodeTwice
\* No guess is looked at before the lock of the last one is over (rate_limit.py).
WaitedOut == Guard!WaitedOut
\* A greyed form comes back by itself (login_dialog.py: _tick_lockout).
FormComesBack == Guard!FormComesBack
=============================================================================
