--------------------------- MODULE SessionProofs ----------------------------
(***************************************************************************)
(* Proofs about the two guards of MCSession.                               *)
(*                                                                         *)
(* SessionLock, for every set of tokens: the invariant IInv, and the two   *)
(* action properties that follow from it.                                  *)
(*                                                                         *)
(* LoginGuard, whatever the limits are and however often the clock is set  *)
(* back: one window accepts the code of a step once, and no guess is       *)
(* looked at before the lock of the one before is over.                    *)
(***************************************************************************)
EXTENDS MCSession, TLAPS

\* The steps that leave the lock, the key and the tracker alone.
LEMMA WorldQuiet ==
    ASSUME TypeOK, World
    PROVE  /\ TypeOK'
           /\ UNCHANGED <<hwid, reasons, key, armed, dialog, reauth>>
<1>1. CASE Plug
  BY <1>1 DEF Plug, TypeOK
<1>2. CASE Activity
  BY <1>2 DEF Activity, TypeOK
<1>3. CASE TimePasses
  BY <1>3 DEF TimePasses, TypeOK
<1>4. CASE ReloadTimeout
  BY <1>4 DEF ReloadTimeout, TypeOK
<1>5. CASE OpenDocument
  BY <1>5 DEF OpenDocument, TypeOK
<1>6. CASE FinishDocument
  BY <1>6 DEF FinishDocument, CloseDocuments, TypeOK
<1>7. CASE Autosave
  BY <1>7 DEF Autosave, TypeOK
<1>8. ASSUME NEW t \in Tokens,
             Blacklist(t) \/ Unblacklist(t) \/ DeleteAccount(t) \/ DiscardVault(t) \/ Approve(t)
      PROVE  /\ TypeOK'
             /\ UNCHANGED <<hwid, reasons, key, armed, dialog, reauth>>
  BY <1>8 DEF Blacklist, Unblacklist, DeleteAccount, DiscardVault, Approve, TypeOK
<1> QED BY <1>1, <1>2, <1>3, <1>4, <1>5, <1>6, <1>7, <1>8 DEF World

\* The document: open only under its own key, and never behind a lock.
DocumentSafe == NoDocumentBehindLock /\ OpenMatchesKey

\* Closing the documents with the key in the buffer keeps `sealed', and nothing
\* is left open: the key that closes a document is the one that opened it.
LEMMA ClosingIsSafe ==
    ASSUME TypeOK, DocumentSafe, CloseDocuments(key), "encrypt" \notin Faults
    PROVE  open' = FALSE /\ sealed' = sealed
BY ZeroAssumption DEF TypeOK, DocumentSafe, NoDocumentBehindLock, OpenMatchesKey,
                      CloseDocuments, May

\* _lock(), whatever the reason, is safe for the key and the document.
LEMMA LockIsSafe ==
    ASSUME TypeOK, DocumentSafe, NEW r \in Reasons, Lock(r)
    PROVE  /\ reasons' = reasons \cup {r} /\ reasons' \in SUBSET Reasons
           /\ key' = Zero
           /\ open' \in BOOLEAN /\ sealed' \in Tokens
           /\ DocumentSafe'
           /\ "encrypt" \notin Faults => sealed' = sealed
<1>1. CASE "encrypt" \in Faults
  BY <1>1 DEF Lock, CloseDocuments, TypeOK, DocumentSafe, NoDocumentBehindLock, OpenMatchesKey
<1>2. CASE "encrypt" \notin Faults
  <2>1. open' = FALSE /\ sealed' = sealed
    BY <1>2, ClosingIsSafe DEF Lock
  <2> QED BY <2>1 DEF Lock, TypeOK, DocumentSafe, NoDocumentBehindLock, OpenMatchesKey
<1> QED BY <1>1, <1>2

\* The initial states.
LEMMA InitIInv == Init => IInv
BY DEF Init, IInv, TypeOK, KeyMatchesToken, IdleStaysArmed, ReauthBehindLock,
       NoDocumentBehindLock, OpenMatchesKey, Locked, Dialogs, Reasons

\* The environment's and the document's steps keep the document safe.
LEMMA WorldDocument ==
    ASSUME TypeOK, DocumentSafe, World
    PROVE  /\ DocumentSafe'
           /\ "encrypt" \notin Faults => sealed' = sealed
<1>0. UNCHANGED <<reasons, key>>
  BY WorldQuiet
<1>1. CASE UNCHANGED <<open, sealed>>
  BY <1>0, <1>1 DEF DocumentSafe, NoDocumentBehindLock, OpenMatchesKey, Locked
<1>2. CASE OpenDocument
  BY <1>2 DEF OpenDocument, Free, DocumentSafe, NoDocumentBehindLock, OpenMatchesKey, Locked
<1>3. CASE FinishDocument
  BY <1>0, <1>3, ClosingIsSafe
     DEF FinishDocument, DocumentSafe, NoDocumentBehindLock, OpenMatchesKey
<1>4. CASE Autosave
  BY <1>4 DEF Autosave, DocumentSafe, NoDocumentBehindLock, OpenMatchesKey, Locked
<1> QED BY <1>1, <1>2, <1>3, <1>4
        DEF World, Plug, Activity, TimePasses, ReloadTimeout, Blacklist, Unblacklist,
            DeleteAccount, DiscardVault, Approve

\* Every step keeps IInv.
LEMMA NextIInv == IInv /\ [Next]_vars => IInv'
<1> SUFFICES ASSUME IInv, [Next]_vars PROVE IInv'
  OBVIOUS
<1>a. TypeOK /\ DocumentSafe /\ KeyMatchesToken /\ IdleStaysArmed /\ ReauthBehindLock
  BY DEF IInv, DocumentSafe
<1>b. ASSUME TypeOK', DocumentSafe', KeyMatchesToken', IdleStaysArmed', ReauthBehindLock'
      PROVE  IInv'
  BY <1>b DEF IInv, DocumentSafe
<1>1. CASE UNCHANGED vars
  BY <1>1 DEF vars, IInv, TypeOK, KeyMatchesToken, IdleStaysArmed, ReauthBehindLock,
              NoDocumentBehindLock, OpenMatchesKey, Locked
<1>2. CASE World
  <2>1. TypeOK' /\ UNCHANGED <<hwid, reasons, key, armed, dialog, reauth>>
    BY <1>a, <1>2, WorldQuiet
  <2>2. DocumentSafe'
    BY <1>a, <1>2, WorldDocument
  <2>3. KeyMatchesToken' /\ IdleStaysArmed' /\ ReauthBehindLock'
    BY <1>a, <2>1 DEF KeyMatchesToken, IdleStaysArmed, ReauthBehindLock
  <2> QED BY <1>b, <2>1, <2>2, <2>3
<1>3. CASE Poll
  <2>1. CASE PollNoToken
    <3>1. Lock("usb") /\ "usb" \in Reasons
      BY <2>1 DEF PollNoToken, Reasons
    <3>2. TypeOK'
      BY <1>a, <2>1, <3>1, LockIsSafe DEF PollNoToken, TypeOK
    <3>3. KeyMatchesToken' /\ IdleStaysArmed' /\ ReauthBehindLock'
      BY <1>a, <2>1, <3>1, LockIsSafe
         DEF PollNoToken, KeyMatchesToken, IdleStaysArmed, ReauthBehindLock
    <3> QED BY <1>a, <1>b, <3>1, <3>2, <3>3, LockIsSafe
  <2>2. CASE PollOtherToken
    <3>1. Lock("usb") /\ "usb" \in Reasons
      BY <2>2 DEF PollOtherToken, Reasons
    <3>2. TypeOK'
      BY <1>a, <2>2, <3>1, LockIsSafe DEF PollOtherToken, TypeOK
    <3>3. KeyMatchesToken' /\ IdleStaysArmed' /\ ReauthBehindLock'
      BY <1>a, <2>2, <3>1, LockIsSafe
         DEF PollOtherToken, KeyMatchesToken, IdleStaysArmed, ReauthBehindLock
    <3> QED BY <1>a, <1>b, <3>1, <3>2, <3>3, LockIsSafe
  <2>3. CASE PollSameToken /\ Lock("revoked")
    <3>1. "revoked" \in Reasons
      BY DEF Reasons
    <3>2. TypeOK'
      BY <1>a, <2>3, <3>1, LockIsSafe DEF PollSameToken, TypeOK
    <3>3. KeyMatchesToken' /\ IdleStaysArmed' /\ ReauthBehindLock'
      BY <1>a, <2>3, <3>1, LockIsSafe
         DEF PollSameToken, KeyMatchesToken, IdleStaysArmed, ReauthBehindLock
    <3> QED BY <1>a, <1>b, <2>3, <3>1, <3>2, <3>3, LockIsSafe
  <2>4. CASE PollSameToken /\ Locked /\ Lift("usb") /\ UNCHANGED <<key, open, sealed>>
    <3>1. TypeOK'
      BY <1>a, <2>4 DEF PollSameToken, Lift, TypeOK
    <3>2. KeyMatchesToken' /\ IdleStaysArmed'
      BY <1>a, <2>4 DEF PollSameToken, Lift, KeyMatchesToken, IdleStaysArmed
    <3>3. ReauthBehindLock'
      BY <1>a, <2>4 DEF PollSameToken, Polling, ReauthBehindLock
    <3>4. DocumentSafe'
      BY <1>a, <2>4
         DEF Lift, DocumentSafe, NoDocumentBehindLock, OpenMatchesKey, Locked
    <3> QED BY <1>b, <3>1, <3>2, <3>3, <3>4
  <2> QED BY <1>3, <2>1, <2>2, <2>3, <2>4 DEF Poll, PollSameToken
<1>4. CASE TickIdle
  <2>1. Lock("idle") /\ "idle" \in Reasons
    BY <1>4 DEF TickIdle, Reasons
  <2>2. TypeOK'
    BY <1>a, <1>4, <2>1, LockIsSafe DEF TickIdle, TypeOK
  <2>3. KeyMatchesToken' /\ IdleStaysArmed' /\ ReauthBehindLock'
    BY <1>a, <1>4, <2>1, LockIsSafe
       DEF TickIdle, KeyMatchesToken, IdleStaysArmed, ReauthBehindLock
  <2> QED BY <1>a, <1>b, <2>1, <2>2, <2>3, LockIsSafe
<1>5. CASE ReauthSucceeds
  \* The "usb" lock is up, so no document is open under the old key.
  <2>1. TypeOK'
    BY <1>a, <1>5 DEF ReauthSucceeds, Refill, Lift, TypeOK
  <2>2. KeyMatchesToken' /\ IdleStaysArmed' /\ ReauthBehindLock'
    BY <1>a, <1>5 DEF ReauthSucceeds, Refill, Lift, KeyMatchesToken, IdleStaysArmed,
                      ReauthBehindLock
  <2>3. DocumentSafe'
    BY <1>a, <1>5 DEF ReauthSucceeds, ReauthBehindLock, DocumentSafe,
                      NoDocumentBehindLock, OpenMatchesKey, Locked, TypeOK
  <2> QED BY <1>b, <2>1, <2>2, <2>3
<1>6. CASE ReauthFails
  BY <1>a, <1>b, <1>6
     DEF ReauthFails, TypeOK, KeyMatchesToken, IdleStaysArmed, ReauthBehindLock,
         DocumentSafe, NoDocumentBehindLock, OpenMatchesKey, Locked
<1>7. CASE AskLogout
  BY <1>a, <1>b, <1>7
     DEF AskLogout, TypeOK, KeyMatchesToken, IdleStaysArmed, ReauthBehindLock, Dialogs,
         DocumentSafe, NoDocumentBehindLock, OpenMatchesKey, Locked
<1>8. CASE AnswerLogout
  <2>0. None \in Dialogs /\ "manual" \in Reasons
    BY DEF Dialogs, Reasons
  <2>1. CASE Lock("manual")
    <3>1. TypeOK'
      BY <1>a, <1>8, <2>0, <2>1, LockIsSafe DEF AnswerLogout, TypeOK
    <3>2. KeyMatchesToken' /\ IdleStaysArmed' /\ ReauthBehindLock'
      BY <1>a, <1>8, <2>0, <2>1, LockIsSafe
         DEF AnswerLogout, KeyMatchesToken, IdleStaysArmed, ReauthBehindLock
    <3> QED BY <1>a, <1>b, <2>0, <2>1, <3>1, <3>2, LockIsSafe
  <2>2. CASE UNCHANGED <<reasons, key, open, sealed>>
    BY <1>a, <1>b, <1>8, <2>0, <2>2
       DEF AnswerLogout, TypeOK, KeyMatchesToken, IdleStaysArmed, ReauthBehindLock,
           DocumentSafe, NoDocumentBehindLock, OpenMatchesKey, Locked
  <2> QED BY <1>8, <2>1, <2>2 DEF AnswerLogout
<1>9. CASE ClickOverlay
  BY <1>a, <1>b, <1>9
     DEF ClickOverlay, TypeOK, KeyMatchesToken, IdleStaysArmed, ReauthBehindLock, Dialogs,
         DocumentSafe, NoDocumentBehindLock, OpenMatchesKey, Locked
<1>10. CASE PinAccepted
  <2>1. key' = hwid /\ hwid' = hwid /\ reauth' = reauth /\ reauth = None
        /\ UNCHANGED <<open, sealed>>
    BY <1>10 DEF PinAccepted, Refill
  <2>2. \/ armed' = TRUE /\ reasons' = reasons \ {dialog}
        \/ UNCHANGED <<armed, reasons>>
    BY <1>10 DEF PinAccepted, Lift
  <2>3. TypeOK'
    BY <1>a, <1>10, <2>1, <2>2 DEF PinAccepted, TypeOK, Dialogs
  <2>4. KeyMatchesToken' /\ IdleStaysArmed' /\ ReauthBehindLock'
    BY <1>a, <2>1, <2>2 DEF KeyMatchesToken, IdleStaysArmed, ReauthBehindLock
  <2>5. DocumentSafe'
    <3>1. NoDocumentBehindLock'
      BY <1>a, <2>1, <2>2 DEF DocumentSafe, NoDocumentBehindLock, Locked
    <3>2. open /\ "encrypt" \notin Faults => key = hwid
      BY <1>a, ZeroAssumption DEF DocumentSafe, OpenMatchesKey, KeyMatchesToken, TypeOK
    <3>3. OpenMatchesKey'
      BY <1>a, <2>1, <3>2 DEF DocumentSafe, OpenMatchesKey
    <3> QED BY <3>1, <3>3 DEF DocumentSafe
  <2> QED BY <1>b, <2>3, <2>4, <2>5
<1>11. CASE PinRefused
  BY <1>a, <1>b, <1>11
     DEF PinRefused, TypeOK, KeyMatchesToken, IdleStaysArmed, ReauthBehindLock, Dialogs,
         DocumentSafe, NoDocumentBehindLock, OpenMatchesKey, Locked
<1> QED BY <1>1, <1>2, <1>3, <1>4, <1>5, <1>6, <1>7, <1>8, <1>9, <1>10, <1>11
        DEF Next, User

\* IInv holds in every reachable state.  (_lock, _unlock, _refill_session_key,
\* _poll_usb and the PIN dialogs, in any order)
THEOREM Invariance == Spec => []IInv
<1>1. Init => IInv
  BY InitIInv
<1>2. IInv /\ [Next]_vars => IInv'
  BY NextIInv
<1> QED BY <1>1, <1>2, PTL DEF Spec

\* The variables keep their types.
THEOREM TypeCorrect == Spec => []TypeOK
<1>1. IInv => TypeOK
  BY DEF IInv
<1> QED BY <1>1, Invariance, PTL

\* The key buffer never holds the key of another token than the session's.
THEOREM KeySafe == Spec => []KeyMatchesToken
<1>1. IInv => KeyMatchesToken
  BY DEF IInv
<1> QED BY <1>1, Invariance, PTL

\* The idle tracker is disarmed only under its own lock.
THEOREM TrackerSafe == Spec => []IdleStaysArmed
<1>1. IInv => IdleStaysArmed
  BY DEF IInv
<1> QED BY <1>1, Invariance, PTL

\* A locked session has no document checked out, unless encryption can fail.
THEOREM LockCloses == Spec => []NoDocumentBehindLock
<1>1. IInv => NoDocumentBehindLock
  BY DEF IInv
<1> QED BY <1>1, Invariance, PTL

\* As long as encryption does not fail, no document is ever written back under
\* another user's key, however often the session changes hands.
THEOREM SealedSafe == ASSUME "encrypt" \notin Faults
                      PROVE  Spec => SealedKeyStays
<1>1. IInv /\ [Next]_vars => sealed' = sealed
  <2> SUFFICES ASSUME IInv, [Next]_vars PROVE sealed' = sealed
    OBVIOUS
  <2>a. TypeOK /\ DocumentSafe
    BY DEF IInv, DocumentSafe
  <2>b. "usb" \in Reasons /\ "idle" \in Reasons /\ "manual" \in Reasons /\ "revoked" \in Reasons
    BY DEF Reasons
  <2>1. CASE World
    BY <2>1, <2>a, WorldDocument
  <2>2. CASE Poll
    BY <2>2, <2>a, <2>b, LockIsSafe DEF Poll, PollNoToken, PollOtherToken, PollSameToken
  <2>3. CASE TickIdle
    BY <2>3, <2>a, <2>b, LockIsSafe DEF TickIdle
  <2>4. CASE AnswerLogout
    BY <2>4, <2>a, <2>b, LockIsSafe DEF AnswerLogout
  <2>5. CASE UNCHANGED sealed
    BY <2>5
  <2> QED BY <2>1, <2>2, <2>3, <2>4, <2>5
          DEF Next, User, vars, ReauthSucceeds, ReauthFails, AskLogout, ClickOverlay,
              PinAccepted, PinRefused
<1>2. IInv /\ [Next]_vars => [sealed' = sealed]_vars
  BY <1>1
<1> QED BY <1>2, Invariance, PTL DEF Spec, SealedKeyStays

\* A lock reason is lifted by its own way out and by nothing else.
THEOREM WaysOut == Spec => OwnWayOut
<1> DEFINE Out == \A r \in reasons \ reasons' :
        \/ r = "usb" /\ (reauth # None \/ (plugged = hwid /\ Authorised(hwid)))
        \/ r \in {"idle", "manual"} /\ dialog = r /\ reauth = None
<1>1. [Next]_vars => Out
  <2> SUFFICES ASSUME [Next]_vars, NEW r \in reasons, r \notin reasons'
               PROVE  \/ r = "usb" /\ (reauth # None \/ (plugged = hwid /\ Authorised(hwid)))
                      \/ r \in {"idle", "manual"} /\ dialog = r /\ reauth = None
    OBVIOUS
  <2>1. CASE UNCHANGED reasons
    BY <2>1
  <2>2. CASE \E q \in Reasons : Lock(q)
    BY <2>2 DEF Lock
  <2>3. CASE PollSameToken /\ Lift("usb")
    <3>1. CASE Authorised(hwid)
      BY <2>3, <3>1 DEF PollSameToken, Lift
    <3>2. CASE ~Authorised(hwid)
      BY <2>3, <3>2 DEF PollSameToken, Lock
    <3> QED BY <3>1, <3>2
  <2>4. CASE ReauthSucceeds
    BY <2>4 DEF ReauthSucceeds, Lift
  <2>5. CASE PinAccepted
    BY <2>5 DEF PinAccepted, Lift
  <2>6. "usb" \in Reasons /\ "idle" \in Reasons /\ "manual" \in Reasons /\ "revoked" \in Reasons
    BY DEF Reasons
  <2>7. CASE Poll
    BY <2>7, <2>2, <2>3, <2>6 DEF Poll, PollNoToken, PollOtherToken, PollSameToken
  <2>8. CASE TickIdle \/ AnswerLogout
    BY <2>8, <2>1, <2>2, <2>6 DEF TickIdle, AnswerLogout
  <2>9. CASE World
    BY <2>9, <2>1 DEF World, Plug, Activity, TimePasses, ReloadTimeout, OpenDocument,
                      FinishDocument, Autosave, Blacklist, Unblacklist, DeleteAccount, DiscardVault, Approve
  <2> QED BY <2>1, <2>4, <2>5, <2>7, <2>8, <2>9
          DEF Next, User, vars, ReauthFails, AskLogout, ClickOverlay, PinRefused
<1>2. [Next]_vars => [Out]_vars
  BY <1>1
<1> QED BY <1>2, PTL DEF Spec, OwnWayOut

-----------------------------------------------------------------------------
(***************************************************************************)
(* The login.  Two windows of one token keep neither promise: both guards  *)
(* read in one statement and write in another.                             *)
(***************************************************************************)
OneWindow == \A p, q \in Procs : p = q

\* A code that was taken is no later than the step on record, and one that is about
\* to be taken is later.
CodeInv ==
    /\ \A c \in 1..MaxNow + 1 : taken[c] <= 1 /\ (taken[c] > 0 => c <= son)
    /\ \A p \in Procs : \A j \in job[p] :
        /\ j.code \in 0..MaxNow
        /\ j.at = "accept" => j.code > son

\* The row counts the wrong answers that were shown, and its lock is theirs.
LockInv ==
    /\ \A k \in Guard!Keys :
        /\ count[k] = wrong[k]
        /\ until[k] = IF Guard!backoff_for(wrong[k]) = 0 THEN 0 ELSE last[k] + Guard!backoff_for(wrong[k])
    /\ \A p \in Procs : \A j \in job[p] : j.at = "store" => j.read = count[j.key]

\* The inductive invariant.
LoginInv == Guard!TypeOK /\ CodeInv /\ LockInv

-----------------------------------------------------------------------------
\* backoff_for() is a number of steps, and none while attempts are free.
LEMMA BackoffType ==
    ASSUME NEW n \in Nat
    PROVE  Guard!backoff_for(n) \in Nat /\ Guard!backoff_for(0) = 0
<1>1. Guard!backoff_for(0) = 0
  BY LoginAssumption DEF Guard!backoff_for
<1>2. CASE n < MaxAttempts
  BY <1>1, <1>2 DEF Guard!backoff_for
<1>3. CASE ~(n < MaxAttempts)
  <2> DEFINE level == n - MaxAttempts + 1
             entry == IF level > Len(Backoff) THEN Len(Backoff) ELSE level
  <2>1. level \in Nat /\ level > 0 /\ Len(Backoff) \in Nat
    BY <1>3, LoginAssumption
  <2>2. entry \in 1..Len(Backoff)
    BY <2>1, LoginAssumption
  <2>3. Backoff[entry] \in Nat
    BY <2>2, LoginAssumption
  <2>4. Guard!backoff_for(n) = Backoff[entry]
    BY <1>3 DEF Guard!backoff_for
  <2> QED BY <1>1, <2>3, <2>4
<1> QED BY <1>2, <1>3

\* What a process does next replaces what it is in the middle of.
LEMMA JobType ==
    ASSUME Guard!TypeOK, NEW p \in Procs, NEW S \in SUBSET Guard!Job, \A i, j \in S : i = j,
           job' = [job EXCEPT ![p] = S]
    PROVE  /\ job' \in [Procs -> SUBSET Guard!Job]
           /\ \A q \in Procs : \A i, j \in job'[q] : i = j
           /\ job'[p] = S
<1>1. job \in [Procs -> SUBSET Guard!Job] /\ \A q \in Procs : \A i, j \in job[q] : i = j
  BY DEF Guard!TypeOK
<1>2. \A q \in Procs : job'[q] = IF q = p THEN S ELSE job[q]
  BY <1>1
<1>3. job' \in [Procs -> SUBSET Guard!Job]
  BY <1>1
<1> QED BY <1>1, <1>2, <1>3

\* A check that is under way, at its next place.
LEMMA GotoType ==
    ASSUME Guard!TypeOK, NEW p \in Procs, NEW j \in job[p], NEW at \in Guard!Places, NEW k, k = [j EXCEPT !.at = at]
    PROVE  k \in Guard!Job /\ k.at = at /\ k.code = j.code /\ k.key = j.key /\ k.read = j.read
<1>1. j \in Guard!Job
  BY DEF Guard!TypeOK
<1> QED BY <1>1 DEF Guard!Job

LEMMA InitInv == ASSUME Guard!Init PROVE LoginInv
<1>1. Guard!TypeOK
  BY LoginAssumption DEF Guard!Init, Guard!TypeOK, Guard!Keys
<1>2. CodeInv
  BY DEF Guard!Init, CodeInv
<1>3. LockInv
  <2>1. 0 \in Nat /\ Guard!backoff_for(0) = 0
    BY BackoffType
  <2> QED BY <2>1 DEF Guard!Init, LockInv
<1> QED BY <1>1, <1>2, <1>3 DEF LoginInv

-----------------------------------------------------------------------------
\* A check that begins or ends, or goes on to a place where nothing is compared
\* with what it has read.
LEMMA PlaceInv ==
    ASSUME LoginInv, OneWindow, NEW p \in Procs,
           NEW S \in SUBSET Guard!Job, \A i, j \in S : i = j,
           \A j \in S : j.code \in 0..MaxNow /\ j.at # "accept" /\ j.at # "store",
           job' = [job EXCEPT ![p] = S],
           window' \in [Procs -> {"off", "form", "session"}], greyed' \in [Procs -> BOOLEAN],
           UNCHANGED <<now, back, count, until, son, taken, wrong, last>>
    PROVE  LoginInv'
<1>1. Guard!TypeOK'
  BY JobType, ZenonT(60) DEF LoginInv, Guard!TypeOK
<1>2. \A q \in Procs : job'[q] = S
  BY JobType DEF LoginInv, OneWindow
<1>3. CodeInv'
  BY <1>2 DEF LoginInv, CodeInv
<1>4. LockInv'
  BY <1>2 DEF LoginInv, LockInv, Guard!backoff_for
<1> QED BY <1>1, <1>3, <1>4 DEF LoginInv

LEMMA EndInv ==
    ASSUME LoginInv, OneWindow, NEW p \in Procs, Guard!End(p),
           window' \in [Procs -> {"off", "form", "session"}], greyed' \in [Procs -> BOOLEAN],
           UNCHANGED <<now, back, count, until, son, taken, wrong, last>>
    PROVE  LoginInv'
<1>1. job' = [job EXCEPT ![p] = {}] /\ {} \in SUBSET Guard!Job
  BY DEF Guard!End
<1> QED BY <1>1, PlaceInv

LEMMA GotoInv ==
    ASSUME LoginInv, OneWindow, NEW p \in Procs, NEW j \in job[p],
           NEW at \in Guard!Places \ {"accept", "store"}, Guard!Goto(p, j, at),
           UNCHANGED <<now, back, count, until, son, window, greyed, taken, wrong, last>>
    PROVE  LoginInv'
<1> DEFINE k == [j EXCEPT !.at = at]
<1>1. job' = [job EXCEPT ![p] = {k}]
  BY DEF Guard!Goto
<1>2. k \in Guard!Job /\ k.at = at /\ k.code = j.code
  BY GotoType DEF LoginInv
<1>3. j.code \in 0..MaxNow
  BY DEF LoginInv, CodeInv
<1> HIDE DEF k
<1>4. {k} \in SUBSET Guard!Job /\ \A i, l \in {k} : i = l
  BY <1>2
<1>5. \A l \in {k} : l.code \in 0..MaxNow /\ l.at # "accept" /\ l.at # "store"
  BY <1>2, <1>3
<1>6. window' \in [Procs -> {"off", "form", "session"}] /\ greyed' \in [Procs -> BOOLEAN]
  BY DEF LoginInv, Guard!TypeOK
<1> QED BY <1>1, <1>4, <1>5, <1>6, PlaceInv

\* What leaves the checks alone keeps the invariant, the clock set back included.
LEMMA FrameInv ==
    ASSUME LoginInv, now' \in Nat, back' \in 0..MaxBack,
           window' \in [Procs -> {"off", "form", "session"}], greyed' \in [Procs -> BOOLEAN],
           UNCHANGED <<job, count, until, son, taken, wrong, last>>
    PROVE  LoginInv'
<1>1. Guard!TypeOK'
  BY DEF LoginInv, Guard!TypeOK
<1>2. CodeInv'
  BY DEF LoginInv, CodeInv
<1>3. LockInv'
  BY DEF LoginInv, LockInv, Guard!backoff_for
<1> QED BY <1>1, <1>2, <1>3 DEF LoginInv

\* Begin() makes a check of nothing yet.
LEMMA BeginInv ==
    ASSUME LoginInv, OneWindow, NEW p \in Procs,
           NEW gate \in {"login", "register", "download"}, NEW at \in {"code", "count", "clear"},
           NEW who \in Guard!Keys, NEW pin \in Guard!Pins, NEW code \in 0..MaxNow, Guard!Begin(p, gate, at, who, pin, code),
           greyed' \in [Procs -> BOOLEAN],
           UNCHANGED <<now, back, count, until, son, window, taken, wrong, last>>
    PROVE  LoginInv'
<1> DEFINE k == [gate |-> gate, at |-> at, key |-> who, pin |-> pin, code |-> code, read |-> 0]
<1>1. job' = [job EXCEPT ![p] = {k}]
  BY DEF Guard!Begin
<1>2. k \in Guard!Job /\ k.at = at /\ k.code = code
  BY DEF Guard!Job, Guard!Places
<1> HIDE DEF k
<1>3. {k} \in SUBSET Guard!Job /\ \A i, j \in {k} : i = j
  BY <1>2
<1>4. \A j \in {k} : j.code \in 0..MaxNow /\ j.at # "accept" /\ j.at # "store"
  BY <1>2
<1>5. window' \in [Procs -> {"off", "form", "session"}]
  BY DEF LoginInv, Guard!TypeOK
<1> QED BY <1>1, <1>3, <1>4, <1>5, PlaceInv

-----------------------------------------------------------------------------
\* One lemma per group of actions.
LEMMA FormsInv ==
    ASSUME LoginInv, OneWindow, NEW p \in Procs,
           \/ Guard!LoginDialog(p) \/ Guard!Quit(p) \/ Guard!_on_login(p) \/ Guard!_tick_lockout(p)
           \/ Guard!_on_register(p) \/ Guard!_on_ctx_download(p)
    PROVE  LoginInv'
<1> USE DEF LoginInv
<1>1. Guard!TypeOK
  OBVIOUS
<1>2. CASE Guard!LoginDialog(p) \/ Guard!_tick_lockout(p)
  BY <1>1, <1>2, FrameInv DEF Guard!LoginDialog, Guard!_tick_lockout, Guard!TypeOK
<1>3. CASE Guard!Quit(p)
  BY <1>1, <1>3, EndInv DEF Guard!Quit, Guard!TypeOK
<1>4. CASE Guard!_on_login(p)
  <2>1. greyed' \in [Procs -> BOOLEAN]
    BY <1>1, <1>4 DEF Guard!_on_login, Guard!TypeOK
  <2>2. CASE UNCHANGED job
    BY <1>1, <1>4, <2>1, <2>2, FrameInv DEF Guard!_on_login, Guard!TypeOK
  <2>3. CASE \E pin \in Guard!Pins, code \in {0} \cup (1..MaxNow) : Guard!Begin(p, "login", "code", "login", pin, code)
    <3>1. PICK pin \in Guard!Pins, code \in 0..MaxNow : Guard!Begin(p, "login", "code", "login", pin, code)
      BY <2>3, LoginAssumption
    <3> QED BY <1>4, <2>1, <3>1, BeginInv DEF Guard!_on_login, Guard!Keys
  <2> QED BY <1>4, <2>2, <2>3 DEF Guard!_on_login
<1>5. CASE Guard!_on_register(p)
  <2>1. greyed' \in [Procs -> BOOLEAN] /\ 0 \in 0..MaxNow
    BY <1>1, <1>5, LoginAssumption DEF Guard!_on_register, Guard!TypeOK
  <2>2. CASE Guard!Begin(p, "register", "count", "reference", "wrong", 0)
    BY <1>5, <2>1, <2>2, BeginInv DEF Guard!_on_register, Guard!Keys, Guard!Pins
  <2>3. CASE Guard!Begin(p, "register", "clear", "reference", "right", 0)
    BY <1>5, <2>1, <2>3, BeginInv DEF Guard!_on_register, Guard!Keys, Guard!Pins
  <2> QED BY <1>5, <2>2, <2>3 DEF Guard!_on_register
<1>6. CASE Guard!_on_ctx_download(p)
  <2>1. PICK code \in 0..MaxNow : Guard!Begin(p, "download", "code", "login", "right", code)
    BY <1>6, LoginAssumption DEF Guard!_on_ctx_download
  <2> QED BY <1>1, <1>6, <2>1, BeginInv DEF Guard!_on_ctx_download, Guard!Keys, Guard!Pins, Guard!TypeOK
<1> QED BY <1>2, <1>3, <1>4, <1>5, <1>6

\* A code that is later than the last one is accepted before another is looked at.
LEMMA ReadStepInv == ASSUME LoginInv, OneWindow, NEW p \in Procs, Guard!ReadStep(p) PROVE LoginInv'
<1>1. PICK j \in job[p] :
        /\ \/ Guard!_eslesen_adimi_bul(j.code) /\ Guard!Goto(p, j, "accept")
           \/ Guard!Goto(p, j, "count") \/ Guard!End(p)
        /\ UNCHANGED <<now, back, count, until, son, window, greyed, taken, wrong, last>>
  BY DEF Guard!ReadStep, Guard!At
<1>2. CASE Guard!Goto(p, j, "count") \/ Guard!End(p)
  BY <1>1, <1>2, GotoInv, EndInv DEF Guard!Places, LoginInv, Guard!TypeOK
<1>3. CASE Guard!_eslesen_adimi_bul(j.code) /\ Guard!Goto(p, j, "accept")
  <2> DEFINE k == [j EXCEPT !.at = "accept"]
  <2>1. k \in Guard!Job /\ k.at = "accept" /\ k.code = j.code
    BY GotoType DEF LoginInv, Guard!Places
  <2>2. j.code > son /\ j.code \in 0..MaxNow
    BY <1>3 DEF Guard!_eslesen_adimi_bul, LoginInv, CodeInv
  <2>3. job' = [job EXCEPT ![p] = {k}]
    BY <1>3 DEF Guard!Goto
  <2> HIDE DEF k
  <2>4. Guard!TypeOK' /\ \A q \in Procs : job'[q] = {k}
    BY <1>1, <2>1, <2>3, JobType DEF LoginInv, Guard!TypeOK, OneWindow
  <2>5. CodeInv'
    BY <1>1, <2>1, <2>2, <2>4 DEF LoginInv, CodeInv
  <2>6. LockInv'
    BY <1>1, <2>1, <2>4 DEF LoginInv, LockInv, Guard!backoff_for
  <2> QED BY <2>4, <2>5, <2>6 DEF LoginInv
<1> QED BY <1>1, <1>2, <1>3

LEMMA AcceptInv == ASSUME LoginInv, OneWindow, NEW p \in Procs, Guard!verify_totp_no_replay(p) PROVE LoginInv'
<1>1. PICK j \in job[p] :
        /\ j.at = "accept"
        /\ son' = j.code
        /\ taken' = [taken EXCEPT ![j.code] = @ + 1]
        /\ Guard!End(p) \/ \E at \in {"count", "rotate", "clear"} : Guard!Goto(p, j, at)
        /\ UNCHANGED <<now, back, count, until, window, greyed, wrong, last>>
  BY DEF Guard!verify_totp_no_replay, Guard!At
<1>2. /\ j.code > son /\ j.code \in 0..MaxNow
      /\ son \in Nat /\ taken \in [1..MaxNow + 1 -> Nat] /\ MaxNow \in Nat
  BY <1>1, LoginAssumption DEF LoginInv, CodeInv, Guard!TypeOK
<1>3. j.code \in 1..MaxNow + 1 /\ taken[j.code] = 0
  BY <1>2 DEF LoginInv, CodeInv
<1>4. PICK S \in SUBSET Guard!Job :
        /\ \A i, k \in S : i = k
        /\ job' = [job EXCEPT ![p] = S]
        /\ \A k \in S : k.code = j.code /\ k.at # "accept" /\ k.at # "store"
  <2>1. CASE Guard!End(p)
    <3>1. job' = [job EXCEPT ![p] = {}]
      BY <2>1 DEF Guard!End
    <3>2. {} \in SUBSET Guard!Job
      OBVIOUS
    <3> QED BY <3>1, <3>2
  <2>2. CASE \E at \in {"count", "rotate", "clear"} : Guard!Goto(p, j, at)
    <3>1. PICK at \in {"count", "rotate", "clear"} : Guard!Goto(p, j, at)
      BY <2>2
    <3> DEFINE k == [j EXCEPT !.at = at]
    <3>2. k \in Guard!Job /\ k.at = at /\ k.code = j.code
      BY GotoType DEF LoginInv, Guard!Places
    <3>3. job' = [job EXCEPT ![p] = {k}]
      BY <3>1 DEF Guard!Goto
    <3> HIDE DEF k
    <3>4. {k} \in SUBSET Guard!Job
      BY <3>2
    <3> QED BY <3>2, <3>3, <3>4
  <2> QED BY <1>1, <2>1, <2>2
<1>5. son' \in Nat /\ taken' \in [1..MaxNow + 1 -> Nat]
  BY <1>1, <1>2, <1>3
<1>6. Guard!TypeOK' /\ \A q \in Procs : job'[q] = S
  BY <1>1, <1>4, <1>5, JobType DEF LoginInv, Guard!TypeOK, OneWindow
<1>7. CodeInv'
  <2>1. \A c \in 1..MaxNow + 1 : taken'[c] = IF c = j.code THEN 1 ELSE taken[c]
    BY <1>1, <1>2, <1>3
  <2>2. \A c \in 1..MaxNow + 1 : taken'[c] <= 1 /\ (taken'[c] > 0 => c <= son')
    BY <1>1, <1>2, <2>1 DEF LoginInv, CodeInv
  <2> QED BY <1>2, <1>4, <1>6, <2>2 DEF CodeInv
<1>8. LockInv'
  BY <1>1, <1>4, <1>6 DEF LoginInv, LockInv, Guard!backoff_for
<1> QED BY <1>6, <1>7, <1>8 DEF LoginInv

LEMMA RotateInv == ASSUME LoginInv, OneWindow, NEW p \in Procs, Guard!_zorunlu_pin_yenileme(p) PROVE LoginInv'
<1>1. PICK j \in job[p] :
        /\ Guard!Goto(p, j, "clear") \/ Guard!End(p)
        /\ UNCHANGED <<now, back, count, until, son, window, greyed, taken, wrong, last>>
  BY DEF Guard!_zorunlu_pin_yenileme, Guard!At
<1> QED BY <1>1, GotoInv, EndInv DEF Guard!Places, LoginInv, Guard!TypeOK

\* With one window nothing comes between the reading of the row and its writing.
LEMMA ReadCountInv == ASSUME LoginInv, OneWindow, NEW p \in Procs, Guard!ReadCount(p) PROVE LoginInv'
<1>1. PICK j \in job[p] :
        /\ job' = [job EXCEPT ![p] = {[j EXCEPT !.at = "store", !.read = count[j.key]]}]
        /\ UNCHANGED <<now, back, count, until, son, window, greyed, taken, wrong, last>>
  BY DEF Guard!ReadCount, Guard!At
<1> DEFINE k == [j EXCEPT !.at = "store", !.read = count[j.key]]
<1>2. j \in Guard!Job /\ j.key \in Guard!Keys /\ count[j.key] \in Nat /\ j.code \in 0..MaxNow
  BY DEF LoginInv, Guard!TypeOK, CodeInv, Guard!Job
<1>3. k \in Guard!Job /\ k.at = "store" /\ k.code = j.code /\ k.key = j.key /\ k.read = count[j.key]
  BY <1>2 DEF Guard!Job, Guard!Places
<1>4. job' = [job EXCEPT ![p] = {k}]
  BY <1>1
<1> HIDE DEF k
<1>5. Guard!TypeOK' /\ \A q \in Procs : job'[q] = {k}
  <2>1. {k} \in SUBSET Guard!Job
    BY <1>3
  <2>2. /\ job' \in [Procs -> SUBSET Guard!Job]
        /\ \A q \in Procs : \A i, l \in job'[q] : i = l
        /\ job'[p] = {k}
    BY <1>4, <2>1, JobType DEF LoginInv
  <2> QED BY <1>1, <2>2 DEF LoginInv, Guard!TypeOK, OneWindow
<1>6. CodeInv'
  BY <1>1, <1>2, <1>3, <1>5 DEF LoginInv, CodeInv
<1>7. LockInv'
  BY <1>1, <1>3, <1>5 DEF LoginInv, LockInv, Guard!backoff_for
<1> QED BY <1>5, <1>6, <1>7 DEF LoginInv

LEMMA FailureInv == ASSUME LoginInv, OneWindow, NEW p \in Procs, Guard!record_failure(p) PROVE LoginInv'
<1>1. PICK j \in job[p] :
        /\ j.at = "store"
        /\ count' = [count EXCEPT ![j.key] = j.read + 1]
        /\ until' = [until EXCEPT ![j.key] = Guard!locked_until(j.read + 1)]
        /\ wrong' = [wrong EXCEPT ![j.key] = @ + 1]
        /\ last' = [last EXCEPT ![j.key] = now]
        /\ greyed' = [greyed EXCEPT ![p] = @ \/ (j.key = "login" /\ Guard!backoff_for(j.read + 1) # 0)]
        /\ Guard!End(p)
        /\ UNCHANGED <<now, back, son, window, taken>>
  BY DEF Guard!record_failure, Guard!At
<1> DEFINE who == j.key
           n == j.read + 1
           wait == Guard!backoff_for(n)
<1>2. /\ who \in Guard!Keys /\ n \in Nat /\ now \in Nat
      /\ count \in [Guard!Keys -> Nat] /\ until \in [Guard!Keys -> Nat] /\ wrong \in [Guard!Keys -> Nat] /\ last \in [Guard!Keys -> Nat]
  BY DEF LoginInv, Guard!TypeOK, Guard!Job
<1>3. wait \in Nat
  BY <1>2, BackoffType
<1>4. wrong[who] + 1 = n
  BY <1>1, <1>2 DEF LoginInv, LockInv
<1>5. until' = [until EXCEPT ![who] = IF wait = 0 THEN 0 ELSE now + wait]
  BY <1>1 DEF Guard!locked_until
<1>6. job' = [job EXCEPT ![p] = {}] /\ {} \in SUBSET Guard!Job
  BY <1>1 DEF Guard!End
<1>7. greyed' \in [Procs -> BOOLEAN]
  BY <1>1 DEF LoginInv, Guard!TypeOK
<1>8. count' = [count EXCEPT ![who] = n] /\ wrong' = [wrong EXCEPT ![who] = n] /\ last' = [last EXCEPT ![who] = now]
  BY <1>1, <1>2, <1>4
<1> HIDE DEF n, wait, who
<1>9. /\ count' \in [Guard!Keys -> Nat] /\ until' \in [Guard!Keys -> Nat]
      /\ wrong' \in [Guard!Keys -> Nat] /\ last' \in [Guard!Keys -> Nat]
  BY <1>2, <1>3, <1>5, <1>8
<1>10. Guard!TypeOK' /\ \A q \in Procs : job'[q] = {}
  <2>1. /\ job' \in [Procs -> SUBSET Guard!Job]
        /\ \A q \in Procs : \A i, l \in job'[q] : i = l
        /\ job'[p] = {}
    BY <1>6, JobType DEF LoginInv
  <2> QED BY <1>1, <1>7, <1>9, <2>1 DEF LoginInv, Guard!TypeOK, OneWindow
<1>11. CodeInv'
  BY <1>1, <1>10 DEF LoginInv, CodeInv
<1>12. LockInv'
  <2>1. \A k \in Guard!Keys \ {who} :
          count'[k] = count[k] /\ until'[k] = until[k] /\ wrong'[k] = wrong[k] /\ last'[k] = last[k]
    BY <1>2, <1>5, <1>8
  <2>2. count'[who] = n /\ wrong'[who] = n /\ last'[who] = now /\ until'[who] = IF wait = 0 THEN 0 ELSE now + wait
    BY <1>2, <1>5, <1>8
  <2>3. until'[who] = IF Guard!backoff_for(wrong'[who]) = 0 THEN 0 ELSE last'[who] + Guard!backoff_for(wrong'[who])
    BY <2>2 DEF wait
  <2>4. \A k \in Guard!Keys \ {who} :
          /\ count'[k] = wrong'[k]
          /\ until'[k] = IF Guard!backoff_for(wrong'[k]) = 0 THEN 0 ELSE last'[k] + Guard!backoff_for(wrong'[k])
    BY <2>1 DEF LoginInv, LockInv
  <2> QED BY <1>10, <2>2, <2>3, <2>4 DEF LockInv, Guard!backoff_for
<1> QED BY <1>10, <1>11, <1>12 DEF LoginInv

LEMMA SuccessInv == ASSUME LoginInv, OneWindow, NEW p \in Procs, Guard!record_success(p) PROVE LoginInv'
<1>1. PICK j \in job[p] :
        /\ count' = [count EXCEPT ![j.key] = 0]
        /\ until' = [until EXCEPT ![j.key] = 0]
        /\ wrong' = [wrong EXCEPT ![j.key] = 0]
        /\ last' = [last EXCEPT ![j.key] = 0]
        /\ window' = IF j.gate = "login" THEN [window EXCEPT ![p] = "session"] ELSE window
        /\ Guard!End(p)
        /\ UNCHANGED <<now, back, son, greyed, taken>>
  BY DEF Guard!record_success, Guard!At
<1> DEFINE who == j.key
<1>2. /\ who \in Guard!Keys /\ count \in [Guard!Keys -> Nat] /\ until \in [Guard!Keys -> Nat]
      /\ wrong \in [Guard!Keys -> Nat] /\ last \in [Guard!Keys -> Nat]
  BY DEF LoginInv, Guard!TypeOK, Guard!Job
<1>3. Guard!backoff_for(0) = 0
  BY BackoffType, 0 \in Nat
<1>4. job' = [job EXCEPT ![p] = {}] /\ {} \in SUBSET Guard!Job
  BY <1>1 DEF Guard!End
<1>5. window' \in [Procs -> {"off", "form", "session"}]
  BY <1>1 DEF LoginInv, Guard!TypeOK
<1> HIDE DEF who
<1>6. /\ count' = [count EXCEPT ![who] = 0] /\ until' = [until EXCEPT ![who] = 0]
      /\ wrong' = [wrong EXCEPT ![who] = 0] /\ last' = [last EXCEPT ![who] = 0]
  BY <1>1 DEF who
<1>7. /\ count' \in [Guard!Keys -> Nat] /\ until' \in [Guard!Keys -> Nat]
      /\ wrong' \in [Guard!Keys -> Nat] /\ last' \in [Guard!Keys -> Nat]
  BY <1>2, <1>6
<1>8. Guard!TypeOK' /\ \A q \in Procs : job'[q] = {}
  BY <1>1, <1>4, <1>5, <1>7, JobType DEF LoginInv, Guard!TypeOK, OneWindow
<1>9. CodeInv'
  BY <1>1, <1>8 DEF LoginInv, CodeInv
<1>10. LockInv'
  <2>1. \A k \in Guard!Keys \ {who} :
          count'[k] = count[k] /\ until'[k] = until[k] /\ wrong'[k] = wrong[k] /\ last'[k] = last[k]
    BY <1>2, <1>6
  <2>2. count'[who] = 0 /\ wrong'[who] = 0 /\ last'[who] = 0 /\ until'[who] = 0
    BY <1>2, <1>6
  <2>3. until'[who] = IF Guard!backoff_for(wrong'[who]) = 0 THEN 0 ELSE last'[who] + Guard!backoff_for(wrong'[who])
    BY <1>3, <2>2
  <2>4. \A k \in Guard!Keys \ {who} :
          /\ count'[k] = wrong'[k]
          /\ until'[k] = IF Guard!backoff_for(wrong'[k]) = 0 THEN 0 ELSE last'[k] + Guard!backoff_for(wrong'[k])
    BY <2>1 DEF LoginInv, LockInv
  <2> QED BY <1>8, <2>2, <2>3, <2>4 DEF LockInv, Guard!backoff_for
<1> QED BY <1>8, <1>9, <1>10 DEF LoginInv

-----------------------------------------------------------------------------
LEMMA NextInv == ASSUME LoginInv, OneWindow, [Guard!Next]_(Guard!vars) PROVE LoginInv'
<1>1. CASE \E p \in Procs : Guard!Proceed(p)
  BY <1>1, ReadStepInv, AcceptInv, RotateInv, ReadCountInv, FailureInv, SuccessInv DEF Guard!Proceed
<1>2. CASE \E p \in Procs :
             \/ Guard!LoginDialog(p) \/ Guard!Quit(p) \/ Guard!_on_login(p) \/ Guard!_tick_lockout(p)
             \/ Guard!_on_register(p) \/ Guard!_on_ctx_download(p)
  BY <1>2, FormsInv
<1>3. CASE Guard!Clock \/ Guard!SetBack \/ UNCHANGED Guard!vars
  <2>1. /\ now \in Nat /\ back \in 0..MaxBack /\ MaxBack \in Nat
        /\ window \in [Procs -> {"off", "form", "session"}] /\ greyed \in [Procs -> BOOLEAN]
    BY LoginAssumption DEF LoginInv, Guard!TypeOK
  <2>2. now' \in Nat /\ back' \in 0..MaxBack
    BY <1>3, <2>1 DEF Guard!Clock, Guard!SetBack, Guard!vars
  <2> QED BY <1>3, <2>1, <2>2, FrameInv DEF Guard!Clock, Guard!SetBack, Guard!vars
<1> QED BY <1>1, <1>2, <1>3 DEF Guard!Next

\* Whichever part runs, the login takes its own steps only.
LEMMA OwnSteps == [MCNext]_all => [Guard!Next]_(Guard!vars)
BY DEF MCNext, InLock, InGuard, all, guardVars, Guard!vars

\* TypeOK of the login, with what it takes to keep it.
THEOREM LoginInvariance == ASSUME OneWindow PROVE MCSpec => []LoginInv
<1>1. MCInit => LoginInv
  BY InitInv DEF MCInit
<1>2. LoginInv /\ [MCNext]_all => LoginInv'
  BY OwnSteps, NextInv
<1> QED BY <1>1, <1>2, PTL DEF MCSpec

\* For any limits, and for any number of set-backs of the clock, one window accepts
\* the code of a step once (totp_guard.py: verify_totp_no_replay).
THEOREM CodeOnce == ASSUME OneWindow PROVE MCSpec => []NoCodeTwice
<1>1. LoginInv => NoCodeTwice
  BY DEF LoginInv, Guard!TypeOK, CodeInv, Guard!NoCodeTwice, NoCodeTwice
<1> QED BY <1>1, LoginInvariance, PTL

\* For any number of free attempts and any list of waits, one window looks at no
\* guess before the lock of the last wrong one is over, whatever was closed or set
\* back in between (rate_limit.py: check, record_failure).
THEOREM LockWaitedOut == ASSUME OneWindow PROVE MCSpec => WaitedOut
<1> DEFINE Waits ==
      \A p \in Procs : \A j \in job'[p] :
        Guard!Idle(p) /\ j.gate # "download" /\ Guard!backoff_for(wrong[j.key]) > 0
            => now >= last[j.key] + Guard!backoff_for(wrong[j.key])
<1>1. ASSUME LoginInv, [Guard!Next]_(Guard!vars) PROVE Waits
  <2> SUFFICES ASSUME NEW p \in Procs, NEW j \in job'[p], Guard!Idle(p), j.gate # "download",
                      Guard!backoff_for(wrong[j.key]) > 0
               PROVE  now >= last[j.key] + Guard!backoff_for(wrong[j.key])
    OBVIOUS
  <2>1. job[p] = {} /\ job[p] # job'[p]
    BY DEF Guard!Idle
  <2>2. Guard!_on_login(p) \/ Guard!_on_register(p)
    <3>1. ~(Guard!Clock \/ Guard!SetBack \/ UNCHANGED Guard!vars)
      BY <2>1 DEF Guard!Clock, Guard!SetBack, Guard!vars
    <3>2. PICK q \in Procs :
            \/ Guard!LoginDialog(q) \/ Guard!Quit(q) \/ Guard!_on_login(q) \/ Guard!_tick_lockout(q)
            \/ Guard!_on_register(q) \/ Guard!_on_ctx_download(q) \/ Guard!Proceed(q)
      BY <1>1, <3>1 DEF Guard!Next
    <3>3. q = p
      BY DEF OneWindow
    <3>4. ~Guard!Proceed(p)
      BY <2>1 DEF Guard!Proceed, Guard!ReadStep, Guard!verify_totp_no_replay, Guard!_zorunlu_pin_yenileme,
                  Guard!ReadCount, Guard!record_failure, Guard!record_success, Guard!At
    <3>5. ~Guard!LoginDialog(p) /\ ~Guard!_tick_lockout(p)
      BY <2>1 DEF Guard!LoginDialog, Guard!_tick_lockout
    <3>6. ~Guard!Quit(p)
      BY <1>1, <2>1 DEF Guard!Quit, Guard!End, LoginInv, Guard!TypeOK
    <3>7. ~Guard!_on_ctx_download(p)
      BY <1>1 DEF Guard!_on_ctx_download, Guard!Begin, LoginInv, Guard!TypeOK
    <3> QED BY <3>2, <3>3, <3>4, <3>5, <3>6, <3>7
  <2>3. j.key \in Guard!Keys /\ ~Guard!check(j.key)
    BY <1>1, <2>1, <2>2 DEF Guard!_on_login, Guard!_on_register, Guard!Begin, LoginInv, Guard!TypeOK, Guard!Keys
  <2>4. /\ now \in Nat /\ until[j.key] \in Nat /\ last[j.key] \in Nat
        /\ until[j.key] = last[j.key] + Guard!backoff_for(wrong[j.key])
    BY <1>1, <2>3 DEF LoginInv, Guard!TypeOK, LockInv
  <2> QED BY <2>3, <2>4 DEF Guard!check
<1>2. LoginInv /\ [Guard!Next]_(Guard!vars) => [Waits]_(Guard!vars)
  BY <1>1
<1> QED BY <1>2, OwnSteps, LoginInvariance, PTL DEF MCSpec, WaitedOut, Guard!WaitedOut
=============================================================================
