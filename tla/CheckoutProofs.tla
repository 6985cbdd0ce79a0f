--------------------------- MODULE CheckoutProofs ---------------------------
(***************************************************************************)
(* Proofs about Checkout, for every number of runs, documents, edits and   *)
(* every combination of failures.                                          *)
(*                                                                         *)
(*   1. the values GUI-thread steps take (lemmas about Task)               *)
(*   2. IInv is inductive: one lemma per conjunct, one step per action     *)
(*   3. what follows: type correctness, one editor per document, no lost   *)
(*      update, digests of stored contents, and the abstract view          *)
(*   4. open documents and locks: no lock without its document open while  *)
(*      every release is carried out, and no plaintext after a quit        *)
(***************************************************************************)
EXTENDS Checkout, TLAPS

-----------------------------------------------------------------------------
(* 1. Values *)

\* The steps of a GUI thread, by name.
LEMMA StepNames ==
    /\ "idle" \in Steps /\ "decrypt" \in Steps /\ "write" \in Steps
    /\ "look" \in Steps /\ "hash" \in Steps /\ "replace" \in Steps
    /\ "shred" \in Steps /\ "release" \in Steps /\ "next" \in Steps
    /\ "wipe" \in Steps
BY DEF Steps

\* The idle thread's record, and the empty content.
LEMMA IdleTyped == Idle \in Task /\ {} \in Content
BY DEF Idle, Task, Steps, Content

\* A missing copy is not a content: comparing digests tells them apart.
LEMMA GoneNotContent == Gone \notin Content
BY NoneAssumption DEF Gone, Content

\* A GUI thread's record with some fields replaced is again one.
LEMMA TaskChanged ==
    ASSUME NEW t \in Task
    PROVE  /\ \A a \in Steps, f \in Files : [t EXCEPT !.at = a, !.file = f] \in Task
           /\ \A a \in Steps, f \in Files, c \in BOOLEAN :
                [t EXCEPT !.at = a, !.file = f, !.close = c] \in Task
           /\ \A a \in Steps, c \in BOOLEAN, T \in SUBSET Files :
                [t EXCEPT !.at = a, !.close = c, !.todo = T] \in Task
BY DEF Task

\* A GUI thread inside an operation works on a document.
LEMMA WorksOnFile ==
    ASSUME TypeOK, TaskMatchesRegistry, NEW s \in Sessions, task[s].at \notin {"idle", "next"}
    PROVE  task[s].file \in Files /\ task[s].sha \in Content
BY DEF TypeOK, TaskMatchesRegistry, TaskFits, Task

\* Writing or shredding one copy leaves the SafeZone well-typed.
LEMMA CopyChanged ==
    ASSUME copy \in [Sessions -> [Files -> Content \cup {Gone}]],
           NEW s \in Sessions, NEW f \in Files, NEW c \in Content \cup {Gone},
           copy' = [copy EXCEPT ![s][f] = c]
    PROVE  copy' \in [Sessions -> [Files -> Content \cup {Gone}]]
OBVIOUS

\* So does recording a baseline.
LEMMA BaseChanged ==
    ASSUME base \in [Sessions -> [Files -> Content]],
           NEW s \in Sessions, NEW f \in Files, NEW c \in Content,
           base' = [base EXCEPT ![s][f] = c]
    PROVE  base' \in [Sessions -> [Files -> Content]]
OBVIOUS

\* Startup of the installation: nothing open, nothing locked.
LEMMA TypeInit == Init => TypeOK
BY IdleTyped, GoneNotContent DEF Init, TypeOK, Phases, Content

\* Types are kept, given that a thread inside an operation has a document.
LEMMA TypeStep == TypeOK /\ TaskMatchesRegistry /\ [Next]_vars => TypeOK'
<1> SUFFICES ASSUME TypeOK, TaskMatchesRegistry, [Next]_vars PROVE TypeOK'
  OBVIOUS
<1>a. /\ lock \in [Files -> Sessions \cup {None}] /\ rows \in [Sessions -> SUBSET Row]
      /\ reg \in [Sessions -> SUBSET Files]
  BY DEF TypeOK
<1>b. /\ copy \in [Sessions -> [Files -> Content \cup {Gone}]]
      /\ base \in [Sessions -> [Files -> Content]]
  BY DEF TypeOK
<1>c. /\ vault \in [Files -> Content] /\ header \in [Files -> Content]
      /\ digest \in [Files -> Content]
  BY DEF TypeOK
<1>d. task \in [Sessions -> Task]
  BY DEF TypeOK
<1>1. CASE UNCHANGED vars
  BY <1>1 DEF vars, TypeOK
<1>2. ASSUME NEW s \in Sessions, Start(s) PROVE TypeOK'
  BY <1>2 DEF Start, TypeOK, Phases
<1>3. ASSUME NEW s \in Sessions, PurgeOrphans(s) PROVE TypeOK'
  BY <1>3 DEF PurgeOrphans, Purge, TypeOK, Phases
<1>4. ASSUME NEW s \in Sessions, FetchLocks(s) PROVE TypeOK'
  BY <1>4 DEF FetchLocks, TypeOK, Phases
<1>5. ASSUME NEW s \in Sessions, SweepRow(s) PROVE TypeOK'
  <2>1. rows' \in [Sessions -> SUBSET Row]
    BY <1>5, <1>a DEF SweepRow
  <2>2. lock' \in [Files -> Sessions \cup {None}] /\ stolen' \in SUBSET Files
    <3>1. \A r \in rows[s] : r.file \in Files
      BY <1>a DEF Row
    <3>2. stolen \in SUBSET Files
      BY DEF TypeOK
    <3>3. PICK r \in rows[s] :
             \/ UNCHANGED <<lock, stolen>>
             \/ /\ lock' = [lock EXCEPT ![r.file] = None]
                /\ stolen' \in {stolen, stolen \cup {r.file}}
      BY <1>5 DEF SweepRow
    <3> QED BY <1>a, <3>1, <3>2, <3>3
  <2> QED BY <1>5, <2>1, <2>2 DEF SweepRow, TypeOK
<1>6. ASSUME NEW s \in Sessions, EnterSession(s) PROVE TypeOK'
  BY <1>6 DEF EnterSession, TypeOK, Phases
<1>7. ASSUME NEW s \in Sessions, NEW f \in Files, Open(s, f) PROVE TypeOK'
  <2>1. /\ reg' = [reg EXCEPT ![s] = @ \ {f}]
        /\ lock' \in {lock, [lock EXCEPT ![f] = s]}
        /\ task' \in {task, [task EXCEPT ![s] = [Idle EXCEPT !.at = "decrypt", !.file = f]]}
    BY <1>7 DEF Open
  <2>2. [Idle EXCEPT !.at = "decrypt", !.file = f] \in Task
    BY IdleTyped, StepNames, TaskChanged
  <2>3. task' \in [Sessions -> Task]
    BY <1>d, <2>1, <2>2
  <2>4. lock' \in [Files -> Sessions \cup {None}]
    BY <1>a, <2>1
  <2>5. reg' \in [Sessions -> SUBSET Files]
    BY <1>a, <2>1
  <2> QED BY <1>7, <2>3, <2>4, <2>5 DEF Open, TypeOK
<1>8. ASSUME NEW s \in Sessions, Decrypt(s) PROVE TypeOK'
  <2>1. task[s].file \in Files
    BY <1>8, WorksOnFile DEF Decrypt, At
  <2>2. vault[task[s].file] \in Content
    BY <1>c, <2>1
  <2>3. task' \in [Sessions -> Task]
    BY <1>8, <1>d, <2>2, StepNames, IdleTyped DEF Decrypt, Task
  <2>4. lock' \in [Files -> Sessions \cup {None}]
    BY <1>8, <1>a DEF Decrypt, AfterUnlock, Unlock
  <2>5. base' \in {base, [base EXCEPT ![s][task[s].file] = header[task[s].file]]}
    BY <1>8 DEF Decrypt
  <2>6. base' \in [Sessions -> [Files -> Content]]
    <3>1. header[task[s].file] \in Content
      BY <1>c, <2>1
    <3> QED BY <1>b, <2>1, <2>5, <3>1, BaseChanged
  <2> QED BY <1>8, <2>3, <2>4, <2>6 DEF Decrypt, TypeOK
<1>9. ASSUME NEW s \in Sessions, WriteCopy(s) PROVE TypeOK'
  <2> DEFINE f == task[s].file
             h == task[s].sha
  <2>1. f \in Files /\ h \in Content
    BY <1>9, WorksOnFile DEF WriteCopy, At
  <2>2. task' \in [Sessions -> Task]
    BY <1>9, <1>d, IdleTyped DEF WriteCopy
  <2>3. /\ reg' \in {reg, [reg EXCEPT ![s] = @ \cup {f}]}
        /\ \/ copy' = copy
           \/ \E left \in {Gone, h} : copy' = [copy EXCEPT ![s][f] = left]
        /\ lock' \in {lock} \cup AfterUnlock(s, f)
    BY <1>9 DEF WriteCopy
  <2>4. reg' \in [Sessions -> SUBSET Files]
    BY <1>a, <2>1, <2>3
  <2>5. base' \in [Sessions -> [Files -> Content]]
    BY <1>9, <1>b DEF WriteCopy
  <2>6. copy' \in [Sessions -> [Files -> Content \cup {Gone}]]
    BY <1>b, <2>1, <2>3, CopyChanged
  <2>7. lock' \in [Files -> Sessions \cup {None}]
    BY <1>a, <2>3 DEF AfterUnlock, Unlock
  <2> QED BY <1>9, <2>2, <2>4, <2>5, <2>6, <2>7 DEF WriteCopy, TypeOK
<1>10. ASSUME NEW s \in Sessions, NEW f \in Files, Save(s, f) PROVE TypeOK'
  BY <1>10 DEF Save, TypeOK, Content
<1>11. ASSUME NEW s \in Sessions, NEW f \in Files, NEW close \in BOOLEAN, CheckIn(s, f, close) PROVE TypeOK'
  <2>1. [Idle EXCEPT !.at = "look", !.file = f, !.close = close] \in Task
    BY IdleTyped, StepNames, TaskChanged
  <2>2. task' \in [Sessions -> Task]
    BY <1>11, <1>d, <2>1 DEF CheckIn
  <2> QED BY <1>11, <2>2 DEF CheckIn, TypeOK
<1>12. ASSUME NEW s \in Sessions, LockScreen(s) PROVE TypeOK'
  <2>1. CloseAllTask(s) \in Task
    BY <1>a, IdleTyped, StepNames, TaskChanged DEF CloseAllTask
  <2>2. task' \in [Sessions -> Task]
    BY <1>12, <1>d, <2>1 DEF LockScreen
  <2> QED BY <1>12, <2>2 DEF LockScreen, TypeOK
<1>13. ASSUME NEW s \in Sessions, Quit(s) PROVE TypeOK'
  <2>1. CloseAllTask(s) \in Task
    BY <1>a, IdleTyped, StepNames, TaskChanged DEF CloseAllTask
  <2>2. task' \in [Sessions -> Task]
    BY <1>13, <1>d, <2>1 DEF Quit
  <2> QED BY <1>13, <2>2 DEF Quit, TypeOK, Phases
<1>14. ASSUME NEW s \in Sessions, NextDocument(s) PROVE TypeOK'
  <2>1. task[s].todo \subseteq Files
    BY <1>d DEF Task
  <2>2. task' \in [Sessions -> Task]
    BY <1>14, <1>d, <2>1, StepNames DEF NextDocument, Task
  <2> QED BY <1>14, <2>2 DEF NextDocument, TypeOK
<1>15. ASSUME NEW s \in Sessions, ApplyCheckin(s) PROVE TypeOK'
  <2>1. task[s].results \subseteq Result
    BY <1>d DEF Task
  <2>2. task' \in [Sessions -> Task]
    BY <1>15, <1>d, <2>1, IdleTyped DEF ApplyCheckin, Task
  <2>3. \/ digest' = digest
        \/ \E r \in Result : digest' = [digest EXCEPT ![r.file] = r.sha]
    BY <1>15, <2>1 DEF ApplyCheckin
  <2>4. digest' \in [Files -> Content]
    BY <1>c, <2>3 DEF Result
  <2> QED BY <1>15, <2>2, <2>4 DEF ApplyCheckin, TypeOK
<1>16. ASSUME NEW s \in Sessions, LookForChange(s) PROVE TypeOK'
  <2>1. task' \in [Sessions -> Task]
    BY <1>16, <1>d, StepNames DEF LookForChange, AfterWriteBack, Task
  <2> QED BY <1>16, <2>1 DEF LookForChange, TypeOK
<1>17. ASSUME NEW s \in Sessions, HashCopy(s) PROVE TypeOK'
  <2> DEFINE f == task[s].file
  <2>1. f \in Files
    BY <1>17, WorksOnFile DEF HashCopy, At
  <2>2. Readable(s, f) => copy[s][f] \in Content
    BY <1>b, <2>1 DEF Readable
  <2>3. task' \in [Sessions -> Task]
    BY <1>17, <1>d, <2>2, IdleTyped, StepNames DEF HashCopy, GiveUp, Task
  <2> QED BY <1>17, <2>3 DEF HashCopy, TypeOK
<1>18. ASSUME NEW s \in Sessions, ReplaceVault(s) PROVE TypeOK'
  <2> DEFINE f == task[s].file
             h == task[s].sha
             r == [file |-> f, sha |-> h]
  <2>1. f \in Files /\ h \in Content
    BY <1>18, WorksOnFile DEF ReplaceVault, At
  <2>2. Readable(s, f) => copy[s][f] \in Content
    BY <1>b, <2>1 DEF Readable
  <2>3. r \in Result /\ AfterWriteBack(s) \in Steps
    BY <2>1, StepNames DEF Result, AfterWriteBack
  <2>4. \/ GiveUp(s) /\ UNCHANGED <<vault, header, base>>
        \/ /\ Readable(s, f)
           /\ vault' = [vault EXCEPT ![f] = copy[s][f]]
           /\ header' = [header EXCEPT ![f] = h]
           /\ base' = [base EXCEPT ![s][f] = h]
           /\ task' = [task EXCEPT ![s].at = AfterWriteBack(s), ![s].results = @ \cup {r}]
    BY <1>18 DEF ReplaceVault
  <2>5. task' \in [Sessions -> Task]
    BY <1>d, <2>3, <2>4, IdleTyped, StepNames DEF GiveUp, Task
  <2>6. vault' \in [Files -> Content] /\ header' \in [Files -> Content]
    BY <1>c, <2>1, <2>2, <2>4
  <2>7. base' \in [Sessions -> [Files -> Content]]
    <3>1. base' = base \/ base' = [base EXCEPT ![s][f] = h]
      BY <2>4
    <3> QED BY <1>b, <2>1, <3>1, BaseChanged
  <2> QED BY <1>18, <2>5, <2>6, <2>7 DEF ReplaceVault, TypeOK
<1>19. ASSUME NEW s \in Sessions, Shred(s) PROVE TypeOK'
  <2> DEFINE f == task[s].file
  <2>1. f \in Files
    BY <1>19, WorksOnFile DEF Shred, At
  <2>2. task' \in [Sessions -> Task]
    BY <1>19, <1>d, StepNames DEF Shred, Task
  <2>3. copy' = copy \/ copy' = [copy EXCEPT ![s][f] = Gone]
    BY <1>19 DEF Shred
  <2>4. copy' \in [Sessions -> [Files -> Content \cup {Gone}]]
    BY <1>b, <2>1, <2>3, CopyChanged
  <2>5. reg' \in [Sessions -> SUBSET Files]
    BY <1>19, <1>a, <2>1 DEF Shred
  <2> QED BY <1>19, <2>2, <2>4, <2>5 DEF Shred, TypeOK
<1>20. ASSUME NEW s \in Sessions, Release(s) PROVE TypeOK'
  <2>1. task' \in [Sessions -> Task]
    BY <1>20, <1>d, IdleTyped, StepNames DEF Release, Task
  <2>2. lock' \in [Files -> Sessions \cup {None}]
    BY <1>20, <1>a DEF Release, Unlock
  <2> QED BY <1>20, <2>1, <2>2 DEF Release, TypeOK
<1>21. ASSUME NEW s \in Sessions, NEW f \in Files, Discard(s, f) PROVE TypeOK'
  <2>1. /\ task' \in {task, [task EXCEPT ![s] = [Idle EXCEPT !.at = "wipe", !.file = f]]}
        /\ lock' \in {lock, Unlock(s, f)}
        /\ reg' = [reg EXCEPT ![s] = @ \ {f}]
    BY <1>21 DEF Discard
  <2>2. [Idle EXCEPT !.at = "wipe", !.file = f] \in Task
    BY IdleTyped, StepNames, TaskChanged
  <2>3. task' \in [Sessions -> Task]
    BY <1>d, <2>1, <2>2
  <2>4. lock' \in [Files -> Sessions \cup {None}] /\ reg' \in [Sessions -> SUBSET Files]
    BY <1>a, <2>1 DEF Unlock
  <2> QED BY <1>21, <2>3, <2>4 DEF Discard, TypeOK
<1>22. ASSUME NEW s \in Sessions, Wipe(s) PROVE TypeOK'
  <2> DEFINE f == task[s].file
  <2>1. f \in Files
    BY <1>22, WorksOnFile DEF Wipe, At
  <2>2. copy' = copy \/ copy' = [copy EXCEPT ![s][f] = Gone]
    BY <1>22 DEF Wipe
  <2>3. copy' \in [Sessions -> [Files -> Content \cup {Gone}]]
    BY <1>b, <2>1, <2>2, CopyChanged
  <2>4. task' \in [Sessions -> Task]
    BY <1>22, <1>d, IdleTyped DEF Wipe
  <2> QED BY <1>22, <2>3, <2>4 DEF Wipe, TypeOK
<1>23. ASSUME NEW s \in Sessions, Exit(s) PROVE TypeOK'
  BY <1>23 DEF Exit, Purge, TypeOK, Phases
<1>24. ASSUME NEW s \in Sessions, Crash(s) PROVE TypeOK'
  <2>1. task' \in [Sessions -> Task]
    BY <1>24, <1>d, IdleTyped DEF Crash
  <2> QED BY <1>24, <2>1 DEF Crash, TypeOK, Phases
<1> QED
  BY <1>1, <1>2, <1>3, <1>4, <1>5, <1>6, <1>7, <1>8, <1>9, <1>10, <1>11,
     <1>12, <1>13, <1>14, <1>15, <1>16, <1>17, <1>18, <1>19, <1>20, <1>21,
     <1>22, <1>23, <1>24 DEF Next, Startup, Request, Proceed

-----------------------------------------------------------------------------
(* 2. The inductive invariant *)

\* An idle thread fits any registry.
LEMMA IdleFitsNext == ASSUME NEW s \in Sessions, task'[s] = Idle PROVE TaskFits(s)'
BY DEF TaskFits, Idle

\* A thread's step and its registry agree after every action: what closes or
\* fails takes the document out of both in the right order.
LEMMA TaskStep == TypeOK /\ TaskMatchesRegistry /\ [Next]_vars => TaskMatchesRegistry'
<1> SUFFICES ASSUME TypeOK, TaskMatchesRegistry, [Next]_vars PROVE TaskMatchesRegistry'
  OBVIOUS
<1>a. task \in [Sessions -> Task] /\ reg \in [Sessions -> SUBSET Files]
  BY DEF TypeOK
<1>b. ASSUME NEW s \in Sessions, TaskFits(s)',
             \A t \in Sessions \ {s} : task'[t] = task[t] /\ reg'[t] = reg[t]
      PROVE  TaskMatchesRegistry'
  BY <1>b DEF TaskMatchesRegistry, TaskFits
<1>1. CASE UNCHANGED vars
  BY <1>1 DEF vars, TaskMatchesRegistry, TaskFits
<1>2. ASSUME NEW s \in Sessions, Start(s) PROVE TaskMatchesRegistry'
  <2>1. \A t \in Sessions \ {s} : task'[t] = task[t] /\ reg'[t] = reg[t]
    BY <1>a, <1>2 DEF Start
  <2>2. TaskFits(s)'
    BY <1>a, <1>2 DEF Start, TaskMatchesRegistry, TaskFits
  <2> QED BY <1>b, <2>1, <2>2
<1>3. ASSUME NEW s \in Sessions, PurgeOrphans(s) PROVE TaskMatchesRegistry'
  <2>1. \A t \in Sessions \ {s} : task'[t] = task[t] /\ reg'[t] = reg[t]
    BY <1>a, <1>3 DEF PurgeOrphans
  <2>2. TaskFits(s)'
    BY <1>a, <1>3 DEF PurgeOrphans, TaskMatchesRegistry, TaskFits
  <2> QED BY <1>b, <2>1, <2>2
<1>4. ASSUME NEW s \in Sessions, FetchLocks(s) PROVE TaskMatchesRegistry'
  <2>1. \A t \in Sessions \ {s} : task'[t] = task[t] /\ reg'[t] = reg[t]
    BY <1>a, <1>4 DEF FetchLocks
  <2>2. TaskFits(s)'
    BY <1>a, <1>4 DEF FetchLocks, TaskMatchesRegistry, TaskFits
  <2> QED BY <1>b, <2>1, <2>2
<1>5. ASSUME NEW s \in Sessions, SweepRow(s) PROVE TaskMatchesRegistry'
  <2>1. \A t \in Sessions \ {s} : task'[t] = task[t] /\ reg'[t] = reg[t]
    BY <1>a, <1>5 DEF SweepRow
  <2>2. TaskFits(s)'
    BY <1>a, <1>5 DEF SweepRow, TaskMatchesRegistry, TaskFits
  <2> QED BY <1>b, <2>1, <2>2
<1>6. ASSUME NEW s \in Sessions, EnterSession(s) PROVE TaskMatchesRegistry'
  <2>1. \A t \in Sessions \ {s} : task'[t] = task[t] /\ reg'[t] = reg[t]
    BY <1>a, <1>6 DEF EnterSession
  <2>2. TaskFits(s)'
    BY <1>a, <1>6 DEF EnterSession, TaskMatchesRegistry, TaskFits
  <2> QED BY <1>b, <2>1, <2>2
<1>7. ASSUME NEW s \in Sessions, NEW f \in Files, Open(s, f) PROVE TaskMatchesRegistry'
  <2>1. \A t \in Sessions \ {s} : task'[t] = task[t] /\ reg'[t] = reg[t]
    BY <1>a, <1>7 DEF Open
  <2>2. CASE task'[s] = Idle
    BY <1>b, <2>1, <2>2, IdleFitsNext
  <2>3. CASE task' = [task EXCEPT ![s] = [Idle EXCEPT !.at = "decrypt", !.file = f]]
    <3>1. task'[s].at = "decrypt" /\ task'[s].file = f /\ task'[s].todo = {} /\ reg'[s] = reg[s] \ {f}
      BY <1>a, <1>7, <2>3 DEF Open, Idle
    <3>2. TaskFits(s)'
      BY <3>1 DEF TaskFits
    <3> QED BY <1>b, <2>1, <3>2
  <2> QED BY <1>7, <2>2, <2>3 DEF Open, Ready
<1>8. ASSUME NEW s \in Sessions, Decrypt(s) PROVE TaskMatchesRegistry'
  <2>1. \A t \in Sessions \ {s} : task'[t] = task[t] /\ reg'[t] = reg[t]
    BY <1>a, <1>8 DEF Decrypt
  <2>2. CASE task'[s] = Idle
    BY <1>b, <2>1, <2>2, IdleFitsNext
  <2>3. CASE task' = [task EXCEPT ![s].at = "write", ![s].sha = vault[task[s].file]]
    <3>1. task'[s].at = "write" /\ task'[s].file = task[s].file /\ task'[s].todo = task[s].todo
      BY <1>a, <2>3 DEF Task
    <3>2. task[s].at = "decrypt" /\ reg'[s] = reg[s] /\ TaskFits(s)
      BY <1>8 DEF Decrypt, At, TaskMatchesRegistry
    <3>3. TaskFits(s)'
      BY <3>1, <3>2 DEF TaskFits
    <3> QED BY <1>b, <2>1, <3>3
  <2> QED BY <1>a, <1>8, <2>2, <2>3 DEF Decrypt
<1>9. ASSUME NEW s \in Sessions, WriteCopy(s) PROVE TaskMatchesRegistry'
  <2>1. \A t \in Sessions \ {s} : task'[t] = task[t] /\ reg'[t] = reg[t]
    BY <1>a, <1>9 DEF WriteCopy
  <2>2. TaskFits(s)'
    BY <1>a, <1>9 DEF WriteCopy, TaskMatchesRegistry, TaskFits, At, Idle
  <2> QED BY <1>b, <2>1, <2>2
<1>10. ASSUME NEW s \in Sessions, NEW f \in Files, Save(s, f) PROVE TaskMatchesRegistry'
  <2>1. \A t \in Sessions \ {s} : task'[t] = task[t] /\ reg'[t] = reg[t]
    BY <1>a, <1>10 DEF Save
  <2>2. TaskFits(s)'
    BY <1>a, <1>10 DEF Save, TaskMatchesRegistry, TaskFits
  <2> QED BY <1>b, <2>1, <2>2
<1>11. ASSUME NEW s \in Sessions, NEW f \in Files, NEW close \in BOOLEAN, CheckIn(s, f, close) PROVE TaskMatchesRegistry'
  <2>1. \A t \in Sessions \ {s} : task'[t] = task[t] /\ reg'[t] = reg[t]
    BY <1>a, <1>11 DEF CheckIn
  <2>2. TaskFits(s)'
    BY <1>a, <1>11 DEF CheckIn, TaskMatchesRegistry, TaskFits, Ready, Idle
  <2> QED BY <1>b, <2>1, <2>2
<1>12. ASSUME NEW s \in Sessions, LockScreen(s) PROVE TaskMatchesRegistry'
  <2>1. \A t \in Sessions \ {s} : task'[t] = task[t] /\ reg'[t] = reg[t]
    BY <1>a, <1>12 DEF LockScreen
  <2>2. TaskFits(s)'
    BY <1>a, <1>12 DEF LockScreen, TaskMatchesRegistry, TaskFits, Ready, Idle,
       CloseAllTask
  <2> QED BY <1>b, <2>1, <2>2
<1>13. ASSUME NEW s \in Sessions, Quit(s) PROVE TaskMatchesRegistry'
  <2>1. \A t \in Sessions \ {s} : task'[t] = task[t] /\ reg'[t] = reg[t]
    BY <1>a, <1>13 DEF Quit
  <2>2. TaskFits(s)'
    BY <1>a, <1>13 DEF Quit, TaskMatchesRegistry, TaskFits, Ready, Idle,
       CloseAllTask
  <2> QED BY <1>b, <2>1, <2>2
<1>14. ASSUME NEW s \in Sessions, NextDocument(s) PROVE TaskMatchesRegistry'
  <2>1. \A t \in Sessions \ {s} : task'[t] = task[t] /\ reg'[t] = reg[t]
    BY <1>a, <1>14 DEF NextDocument
  <2>2. TaskFits(s)'
    BY <1>a, <1>14 DEF NextDocument, TaskMatchesRegistry, TaskFits, At, Task
  <2> QED BY <1>b, <2>1, <2>2
<1>15. ASSUME NEW s \in Sessions, ApplyCheckin(s) PROVE TaskMatchesRegistry'
  <2>1. \A t \in Sessions \ {s} : task'[t] = task[t] /\ reg'[t] = reg[t]
    BY <1>a, <1>15 DEF ApplyCheckin
  <2>2. CASE task'[s] = Idle
    BY <1>b, <2>1, <2>2, IdleFitsNext
  <2>3. ASSUME NEW r, task' = [task EXCEPT ![s].results = @ \ {r}]
        PROVE  TaskMatchesRegistry'
    <3>1. task'[s].at = task[s].at /\ task'[s].todo = task[s].todo
      BY <1>a, <2>3 DEF Task
    <3>2. task[s].at = "next" /\ reg'[s] = reg[s] /\ TaskFits(s)
      BY <1>15 DEF ApplyCheckin, At, TaskMatchesRegistry
    <3>3. TaskFits(s)'
      BY <3>1, <3>2 DEF TaskFits
    <3> QED BY <1>b, <2>1, <3>3
  <2> QED BY <1>a, <1>15, <2>2, <2>3 DEF ApplyCheckin
<1>16. ASSUME NEW s \in Sessions, LookForChange(s) PROVE TaskMatchesRegistry'
  <2>1. \A t \in Sessions \ {s} : task'[t] = task[t] /\ reg'[t] = reg[t]
    BY <1>a, <1>16 DEF LookForChange
  <2>2. TaskFits(s)'
    BY <1>a, <1>16 DEF LookForChange, TaskMatchesRegistry, TaskFits, At, Task,
       AfterWriteBack
  <2> QED BY <1>b, <2>1, <2>2
<1>17. ASSUME NEW s \in Sessions, HashCopy(s) PROVE TaskMatchesRegistry'
  <2>1. \A t \in Sessions \ {s} : task'[t] = task[t] /\ reg'[t] = reg[t]
    BY <1>a, <1>17 DEF HashCopy, GiveUp
  <2>2. TaskFits(s)'
    BY <1>a, <1>17 DEF HashCopy, TaskMatchesRegistry, TaskFits, At, Task, GiveUp
  <2> QED BY <1>b, <2>1, <2>2
<1>18. ASSUME NEW s \in Sessions, ReplaceVault(s) PROVE TaskMatchesRegistry'
  <2>1. \A t \in Sessions \ {s} : task'[t] = task[t] /\ reg'[t] = reg[t]
    BY <1>a, <1>18 DEF ReplaceVault, GiveUp
  <2>2. TaskFits(s)'
    BY <1>a, <1>18 DEF ReplaceVault, TaskMatchesRegistry, TaskFits, At, Task,
       GiveUp, AfterWriteBack
  <2> QED BY <1>b, <2>1, <2>2
<1>19. ASSUME NEW s \in Sessions, Shred(s) PROVE TaskMatchesRegistry'
  <2>1. \A t \in Sessions \ {s} : task'[t] = task[t] /\ reg'[t] = reg[t]
    BY <1>a, <1>19 DEF Shred
  <2>2. TaskFits(s)'
    BY <1>a, <1>19 DEF Shred, TaskMatchesRegistry, TaskFits, At, Task
  <2> QED BY <1>b, <2>1, <2>2
<1>20. ASSUME NEW s \in Sessions, Release(s) PROVE TaskMatchesRegistry'
  <2>1. \A t \in Sessions \ {s} : task'[t] = task[t] /\ reg'[t] = reg[t]
    BY <1>a, <1>20 DEF Release
  <2>2. CASE task'[s] = Idle
    BY <1>b, <2>1, <2>2, IdleFitsNext
  <2>3. CASE task' = [task EXCEPT ![s].at = "next", ![s].file = None, ![s].sha = {}]
    <3>1. task'[s].at = "next" /\ task'[s].todo = task[s].todo
      BY <1>a, <2>3 DEF Task
    <3>2. reg'[s] = reg[s] /\ TaskFits(s)
      BY <1>20 DEF Release, TaskMatchesRegistry
    <3>3. TaskFits(s)'
      BY <3>1, <3>2 DEF TaskFits
    <3> QED BY <1>b, <2>1, <3>3
  <2> QED BY <1>a, <1>20, <2>2, <2>3 DEF Release
<1>21. ASSUME NEW s \in Sessions, NEW f \in Files, Discard(s, f) PROVE TaskMatchesRegistry'
  <2>1. \A t \in Sessions \ {s} : task'[t] = task[t] /\ reg'[t] = reg[t]
    BY <1>a, <1>21 DEF Discard
  <2>2. CASE task'[s] = Idle
    BY <1>b, <2>1, <2>2, IdleFitsNext
  <2>3. CASE task' = [task EXCEPT ![s] = [Idle EXCEPT !.at = "wipe", !.file = f]]
    <3>1. task'[s].at = "wipe" /\ task'[s].file = f /\ task'[s].todo = {} /\ reg'[s] = reg[s] \ {f}
      BY <1>a, <1>21, <2>3 DEF Discard, Idle
    <3>2. TaskFits(s)'
      BY <3>1 DEF TaskFits
    <3> QED BY <1>b, <2>1, <3>2
  <2> QED BY <1>21, <2>2, <2>3 DEF Discard, Ready
<1>22. ASSUME NEW s \in Sessions, Wipe(s) PROVE TaskMatchesRegistry'
  <2>1. \A t \in Sessions \ {s} : task'[t] = task[t] /\ reg'[t] = reg[t]
    BY <1>a, <1>22 DEF Wipe
  <2>2. TaskFits(s)'
    BY <1>a, <1>22 DEF Wipe, TaskMatchesRegistry, TaskFits, At, Idle
  <2> QED BY <1>b, <2>1, <2>2
<1>23. ASSUME NEW s \in Sessions, Exit(s) PROVE TaskMatchesRegistry'
  <2>1. \A t \in Sessions \ {s} : task'[t] = task[t] /\ reg'[t] = reg[t]
    BY <1>a, <1>23 DEF Exit
  <2>2. TaskFits(s)'
    BY <1>a, <1>23 DEF Exit, TaskMatchesRegistry, TaskFits, Idle
  <2> QED BY <1>b, <2>1, <2>2
<1>24. ASSUME NEW s \in Sessions, Crash(s) PROVE TaskMatchesRegistry'
  <2>1. \A t \in Sessions \ {s} : task'[t] = task[t] /\ reg'[t] = reg[t]
    BY <1>a, <1>24 DEF Crash
  <2>2. TaskFits(s)'
    BY <1>a, <1>24 DEF Crash, TaskMatchesRegistry, TaskFits, Idle
  <2> QED BY <1>b, <2>1, <2>2
<1> QED
  BY <1>1, <1>2, <1>3, <1>4, <1>5, <1>6, <1>7, <1>8, <1>9, <1>10, <1>11,
     <1>12, <1>13, <1>14, <1>15, <1>16, <1>17, <1>18, <1>19, <1>20, <1>21,
     <1>22, <1>23, <1>24 DEF Next, Startup, Request, Proceed

\* Exit and Crash forget the registry and the operation.
LEMMA DeadStep == TypeOK /\ TaskMatchesRegistry /\ DeadForget /\ [Next]_vars => DeadForget'
<1> SUFFICES ASSUME TypeOK, TaskMatchesRegistry, DeadForget, [Next]_vars PROVE DeadForget'
  OBVIOUS
<1>a. /\ task \in [Sessions -> Task] /\ reg \in [Sessions -> SUBSET Files]
      /\ phase \in [Sessions -> Phases]
  BY DEF TypeOK
<1>b. ASSUME NEW s \in Sessions, ~Alive(s)' => reg'[s] = {} /\ task'[s] = Idle,
             \A t \in Sessions \ {s} : task'[t] = task[t] /\ reg'[t] = reg[t] /\ phase'[t] = phase[t]
      PROVE  DeadForget'
  BY <1>b DEF DeadForget, Alive
<1>1. CASE UNCHANGED vars
  BY <1>1 DEF vars, DeadForget, Alive
<1>2. ASSUME NEW s \in Sessions, Start(s) PROVE DeadForget'
  <2>1. \A t \in Sessions \ {s} : task'[t] = task[t] /\ reg'[t] = reg[t] /\ phase'[t] = phase[t]
    BY <1>a, <1>2 DEF Start
  <2>2. Alive(s)'
    BY <1>a, <1>2 DEF Start, Alive
  <2> QED BY <1>b, <2>1, <2>2
<1>3. ASSUME NEW s \in Sessions, PurgeOrphans(s) PROVE DeadForget'
  <2>1. \A t \in Sessions \ {s} : task'[t] = task[t] /\ reg'[t] = reg[t] /\ phase'[t] = phase[t]
    BY <1>a, <1>3 DEF PurgeOrphans
  <2>2. Alive(s)'
    BY <1>a, <1>3 DEF PurgeOrphans, Alive
  <2> QED BY <1>b, <2>1, <2>2
<1>4. ASSUME NEW s \in Sessions, FetchLocks(s) PROVE DeadForget'
  <2>1. \A t \in Sessions \ {s} : task'[t] = task[t] /\ reg'[t] = reg[t] /\ phase'[t] = phase[t]
    BY <1>a, <1>4 DEF FetchLocks
  <2>2. Alive(s)'
    BY <1>a, <1>4 DEF FetchLocks, Alive
  <2> QED BY <1>b, <2>1, <2>2
<1>5. ASSUME NEW s \in Sessions, SweepRow(s) PROVE DeadForget'
  <2>1. \A t \in Sessions \ {s} : task'[t] = task[t] /\ reg'[t] = reg[t] /\ phase'[t] = phase[t]
    BY <1>a, <1>5 DEF SweepRow
  <2>2. Alive(s)'
    BY <1>a, <1>5 DEF SweepRow, Alive
  <2> QED BY <1>b, <2>1, <2>2
<1>6. ASSUME NEW s \in Sessions, EnterSession(s) PROVE DeadForget'
  <2>1. \A t \in Sessions \ {s} : task'[t] = task[t] /\ reg'[t] = reg[t] /\ phase'[t] = phase[t]
    BY <1>a, <1>6 DEF EnterSession
  <2>2. Alive(s)'
    BY <1>a, <1>6 DEF EnterSession, Alive
  <2> QED BY <1>b, <2>1, <2>2
<1>7. ASSUME NEW s \in Sessions, NEW f \in Files, Open(s, f) PROVE DeadForget'
  <2>1. \A t \in Sessions \ {s} : task'[t] = task[t] /\ reg'[t] = reg[t] /\ phase'[t] = phase[t]
    BY <1>a, <1>7 DEF Open
  <2>2. Alive(s)'
    BY <1>a, <1>7 DEF Open, Alive, Ready
  <2> QED BY <1>b, <2>1, <2>2
<1>8. ASSUME NEW s \in Sessions, Decrypt(s) PROVE DeadForget'
  <2>1. \A t \in Sessions \ {s} : task'[t] = task[t] /\ reg'[t] = reg[t] /\ phase'[t] = phase[t]
    BY <1>a, <1>8 DEF Decrypt
  <2>2. Alive(s)'
    BY <1>a, <1>8 DEF Decrypt, Alive, At
  <2> QED BY <1>b, <2>1, <2>2
<1>9. ASSUME NEW s \in Sessions, WriteCopy(s) PROVE DeadForget'
  <2>1. \A t \in Sessions \ {s} : task'[t] = task[t] /\ reg'[t] = reg[t] /\ phase'[t] = phase[t]
    BY <1>a, <1>9 DEF WriteCopy
  <2>2. Alive(s)'
    BY <1>a, <1>9 DEF WriteCopy, Alive, At
  <2> QED BY <1>b, <2>1, <2>2
<1>10. ASSUME NEW s \in Sessions, NEW f \in Files, Save(s, f) PROVE DeadForget'
  <2>1. \A t \in Sessions \ {s} : task'[t] = task[t] /\ reg'[t] = reg[t] /\ phase'[t] = phase[t]
    BY <1>a, <1>10 DEF Save
  <2>2. Alive(s)'
    BY <1>a, <1>10 DEF Save, Alive
  <2> QED BY <1>b, <2>1, <2>2
<1>11. ASSUME NEW s \in Sessions, NEW f \in Files, NEW close \in BOOLEAN, CheckIn(s, f, close) PROVE DeadForget'
  <2>1. \A t \in Sessions \ {s} : task'[t] = task[t] /\ reg'[t] = reg[t] /\ phase'[t] = phase[t]
    BY <1>a, <1>11 DEF CheckIn
  <2>2. Alive(s)'
    BY <1>a, <1>11 DEF CheckIn, Alive, Ready
  <2> QED BY <1>b, <2>1, <2>2
<1>12. ASSUME NEW s \in Sessions, LockScreen(s) PROVE DeadForget'
  <2>1. \A t \in Sessions \ {s} : task'[t] = task[t] /\ reg'[t] = reg[t] /\ phase'[t] = phase[t]
    BY <1>a, <1>12 DEF LockScreen
  <2>2. Alive(s)'
    BY <1>a, <1>12 DEF LockScreen, Alive, Ready
  <2> QED BY <1>b, <2>1, <2>2
<1>13. ASSUME NEW s \in Sessions, Quit(s) PROVE DeadForget'
  <2>1. \A t \in Sessions \ {s} : task'[t] = task[t] /\ reg'[t] = reg[t] /\ phase'[t] = phase[t]
    BY <1>a, <1>13 DEF Quit
  <2>2. Alive(s)'
    BY <1>a, <1>13 DEF Quit, Alive, Ready
  <2> QED BY <1>b, <2>1, <2>2
<1>14. ASSUME NEW s \in Sessions, NextDocument(s) PROVE DeadForget'
  <2>1. \A t \in Sessions \ {s} : task'[t] = task[t] /\ reg'[t] = reg[t] /\ phase'[t] = phase[t]
    BY <1>a, <1>14 DEF NextDocument
  <2>2. Alive(s)'
    BY <1>a, <1>14 DEF NextDocument, Alive, At
  <2> QED BY <1>b, <2>1, <2>2
<1>15. ASSUME NEW s \in Sessions, ApplyCheckin(s) PROVE DeadForget'
  <2>1. \A t \in Sessions \ {s} : task'[t] = task[t] /\ reg'[t] = reg[t] /\ phase'[t] = phase[t]
    BY <1>a, <1>15 DEF ApplyCheckin
  <2>2. Alive(s)'
    BY <1>a, <1>15 DEF ApplyCheckin, Alive, At
  <2> QED BY <1>b, <2>1, <2>2
<1>16. ASSUME NEW s \in Sessions, LookForChange(s) PROVE DeadForget'
  <2>1. \A t \in Sessions \ {s} : task'[t] = task[t] /\ reg'[t] = reg[t] /\ phase'[t] = phase[t]
    BY <1>a, <1>16 DEF LookForChange
  <2>2. Alive(s)'
    BY <1>a, <1>16 DEF LookForChange, Alive, At
  <2> QED BY <1>b, <2>1, <2>2
<1>17. ASSUME NEW s \in Sessions, HashCopy(s) PROVE DeadForget'
  <2>1. \A t \in Sessions \ {s} : task'[t] = task[t] /\ reg'[t] = reg[t] /\ phase'[t] = phase[t]
    BY <1>a, <1>17 DEF HashCopy, GiveUp
  <2>2. Alive(s)'
    BY <1>a, <1>17 DEF HashCopy, Alive, At
  <2> QED BY <1>b, <2>1, <2>2
<1>18. ASSUME NEW s \in Sessions, ReplaceVault(s) PROVE DeadForget'
  <2>1. \A t \in Sessions \ {s} : task'[t] = task[t] /\ reg'[t] = reg[t] /\ phase'[t] = phase[t]
    BY <1>a, <1>18 DEF ReplaceVault, GiveUp
  <2>2. Alive(s)'
    BY <1>a, <1>18 DEF ReplaceVault, Alive, At
  <2> QED BY <1>b, <2>1, <2>2
<1>19. ASSUME NEW s \in Sessions, Shred(s) PROVE DeadForget'
  <2>1. \A t \in Sessions \ {s} : task'[t] = task[t] /\ reg'[t] = reg[t] /\ phase'[t] = phase[t]
    BY <1>a, <1>19 DEF Shred
  <2>2. Alive(s)'
    BY <1>a, <1>19 DEF Shred, Alive, At
  <2> QED BY <1>b, <2>1, <2>2
<1>20. ASSUME NEW s \in Sessions, Release(s) PROVE DeadForget'
  <2>1. \A t \in Sessions \ {s} : task'[t] = task[t] /\ reg'[t] = reg[t] /\ phase'[t] = phase[t]
    BY <1>a, <1>20 DEF Release
  <2>2. Alive(s)'
    BY <1>a, <1>20 DEF Release, Alive, At
  <2> QED BY <1>b, <2>1, <2>2
<1>21. ASSUME NEW s \in Sessions, NEW f \in Files, Discard(s, f) PROVE DeadForget'
  <2>1. \A t \in Sessions \ {s} : task'[t] = task[t] /\ reg'[t] = reg[t] /\ phase'[t] = phase[t]
    BY <1>a, <1>21 DEF Discard
  <2>2. Alive(s)'
    BY <1>a, <1>21 DEF Discard, Alive, Ready
  <2> QED BY <1>b, <2>1, <2>2
<1>22. ASSUME NEW s \in Sessions, Wipe(s) PROVE DeadForget'
  <2>1. \A t \in Sessions \ {s} : task'[t] = task[t] /\ reg'[t] = reg[t] /\ phase'[t] = phase[t]
    BY <1>a, <1>22 DEF Wipe
  <2>2. Alive(s)'
    BY <1>a, <1>22 DEF Wipe, Alive, At
  <2> QED BY <1>b, <2>1, <2>2
<1>23. ASSUME NEW s \in Sessions, Exit(s) PROVE DeadForget'
  <2>1. reg'[s] = {} /\ task'[s] = Idle
    BY <1>a, <1>23 DEF Exit
  <2>2. \A t \in Sessions \ {s} : task'[t] = task[t] /\ reg'[t] = reg[t] /\ phase'[t] = phase[t]
    BY <1>a, <1>23 DEF Exit
  <2> QED BY <1>b, <2>1, <2>2
<1>24. ASSUME NEW s \in Sessions, Crash(s) PROVE DeadForget'
  <2>1. reg'[s] = {} /\ task'[s] = Idle
    BY <1>a, <1>24 DEF Crash
  <2>2. \A t \in Sessions \ {s} : task'[t] = task[t] /\ reg'[t] = reg[t] /\ phase'[t] = phase[t]
    BY <1>a, <1>24 DEF Crash
  <2> QED BY <1>b, <2>1, <2>2
<1> QED
  BY <1>1, <1>2, <1>3, <1>4, <1>5, <1>6, <1>7, <1>8, <1>9, <1>10, <1>11,
     <1>12, <1>13, <1>14, <1>15, <1>16, <1>17, <1>18, <1>19, <1>20, <1>21,
     <1>22, <1>23, <1>24 DEF Next, Startup, Request, Proceed

\* Only a live run works on a document.
LEMMA OwnersAreAlive ==
    ASSUME DeadForget, NEW s \in Sessions, NEW f \in Files, Owns(s, f)
    PROVE  Alive(s)
BY DEF DeadForget, Owns, Idle

\* Whoever works on a document holds its lock row: rows are taken before the
\* document is decrypted and deleted after it has left the registry, and the
\* startup sweep deletes the row of a dead run, or breaks the lock.
LEMMA LockStep == TypeOK /\ TaskMatchesRegistry /\ DeadForget /\ OwnersHoldLock /\ [Next]_vars => OwnersHoldLock'
<1> SUFFICES ASSUME TypeOK, TaskMatchesRegistry, DeadForget, OwnersHoldLock, [Next]_vars PROVE OwnersHoldLock'
  OBVIOUS
<1>a. /\ task \in [Sessions -> Task] /\ reg \in [Sessions -> SUBSET Files]
      /\ lock \in [Files -> Sessions \cup {None}]
  BY DEF TypeOK
\* A step that takes no document and leaves the lock table alone.
<1>b. ASSUME NEW s \in Sessions, UNCHANGED <<lock, stolen>>,
             \A t \in Sessions \ {s} : task'[t] = task[t] /\ reg'[t] = reg[t],
             \A f \in Files : Owns(s, f)' => Owns(s, f)
      PROVE  OwnersHoldLock'
  BY <1>b DEF OwnersHoldLock, Owns
\* A step that lets go of a document and deletes its row, or fails to.
<1>c. ASSUME NEW s \in Sessions, NEW g \in Files, lock' \in {lock, Unlock(s, g)},
             UNCHANGED stolen,
             \A t \in Sessions \ {s} : task'[t] = task[t] /\ reg'[t] = reg[t],
             \A f \in Files : Owns(s, f)' => Owns(s, f),
             ~Owns(s, g)'
      PROVE  OwnersHoldLock'
  <2> SUFFICES ASSUME NEW t \in Sessions, NEW f \in Files \ stolen, Owns(t, f)'
               PROVE  lock'[f] = t
    BY <1>c DEF OwnersHoldLock
  <2>1. Owns(t, f)
    BY <1>c DEF Owns
  <2>2. lock[f] = t
    BY <2>1 DEF OwnersHoldLock
  <2>3. f # g \/ t # s
    BY <1>c
  <2> QED BY <1>a, <1>c, <2>2, <2>3 DEF Unlock
<1>1. CASE UNCHANGED vars
  BY <1>1 DEF vars, OwnersHoldLock, Owns
<1>2. ASSUME NEW s \in Sessions, Start(s) PROVE OwnersHoldLock'
  <2>1. \A t \in Sessions \ {s} : task'[t] = task[t] /\ reg'[t] = reg[t]
    BY <1>a, <1>2 DEF Start
  <2>2. \A f \in Files : Owns(s, f)' => Owns(s, f)
    BY <1>a, <1>2 DEF Start, Owns, TaskMatchesRegistry, TaskFits
  <2> QED BY <1>b, <1>2, <2>1, <2>2 DEF Start
<1>3. ASSUME NEW s \in Sessions, PurgeOrphans(s) PROVE OwnersHoldLock'
  <2>1. \A t \in Sessions \ {s} : task'[t] = task[t] /\ reg'[t] = reg[t]
    BY <1>a, <1>3 DEF PurgeOrphans
  <2>2. \A f \in Files : Owns(s, f)' => Owns(s, f)
    BY <1>a, <1>3 DEF PurgeOrphans, Owns, TaskMatchesRegistry, TaskFits
  <2> QED BY <1>b, <1>3, <2>1, <2>2 DEF PurgeOrphans
<1>4. ASSUME NEW s \in Sessions, FetchLocks(s) PROVE OwnersHoldLock'
  <2>1. \A t \in Sessions \ {s} : task'[t] = task[t] /\ reg'[t] = reg[t]
    BY <1>a, <1>4 DEF FetchLocks
  <2>2. \A f \in Files : Owns(s, f)' => Owns(s, f)
    BY <1>a, <1>4 DEF FetchLocks, Owns, TaskMatchesRegistry, TaskFits
  <2> QED BY <1>b, <1>4, <2>1, <2>2 DEF FetchLocks
<1>5. ASSUME NEW s \in Sessions, SweepRow(s) PROVE OwnersHoldLock'
  <2>1. PICK r \in rows[s] :
            \/ UNCHANGED <<lock, stolen>>
            \/ /\ lock' = [lock EXCEPT ![r.file] = None]
               /\ stolen' = IF \E h \in Sessions : lock[r.file] = h /\ Alive(h)
                            THEN stolen \cup {r.file} ELSE stolen
    BY <1>5 DEF SweepRow
  <2> SUFFICES ASSUME NEW t \in Sessions, NEW f \in Files \ stolen', Owns(t, f)
               PROVE  lock'[f] = t
    BY <1>5 DEF SweepRow, OwnersHoldLock, Owns
  <2>2. f \notin stolen
    BY <2>1
  <2>3. lock[f] = t /\ Alive(t)
    BY <2>2, OwnersAreAlive DEF OwnersHoldLock
  <2>4. CASE UNCHANGED <<lock, stolen>>
    BY <2>3, <2>4
  <2>5. CASE /\ lock' = [lock EXCEPT ![r.file] = None]
             /\ stolen' = IF \E h \in Sessions : lock[r.file] = h /\ Alive(h)
                          THEN stolen \cup {r.file} ELSE stolen
    <3>1. f # r.file
      BY <2>3, <2>5
    <3> QED BY <1>a, <2>3, <2>5, <3>1
  <2> QED BY <2>1, <2>4, <2>5
<1>6. ASSUME NEW s \in Sessions, EnterSession(s) PROVE OwnersHoldLock'
  <2>1. \A t \in Sessions \ {s} : task'[t] = task[t] /\ reg'[t] = reg[t]
    BY <1>a, <1>6 DEF EnterSession
  <2>2. \A f \in Files : Owns(s, f)' => Owns(s, f)
    BY <1>a, <1>6 DEF EnterSession, Owns, TaskMatchesRegistry, TaskFits
  <2> QED BY <1>b, <1>6, <2>1, <2>2 DEF EnterSession
<1>7. ASSUME NEW s \in Sessions, NEW f \in Files, Open(s, f) PROVE OwnersHoldLock'
  <2>1. \A t \in Sessions \ {s} : task'[t] = task[t] /\ reg'[t] = reg[t]
    BY <1>a, <1>7 DEF Open
  <2>2. CASE UNCHANGED <<lock, task>>
    <3>1. \A g \in Files : Owns(s, g)' => Owns(s, g)
      BY <1>a, <1>7, <2>2 DEF Open, Owns
    <3> QED BY <1>b, <1>7, <2>1, <2>2, <3>1 DEF Open
  <2>3. CASE /\ Lockable(s, f)
             /\ lock' = [lock EXCEPT ![f] = s]
             /\ task' = [task EXCEPT ![s] = [Idle EXCEPT !.at = "decrypt", !.file = f]]
    <3>1. \A g \in Files \ {f} : Owns(s, g)' => Owns(s, g)
      BY <1>a, <1>7, <2>3 DEF Open, Owns, Idle
    <3> SUFFICES ASSUME NEW t \in Sessions, NEW g \in Files \ stolen, Owns(t, g)'
                 PROVE  lock'[g] = t
      BY <1>7 DEF Open, OwnersHoldLock
    <3>2. CASE t = s /\ g = f
      BY <1>a, <2>3, <3>2
    <3>3. CASE t = s /\ g # f
      BY <1>a, <2>3, <3>1, <3>3 DEF OwnersHoldLock
    <3>4. CASE t # s
      <4>1. lock[g] = t
        BY <2>1, <3>4 DEF Owns, OwnersHoldLock
      <4>2. t # None
        BY NoneAssumption
      <4> QED BY <1>a, <2>3, <3>4, <4>1, <4>2 DEF Lockable
    <3> QED BY <3>2, <3>3, <3>4
  <2> QED BY <1>7, <2>2, <2>3 DEF Open
<1>8. ASSUME NEW s \in Sessions, Decrypt(s) PROVE OwnersHoldLock'
  <2>1. \A t \in Sessions \ {s} : task'[t] = task[t] /\ reg'[t] = reg[t]
    BY <1>a, <1>8 DEF Decrypt
  <2>2. PICK f \in Files : f = task[s].file /\ task[s].at = "decrypt" /\ f \notin reg[s]
    BY <1>8 DEF Decrypt, At, TaskMatchesRegistry, TaskFits
  <2>3. CASE task' = [task EXCEPT ![s].at = "write", ![s].sha = vault[f]] /\ UNCHANGED lock
    <3>1. task'[s].at = "write" /\ task'[s].file = f
      BY <1>a, <2>2, <2>3 DEF Task
    <3>2. \A g \in Files : Owns(s, g)' => Owns(s, g)
      BY <1>8, <2>2, <3>1 DEF Decrypt, Owns
    <3> QED BY <1>b, <1>8, <2>1, <2>3, <3>2 DEF Decrypt
  <2>4. CASE lock' \in {lock, Unlock(s, f)} /\ task' = [task EXCEPT ![s] = Idle]
    <3>1. task'[s] = Idle /\ reg' = reg
      BY <1>a, <1>8, <2>4 DEF Decrypt
    <3>2. \A g \in Files : Owns(s, g)' => Owns(s, g)
      BY <3>1 DEF Owns, Idle
    <3>3. ~Owns(s, f)'
      BY <2>2, <3>1 DEF Owns, Idle
    <3> QED BY <1>c, <1>8, <2>1, <2>2, <2>4, <3>2, <3>3 DEF Decrypt
  <2> QED BY <1>8, <2>2, <2>3, <2>4 DEF Decrypt, AfterUnlock
<1>9. ASSUME NEW s \in Sessions, WriteCopy(s) PROVE OwnersHoldLock'
  <2>1. \A t \in Sessions \ {s} : task'[t] = task[t] /\ reg'[t] = reg[t]
    BY <1>a, <1>9 DEF WriteCopy
  <2>2. PICK f \in Files : f = task[s].file /\ task[s].at = "write" /\ f \notin reg[s]
    BY <1>9 DEF WriteCopy, At, TaskMatchesRegistry, TaskFits
  <2>3. task'[s] = Idle
    BY <1>a, <1>9 DEF WriteCopy
  <2>4. CASE lock' = lock /\ reg' \in {reg, [reg EXCEPT ![s] = @ \cup {f}]}
    <3>1. \A g \in Files : Owns(s, g)' => Owns(s, g)
      BY <1>a, <2>2, <2>3, <2>4 DEF Owns, Idle
    <3> QED BY <1>b, <1>9, <2>1, <2>4, <3>1 DEF WriteCopy
  <2>5. CASE lock' \in {lock, Unlock(s, f)} /\ reg' = reg
    <3>1. \A g \in Files : Owns(s, g)' => Owns(s, g)
      BY <2>3, <2>5 DEF Owns, Idle
    <3>2. ~Owns(s, f)'
      BY <2>2, <2>3, <2>5 DEF Owns, Idle
    <3> QED BY <1>c, <1>9, <2>1, <2>2, <2>5, <3>1, <3>2 DEF WriteCopy
  <2> QED BY <1>9, <2>2, <2>4, <2>5 DEF WriteCopy, AfterUnlock
<1>10. ASSUME NEW s \in Sessions, NEW f \in Files, Save(s, f) PROVE OwnersHoldLock'
  <2>1. \A t \in Sessions \ {s} : task'[t] = task[t] /\ reg'[t] = reg[t]
    BY <1>a, <1>10 DEF Save
  <2>2. \A g \in Files : Owns(s, g)' => Owns(s, g)
    BY <1>a, <1>10 DEF Save, Owns, TaskMatchesRegistry, TaskFits
  <2> QED BY <1>b, <1>10, <2>1, <2>2 DEF Save
<1>11. ASSUME NEW s \in Sessions, NEW f \in Files, NEW close \in BOOLEAN, CheckIn(s, f, close) PROVE OwnersHoldLock'
  <2>1. \A t \in Sessions \ {s} : task'[t] = task[t] /\ reg'[t] = reg[t]
    BY <1>a, <1>11 DEF CheckIn
  <2>2. \A g \in Files : Owns(s, g)' => Owns(s, g)
    BY <1>a, <1>11 DEF CheckIn, Owns, TaskMatchesRegistry, TaskFits, Ready, Idle
  <2> QED BY <1>b, <1>11, <2>1, <2>2 DEF CheckIn
<1>12. ASSUME NEW s \in Sessions, LockScreen(s) PROVE OwnersHoldLock'
  <2>1. \A t \in Sessions \ {s} : task'[t] = task[t] /\ reg'[t] = reg[t]
    BY <1>a, <1>12 DEF LockScreen
  <2>2. \A f \in Files : Owns(s, f)' => Owns(s, f)
    BY <1>a, <1>12 DEF LockScreen, Owns, TaskMatchesRegistry, TaskFits, Ready,
       Idle, CloseAllTask
  <2> QED BY <1>b, <1>12, <2>1, <2>2 DEF LockScreen
<1>13. ASSUME NEW s \in Sessions, Quit(s) PROVE OwnersHoldLock'
  <2>1. \A t \in Sessions \ {s} : task'[t] = task[t] /\ reg'[t] = reg[t]
    BY <1>a, <1>13 DEF Quit
  <2>2. \A f \in Files : Owns(s, f)' => Owns(s, f)
    BY <1>a, <1>13 DEF Quit, Owns, TaskMatchesRegistry, TaskFits, Ready, Idle,
       CloseAllTask
  <2> QED BY <1>b, <1>13, <2>1, <2>2 DEF Quit
<1>14. ASSUME NEW s \in Sessions, NextDocument(s) PROVE OwnersHoldLock'
  <2>1. \A t \in Sessions \ {s} : task'[t] = task[t] /\ reg'[t] = reg[t]
    BY <1>a, <1>14 DEF NextDocument
  <2>2. \A f \in Files : Owns(s, f)' => Owns(s, f)
    BY <1>a, <1>14 DEF NextDocument, Owns, TaskMatchesRegistry, TaskFits, At,
       Task
  <2> QED BY <1>b, <1>14, <2>1, <2>2 DEF NextDocument
<1>15. ASSUME NEW s \in Sessions, ApplyCheckin(s) PROVE OwnersHoldLock'
  <2>1. \A t \in Sessions \ {s} : task'[t] = task[t] /\ reg'[t] = reg[t]
    BY <1>a, <1>15 DEF ApplyCheckin
  <2>2. \A f \in Files : Owns(s, f)' => Owns(s, f)
    BY <1>a, <1>15 DEF ApplyCheckin, Owns, TaskMatchesRegistry, TaskFits, At,
       Idle, Task
  <2> QED BY <1>b, <1>15, <2>1, <2>2 DEF ApplyCheckin
<1>16. ASSUME NEW s \in Sessions, LookForChange(s) PROVE OwnersHoldLock'
  <2>1. \A t \in Sessions \ {s} : task'[t] = task[t] /\ reg'[t] = reg[t]
    BY <1>a, <1>16 DEF LookForChange
  <2>2. \A f \in Files : Owns(s, f)' => Owns(s, f)
    BY <1>a, <1>16 DEF LookForChange, Owns, TaskMatchesRegistry, TaskFits, At,
       Task, AfterWriteBack
  <2> QED BY <1>b, <1>16, <2>1, <2>2 DEF LookForChange
<1>17. ASSUME NEW s \in Sessions, HashCopy(s) PROVE OwnersHoldLock'
  <2>1. \A t \in Sessions \ {s} : task'[t] = task[t] /\ reg'[t] = reg[t]
    BY <1>a, <1>17 DEF HashCopy, GiveUp
  <2>2. \A f \in Files : Owns(s, f)' => Owns(s, f)
    BY <1>a, <1>17 DEF HashCopy, Owns, TaskMatchesRegistry, TaskFits, At,
       Task, GiveUp
  <2> QED BY <1>b, <1>17, <2>1, <2>2 DEF HashCopy
<1>18. ASSUME NEW s \in Sessions, ReplaceVault(s) PROVE OwnersHoldLock'
  <2>1. \A t \in Sessions \ {s} : task'[t] = task[t] /\ reg'[t] = reg[t]
    BY <1>a, <1>18 DEF ReplaceVault, GiveUp
  <2>2. \A f \in Files : Owns(s, f)' => Owns(s, f)
    BY <1>a, <1>18 DEF ReplaceVault, Owns, TaskMatchesRegistry, TaskFits, At,
       Task, GiveUp, AfterWriteBack
  <2> QED BY <1>b, <1>18, <2>1, <2>2 DEF ReplaceVault
<1>19. ASSUME NEW s \in Sessions, Shred(s) PROVE OwnersHoldLock'
  <2>1. \A t \in Sessions \ {s} : task'[t] = task[t] /\ reg'[t] = reg[t]
    BY <1>a, <1>19 DEF Shred
  <2>2. \A f \in Files : Owns(s, f)' => Owns(s, f)
    BY <1>a, <1>19 DEF Shred, Owns, TaskMatchesRegistry, TaskFits, At, Task
  <2> QED BY <1>b, <1>19, <2>1, <2>2 DEF Shred
<1>20. ASSUME NEW s \in Sessions, Release(s) PROVE OwnersHoldLock'
  <2>1. \A t \in Sessions \ {s} : task'[t] = task[t] /\ reg'[t] = reg[t]
    BY <1>a, <1>20 DEF Release
  <2>2. PICK f \in Files : f = task[s].file /\ task[s].at = "release" /\ f \notin reg[s]
    BY <1>20 DEF Release, At, TaskMatchesRegistry, TaskFits
  <2>3. task'[s].at \in {"idle", "next"} /\ reg' = reg
    BY <1>a, <1>20 DEF Release, Idle, Task
  <2>4. \A g \in Files : Owns(s, g)' => Owns(s, g)
    BY <2>3 DEF Owns
  <2>5. ~Owns(s, f)'
    BY <2>2, <2>3 DEF Owns
  <2> QED BY <1>c, <1>20, <2>1, <2>2, <2>4, <2>5 DEF Release
<1>21. ASSUME NEW s \in Sessions, NEW f \in Files, Discard(s, f) PROVE OwnersHoldLock'
  <2>1. \A t \in Sessions \ {s} : task'[t] = task[t] /\ reg'[t] = reg[t]
    BY <1>a, <1>21 DEF Discard
  <2>2. task'[s].at \in {"idle", "wipe"}
    <3>1. CASE task'[s] = Idle
      BY <3>1 DEF Idle
    <3>2. CASE task' = [task EXCEPT ![s] = [Idle EXCEPT !.at = "wipe", !.file = f]]
      BY <1>a, <3>2 DEF Idle
    <3> QED BY <1>a, <1>21, <3>1, <3>2 DEF Discard, Ready
  <2>3. \A g \in Files : Owns(s, g)' => Owns(s, g)
    BY <1>a, <1>21, <2>2 DEF Discard, Owns
  <2>4. ~Owns(s, f)'
    BY <1>a, <1>21, <2>2 DEF Discard, Owns
  <2> QED BY <1>c, <1>21, <2>1, <2>3, <2>4 DEF Discard
<1>22. ASSUME NEW s \in Sessions, Wipe(s) PROVE OwnersHoldLock'
  <2>1. \A t \in Sessions \ {s} : task'[t] = task[t] /\ reg'[t] = reg[t]
    BY <1>a, <1>22 DEF Wipe
  <2>2. \A f \in Files : Owns(s, f)' => Owns(s, f)
    BY <1>a, <1>22 DEF Wipe, Owns, TaskMatchesRegistry, TaskFits, At, Idle
  <2> QED BY <1>b, <1>22, <2>1, <2>2 DEF Wipe
<1>23. ASSUME NEW s \in Sessions, Exit(s) PROVE OwnersHoldLock'
  <2>1. \A t \in Sessions \ {s} : task'[t] = task[t] /\ reg'[t] = reg[t]
    BY <1>a, <1>23 DEF Exit
  <2>2. \A f \in Files : Owns(s, f)' => Owns(s, f)
    BY <1>a, <1>23 DEF Exit, Owns, TaskMatchesRegistry, TaskFits, Idle
  <2> QED BY <1>b, <1>23, <2>1, <2>2 DEF Exit
<1>24. ASSUME NEW s \in Sessions, Crash(s) PROVE OwnersHoldLock'
  <2>1. \A t \in Sessions \ {s} : task'[t] = task[t] /\ reg'[t] = reg[t]
    BY <1>a, <1>24 DEF Crash
  <2>2. \A f \in Files : Owns(s, f)' => Owns(s, f)
    BY <1>a, <1>24 DEF Crash, Owns, TaskMatchesRegistry, TaskFits, Idle
  <2> QED BY <1>b, <1>24, <2>1, <2>2 DEF Crash
<1> QED
  BY <1>1, <1>2, <1>3, <1>4, <1>5, <1>6, <1>7, <1>8, <1>9, <1>10, <1>11,
     <1>12, <1>13, <1>14, <1>15, <1>16, <1>17, <1>18, <1>19, <1>20, <1>21,
     <1>22, <1>23, <1>24 DEF Next, Startup, Request, Proceed

\* A document whose lock was not broken has one run working on it at most.
LEMMA OneOwner ==
    ASSUME OwnersHoldLock, NEW s \in Sessions, NEW t \in Sessions, NEW f \in Files \ stolen,
           Owns(s, f), Owns(t, f)
    PROVE  s = t
BY DEF OwnersHoldLock

\* What may be written back extends what is stored: the copy was decrypted under
\* the lock, and nobody else writes while it is held.
LEMMA CopiesStep == TypeOK /\ TaskMatchesRegistry /\ OwnersHoldLock /\ CopiesUpToDate /\ [Next]_vars => CopiesUpToDate'
<1> SUFFICES ASSUME TypeOK, TaskMatchesRegistry, OwnersHoldLock, CopiesUpToDate, [Next]_vars PROVE CopiesUpToDate'
  OBVIOUS
<1>a. /\ task \in [Sessions -> Task] /\ reg \in [Sessions -> SUBSET Files]
      /\ copy \in [Sessions -> [Files -> Content \cup {Gone}]]
      /\ vault \in [Files -> Content]
  BY DEF TypeOK
\* A step that writes no content and opens no document.
<1>b. ASSUME NEW s \in Sessions, UNCHANGED vault, stolen \subseteq stolen',
             \A t \in Sessions \ {s} : task'[t] = task[t],
             task'[s].at # "write" \/ task'[s] = task[s],
             \A t \in Sessions : reg'[t] \subseteq reg[t],
             \A t \in Sessions, f \in Files : copy'[t][f] \in {copy[t][f], Gone}
      PROVE  CopiesUpToDate'
  <2> SUFFICES ASSUME NEW t \in Sessions, NEW f \in Files \ stolen' PROVE UpToDate(t, f)'
    BY DEF CopiesUpToDate
  <2>1. UpToDate(t, f) /\ f \in Files \ stolen
    BY <1>b DEF CopiesUpToDate
  <2>2. f \in reg'[t] /\ copy'[t][f] # Gone => vault'[f] \subseteq copy'[t][f]
    BY <1>b, <2>1 DEF UpToDate
  <2>3. task'[t].at = "write" /\ task'[t].file = f => vault'[f] \subseteq task'[t].sha
    BY <1>b, <2>1 DEF UpToDate
  <2> QED BY <2>2, <2>3 DEF UpToDate
<1>1. CASE UNCHANGED vars
  BY <1>1 DEF vars, CopiesUpToDate, UpToDate
<1>2. ASSUME NEW s \in Sessions, Start(s) PROVE CopiesUpToDate'
  <2>1. \A t \in Sessions \ {s} : task'[t] = task[t]
    BY <1>a, <1>2 DEF Start
  <2>2. task'[s].at # "write" \/ task'[s] = task[s]
    BY <1>a, <1>2 DEF Start
  <2>3. /\ \A t \in Sessions : reg'[t] \subseteq reg[t]
        /\ \A t \in Sessions, f \in Files : copy'[t][f] \in {copy[t][f], Gone}
    BY <1>a, <1>2 DEF Start
  <2> QED BY <1>b, <1>2, <2>1, <2>2, <2>3 DEF Start
<1>3. ASSUME NEW s \in Sessions, PurgeOrphans(s) PROVE CopiesUpToDate'
  <2>1. \A t \in Sessions \ {s} : task'[t] = task[t]
    BY <1>a, <1>3 DEF PurgeOrphans
  <2>2. task'[s].at # "write" \/ task'[s] = task[s]
    BY <1>a, <1>3 DEF PurgeOrphans
  <2>3. /\ \A t \in Sessions : reg'[t] \subseteq reg[t]
        /\ \A t \in Sessions, f \in Files : copy'[t][f] \in {copy[t][f], Gone}
    BY <1>a, <1>3 DEF PurgeOrphans, Purge
  <2> QED BY <1>b, <1>3, <2>1, <2>2, <2>3 DEF PurgeOrphans
<1>4. ASSUME NEW s \in Sessions, FetchLocks(s) PROVE CopiesUpToDate'
  <2>1. \A t \in Sessions \ {s} : task'[t] = task[t]
    BY <1>a, <1>4 DEF FetchLocks
  <2>2. task'[s].at # "write" \/ task'[s] = task[s]
    BY <1>a, <1>4 DEF FetchLocks
  <2>3. /\ \A t \in Sessions : reg'[t] \subseteq reg[t]
        /\ \A t \in Sessions, f \in Files : copy'[t][f] \in {copy[t][f], Gone}
    BY <1>a, <1>4 DEF FetchLocks
  <2> QED BY <1>b, <1>4, <2>1, <2>2, <2>3 DEF FetchLocks
<1>5. ASSUME NEW s \in Sessions, SweepRow(s) PROVE CopiesUpToDate'
  <2>1. \A t \in Sessions \ {s} : task'[t] = task[t]
    BY <1>a, <1>5 DEF SweepRow
  <2>2. task'[s].at # "write" \/ task'[s] = task[s]
    BY <1>a, <1>5 DEF SweepRow
  <2>3. /\ \A t \in Sessions : reg'[t] \subseteq reg[t]
        /\ \A t \in Sessions, f \in Files : copy'[t][f] \in {copy[t][f], Gone}
    BY <1>a, <1>5 DEF SweepRow
  <2>4. UNCHANGED vault /\ stolen \subseteq stolen'
    BY <1>5 DEF SweepRow
  <2> QED BY <1>b, <2>1, <2>2, <2>3, <2>4
<1>6. ASSUME NEW s \in Sessions, EnterSession(s) PROVE CopiesUpToDate'
  <2>1. \A t \in Sessions \ {s} : task'[t] = task[t]
    BY <1>a, <1>6 DEF EnterSession
  <2>2. task'[s].at # "write" \/ task'[s] = task[s]
    BY <1>a, <1>6 DEF EnterSession
  <2>3. /\ \A t \in Sessions : reg'[t] \subseteq reg[t]
        /\ \A t \in Sessions, f \in Files : copy'[t][f] \in {copy[t][f], Gone}
    BY <1>a, <1>6 DEF EnterSession
  <2> QED BY <1>b, <1>6, <2>1, <2>2, <2>3 DEF EnterSession
<1>7. ASSUME NEW s \in Sessions, NEW f \in Files, Open(s, f) PROVE CopiesUpToDate'
  <2>1. \A t \in Sessions \ {s} : task'[t] = task[t]
    BY <1>a, <1>7 DEF Open
  <2>2. task'[s].at # "write"
    <3>1. CASE task'[s] = Idle
      BY <3>1 DEF Idle
    <3>2. CASE task' = [task EXCEPT ![s] = [Idle EXCEPT !.at = "decrypt", !.file = f]]
      BY <1>a, <3>2 DEF Idle
    <3> QED BY <1>a, <1>7, <3>1, <3>2 DEF Open, Ready
  <2>3. /\ \A t \in Sessions : reg'[t] \subseteq reg[t]
        /\ \A t \in Sessions, g \in Files : copy'[t][g] \in {copy[t][g], Gone}
    BY <1>a, <1>7 DEF Open
  <2> QED BY <1>b, <1>7, <2>1, <2>2, <2>3 DEF Open
<1>8. ASSUME NEW s \in Sessions, Decrypt(s) PROVE CopiesUpToDate'
  <2>1. \A t \in Sessions \ {s} : task'[t] = task[t]
    BY <1>a, <1>8 DEF Decrypt
  <2>2. PICK g \in Files : g = task[s].file
    BY <1>8 DEF Decrypt, At, TaskMatchesRegistry, TaskFits
  <2>3. UNCHANGED <<reg, copy, vault, stolen>>
    BY <1>8 DEF Decrypt
  <2>4. CASE task' = [task EXCEPT ![s].at = "write", ![s].sha = vault[g]]
    <3> SUFFICES ASSUME NEW t \in Sessions, NEW f \in Files \ stolen PROVE UpToDate(t, f)'
      BY <2>3 DEF CopiesUpToDate
    <3>1. UpToDate(t, f)
      BY DEF CopiesUpToDate
    <3>2. task'[s].file = g /\ task'[s].sha = vault[g]
      BY <1>a, <2>2, <2>4 DEF Task
    <3>3. CASE t = s
      BY <2>3, <3>1, <3>2, <3>3 DEF UpToDate
    <3>4. CASE t # s
      BY <2>1, <2>3, <3>1, <3>4 DEF UpToDate
    <3> QED BY <3>3, <3>4
  <2>5. CASE task' = [task EXCEPT ![s] = Idle]
    <3>1. task'[s].at # "write"
      BY <1>a, <2>5 DEF Idle
    <3> QED BY <1>b, <2>1, <2>3, <3>1
  <2> QED BY <1>8, <2>2, <2>4, <2>5 DEF Decrypt
<1>9. ASSUME NEW s \in Sessions, WriteCopy(s) PROVE CopiesUpToDate'
  <2>1. \A t \in Sessions \ {s} : task'[t] = task[t]
    BY <1>a, <1>9 DEF WriteCopy
  <2>2. PICK g \in Files : g = task[s].file /\ task[s].at = "write"
    BY <1>9 DEF WriteCopy, At, TaskMatchesRegistry, TaskFits
  <2>3. task'[s].at # "write" /\ UNCHANGED <<vault, stolen>>
    BY <1>a, <1>9 DEF WriteCopy, Idle
  <2>4. CASE reg' = reg /\ UNCHANGED copy
    BY <1>b, <2>1, <2>3, <2>4
  <2>5. CASE reg' = [reg EXCEPT ![s] = @ \cup {g}] /\ copy' = [copy EXCEPT ![s][g] = task[s].sha]
    <3> SUFFICES ASSUME NEW t \in Sessions, NEW f \in Files \ stolen PROVE UpToDate(t, f)'
      BY <2>3 DEF CopiesUpToDate
    <3>1. UpToDate(t, f)
      BY DEF CopiesUpToDate
    <3>2. CASE t = s /\ f = g
      BY <1>a, <2>2, <2>3, <2>5, <3>1, <3>2 DEF UpToDate
    <3>3. CASE ~(t = s /\ f = g)
      <4>1. copy'[t][f] = copy[t][f] /\ (f \in reg'[t] => f \in reg[t])
        BY <1>a, <2>5, <3>3
      <4> QED BY <2>1, <2>3, <3>1, <4>1 DEF UpToDate
    <3> QED BY <3>2, <3>3
  <2>6. ASSUME NEW left, reg' = reg, copy' = [copy EXCEPT ![s][g] = left]
        PROVE  CopiesUpToDate'
    <3> SUFFICES ASSUME NEW t \in Sessions, NEW f \in Files \ stolen PROVE UpToDate(t, f)'
      BY <2>3 DEF CopiesUpToDate
    <3>1. UpToDate(t, f)
      BY DEF CopiesUpToDate
    <3>2. g \notin reg[s]
      BY <2>2 DEF TaskMatchesRegistry, TaskFits
    <3>3. f \in reg[t] => copy'[t][f] = copy[t][f]
      BY <1>a, <2>6, <3>2
    <3> QED BY <2>1, <2>3, <2>6, <3>1, <3>3 DEF UpToDate
  <2> QED BY <1>9, <2>2, <2>4, <2>5, <2>6 DEF WriteCopy
<1>10. ASSUME NEW s \in Sessions, NEW f \in Files, Save(s, f) PROVE CopiesUpToDate'
  <2>1. PICK e \in Edits : copy' = [copy EXCEPT ![s][f] = @ \cup {e}]
    BY <1>10 DEF Save
  <2> SUFFICES ASSUME NEW t \in Sessions, NEW g \in Files \ stolen PROVE UpToDate(t, g)'
    BY <1>10 DEF Save, CopiesUpToDate
  <2>2. UpToDate(t, g) /\ UNCHANGED <<vault, task, reg>>
    BY <1>10 DEF Save, CopiesUpToDate
  <2>3. copy[s][f] # Gone
    BY <1>10 DEF Save
  <2>4. copy'[t][g] = IF t = s /\ g = f THEN copy[t][g] \cup {e} ELSE copy[t][g]
    BY <1>a, <2>1
  <2> QED BY <2>2, <2>3, <2>4 DEF UpToDate
<1>11. ASSUME NEW s \in Sessions, NEW f \in Files, NEW close \in BOOLEAN, CheckIn(s, f, close) PROVE CopiesUpToDate'
  <2>1. \A t \in Sessions \ {s} : task'[t] = task[t]
    BY <1>a, <1>11 DEF CheckIn
  <2>2. task'[s].at # "write"
    BY <1>a, <1>11 DEF CheckIn, Ready, Idle
  <2>3. /\ \A t \in Sessions : reg'[t] \subseteq reg[t]
        /\ \A t \in Sessions, g \in Files : copy'[t][g] \in {copy[t][g], Gone}
    BY <1>a, <1>11 DEF CheckIn
  <2> QED BY <1>b, <1>11, <2>1, <2>2, <2>3 DEF CheckIn
<1>12. ASSUME NEW s \in Sessions, LockScreen(s) PROVE CopiesUpToDate'
  <2>1. \A t \in Sessions \ {s} : task'[t] = task[t]
    BY <1>a, <1>12 DEF LockScreen
  <2>2. task'[s].at # "write"
    BY <1>a, <1>12 DEF LockScreen, Ready, Idle, CloseAllTask
  <2>3. /\ \A t \in Sessions : reg'[t] \subseteq reg[t]
        /\ \A t \in Sessions, f \in Files : copy'[t][f] \in {copy[t][f], Gone}
    BY <1>a, <1>12 DEF LockScreen
  <2> QED BY <1>b, <1>12, <2>1, <2>2, <2>3 DEF LockScreen
<1>13. ASSUME NEW s \in Sessions, Quit(s) PROVE CopiesUpToDate'
  <2>1. \A t \in Sessions \ {s} : task'[t] = task[t]
    BY <1>a, <1>13 DEF Quit
  <2>2. task'[s].at # "write"
    BY <1>a, <1>13 DEF Quit, Ready, Idle, CloseAllTask
  <2>3. /\ \A t \in Sessions : reg'[t] \subseteq reg[t]
        /\ \A t \in Sessions, f \in Files : copy'[t][f] \in {copy[t][f], Gone}
    BY <1>a, <1>13 DEF Quit
  <2> QED BY <1>b, <1>13, <2>1, <2>2, <2>3 DEF Quit
<1>14. ASSUME NEW s \in Sessions, NextDocument(s) PROVE CopiesUpToDate'
  <2>1. \A t \in Sessions \ {s} : task'[t] = task[t]
    BY <1>a, <1>14 DEF NextDocument
  <2>2. task'[s].at # "write"
    BY <1>a, <1>14 DEF NextDocument, At, Task
  <2>3. /\ \A t \in Sessions : reg'[t] \subseteq reg[t]
        /\ \A t \in Sessions, f \in Files : copy'[t][f] \in {copy[t][f], Gone}
    BY <1>a, <1>14 DEF NextDocument
  <2> QED BY <1>b, <1>14, <2>1, <2>2, <2>3 DEF NextDocument
<1>15. ASSUME NEW s \in Sessions, ApplyCheckin(s) PROVE CopiesUpToDate'
  <2>1. \A t \in Sessions \ {s} : task'[t] = task[t]
    BY <1>a, <1>15 DEF ApplyCheckin
  <2>2. task'[s].at # "write"
    BY <1>a, <1>15 DEF ApplyCheckin, At, Idle, Task
  <2>3. /\ \A t \in Sessions : reg'[t] \subseteq reg[t]
        /\ \A t \in Sessions, f \in Files : copy'[t][f] \in {copy[t][f], Gone}
    BY <1>a, <1>15 DEF ApplyCheckin
  <2> QED BY <1>b, <1>15, <2>1, <2>2, <2>3 DEF ApplyCheckin
<1>16. ASSUME NEW s \in Sessions, LookForChange(s) PROVE CopiesUpToDate'
  <2>1. \A t \in Sessions \ {s} : task'[t] = task[t]
    BY <1>a, <1>16 DEF LookForChange
  <2>2. task'[s].at # "write"
    BY <1>a, <1>16 DEF LookForChange, At, Task, AfterWriteBack
  <2>3. /\ \A t \in Sessions : reg'[t] \subseteq reg[t]
        /\ \A t \in Sessions, f \in Files : copy'[t][f] \in {copy[t][f], Gone}
    BY <1>a, <1>16 DEF LookForChange
  <2> QED BY <1>b, <1>16, <2>1, <2>2, <2>3 DEF LookForChange
<1>17. ASSUME NEW s \in Sessions, HashCopy(s) PROVE CopiesUpToDate'
  <2>1. \A t \in Sessions \ {s} : task'[t] = task[t]
    BY <1>a, <1>17 DEF HashCopy, GiveUp
  <2>2. task'[s].at # "write"
    BY <1>a, <1>17 DEF HashCopy, At, Task, GiveUp
  <2>3. /\ \A t \in Sessions : reg'[t] \subseteq reg[t]
        /\ \A t \in Sessions, f \in Files : copy'[t][f] \in {copy[t][f], Gone}
    BY <1>a, <1>17 DEF HashCopy, GiveUp
  <2> QED BY <1>b, <1>17, <2>1, <2>2, <2>3 DEF HashCopy
<1>18. ASSUME NEW s \in Sessions, ReplaceVault(s) PROVE CopiesUpToDate'
  <2>1. \A t \in Sessions \ {s} : task'[t] = task[t]
    BY <1>a, <1>18 DEF ReplaceVault, GiveUp
  <2>2. PICK g \in Files : g = task[s].file /\ g \in reg[s] /\ task[s].at = "replace"
    BY <1>18 DEF ReplaceVault, At, TaskMatchesRegistry, TaskFits
  <2>3. task'[s].at # "write"
    BY <1>a, <1>18 DEF ReplaceVault, Task, GiveUp, AfterWriteBack
  <2>4. UNCHANGED <<reg, copy, stolen>>
    BY <1>18 DEF ReplaceVault
  <2>5. CASE UNCHANGED vault
    BY <1>b, <2>1, <2>3, <2>4, <2>5
  <2>6. CASE vault' = [vault EXCEPT ![g] = copy[s][g]]
    <3> SUFFICES ASSUME NEW t \in Sessions, NEW f \in Files \ stolen PROVE UpToDate(t, f)'
      BY <2>4 DEF CopiesUpToDate
    <3>1. UpToDate(t, f)
      BY DEF CopiesUpToDate
    <3>2. CASE f # g
      <4>1. vault'[f] = vault[f]
        BY <1>a, <2>6, <3>2
      <4> QED BY <2>1, <2>3, <2>4, <3>1, <4>1 DEF UpToDate
    <3>3. CASE f = g /\ t = s
      BY <1>a, <2>3, <2>4, <2>6, <3>3 DEF UpToDate
    <3>4. CASE f = g /\ t # s
      <4>1. Owns(s, f)
        BY <2>2, <3>4 DEF Owns
      <4>2. ~Owns(t, f)
        BY <3>4, <4>1, OneOwner
      <4>3. f \notin reg[t] /\ ~(task[t].at = "write" /\ task[t].file = f)
        BY <4>2 DEF Owns
      <4> QED BY <2>1, <2>4, <3>4, <4>3 DEF UpToDate
    <3> QED BY <3>2, <3>3, <3>4
  <2> QED BY <1>18, <2>2, <2>5, <2>6 DEF ReplaceVault
<1>19. ASSUME NEW s \in Sessions, Shred(s) PROVE CopiesUpToDate'
  <2>1. \A t \in Sessions \ {s} : task'[t] = task[t]
    BY <1>a, <1>19 DEF Shred
  <2>2. task'[s].at # "write"
    BY <1>a, <1>19 DEF Shred, At, Task
  <2>3. /\ \A t \in Sessions : reg'[t] \subseteq reg[t]
        /\ \A t \in Sessions, f \in Files : copy'[t][f] \in {copy[t][f], Gone}
    BY <1>a, <1>19 DEF Shred
  <2> QED BY <1>b, <1>19, <2>1, <2>2, <2>3 DEF Shred
<1>20. ASSUME NEW s \in Sessions, Release(s) PROVE CopiesUpToDate'
  <2>1. \A t \in Sessions \ {s} : task'[t] = task[t]
    BY <1>a, <1>20 DEF Release
  <2>2. task'[s].at # "write"
    BY <1>a, <1>20 DEF Release, At, Idle, Task
  <2>3. /\ \A t \in Sessions : reg'[t] \subseteq reg[t]
        /\ \A t \in Sessions, f \in Files : copy'[t][f] \in {copy[t][f], Gone}
    BY <1>a, <1>20 DEF Release
  <2> QED BY <1>b, <1>20, <2>1, <2>2, <2>3 DEF Release
<1>21. ASSUME NEW s \in Sessions, NEW f \in Files, Discard(s, f) PROVE CopiesUpToDate'
  <2>1. \A t \in Sessions \ {s} : task'[t] = task[t]
    BY <1>a, <1>21 DEF Discard
  <2>2. task'[s].at # "write"
    <3>1. CASE task'[s] = Idle
      BY <3>1 DEF Idle
    <3>2. CASE task' = [task EXCEPT ![s] = [Idle EXCEPT !.at = "wipe", !.file = f]]
      BY <1>a, <3>2 DEF Idle
    <3> QED BY <1>a, <1>21, <3>1, <3>2 DEF Discard, Ready
  <2>3. /\ \A t \in Sessions : reg'[t] \subseteq reg[t]
        /\ \A t \in Sessions, g \in Files : copy'[t][g] \in {copy[t][g], Gone}
    BY <1>a, <1>21 DEF Discard
  <2> QED BY <1>b, <1>21, <2>1, <2>2, <2>3 DEF Discard
<1>22. ASSUME NEW s \in Sessions, Wipe(s) PROVE CopiesUpToDate'
  <2>1. \A t \in Sessions \ {s} : task'[t] = task[t]
    BY <1>a, <1>22 DEF Wipe
  <2>2. task'[s].at # "write"
    BY <1>a, <1>22 DEF Wipe, At, Idle
  <2>3. /\ \A t \in Sessions : reg'[t] \subseteq reg[t]
        /\ \A t \in Sessions, f \in Files : copy'[t][f] \in {copy[t][f], Gone}
    BY <1>a, <1>22 DEF Wipe
  <2> QED BY <1>b, <1>22, <2>1, <2>2, <2>3 DEF Wipe
<1>23. ASSUME NEW s \in Sessions, Exit(s) PROVE CopiesUpToDate'
  <2>1. \A t \in Sessions \ {s} : task'[t] = task[t]
    BY <1>a, <1>23 DEF Exit
  <2>2. task'[s].at # "write"
    BY <1>a, <1>23 DEF Exit, Idle
  <2>3. /\ \A t \in Sessions : reg'[t] \subseteq reg[t]
        /\ \A t \in Sessions, f \in Files : copy'[t][f] \in {copy[t][f], Gone}
    BY <1>a, <1>23 DEF Exit, Purge
  <2> QED BY <1>b, <1>23, <2>1, <2>2, <2>3 DEF Exit
<1>24. ASSUME NEW s \in Sessions, Crash(s) PROVE CopiesUpToDate'
  <2>1. \A t \in Sessions \ {s} : task'[t] = task[t]
    BY <1>a, <1>24 DEF Crash
  <2>2. task'[s].at # "write"
    BY <1>a, <1>24 DEF Crash, Idle
  <2>3. /\ \A t \in Sessions : reg'[t] \subseteq reg[t]
        /\ \A t \in Sessions, f \in Files : copy'[t][f] \in {copy[t][f], Gone}
    BY <1>a, <1>24 DEF Crash
  <2> QED BY <1>b, <1>24, <2>1, <2>2, <2>3 DEF Crash
<1> QED
  BY <1>1, <1>2, <1>3, <1>4, <1>5, <1>6, <1>7, <1>8, <1>9, <1>10, <1>11,
     <1>12, <1>13, <1>14, <1>15, <1>16, <1>17, <1>18, <1>19, <1>20, <1>21,
     <1>22, <1>23, <1>24 DEF Next, Startup, Request, Proceed

\* Only rewrite_encrypted() changes an .hcl, and what it writes extends it.
LEMMA VaultGrows ==
    ASSUME TypeOK, TaskMatchesRegistry, CopiesUpToDate, [Next]_vars
    PROVE  /\ stolen \subseteq stolen'
           /\ \A f \in Files \ stolen' : vault[f] \subseteq vault'[f]
<1>1. CASE UNCHANGED <<vault, stolen>>
  BY <1>1
<1>2. ASSUME NEW s \in Sessions, SweepRow(s)
      PROVE  UNCHANGED vault /\ stolen \subseteq stolen'
  BY <1>2 DEF SweepRow
<1>3. ASSUME NEW s \in Sessions, ReplaceVault(s)
      PROVE  /\ UNCHANGED stolen
             /\ \A f \in Files \ stolen : vault[f] \subseteq vault'[f]
  <2>1. PICK g \in Files : g = task[s].file /\ g \in reg[s]
    BY <1>3 DEF ReplaceVault, At, TaskMatchesRegistry, TaskFits
  <2>2. \/ UNCHANGED vault
        \/ copy[s][g] # Gone /\ vault' = [vault EXCEPT ![g] = copy[s][g]]
    BY <1>3, <2>1 DEF ReplaceVault, Readable
  <2>3. g \notin stolen /\ copy[s][g] # Gone => vault[g] \subseteq copy[s][g]
    BY <2>1 DEF CopiesUpToDate, UpToDate
  <2>4. vault \in [Files -> Content]
    BY DEF TypeOK
  <2>5. \A f \in Files \ stolen : vault[f] \subseteq vault'[f]
    BY <2>2, <2>3, <2>4
  <2> QED BY <1>3, <2>5 DEF ReplaceVault
<1>4. ASSUME NEW s \in Sessions,
             \/ Start(s) \/ PurgeOrphans(s) \/ FetchLocks(s) \/ EnterSession(s)
             \/ LockScreen(s) \/ Quit(s) \/ Decrypt(s) \/ WriteCopy(s)
             \/ NextDocument(s) \/ ApplyCheckin(s) \/ LookForChange(s)
             \/ HashCopy(s) \/ Shred(s) \/ Release(s) \/ Wipe(s) \/ Exit(s) \/ Crash(s)
             \/ \E f \in Files : Open(s, f) \/ Discard(s, f) \/ Save(s, f)
             \/ \E f \in Files, close \in BOOLEAN : CheckIn(s, f, close)
      PROVE  UNCHANGED <<vault, stolen>>
  BY <1>4 DEF Start, PurgeOrphans, FetchLocks, EnterSession, LockScreen, Quit,
     Decrypt, WriteCopy, NextDocument, ApplyCheckin, LookForChange, HashCopy,
     Shred, Release, Wipe, Exit, Crash, Open, Discard, Save, CheckIn
<1>5. CASE UNCHANGED vars
  BY <1>5, <1>1 DEF vars
<1> QED
  BY <1>1, <1>2, <1>3, <1>4, <1>5 DEF Next, Startup, Request, Proceed

\* A digest waiting to be recorded is that of a content already stored.
LEMMA DigestsStep == TypeOK /\ TaskMatchesRegistry /\ CopiesUpToDate /\ DigestsStored /\ [Next]_vars => DigestsStored'
<1> SUFFICES ASSUME TypeOK, TaskMatchesRegistry, CopiesUpToDate, DigestsStored, [Next]_vars PROVE DigestsStored'
  OBVIOUS
<1>a. /\ task \in [Sessions -> Task] /\ reg \in [Sessions -> SUBSET Files]
      /\ copy \in [Sessions -> [Files -> Content \cup {Gone}]]
      /\ vault \in [Files -> Content]
  BY DEF TypeOK
\* A step that neither hashes a copy nor stores one.
<1>b. ASSUME NEW s \in Sessions,
             \A t \in Sessions \ {s} : task'[t] = task[t],
             task'[s].results \subseteq task[s].results,
             \A t \in Sessions \ {s}, f \in Files : copy'[t][f] \in {copy[t][f], Gone},
             \/ task'[s].at # "replace"
             \/ /\ task'[s] = task[s]
                /\ \A f \in Files : \/ copy'[s][f] \in {copy[s][f], Gone}
                                    \/ copy[s][f] # Gone /\ copy[s][f] \subseteq copy'[s][f]
      PROVE  DigestsStored'
  <2> SUFFICES ASSUME NEW t \in Sessions, NEW f \in Files \ stolen' PROVE Stored(t, f)'
    BY DEF DigestsStored
  <2>1. f \in Files \ stolen /\ vault[f] \subseteq vault'[f]
    BY VaultGrows
  <2>2. Stored(t, f)
    BY <2>1 DEF DigestsStored
  <2>3. \A r \in task'[t].results : r.file = f => r.sha \subseteq vault'[f]
    BY <1>b, <2>1, <2>2 DEF Stored
  <2>4. task'[t].at = "replace" /\ task'[t].file = f /\ copy'[t][f] # Gone
           => task'[t].sha \subseteq copy'[t][f]
    <3>1. CASE t = s
      BY <1>b, <2>2, <3>1 DEF Stored
    <3>2. CASE t # s
      BY <1>b, <2>2, <3>2 DEF Stored
    <3> QED BY <3>1, <3>2
  <2> QED BY <2>3, <2>4 DEF Stored
<1>1. CASE UNCHANGED vars
  BY <1>1 DEF vars, DigestsStored, Stored
<1>2. ASSUME NEW s \in Sessions, Start(s) PROVE DigestsStored'
  <2>1. \A t \in Sessions \ {s} : task'[t] = task[t]
    BY <1>a, <1>2 DEF Start
  <2>2. task'[s] = task[s] /\ task'[s].results \subseteq task[s].results
    BY <1>2 DEF Start
  <2>4. \A t \in Sessions, f \in Files : copy'[t][f] \in {copy[t][f], Gone}
    BY <1>a, <1>2 DEF Start
  <2> QED BY <1>b, <2>1, <2>2, <2>4
<1>3. ASSUME NEW s \in Sessions, PurgeOrphans(s) PROVE DigestsStored'
  <2>1. \A t \in Sessions \ {s} : task'[t] = task[t]
    BY <1>a, <1>3 DEF PurgeOrphans
  <2>2. task'[s] = task[s] /\ task'[s].results \subseteq task[s].results
    BY <1>3 DEF PurgeOrphans
  <2>4. \A t \in Sessions, f \in Files : copy'[t][f] \in {copy[t][f], Gone}
    BY <1>a, <1>3 DEF PurgeOrphans, Purge
  <2> QED BY <1>b, <2>1, <2>2, <2>4
<1>4. ASSUME NEW s \in Sessions, FetchLocks(s) PROVE DigestsStored'
  <2>1. \A t \in Sessions \ {s} : task'[t] = task[t]
    BY <1>a, <1>4 DEF FetchLocks
  <2>2. task'[s] = task[s] /\ task'[s].results \subseteq task[s].results
    BY <1>4 DEF FetchLocks
  <2>4. \A t \in Sessions, f \in Files : copy'[t][f] \in {copy[t][f], Gone}
    BY <1>a, <1>4 DEF FetchLocks
  <2> QED BY <1>b, <2>1, <2>2, <2>4
<1>5. ASSUME NEW s \in Sessions, SweepRow(s) PROVE DigestsStored'
  <2>1. \A t \in Sessions \ {s} : task'[t] = task[t]
    BY <1>a, <1>5 DEF SweepRow
  <2>2. task'[s] = task[s] /\ task'[s].results \subseteq task[s].results
    BY <1>5 DEF SweepRow
  <2>4. \A t \in Sessions, f \in Files : copy'[t][f] \in {copy[t][f], Gone}
    BY <1>a, <1>5 DEF SweepRow
  <2> QED BY <1>b, <2>1, <2>2, <2>4
<1>6. ASSUME NEW s \in Sessions, EnterSession(s) PROVE DigestsStored'
  <2>1. \A t \in Sessions \ {s} : task'[t] = task[t]
    BY <1>a, <1>6 DEF EnterSession
  <2>2. task'[s] = task[s] /\ task'[s].results \subseteq task[s].results
    BY <1>6 DEF EnterSession
  <2>4. \A t \in Sessions, f \in Files : copy'[t][f] \in {copy[t][f], Gone}
    BY <1>a, <1>6 DEF EnterSession
  <2> QED BY <1>b, <2>1, <2>2, <2>4
<1>7. ASSUME NEW s \in Sessions, NEW f \in Files, Open(s, f) PROVE DigestsStored'
  <2>1. \A t \in Sessions \ {s} : task'[t] = task[t]
    BY <1>a, <1>7 DEF Open
  <2>2. task'[s].at # "replace"
    <3>1. CASE task'[s] = Idle
      BY <3>1 DEF Idle
    <3>2. CASE task' = [task EXCEPT ![s] = [Idle EXCEPT !.at = "decrypt", !.file = f]]
      BY <1>a, <3>2 DEF Idle
    <3> QED BY <1>a, <1>7, <3>1, <3>2 DEF Open, Ready
  <2>3. task'[s].results \subseteq task[s].results
    <3>1. CASE task' = task
      BY <3>1
    <3>2. CASE task' = [task EXCEPT ![s] = [Idle EXCEPT !.at = "decrypt", !.file = f]]
      BY <1>a, <3>2 DEF Idle
    <3> QED BY <1>7, <3>1, <3>2 DEF Open
  <2>4. \A t \in Sessions \ {s}, g \in Files : copy'[t][g] \in {copy[t][g], Gone}
    BY <1>a, <1>7 DEF Open
  <2> QED BY <1>b, <2>1, <2>2, <2>3, <2>4
<1>8. ASSUME NEW s \in Sessions, Decrypt(s) PROVE DigestsStored'
  <2>1. \A t \in Sessions \ {s} : task'[t] = task[t]
    BY <1>a, <1>8 DEF Decrypt
  <2>2. task'[s].at # "replace"
    BY <1>a, <1>8 DEF Decrypt, At, Idle, Task
  <2>3. task'[s].results \subseteq task[s].results
    <3>1. CASE task' = [task EXCEPT ![s].at = "write", ![s].sha = vault[task[s].file]]
      BY <1>a, <3>1 DEF Task
    <3>2. CASE task' = [task EXCEPT ![s] = Idle]
      BY <1>a, <3>2 DEF Idle
    <3> QED BY <1>8, <3>1, <3>2 DEF Decrypt
  <2>4. \A t \in Sessions \ {s}, f \in Files : copy'[t][f] \in {copy[t][f], Gone}
    BY <1>a, <1>8 DEF Decrypt
  <2> QED BY <1>b, <2>1, <2>2, <2>3, <2>4
<1>9. ASSUME NEW s \in Sessions, WriteCopy(s) PROVE DigestsStored'
  <2>1. \A t \in Sessions \ {s} : task'[t] = task[t]
    BY <1>a, <1>9 DEF WriteCopy
  <2>2. task'[s].at # "replace"
    BY <1>a, <1>9 DEF WriteCopy, At, Idle
  <2>3. task'[s].results \subseteq task[s].results
    BY <1>a, <1>9 DEF WriteCopy, At, Idle
  <2>4. \A t \in Sessions \ {s}, f \in Files : copy'[t][f] \in {copy[t][f], Gone}
    BY <1>a, <1>9 DEF WriteCopy
  <2> QED BY <1>b, <2>1, <2>2, <2>3, <2>4
<1>10. ASSUME NEW s \in Sessions, NEW f \in Files, Save(s, f) PROVE DigestsStored'
  <2>1. PICK e \in Edits : copy' = [copy EXCEPT ![s][f] = @ \cup {e}]
    BY <1>10 DEF Save
  <2>2. copy[s][f] # Gone /\ task' = task
    BY <1>10 DEF Save
  <2>3. \A g \in Files : copy'[s][g] = copy[s][g] \/ (copy[s][g] # Gone /\ copy[s][g] \subseteq copy'[s][g])
    BY <1>a, <2>1, <2>2
  <2>4. \A t \in Sessions \ {s}, g \in Files : copy'[t][g] = copy[t][g]
    BY <1>a, <2>1
  <2> QED BY <1>b, <2>2, <2>3, <2>4
<1>11. ASSUME NEW s \in Sessions, NEW f \in Files, NEW close \in BOOLEAN, CheckIn(s, f, close) PROVE DigestsStored'
  <2>1. \A t \in Sessions \ {s} : task'[t] = task[t]
    BY <1>a, <1>11 DEF CheckIn
  <2>2. task'[s].at # "replace"
    BY <1>a, <1>11 DEF CheckIn, Ready, Idle
  <2>3. task'[s].results \subseteq task[s].results
    BY <1>a, <1>11 DEF CheckIn, Ready, Idle
  <2>4. \A t \in Sessions \ {s}, g \in Files : copy'[t][g] \in {copy[t][g], Gone}
    BY <1>a, <1>11 DEF CheckIn
  <2> QED BY <1>b, <2>1, <2>2, <2>3, <2>4
<1>12. ASSUME NEW s \in Sessions, LockScreen(s) PROVE DigestsStored'
  <2>1. \A t \in Sessions \ {s} : task'[t] = task[t]
    BY <1>a, <1>12 DEF LockScreen
  <2>2. task'[s].at # "replace"
    BY <1>a, <1>12 DEF LockScreen, Ready, Idle, CloseAllTask
  <2>3. task'[s].results \subseteq task[s].results
    BY <1>a, <1>12 DEF LockScreen, Ready, Idle, CloseAllTask
  <2>4. \A t \in Sessions \ {s}, f \in Files : copy'[t][f] \in {copy[t][f], Gone}
    BY <1>a, <1>12 DEF LockScreen
  <2> QED BY <1>b, <2>1, <2>2, <2>3, <2>4
<1>13. ASSUME NEW s \in Sessions, Quit(s) PROVE DigestsStored'
  <2>1. \A t \in Sessions \ {s} : task'[t] = task[t]
    BY <1>a, <1>13 DEF Quit
  <2>2. task'[s].at # "replace"
    BY <1>a, <1>13 DEF Quit, Ready, Idle, CloseAllTask
  <2>3. task'[s].results \subseteq task[s].results
    BY <1>a, <1>13 DEF Quit, Ready, Idle, CloseAllTask
  <2>4. \A t \in Sessions \ {s}, f \in Files : copy'[t][f] \in {copy[t][f], Gone}
    BY <1>a, <1>13 DEF Quit
  <2> QED BY <1>b, <2>1, <2>2, <2>3, <2>4
<1>14. ASSUME NEW s \in Sessions, NextDocument(s) PROVE DigestsStored'
  <2>1. \A t \in Sessions \ {s} : task'[t] = task[t]
    BY <1>a, <1>14 DEF NextDocument
  <2>2. task'[s].at # "replace"
    BY <1>a, <1>14 DEF NextDocument, At, Task
  <2>3. task'[s].results \subseteq task[s].results
    BY <1>a, <1>14 DEF NextDocument, At, Task
  <2>4. \A t \in Sessions \ {s}, f \in Files : copy'[t][f] \in {copy[t][f], Gone}
    BY <1>a, <1>14 DEF NextDocument
  <2> QED BY <1>b, <2>1, <2>2, <2>3, <2>4
<1>15. ASSUME NEW s \in Sessions, ApplyCheckin(s) PROVE DigestsStored'
  <2>1. \A t \in Sessions \ {s} : task'[t] = task[t]
    BY <1>a, <1>15 DEF ApplyCheckin
  <2>2. task'[s].at # "replace"
    BY <1>a, <1>15 DEF ApplyCheckin, At, Idle, Task
  <2>3. task'[s].results \subseteq task[s].results
    <3>1. ASSUME NEW r, task' = [task EXCEPT ![s].results = @ \ {r}]
          PROVE  task'[s].results \subseteq task[s].results
      BY <1>a, <3>1 DEF Task
    <3>2. CASE task' = [task EXCEPT ![s] = Idle]
      BY <1>a, <3>2 DEF Idle
    <3> QED BY <1>15, <3>1, <3>2 DEF ApplyCheckin
  <2>4. \A t \in Sessions \ {s}, f \in Files : copy'[t][f] \in {copy[t][f], Gone}
    BY <1>a, <1>15 DEF ApplyCheckin
  <2> QED BY <1>b, <2>1, <2>2, <2>3, <2>4
<1>16. ASSUME NEW s \in Sessions, LookForChange(s) PROVE DigestsStored'
  <2>1. \A t \in Sessions \ {s} : task'[t] = task[t]
    BY <1>a, <1>16 DEF LookForChange
  <2>2. task'[s].at # "replace"
    BY <1>a, <1>16 DEF LookForChange, At, Task, AfterWriteBack
  <2>3. task'[s].results \subseteq task[s].results
    <3>1. \A at : task' = [task EXCEPT ![s].at = at] => task'[s].results = task[s].results
      BY <1>a DEF Task
    <3> QED BY <1>16, <3>1 DEF LookForChange
  <2>4. \A t \in Sessions \ {s}, f \in Files : copy'[t][f] \in {copy[t][f], Gone}
    BY <1>a, <1>16 DEF LookForChange
  <2> QED BY <1>b, <2>1, <2>2, <2>3, <2>4
<1>17. ASSUME NEW s \in Sessions, HashCopy(s) PROVE DigestsStored'
  <2>1. \A t \in Sessions \ {s} : task'[t] = task[t]
    BY <1>a, <1>17 DEF HashCopy, GiveUp
  <2>2. PICK g \in Files : g = task[s].file
    BY <1>17 DEF HashCopy, At, TaskMatchesRegistry, TaskFits
  <2>3. UNCHANGED <<copy, vault, stolen>>
    BY <1>17 DEF HashCopy
  <2>4. CASE GiveUp(s)
    <3>1. task'[s].at # "replace" /\ task'[s].results = task[s].results
      BY <1>a, <2>4 DEF GiveUp, Task
    <3> QED BY <1>b, <2>1, <2>3, <3>1
  <2>5. CASE task' = [task EXCEPT ![s].at = "replace", ![s].sha = copy[s][g]]
    <3> SUFFICES ASSUME NEW t \in Sessions, NEW f \in Files \ stolen PROVE Stored(t, f)'
      BY <2>3 DEF DigestsStored
    <3>1. Stored(t, f)
      BY DEF DigestsStored
    <3>2. task'[s].file = g /\ task'[s].sha = copy[s][g] /\ task'[s].results = task[s].results
      BY <1>a, <2>2, <2>5 DEF Task
    <3>3. CASE t = s
      BY <2>3, <3>1, <3>2, <3>3 DEF Stored
    <3>4. CASE t # s
      BY <2>1, <2>3, <3>1, <3>4 DEF Stored
    <3> QED BY <3>3, <3>4
  <2> QED BY <1>17, <2>2, <2>4, <2>5 DEF HashCopy
<1>18. ASSUME NEW s \in Sessions, ReplaceVault(s) PROVE DigestsStored'
  <2>1. \A t \in Sessions \ {s} : task'[t] = task[t]
    BY <1>a, <1>18 DEF ReplaceVault, GiveUp
  <2>2. PICK g \in Files : g = task[s].file /\ task[s].at = "replace"
    BY <1>18 DEF ReplaceVault, At, TaskMatchesRegistry, TaskFits
  <2>3. UNCHANGED <<copy, stolen>>
    BY <1>18 DEF ReplaceVault
  <2>4. CASE GiveUp(s)
    <3>1. task'[s].at # "replace" /\ task'[s].results = task[s].results
      BY <1>a, <2>4 DEF GiveUp, Task
    <3> QED BY <1>b, <2>1, <2>3, <3>1
  <2>5. CASE /\ copy[s][g] # Gone
             /\ vault' = [vault EXCEPT ![g] = copy[s][g]]
             /\ task' = [task EXCEPT ![s].at = AfterWriteBack(s),
                                     ![s].results = @ \cup {[file |-> g, sha |-> task[s].sha]}]
    <3> SUFFICES ASSUME NEW t \in Sessions, NEW f \in Files \ stolen PROVE Stored(t, f)'
      BY <2>3 DEF DigestsStored
    <3>1. Stored(t, f) /\ vault[f] \subseteq vault'[f]
      BY <2>3, VaultGrows DEF DigestsStored
    <3>2. /\ task'[s].at # "replace"
          /\ task'[s].results = task[s].results \cup {[file |-> g, sha |-> task[s].sha]}
      BY <1>a, <2>5 DEF AfterWriteBack, Task
    <3>3. CASE t = s
      <4>1. f = g => task[s].sha \subseteq vault'[f]
        BY <1>a, <2>2, <2>5, <3>1, <3>3 DEF Stored
      <4>2. \A r \in task'[s].results : r.file = f => r.sha \subseteq vault'[f]
        BY <3>1, <3>2, <3>3, <4>1 DEF Stored
      <4> QED BY <3>2, <3>3, <4>2 DEF Stored
    <3>4. CASE t # s
      BY <2>1, <2>3, <3>1, <3>4 DEF Stored
    <3> QED BY <3>3, <3>4
  <2> QED BY <1>18, <2>2, <2>4, <2>5 DEF ReplaceVault, Readable
<1>19. ASSUME NEW s \in Sessions, Shred(s) PROVE DigestsStored'
  <2>1. \A t \in Sessions \ {s} : task'[t] = task[t]
    BY <1>a, <1>19 DEF Shred
  <2>2. task'[s].at # "replace"
    BY <1>a, <1>19 DEF Shred, At, Task
  <2>3. task'[s].results \subseteq task[s].results
    BY <1>a, <1>19 DEF Shred, At, Task
  <2>4. \A t \in Sessions \ {s}, f \in Files : copy'[t][f] \in {copy[t][f], Gone}
    BY <1>a, <1>19 DEF Shred
  <2> QED BY <1>b, <2>1, <2>2, <2>3, <2>4
<1>20. ASSUME NEW s \in Sessions, Release(s) PROVE DigestsStored'
  <2>1. \A t \in Sessions \ {s} : task'[t] = task[t]
    BY <1>a, <1>20 DEF Release
  <2>2. task'[s].at # "replace"
    BY <1>a, <1>20 DEF Release, At, Idle, Task
  <2>3. task'[s].results \subseteq task[s].results
    <3>1. CASE task' = [task EXCEPT ![s].at = "next", ![s].file = None, ![s].sha = {}]
      BY <1>a, <3>1 DEF Task
    <3>2. CASE task' = [task EXCEPT ![s] = Idle]
      BY <1>a, <3>2 DEF Idle
    <3> QED BY <1>20, <3>1, <3>2 DEF Release
  <2>4. \A t \in Sessions \ {s}, f \in Files : copy'[t][f] \in {copy[t][f], Gone}
    BY <1>a, <1>20 DEF Release
  <2> QED BY <1>b, <2>1, <2>2, <2>3, <2>4
<1>21. ASSUME NEW s \in Sessions, NEW f \in Files, Discard(s, f) PROVE DigestsStored'
  <2>1. \A t \in Sessions \ {s} : task'[t] = task[t]
    BY <1>a, <1>21 DEF Discard
  <2>2. task'[s].at # "replace"
    <3>1. CASE task'[s] = Idle
      BY <3>1 DEF Idle
    <3>2. CASE task' = [task EXCEPT ![s] = [Idle EXCEPT !.at = "wipe", !.file = f]]
      BY <1>a, <3>2 DEF Idle
    <3> QED BY <1>a, <1>21, <3>1, <3>2 DEF Discard, Ready
  <2>3. task'[s].results \subseteq task[s].results
    <3>1. CASE task' = task
      BY <3>1
    <3>2. CASE task' = [task EXCEPT ![s] = [Idle EXCEPT !.at = "wipe", !.file = f]]
      BY <1>a, <3>2 DEF Idle
    <3> QED BY <1>21, <3>1, <3>2 DEF Discard
  <2>4. \A t \in Sessions \ {s}, g \in Files : copy'[t][g] \in {copy[t][g], Gone}
    BY <1>a, <1>21 DEF Discard
  <2> QED BY <1>b, <2>1, <2>2, <2>3, <2>4
<1>22. ASSUME NEW s \in Sessions, Wipe(s) PROVE DigestsStored'
  <2>1. \A t \in Sessions \ {s} : task'[t] = task[t]
    BY <1>a, <1>22 DEF Wipe
  <2>2. task'[s].at # "replace"
    BY <1>a, <1>22 DEF Wipe, At, Idle
  <2>3. task'[s].results \subseteq task[s].results
    BY <1>a, <1>22 DEF Wipe, At, Idle
  <2>4. \A t \in Sessions \ {s}, f \in Files : copy'[t][f] \in {copy[t][f], Gone}
    BY <1>a, <1>22 DEF Wipe
  <2> QED BY <1>b, <2>1, <2>2, <2>3, <2>4
<1>23. ASSUME NEW s \in Sessions, Exit(s) PROVE DigestsStored'
  <2>1. \A t \in Sessions \ {s} : task'[t] = task[t]
    BY <1>a, <1>23 DEF Exit
  <2>2. task'[s].at # "replace"
    BY <1>a, <1>23 DEF Exit, Idle
  <2>3. task'[s].results \subseteq task[s].results
    BY <1>a, <1>23 DEF Exit, Idle
  <2>4. \A t \in Sessions \ {s}, f \in Files : copy'[t][f] \in {copy[t][f], Gone}
    BY <1>a, <1>23 DEF Exit, Purge
  <2> QED BY <1>b, <2>1, <2>2, <2>3, <2>4
<1>24. ASSUME NEW s \in Sessions, Crash(s) PROVE DigestsStored'
  <2>1. \A t \in Sessions \ {s} : task'[t] = task[t]
    BY <1>a, <1>24 DEF Crash
  <2>2. task'[s].at # "replace"
    BY <1>a, <1>24 DEF Crash, Idle
  <2>3. task'[s].results \subseteq task[s].results
    BY <1>a, <1>24 DEF Crash, Idle
  <2>4. \A t \in Sessions \ {s}, f \in Files : copy'[t][f] \in {copy[t][f], Gone}
    BY <1>a, <1>24 DEF Crash
  <2> QED BY <1>b, <2>1, <2>2, <2>3, <2>4
<1> QED
  BY <1>1, <1>2, <1>3, <1>4, <1>5, <1>6, <1>7, <1>8, <1>9, <1>10, <1>11,
     <1>12, <1>13, <1>14, <1>15, <1>16, <1>17, <1>18, <1>19, <1>20, <1>21,
     <1>22, <1>23, <1>24 DEF Next, Startup, Request, Proceed

\* Recording such a digest keeps the table behind the vault.
LEMMA DigestStep == TypeOK /\ TaskMatchesRegistry /\ CopiesUpToDate /\ DigestsStored /\ DigestNotAhead /\ [Next]_vars => DigestNotAhead'
<1> SUFFICES ASSUME TypeOK, TaskMatchesRegistry, CopiesUpToDate, DigestsStored, DigestNotAhead, [Next]_vars PROVE DigestNotAhead'
  OBVIOUS
<1>a. digest \in [Files -> Content] /\ task \in [Sessions -> Task]
  BY DEF TypeOK
<1>b. CASE UNCHANGED digest
  BY <1>b, VaultGrows DEF DigestNotAhead
<1>1. CASE UNCHANGED vars
  BY <1>1, <1>b DEF vars
<1>2. ASSUME NEW s \in Sessions, Start(s) PROVE DigestNotAhead'
  BY <1>2, <1>b DEF Start
<1>3. ASSUME NEW s \in Sessions, PurgeOrphans(s) PROVE DigestNotAhead'
  BY <1>3, <1>b DEF PurgeOrphans
<1>4. ASSUME NEW s \in Sessions, FetchLocks(s) PROVE DigestNotAhead'
  BY <1>4, <1>b DEF FetchLocks
<1>5. ASSUME NEW s \in Sessions, SweepRow(s) PROVE DigestNotAhead'
  BY <1>5, <1>b DEF SweepRow
<1>6. ASSUME NEW s \in Sessions, EnterSession(s) PROVE DigestNotAhead'
  BY <1>6, <1>b DEF EnterSession
<1>7. ASSUME NEW s \in Sessions, NEW f \in Files, Open(s, f) PROVE DigestNotAhead'
  BY <1>7, <1>b DEF Open
<1>8. ASSUME NEW s \in Sessions, Decrypt(s) PROVE DigestNotAhead'
  BY <1>8, <1>b DEF Decrypt
<1>9. ASSUME NEW s \in Sessions, WriteCopy(s) PROVE DigestNotAhead'
  BY <1>9, <1>b DEF WriteCopy
<1>10. ASSUME NEW s \in Sessions, NEW f \in Files, Save(s, f) PROVE DigestNotAhead'
  BY <1>10, <1>b DEF Save
<1>11. ASSUME NEW s \in Sessions, NEW f \in Files, NEW close \in BOOLEAN, CheckIn(s, f, close) PROVE DigestNotAhead'
  BY <1>11, <1>b DEF CheckIn
<1>12. ASSUME NEW s \in Sessions, LockScreen(s) PROVE DigestNotAhead'
  BY <1>12, <1>b DEF LockScreen
<1>13. ASSUME NEW s \in Sessions, Quit(s) PROVE DigestNotAhead'
  BY <1>13, <1>b DEF Quit
<1>14. ASSUME NEW s \in Sessions, NextDocument(s) PROVE DigestNotAhead'
  BY <1>14, <1>b DEF NextDocument
<1>15. ASSUME NEW s \in Sessions, ApplyCheckin(s) PROVE DigestNotAhead'
  <2>1. UNCHANGED <<vault, stolen>>
    BY <1>15 DEF ApplyCheckin
  <2>2. ASSUME NEW r \in task[s].results, digest' = [digest EXCEPT ![r.file] = r.sha]
        PROVE  DigestNotAhead'
    <3>1. \A f \in Files \ stolen : r.file = f => r.sha \subseteq vault[f]
      BY DEF DigestsStored, Stored
    <3> QED BY <1>a, <2>1, <2>2, <3>1 DEF DigestNotAhead
  <2> QED BY <1>15, <1>b, <2>2 DEF ApplyCheckin
<1>16. ASSUME NEW s \in Sessions, LookForChange(s) PROVE DigestNotAhead'
  BY <1>16, <1>b DEF LookForChange
<1>17. ASSUME NEW s \in Sessions, HashCopy(s) PROVE DigestNotAhead'
  BY <1>17, <1>b DEF HashCopy
<1>18. ASSUME NEW s \in Sessions, ReplaceVault(s) PROVE DigestNotAhead'
  BY <1>18, <1>b DEF ReplaceVault
<1>19. ASSUME NEW s \in Sessions, Shred(s) PROVE DigestNotAhead'
  BY <1>19, <1>b DEF Shred
<1>20. ASSUME NEW s \in Sessions, Release(s) PROVE DigestNotAhead'
  BY <1>20, <1>b DEF Release
<1>21. ASSUME NEW s \in Sessions, NEW f \in Files, Discard(s, f) PROVE DigestNotAhead'
  BY <1>21, <1>b DEF Discard
<1>22. ASSUME NEW s \in Sessions, Wipe(s) PROVE DigestNotAhead'
  BY <1>22, <1>b DEF Wipe
<1>23. ASSUME NEW s \in Sessions, Exit(s) PROVE DigestNotAhead'
  BY <1>23, <1>b DEF Exit
<1>24. ASSUME NEW s \in Sessions, Crash(s) PROVE DigestNotAhead'
  BY <1>24, <1>b DEF Crash
<1> QED
  BY <1>1, <1>2, <1>3, <1>4, <1>5, <1>6, <1>7, <1>8, <1>9, <1>10, <1>11,
     <1>12, <1>13, <1>14, <1>15, <1>16, <1>17, <1>18, <1>19, <1>20, <1>21,
     <1>22, <1>23, <1>24 DEF Next, Startup, Request, Proceed

\* The invariant holds at the start.
LEMMA InitInv == Init => IInv
<1> SUFFICES ASSUME Init PROVE IInv
  OBVIOUS
<1>1. TypeOK
  BY TypeInit
<1>2. DeadForget /\ TaskMatchesRegistry
  BY DEF Init, DeadForget, TaskMatchesRegistry, TaskFits, Idle
<1>3. OwnersHoldLock /\ CopiesUpToDate /\ DigestsStored
  BY DEF Init, OwnersHoldLock, Owns, CopiesUpToDate, UpToDate, DigestsStored,
     Stored, Idle
<1>4. DigestNotAhead
  BY DEF Init, DigestNotAhead
<1> QED BY <1>1, <1>2, <1>3, <1>4 DEF IInv

\* The invariant is kept by every step.
LEMMA InvStep == IInv /\ [Next]_vars => IInv'
BY TypeStep, TaskStep, DeadStep, LockStep, CopiesStep, DigestsStep, DigestStep
   DEF IInv

-----------------------------------------------------------------------------
(* 3. The theorems *)

\* IInv holds throughout, whatever fails and whoever crashes.
THEOREM Invariance == Spec => []IInv
<1> QED BY InitInv, InvStep, PTL DEF Spec

\* Every variable keeps its type; in particular a missing copy is never taken
\* for a content and stored.  (has_changed, encrypt_file)
THEOREM TypeCorrect == Spec => []TypeOK
<1>1. IInv => TypeOK
  BY DEF IInv
<1> QED BY <1>1, Invariance, PTL

\* Two runs never have one document open, unless its lock row was deleted under
\* a live holder.  (check_out, check_in, release_stale_locks)
THEOREM OneEditor == Spec => []OneEditorPerFile
<1>1. IInv => OneEditorPerFile
  BY OneOwner DEF IInv, OneEditorPerFile, Owns
<1> QED BY <1>1, Invariance, PTL

\* The recorded digest never names an edit the document lacks.  (apply_checkin)
THEOREM DigestSafe == Spec => []DigestNotAhead
<1>1. IInv => DigestNotAhead
  BY DEF IInv
<1> QED BY <1>1, Invariance, PTL

\* No step takes an edit out of a document whose lock was not broken.
\* (rewrite_encrypted)
THEOREM NoEditLost == Spec => NoLostUpdate
<1>1. IInv /\ [Next]_vars => [\A f \in Files \ stolen' : vault[f] \subseteq vault'[f]]_vars
  BY VaultGrows DEF IInv
<1> QED BY <1>1, Invariance, PTL DEF Spec, NoLostUpdate

\* release_lock() is the abstract editor leaving, or nothing.
LEMMA UnlockLeaves ==
    ASSUME TypeOK, NEW s \in Sessions, NEW f \in Files,
           lock' \in {lock, Unlock(s, f)}, UNCHANGED <<vault, stolen>>
    PROVE  [Edit!Next]_(Edit!vars)
<1>1. CASE UNCHANGED lock
  BY <1>1 DEF Edit!vars
<1>2. CASE lock[f] = s /\ lock' = [lock EXCEPT ![f] = None]
  <2>1. lock[f] # None
    BY <1>2, NoneAssumption
  <2> QED BY <1>2, <2>1 DEF Edit!Next, Edit!Leave
<1> QED BY <1>1, <1>2 DEF Unlock

\* Every step of the program is a step of the abstract view, or changes nothing
\* of it.
LEMMA EditStep == IInv /\ [Next]_vars => [Edit!Next]_(Edit!vars)
<1> SUFFICES ASSUME IInv, [Next]_vars PROVE [Edit!Next]_(Edit!vars)
  OBVIOUS
<1>a. TypeOK /\ TaskMatchesRegistry /\ OwnersHoldLock /\ CopiesUpToDate
  BY DEF IInv
<1>b. lock \in [Files -> Sessions \cup {None}] /\ copy \in [Sessions -> [Files -> Content \cup {Gone}]]
  BY <1>a DEF TypeOK
<1>1. CASE UNCHANGED <<lock, vault, stolen>>
  BY <1>1 DEF Edit!vars
<1>2. ASSUME NEW s \in Sessions, SweepRow(s) PROVE [Edit!Next]_(Edit!vars)
  <2>1. UNCHANGED vault
    BY <1>2 DEF SweepRow
  <2>2. PICK r \in rows[s] :
            \/ UNCHANGED <<lock, stolen>>
            \/ /\ lock' = [lock EXCEPT ![r.file] = None]
               /\ stolen' = IF \E h \in Sessions : lock[r.file] = h /\ Alive(h)
                            THEN stolen \cup {r.file} ELSE stolen
    BY <1>2 DEF SweepRow
  <2>3. r.file \in Files
    BY <1>a DEF TypeOK, Row
  <2>4. CASE UNCHANGED <<lock, stolen>>
    BY <1>1, <2>1, <2>4
  <2>5. CASE lock' = [lock EXCEPT ![r.file] = None] /\ lock[r.file] = None /\ stolen' = stolen
    BY <1>1, <1>b, <2>1, <2>3, <2>5
  <2>6. CASE lock' = [lock EXCEPT ![r.file] = None] /\ lock[r.file] # None /\ stolen' = stolen
    BY <2>1, <2>3, <2>6 DEF Edit!Next, Edit!Leave
  <2>7. CASE lock' = [lock EXCEPT ![r.file] = None] /\ lock[r.file] # None /\ stolen' = stolen \cup {r.file}
    BY <2>1, <2>3, <2>7 DEF Edit!Next, Edit!Break
  <2>8. (\E h \in Sessions : lock[r.file] = h /\ Alive(h)) => lock[r.file] # None
    BY NoneAssumption
  <2> QED BY <2>2, <2>4, <2>5, <2>6, <2>7, <2>8
<1>3. ASSUME NEW s \in Sessions, NEW f \in Files, Open(s, f) PROVE [Edit!Next]_(Edit!vars)
  <2>1. UNCHANGED <<vault, stolen>>
    BY <1>3 DEF Open
  <2>2. CASE UNCHANGED lock
    BY <1>1, <2>1, <2>2
  <2>3. CASE lock[f] = None /\ lock' = [lock EXCEPT ![f] = s]
    BY <2>1, <2>3 DEF Edit!Next, Edit!Take
  <2>4. CASE lock[f] = s /\ lock' = [lock EXCEPT ![f] = s]
    BY <1>1, <1>b, <2>1, <2>4
  <2> QED BY <1>3, <2>2, <2>3, <2>4 DEF Open, Lockable
<1>4. ASSUME NEW s \in Sessions, Decrypt(s) \/ WriteCopy(s) \/ Release(s)
      PROVE  [Edit!Next]_(Edit!vars)
  <2>1. PICK f \in Files : f = task[s].file
    BY <1>4, <1>a, WorksOnFile DEF Decrypt, WriteCopy, Release, At
  <2>2. UNCHANGED <<vault, stolen>> /\ lock' \in {lock, Unlock(s, f)}
    BY <1>4, <2>1 DEF Decrypt, WriteCopy, Release, AfterUnlock
  <2> QED BY <1>a, <2>2, UnlockLeaves
<1>5. ASSUME NEW s \in Sessions, NEW f \in Files, Discard(s, f) PROVE [Edit!Next]_(Edit!vars)
  <2>1. UNCHANGED <<vault, stolen>> /\ lock' \in {lock, Unlock(s, f)}
    BY <1>5 DEF Discard
  <2> QED BY <1>a, <2>1, UnlockLeaves
<1>6. ASSUME NEW s \in Sessions, ReplaceVault(s) PROVE [Edit!Next]_(Edit!vars)
  <2>1. PICK g \in Files : g = task[s].file /\ g \in reg[s]
    BY <1>6, <1>a DEF ReplaceVault, At, TaskMatchesRegistry, TaskFits
  <2>2. UNCHANGED <<lock, stolen>>
    BY <1>6 DEF ReplaceVault
  <2>3. CASE UNCHANGED vault
    BY <1>1, <2>2, <2>3
  <2>4. CASE copy[s][g] # Gone /\ vault' = [vault EXCEPT ![g] = copy[s][g]]
    <3>1. copy[s][g] \in SUBSET Edits
      BY <1>b, <2>4 DEF Content
    <3>2. CASE g \in stolen
      BY <2>2, <2>4, <3>1, <3>2 DEF Edit!Next, Edit!Overwrite
    <3>3. CASE g \notin stolen
      <4>1. lock[g] = s /\ vault[g] \subseteq copy[s][g]
        BY <1>a, <2>1, <2>4, <3>3 DEF OwnersHoldLock, Owns, CopiesUpToDate,
           UpToDate
      <4>2. lock[g] # None
        BY <4>1, NoneAssumption
      <4>3. Edit!Extend(g)
        BY <2>2, <2>4, <3>1, <4>1, <4>2 DEF Edit!Extend
      <4> QED BY <4>3 DEF Edit!Next
    <3> QED BY <3>2, <3>3
  <2> QED BY <1>6, <2>1, <2>3, <2>4 DEF ReplaceVault, Readable
<1>7. ASSUME NEW s \in Sessions,
             \/ Start(s) \/ PurgeOrphans(s) \/ FetchLocks(s) \/ EnterSession(s)
             \/ LockScreen(s) \/ Quit(s) \/ NextDocument(s) \/ ApplyCheckin(s)
             \/ LookForChange(s) \/ HashCopy(s) \/ Shred(s) \/ Wipe(s)
             \/ Exit(s) \/ Crash(s)
             \/ \E f \in Files : Save(s, f)
             \/ \E f \in Files, close \in BOOLEAN : CheckIn(s, f, close)
      PROVE  UNCHANGED <<lock, vault, stolen>>
  BY <1>7 DEF Start, PurgeOrphans, FetchLocks, EnterSession, LockScreen, Quit,
     NextDocument, ApplyCheckin, LookForChange, HashCopy, Shred, Wipe, Exit,
     Crash, Save, CheckIn
<1>8. CASE UNCHANGED vars
  BY <1>1, <1>8 DEF vars
<1> QED
  BY <1>1, <1>2, <1>3, <1>4, <1>5, <1>6, <1>7, <1>8 DEF Next, Startup,
     Request, Proceed

\* The lock table and the stored documents behave like ExclusiveEdit: a
\* document changes under its one editor's hand and only by growing, until a
\* sweep breaks the lock of a live holder.
THEOREM Refinement == Spec => ImplementsExclusiveEdit
<1>1. Init => Edit!Init
  BY DEF Init, Edit!Init
<1> QED BY <1>1, Invariance, EditStep, PTL DEF Spec, ImplementsExclusiveEdit,
           Edit!Spec

-----------------------------------------------------------------------------
(* 4. Locks and copies that are left *)

\* No call to release a lock row finds the database busy, and no random name is refused.
Releasing == "busy" \notin Faults /\ "allocate" \notin Faults

\* A lock row of a run is that of a document it works on, or the run is over.
RowsWorkedOn ==
    \A s \in Sessions, f \in Files : lock[f] = s => Owns(s, f) \/ phase[s] \in {"closed", "crashed"}

\* Each step that lets go of a document deletes its row.
LEMMA RowsStep ==
    ASSUME Releasing, TypeOK, TaskMatchesRegistry, RowsWorkedOn, [Next]_vars
    PROVE  RowsWorkedOn'
<1>a. /\ task \in [Sessions -> Task] /\ reg \in [Sessions -> SUBSET Files]
      /\ lock \in [Files -> Sessions \cup {None}] /\ phase \in [Sessions -> Phases]
  BY DEF TypeOK
\* The run that takes the step is the only one it concerns.
<1>b. ASSUME NEW s \in Sessions,
             \A t \in Sessions \ {s} : task'[t] = task[t] /\ reg'[t] = reg[t] /\ phase'[t] = phase[t],
             \A t \in Sessions \ {s}, f \in Files : lock'[f] = t => lock[f] = t,
             \A f \in Files : lock'[f] = s => Owns(s, f)' \/ phase'[s] \in {"closed", "crashed"}
      PROVE  RowsWorkedOn'
  BY <1>b DEF RowsWorkedOn, Owns
\* A step that leaves the lock table alone and gives nothing up.
<1>c. ASSUME NEW s \in Sessions, UNCHANGED lock,
             \A t \in Sessions \ {s} : task'[t] = task[t] /\ reg'[t] = reg[t] /\ phase'[t] = phase[t],
             \A f \in Files : Owns(s, f) => Owns(s, f)',
             phase[s] \notin {"closed", "crashed"}
      PROVE  RowsWorkedOn'
  BY <1>b, <1>c DEF RowsWorkedOn
<1>1. CASE UNCHANGED vars
  BY <1>1 DEF vars, RowsWorkedOn, Owns
<1>2. ASSUME NEW s \in Sessions, Start(s) PROVE RowsWorkedOn'
  <2>1. \A t \in Sessions \ {s} : task'[t] = task[t] /\ reg'[t] = reg[t] /\ phase'[t] = phase[t]
    BY <1>a, <1>2 DEF Start
  <2>2. \A g \in Files : Owns(s, g) => Owns(s, g)'
    BY <1>a, <1>2 DEF Start, Owns, TaskMatchesRegistry, TaskFits
  <2> QED BY <1>c, <1>2, <2>1, <2>2 DEF Start, Alive
<1>3. ASSUME NEW s \in Sessions, PurgeOrphans(s) PROVE RowsWorkedOn'
  <2>1. \A t \in Sessions \ {s} : task'[t] = task[t] /\ reg'[t] = reg[t] /\ phase'[t] = phase[t]
    BY <1>a, <1>3 DEF PurgeOrphans
  <2>2. \A g \in Files : Owns(s, g) => Owns(s, g)'
    BY <1>a, <1>3 DEF PurgeOrphans, Owns, TaskMatchesRegistry, TaskFits
  <2> QED BY <1>c, <1>3, <2>1, <2>2 DEF PurgeOrphans, Alive
<1>4. ASSUME NEW s \in Sessions, FetchLocks(s) PROVE RowsWorkedOn'
  <2>1. \A t \in Sessions \ {s} : task'[t] = task[t] /\ reg'[t] = reg[t] /\ phase'[t] = phase[t]
    BY <1>a, <1>4 DEF FetchLocks
  <2>2. \A g \in Files : Owns(s, g) => Owns(s, g)'
    BY <1>a, <1>4 DEF FetchLocks, Owns, TaskMatchesRegistry, TaskFits
  <2> QED BY <1>c, <1>4, <2>1, <2>2 DEF FetchLocks, Alive
<1>5. ASSUME NEW s \in Sessions, EnterSession(s) PROVE RowsWorkedOn'
  <2>1. \A t \in Sessions \ {s} : task'[t] = task[t] /\ reg'[t] = reg[t] /\ phase'[t] = phase[t]
    BY <1>a, <1>5 DEF EnterSession
  <2>2. \A g \in Files : Owns(s, g) => Owns(s, g)'
    BY <1>a, <1>5 DEF EnterSession, Owns, TaskMatchesRegistry, TaskFits
  <2> QED BY <1>c, <1>5, <2>1, <2>2 DEF EnterSession, Alive
<1>6. ASSUME NEW s \in Sessions, NEW f \in Files, Save(s, f) PROVE RowsWorkedOn'
  <2>1. \A t \in Sessions \ {s} : task'[t] = task[t] /\ reg'[t] = reg[t] /\ phase'[t] = phase[t]
    BY <1>a, <1>6 DEF Save
  <2>2. \A g \in Files : Owns(s, g) => Owns(s, g)'
    BY <1>a, <1>6 DEF Save, Owns, TaskMatchesRegistry, TaskFits
  <2> QED BY <1>c, <1>6, <2>1, <2>2 DEF Save, Alive
<1>7. ASSUME NEW s \in Sessions, NEW f \in Files, NEW close \in BOOLEAN, CheckIn(s, f, close) PROVE RowsWorkedOn'
  <2>1. \A t \in Sessions \ {s} : task'[t] = task[t] /\ reg'[t] = reg[t] /\ phase'[t] = phase[t]
    BY <1>a, <1>7 DEF CheckIn
  <2>2. \A g \in Files : Owns(s, g) => Owns(s, g)'
    BY <1>a, <1>7 DEF CheckIn, Owns, TaskMatchesRegistry, TaskFits, Ready, Idle
  <2> QED BY <1>c, <1>7, <2>1, <2>2 DEF CheckIn, Alive, Ready
<1>8. ASSUME NEW s \in Sessions, LockScreen(s) PROVE RowsWorkedOn'
  <2>1. \A t \in Sessions \ {s} : task'[t] = task[t] /\ reg'[t] = reg[t] /\ phase'[t] = phase[t]
    BY <1>a, <1>8 DEF LockScreen
  <2>2. \A g \in Files : Owns(s, g) => Owns(s, g)'
    BY <1>a, <1>8 DEF LockScreen, Owns, TaskMatchesRegistry, TaskFits, Ready, Idle, CloseAllTask
  <2> QED BY <1>c, <1>8, <2>1, <2>2 DEF LockScreen, Alive, Ready
<1>9. ASSUME NEW s \in Sessions, Quit(s) PROVE RowsWorkedOn'
  <2>1. \A t \in Sessions \ {s} : task'[t] = task[t] /\ reg'[t] = reg[t] /\ phase'[t] = phase[t]
    BY <1>a, <1>9 DEF Quit
  <2>2. \A g \in Files : Owns(s, g) => Owns(s, g)'
    BY <1>a, <1>9 DEF Quit, Owns, TaskMatchesRegistry, TaskFits, Ready, Idle, CloseAllTask
  <2> QED BY <1>c, <1>9, <2>1, <2>2 DEF Quit, Alive, Ready
<1>10. ASSUME NEW s \in Sessions, NextDocument(s) PROVE RowsWorkedOn'
  <2>1. \A t \in Sessions \ {s} : task'[t] = task[t] /\ reg'[t] = reg[t] /\ phase'[t] = phase[t]
    BY <1>a, <1>10 DEF NextDocument
  <2>2. \A g \in Files : Owns(s, g) => Owns(s, g)'
    BY <1>a, <1>10 DEF NextDocument, Owns, TaskMatchesRegistry, TaskFits, At, Task
  <2> QED BY <1>c, <1>10, <2>1, <2>2 DEF NextDocument, Alive, At
<1>11. ASSUME NEW s \in Sessions, ApplyCheckin(s) PROVE RowsWorkedOn'
  <2>1. \A t \in Sessions \ {s} : task'[t] = task[t] /\ reg'[t] = reg[t] /\ phase'[t] = phase[t]
    BY <1>a, <1>11 DEF ApplyCheckin
  <2>2. \A g \in Files : Owns(s, g) => Owns(s, g)'
    BY <1>a, <1>11 DEF ApplyCheckin, Owns, TaskMatchesRegistry, TaskFits, At, Idle, Task
  <2> QED BY <1>c, <1>11, <2>1, <2>2 DEF ApplyCheckin, Alive, At
<1>12. ASSUME NEW s \in Sessions, LookForChange(s) PROVE RowsWorkedOn'
  <2>1. \A t \in Sessions \ {s} : task'[t] = task[t] /\ reg'[t] = reg[t] /\ phase'[t] = phase[t]
    BY <1>a, <1>12 DEF LookForChange
  <2>2. \A g \in Files : Owns(s, g) => Owns(s, g)'
    BY <1>a, <1>12 DEF LookForChange, Owns, TaskMatchesRegistry, TaskFits, At, Task, AfterWriteBack
  <2> QED BY <1>c, <1>12, <2>1, <2>2 DEF LookForChange, Alive, At
<1>13. ASSUME NEW s \in Sessions, HashCopy(s) PROVE RowsWorkedOn'
  <2>1. \A t \in Sessions \ {s} : task'[t] = task[t] /\ reg'[t] = reg[t] /\ phase'[t] = phase[t]
    BY <1>a, <1>13 DEF HashCopy, GiveUp
  <2>2. \A g \in Files : Owns(s, g) => Owns(s, g)'
    BY <1>a, <1>13 DEF HashCopy, Owns, TaskMatchesRegistry, TaskFits, At, Task, GiveUp
  <2> QED BY <1>c, <1>13, <2>1, <2>2 DEF HashCopy, Alive, At
<1>14. ASSUME NEW s \in Sessions, ReplaceVault(s) PROVE RowsWorkedOn'
  <2>1. \A t \in Sessions \ {s} : task'[t] = task[t] /\ reg'[t] = reg[t] /\ phase'[t] = phase[t]
    BY <1>a, <1>14 DEF ReplaceVault, GiveUp
  <2>2. \A g \in Files : Owns(s, g) => Owns(s, g)'
    BY <1>a, <1>14 DEF ReplaceVault, Owns, TaskMatchesRegistry, TaskFits, At, Task, GiveUp, AfterWriteBack
  <2> QED BY <1>c, <1>14, <2>1, <2>2 DEF ReplaceVault, Alive, At
<1>15. ASSUME NEW s \in Sessions, Shred(s) PROVE RowsWorkedOn'
  <2>1. \A t \in Sessions \ {s} : task'[t] = task[t] /\ reg'[t] = reg[t] /\ phase'[t] = phase[t]
    BY <1>a, <1>15 DEF Shred
  <2>2. \A g \in Files : Owns(s, g) => Owns(s, g)'
    BY <1>a, <1>15 DEF Shred, Owns, TaskMatchesRegistry, TaskFits, At, Task
  <2> QED BY <1>c, <1>15, <2>1, <2>2 DEF Shred, Alive, At
<1>16. ASSUME NEW s \in Sessions, Wipe(s) PROVE RowsWorkedOn'
  <2>1. \A t \in Sessions \ {s} : task'[t] = task[t] /\ reg'[t] = reg[t] /\ phase'[t] = phase[t]
    BY <1>a, <1>16 DEF Wipe
  <2>2. \A g \in Files : Owns(s, g) => Owns(s, g)'
    BY <1>a, <1>16 DEF Wipe, Owns, TaskMatchesRegistry, TaskFits, At, Idle, Task
  <2> QED BY <1>c, <1>16, <2>1, <2>2 DEF Wipe, Alive, At
<1>17. ASSUME NEW s \in Sessions, SweepRow(s) PROVE RowsWorkedOn'
  <2>1. UNCHANGED <<task, reg, phase>>
    BY <1>17 DEF SweepRow
  <2>2. PICK r \in rows[s] : lock' \in {lock, [lock EXCEPT ![r.file] = None]}
    BY <1>17 DEF SweepRow
  <2>3. \A f \in Files, t \in Sessions : lock'[f] = t => lock[f] = t
    BY <1>a, <2>2, NoneAssumption
  <2> QED BY <2>1, <2>3 DEF RowsWorkedOn, Owns
<1>18. ASSUME NEW s \in Sessions, NEW f \in Files, Open(s, f) PROVE RowsWorkedOn'
  <2>1. \A t \in Sessions \ {s} : task'[t] = task[t] /\ reg'[t] = reg[t] /\ phase'[t] = phase[t]
    BY <1>a, <1>18 DEF Open
  <2>2. phase[s] \notin {"closed", "crashed"} /\ task[s] = Idle /\ phase' = phase
    BY <1>18 DEF Open, Ready
  <2>3. \A g \in Files : lock[g] = s => g \in reg[s]
    BY <2>2 DEF RowsWorkedOn, Owns, Idle
  <2>4. CASE /\ lock' = [lock EXCEPT ![f] = s]
             /\ task' = [task EXCEPT ![s] = [Idle EXCEPT !.at = "decrypt", !.file = f]]
    <3>1. task'[s].at = "decrypt" /\ task'[s].file = f /\ reg'[s] = reg[s] \ {f}
      BY <1>a, <1>18, <2>4 DEF Open, Idle
    <3>2. \A g \in Files : lock'[g] = s => Owns(s, g)'
      BY <1>a, <2>3, <2>4, <3>1 DEF Owns
    <3>3. \A t \in Sessions \ {s}, g \in Files : lock'[g] = t => lock[g] = t
      BY <1>a, <2>4
    <3> QED BY <1>b, <2>1, <3>2, <3>3
  <2>5. CASE ~Lockable(s, f) /\ UNCHANGED <<lock, task>>
    <3>1. lock[f] # s /\ reg'[s] = reg[s] \ {f}
      BY <1>a, <1>18, <2>5 DEF Open, Lockable
    <3>2. \A g \in Files : lock'[g] = s => Owns(s, g)'
      BY <2>3, <2>5, <3>1 DEF Owns
    <3> QED BY <1>b, <2>1, <2>5, <3>2
  <2> QED BY <1>18, <2>4, <2>5 DEF Open, May, Releasing
<1>19. ASSUME NEW s \in Sessions, Decrypt(s) PROVE RowsWorkedOn'
  <2>1. \A t \in Sessions \ {s} : task'[t] = task[t] /\ reg'[t] = reg[t] /\ phase'[t] = phase[t]
    BY <1>a, <1>19 DEF Decrypt
  <2>2. PICK f \in Files : f = task[s].file /\ task[s].at = "decrypt" /\ f \notin reg[s]
    BY <1>19 DEF Decrypt, At, TaskMatchesRegistry, TaskFits
  <2>3. CASE task' = [task EXCEPT ![s].at = "write", ![s].sha = vault[f]] /\ UNCHANGED lock
    <3>1. task'[s].at = "write" /\ task'[s].file = f
      BY <1>a, <2>2, <2>3 DEF Task
    <3>2. \A g \in Files : Owns(s, g) => Owns(s, g)'
      BY <1>19, <2>2, <3>1 DEF Decrypt, Owns
    <3> QED BY <1>c, <1>19, <2>1, <2>3, <3>2 DEF Decrypt, At, Alive
  <2>4. CASE lock' = Unlock(s, f)
    <3>1. \A g \in Files : lock'[g] = s => g # f /\ lock[g] = s
      BY <1>a, <2>4, NoneAssumption DEF Unlock
    <3>2. \A t \in Sessions \ {s}, g \in Files : lock'[g] = t => lock[g] = t
      BY <1>a, <2>4, NoneAssumption DEF Unlock
    <3>3. \A g \in Files : lock'[g] = s => Owns(s, g)'
      BY <1>19, <2>2, <3>1 DEF Decrypt, At, Alive, Owns, RowsWorkedOn
    <3> QED BY <1>b, <2>1, <3>2, <3>3
  <2> QED BY <1>19, <2>2, <2>3, <2>4 DEF Decrypt, AfterUnlock, May, Releasing
<1>20. ASSUME NEW s \in Sessions, WriteCopy(s) PROVE RowsWorkedOn'
  <2>1. \A t \in Sessions \ {s} : task'[t] = task[t] /\ reg'[t] = reg[t] /\ phase'[t] = phase[t]
    BY <1>a, <1>20 DEF WriteCopy
  <2>2. PICK f \in Files : f = task[s].file /\ task[s].at = "write" /\ f \notin reg[s]
    BY <1>20 DEF WriteCopy, At, TaskMatchesRegistry, TaskFits
  <2>3. CASE lock' = lock /\ reg' = [reg EXCEPT ![s] = @ \cup {f}]
    <3>1. \A g \in Files : Owns(s, g) => Owns(s, g)'
      BY <1>a, <2>2, <2>3 DEF Owns
    <3> QED BY <1>c, <1>20, <2>1, <2>3, <3>1 DEF WriteCopy, At, Alive
  <2>4. CASE lock' = Unlock(s, f) /\ reg' = reg
    <3>1. \A g \in Files : lock'[g] = s => g # f /\ lock[g] = s
      BY <1>a, <2>4, NoneAssumption DEF Unlock
    <3>2. \A t \in Sessions \ {s}, g \in Files : lock'[g] = t => lock[g] = t
      BY <1>a, <2>4, NoneAssumption DEF Unlock
    <3>3. \A g \in Files : lock'[g] = s => Owns(s, g)'
      BY <1>20, <2>2, <2>4, <3>1 DEF WriteCopy, At, Alive, Owns, RowsWorkedOn
    <3> QED BY <1>b, <2>1, <3>2, <3>3
  <2> QED BY <1>20, <2>2, <2>3, <2>4 DEF WriteCopy, AfterUnlock, May, Releasing
<1>21. ASSUME NEW s \in Sessions, Release(s) PROVE RowsWorkedOn'
  <2>1. \A t \in Sessions \ {s} : task'[t] = task[t] /\ reg'[t] = reg[t] /\ phase'[t] = phase[t]
    BY <1>a, <1>21 DEF Release
  <2>2. PICK f \in Files : f = task[s].file /\ task[s].at = "release" /\ f \notin reg[s]
    BY <1>21 DEF Release, At, TaskMatchesRegistry, TaskFits
  <2>3. lock' = Unlock(s, f) /\ reg' = reg
    BY <1>21, <2>2 DEF Release, May, Releasing
  <2>4. \A g \in Files : lock'[g] = s => g # f /\ lock[g] = s
    BY <1>a, <2>3, NoneAssumption DEF Unlock
  <2>5. \A t \in Sessions \ {s}, g \in Files : lock'[g] = t => lock[g] = t
    BY <1>a, <2>3, NoneAssumption DEF Unlock
  <2>6. \A g \in Files : lock'[g] = s => Owns(s, g)'
    BY <1>21, <2>2, <2>3, <2>4 DEF Release, At, Alive, Owns, RowsWorkedOn
  <2> QED BY <1>b, <2>1, <2>5, <2>6
<1>22. ASSUME NEW s \in Sessions, NEW f \in Files, Discard(s, f) PROVE RowsWorkedOn'
  <2>1. \A t \in Sessions \ {s} : task'[t] = task[t] /\ reg'[t] = reg[t] /\ phase'[t] = phase[t]
    BY <1>a, <1>22 DEF Discard
  <2>2. task[s] = Idle /\ phase[s] \notin {"closed", "crashed"}
    BY <1>22 DEF Discard, Ready
  <2>3. lock' = Unlock(s, f) /\ reg'[s] = reg[s] \ {f}
    BY <1>a, <1>22 DEF Discard, May, Releasing
  <2>4. \A g \in Files : lock'[g] = s => g # f /\ lock[g] = s
    BY <1>a, <2>3, NoneAssumption DEF Unlock
  <2>5. \A t \in Sessions \ {s}, g \in Files : lock'[g] = t => lock[g] = t
    BY <1>a, <2>3, NoneAssumption DEF Unlock
  <2>6. \A g \in Files : lock'[g] = s => Owns(s, g)'
    BY <2>2, <2>3, <2>4 DEF Idle, Owns, RowsWorkedOn
  <2> QED BY <1>b, <2>1, <2>5, <2>6
<1>23. ASSUME NEW s \in Sessions, Exit(s) PROVE RowsWorkedOn'
  <2>1. \A t \in Sessions \ {s} : task'[t] = task[t] /\ reg'[t] = reg[t] /\ phase'[t] = phase[t]
    BY <1>a, <1>23 DEF Exit
  <2>2. phase'[s] \in {"closed", "crashed"} /\ lock' = lock
    BY <1>a, <1>23 DEF Exit
  <2> QED BY <1>b, <2>1, <2>2
<1>24. ASSUME NEW s \in Sessions, Crash(s) PROVE RowsWorkedOn'
  <2>1. \A t \in Sessions \ {s} : task'[t] = task[t] /\ reg'[t] = reg[t] /\ phase'[t] = phase[t]
    BY <1>a, <1>24 DEF Crash
  <2>2. phase'[s] \in {"closed", "crashed"} /\ lock' = lock
    BY <1>a, <1>24 DEF Crash
  <2> QED BY <1>b, <2>1, <2>2
<1> QED
  BY <1>1, <1>2, <1>3, <1>4, <1>5, <1>6, <1>7, <1>8, <1>9, <1>10, <1>11,
     <1>12, <1>13, <1>14, <1>15, <1>16, <1>17, <1>18, <1>19, <1>20, <1>21, <1>22,
     <1>23, <1>24 DEF Next, Startup, Request, Proceed

\* Where every row can be deleted, an idle run has open what it has locked: no error
\* path of check_out() or check_in() leaves one without the other.
THEOREM LockedIsOpen == ASSUME Releasing PROVE Spec => []LocksMatchRegistry
<1>1. Init => RowsWorkedOn
  BY NoneAssumption DEF Init, RowsWorkedOn
<1>2. IInv /\ RowsWorkedOn /\ [Next]_vars => RowsWorkedOn'
  BY RowsStep DEF IInv
<1>3. IInv /\ RowsWorkedOn => LocksMatchRegistry
  BY DEF IInv, OwnersHoldLock, RowsWorkedOn, LocksMatchRegistry, Ready, Owns, Idle
<1> QED BY <1>1, <1>2, <1>3, Invariance, PTL DEF Spec

\* Where files can be shredded, a run that quit left no copy: what it had open, what
\* it failed to write back and what it failed to open are all in the one directory
\* that purge_on_exit() empties.
THEOREM NothingLeft == ASSUME "shred" \notin Faults PROVE Spec => []NoPlaintextAfterQuit
<1>1. Init => NoPlaintextAfterQuit
  BY DEF Init, NoPlaintextAfterQuit
<1>2. IInv /\ NoPlaintextAfterQuit /\ [Next]_vars => NoPlaintextAfterQuit'
  <2> SUFFICES ASSUME TypeOK, TaskMatchesRegistry, NoPlaintextAfterQuit, [Next]_vars,
                      NEW t \in Sessions, NEW g \in Files, phase'[t] = "closed"
               PROVE  copy'[t][g] = Gone
    BY DEF IInv, NoPlaintextAfterQuit
  <2>a. /\ phase \in [Sessions -> Phases] /\ copy \in [Sessions -> [Files -> Content \cup {Gone}]]
    BY DEF TypeOK
  \* A live run writes its own copies.
  <2>b. ASSUME NEW s \in Sessions, UNCHANGED phase, phase[s] # "closed", copy'[t] = copy[t] \/ t = s PROVE copy'[t][g] = Gone
    BY <2>b DEF NoPlaintextAfterQuit
  <2>1. CASE UNCHANGED copy /\ (phase'[t] = "closed" => phase[t] = "closed")
    BY <2>1 DEF NoPlaintextAfterQuit
  <2>2. CASE Purge
    BY <2>2 DEF Purge, May
  <2>3. ASSUME NEW s \in Sessions, WriteCopy(s) PROVE copy'[t][g] = Gone
    <3>1. copy'[t] = copy[t] \/ t = s
      BY <2>a, <2>3 DEF WriteCopy
    <3> QED BY <2>b, <2>3, <3>1 DEF WriteCopy, At, Alive
  <2>4. ASSUME NEW s \in Sessions, NEW f \in Files, Save(s, f) PROVE copy'[t][g] = Gone
    <3>1. copy'[t] = copy[t] \/ t = s
      BY <2>a, <2>4 DEF Save
    <3> QED BY <2>b, <2>4, <3>1 DEF Save, Alive
  <2>5. ASSUME NEW s \in Sessions, Shred(s) PROVE copy'[t][g] = Gone
    <3>1. copy'[t] = copy[t] \/ t = s
      BY <2>a, <2>5 DEF Shred
    <3> QED BY <2>b, <2>5, <3>1 DEF Shred, At, Alive
  <2>6. ASSUME NEW s \in Sessions, Wipe(s) PROVE copy'[t][g] = Gone
    <3>1. copy'[t] = copy[t] \/ t = s
      BY <2>a, <2>6 DEF Wipe
    <3> QED BY <2>b, <2>6, <3>1 DEF Wipe, At, Alive
  <2>7. ASSUME NEW s \in Sessions, Start(s) PROVE copy'[t][g] = Gone
    BY <2>a, <2>1, <2>7 DEF Start
  <2>8. ASSUME NEW s \in Sessions, FetchLocks(s) PROVE copy'[t][g] = Gone
    BY <2>a, <2>1, <2>8 DEF FetchLocks
  <2>9. ASSUME NEW s \in Sessions, SweepRow(s) PROVE copy'[t][g] = Gone
    BY <2>a, <2>1, <2>9 DEF SweepRow
  <2>10. ASSUME NEW s \in Sessions, EnterSession(s) PROVE copy'[t][g] = Gone
    BY <2>a, <2>1, <2>10 DEF EnterSession
  <2>11. ASSUME NEW s \in Sessions, NEW f \in Files, Open(s, f) PROVE copy'[t][g] = Gone
    BY <2>a, <2>1, <2>11 DEF Open
  <2>12. ASSUME NEW s \in Sessions, Decrypt(s) PROVE copy'[t][g] = Gone
    BY <2>a, <2>1, <2>12 DEF Decrypt
  <2>13. ASSUME NEW s \in Sessions, NEW f \in Files, NEW close \in BOOLEAN, CheckIn(s, f, close) PROVE copy'[t][g] = Gone
    BY <2>a, <2>1, <2>13 DEF CheckIn
  <2>14. ASSUME NEW s \in Sessions, LockScreen(s) PROVE copy'[t][g] = Gone
    BY <2>a, <2>1, <2>14 DEF LockScreen
  <2>15. ASSUME NEW s \in Sessions, Quit(s) PROVE copy'[t][g] = Gone
    BY <2>a, <2>1, <2>15 DEF Quit
  <2>16. ASSUME NEW s \in Sessions, NextDocument(s) PROVE copy'[t][g] = Gone
    BY <2>a, <2>1, <2>16 DEF NextDocument
  <2>17. ASSUME NEW s \in Sessions, ApplyCheckin(s) PROVE copy'[t][g] = Gone
    BY <2>a, <2>1, <2>17 DEF ApplyCheckin
  <2>18. ASSUME NEW s \in Sessions, LookForChange(s) PROVE copy'[t][g] = Gone
    BY <2>a, <2>1, <2>18 DEF LookForChange
  <2>19. ASSUME NEW s \in Sessions, HashCopy(s) PROVE copy'[t][g] = Gone
    BY <2>a, <2>1, <2>19 DEF HashCopy
  <2>20. ASSUME NEW s \in Sessions, ReplaceVault(s) PROVE copy'[t][g] = Gone
    BY <2>a, <2>1, <2>20 DEF ReplaceVault
  <2>21. ASSUME NEW s \in Sessions, Release(s) PROVE copy'[t][g] = Gone
    BY <2>a, <2>1, <2>21 DEF Release
  <2>22. ASSUME NEW s \in Sessions, NEW f \in Files, Discard(s, f) PROVE copy'[t][g] = Gone
    BY <2>a, <2>1, <2>22 DEF Discard
  <2>23. ASSUME NEW s \in Sessions, Crash(s) PROVE copy'[t][g] = Gone
    BY <2>a, <2>1, <2>23 DEF Crash
  <2>24. ASSUME NEW s \in Sessions, PurgeOrphans(s) PROVE copy'[t][g] = Gone
    BY <2>2, <2>24 DEF PurgeOrphans
  <2>25. ASSUME NEW s \in Sessions, Exit(s) PROVE copy'[t][g] = Gone
    BY <2>2, <2>25 DEF Exit
  <2>26. CASE UNCHANGED vars
    BY <2>1, <2>26 DEF vars
  <2> QED
    BY <2>3, <2>4, <2>5, <2>6, <2>7, <2>8, <2>9, <2>10, <2>11, <2>12, <2>13,
       <2>14, <2>15, <2>16, <2>17, <2>18, <2>19, <2>20, <2>21, <2>22, <2>23, <2>24,
       <2>25, <2>26 DEF Next, Startup, Request, Proceed
<1> QED BY <1>1, <1>2, Invariance, PTL DEF Spec
=============================================================================
