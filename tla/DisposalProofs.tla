--------------------------- MODULE DisposalProofs ---------------------------
(***************************************************************************)
(* Proofs about Disposal, for any number of instances and files and any    *)
(* bounds: the types; that a half-done deletion is always on the queue; and *)
(* that no timer and no start destroys a file whose retention runs.        *)
(***************************************************************************)
EXTENDS Disposal, FiniteSetTheorems, TLAPS

USE NoRowAssumption, TermsAssumption, ListingAssumption, OverlapAssumption, FaultAssumption, BoundAssumption

\* The entry of e has been written: it is on the queue, or was and is being
\* worked off by the thread that wrote it or by a start.
OnRecord(e) ==
    \/ e \in queue
    \/ \E p \in Procs : proc[p] = "start" /\ e \in job[p]["gui"].todo
    \/ \E p \in Procs, t \in Threads :
        e \in job[p][t].cur /\ job[p][t].pc \in {"shred", "delete", "dequeue"}

\* The deletion of e.file is decided, announced or not.
Decided(e) == OnRecord(e) \/ \E p \in Procs, t \in Threads : e \in job[p][t].cur

\* e speaks of a row there has been, and of no other path's row.
Known(e) == e.id \in 1..ids /\ \A f \in Recorded : row[f].id = e.id => f = e.file

RowIds ==
    \A f \in Recorded : row[f].id <= ids /\ \A g \in Recorded : row[f].id = row[g].id => f = g

AllKnown ==
    /\ \A p \in Procs : \A v \in view[p] : Known(v)
    /\ \A p \in Procs, t \in Threads : \A e \in job[p][t].todo : Known(e)
    /\ \A e \in Item : Decided(e) => Known(e)

\* As long as a deletion is not done, no other document takes the place of its file.
PlaceKept == \A e \in Item : Decided(e) /\ e.file \in Recorded => row[e.file].id = e.id

\* An entry of the queue is written once.
EntriesDiffer ==
    \A e \in Item : OnRecord(e) =>
        /\ e.entry \in 1..entries
        /\ \A d \in Item : OnRecord(d) /\ d.entry = e.entry => d = e

\* An entry leaves the queue only after the row.
Announced ==
    /\ \A e \in Item : OnRecord(e) => e \in queue \/ e.file \notin Recorded
    /\ \A p \in Procs, t \in Threads : \A e \in job[p][t].cur :
        job[p][t].pc = "dequeue" => e.file \notin Recorded

\* A file that is being added has no row yet, and nobody deletes it.
AddingNew ==
    \A p \in Procs : \A f \in adding[p] :
        /\ f \in stored /\ f \notin Recorded
        /\ \A e \in Item : Decided(e) => e.file # f
        /\ \A q \in Procs : f \in adding[q] => q = p

IInv ==
    /\ TypeOK
    /\ RowIds
    /\ AllKnown
    /\ PlaceKept
    /\ EntriesDiffer
    /\ Announced
    /\ AddingNew
    /\ HalfDoneIsQueued

\* No timer has decided on a file whose retention runs.
TimerSpares ==
    \A e \in Item : Decided(e) /\ e.action = "purge_expired_file" /\ e.file \in Recorded
        => ~NeedsApproval(row[e.file])
-----------------------------------------------------------------------------
(* Types *)

Jobs == [pc : Steps, todo : SUBSET Item, cur : SUBSET Item]

\* A job that has one file in hand, or none and is between two.
WellFormed(j) ==
    /\ j \in Jobs
    /\ Cardinality(j.cur) <= 1
    /\ j.cur = {} <=> j.pc \in {"idle", "pick"}

LEMMA RecordedRows ==
    ASSUME TypeOK
    PROVE  /\ Recorded \subseteq Files
           /\ \A f \in Recorded : row[f] \in Row
           /\ \A f \in Recorded : Line(f) \in Shown /\ Line(f).id = row[f].id /\ Line(f).file = f
BY DEF TypeOK, Recorded, Line, Shown, Row

LEMMA AtMostOne ==
    ASSUME NEW e
    PROVE  Cardinality({}) <= 1 /\ Cardinality({e}) <= 1 /\ {e} # {}
BY FS_EmptySet, FS_Singleton

LEMMA TermType ==
    ASSUME NEW t \in Terms, clock \in 0..MaxClock
    PROVE  Term(t) \in Times \cup {NoProfile, Undated, Unlimited}
BY DEF Term, Times, NoProfile, Undated, Unlimited

LEMMA IdleWellFormed == WellFormed(Idle)
BY FS_EmptySet DEF WellFormed, Idle, Jobs, Steps

LEMMA JobUpdates ==
    ASSUME NEW r, WellFormed(r)
    PROVE  /\ \A x \in Steps \ {"idle", "pick"} :
              r.pc \notin {"idle", "pick"} => WellFormed([r EXCEPT !.pc = x])
           /\ \A x \in Steps, c \in SUBSET Item :
              Cardinality(c) <= 1 /\ (c = {} <=> x \in {"idle", "pick"})
                => WellFormed([r EXCEPT !.pc = x, !.cur = c])
<1>1. ASSUME NEW x \in Steps \ {"idle", "pick"}, r.pc \notin {"idle", "pick"}
      PROVE  WellFormed([r EXCEPT !.pc = x])
  <2> DEFINE s == [r EXCEPT !.pc = x]
  <2>1. s \in Jobs /\ s.pc = x /\ s.cur = r.cur
    BY DEF WellFormed, Jobs
  <2> HIDE DEF s
  <2>2. WellFormed(s)
    BY <1>1, <2>1 DEF WellFormed
  <2> QED BY <2>2 DEF s
<1>2. ASSUME NEW x \in Steps, NEW c \in SUBSET Item, Cardinality(c) <= 1,
             c = {} <=> x \in {"idle", "pick"}
      PROVE  WellFormed([r EXCEPT !.pc = x, !.cur = c])
  <2> DEFINE s == [r EXCEPT !.pc = x, !.cur = c]
  <2>1. s \in Jobs /\ s.pc = x /\ s.cur = c
    BY DEF WellFormed, Jobs
  <2> HIDE DEF s
  <2>2. WellFormed(s)
    BY <1>2, <2>1 DEF WellFormed
  <2> QED BY <2>2 DEF s
<1> QED BY <1>1, <1>2

LEMMA TypeInit == Init => TypeOK
<1> SUFFICES ASSUME Init PROVE TypeOK
  OBVIOUS
<1>1. \A p \in Procs, t \in Threads : job[p][t] = Idle
  BY DEF Init
<1>2. job \in [Procs -> [Threads -> Jobs]]
  BY IdleWellFormed DEF Init, WellFormed
<1>3. \A p \in Procs, t \in Threads : WellFormed(job[p][t])
  BY <1>1, IdleWellFormed
<1> QED BY <1>2, <1>3 DEF Init, TypeOK, WellFormed, Jobs, Labels, Asleep
\* A step of one job leaves the others as they are.
LEMMA JobType ==
    ASSUME TypeOK, NEW p \in Procs, NEW t \in Threads, NEW j, WellFormed(j),
           job' = [job EXCEPT ![p][t] = j]
    PROVE  /\ job' \in [Procs -> [Threads -> Jobs]]
           /\ \A q \in Procs, u \in Threads : WellFormed(job'[q][u])
<1>1. job \in [Procs -> [Threads -> Jobs]]
  BY DEF TypeOK, Jobs
<1>2. \A q \in Procs, u \in Threads : WellFormed(job[q][u])
  BY <1>1 DEF TypeOK, WellFormed
<1>3. j \in Jobs
  BY DEF WellFormed
<1> HIDE DEF Jobs
<1>4. \A q \in Procs, u \in Threads : job'[q][u] = IF q = p /\ u = t THEN j ELSE job[q][u]
  BY <1>1, <1>3
<1> QED BY <1>1, <1>2, <1>3, <1>4

LEMMA TypeFromJobs ==
    ASSUME TypeOK, job' \in [Procs -> [Threads -> Jobs]],
           \A q \in Procs, u \in Threads : WellFormed(job'[q][u]),
           UNCHANGED <<clock, row, ids, adding, tab, sweep>>,
           stored' \subseteq Files, queue' \subseteq Item, entries' \in 0..MaxQueue,
           proc' \in [Procs -> {"down", "start", "up"}],
           view' \in [Procs -> SUBSET Shown]
    PROVE  TypeOK'
BY DEF TypeOK, WellFormed, Jobs

\* The steps of the user, and time.
LEMMA UserTypeStep ==
    ASSUME TypeOK, Tick \/ \E p \in Procs : User(p)
    PROVE  TypeOK'
<1> USE RecordedRows
<1>1. CASE Tick
  BY <1>1 DEF Tick, TypeOK
<1>2. ASSUME NEW p \in Procs, NEW f \in Files, AddEncrypt(p, f) PROVE TypeOK'
  BY <1>2 DEF AddEncrypt, TypeOK
<1>3. ASSUME NEW p \in Procs, NEW f \in Files, AddRecord(p, f) PROVE TypeOK'
  <2> DEFINE id == IF f \in Recorded THEN row[f].id ELSE ids + 1
             new == [id |-> id, label |-> "Karantina", timer |-> clock + 1,
                     retention |-> IF f \in Recorded THEN row[f].retention ELSE NoProfile]
  <2>1. id <= MaxId /\ row' = [row EXCEPT ![f] = new] /\ view' = [view EXCEPT ![p] = @ \cup {Line(f)'}]
        /\ ids' = (IF f \in Recorded THEN ids ELSE id)
    BY <1>3 DEF AddRecord
  <2>2. id \in 1..MaxId /\ ids' \in 0..MaxId
    BY <2>1 DEF TypeOK, Row
  <2>3. new \in Row
    BY <2>2 DEF TypeOK, Row, Labels, Times, NoProfile
  <2> HIDE DEF new
  <2>4. row' \in [Files -> Row \cup {NoRow}] /\ row'[f] = new
    BY <2>1, <2>3 DEF TypeOK
  <2>5. Line(f)' \in Shown
    BY <2>3, <2>4 DEF Line, Row, Shown
  <2>6. view' \in [Procs -> SUBSET Shown]
    BY <2>1, <2>5 DEF TypeOK
  <2> QED BY <1>3, <2>2, <2>4, <2>6 DEF AddRecord, TypeOK
<1>4. ASSUME NEW p \in Procs, NEW label \in Labels, LoadLabel(p, label) PROVE TypeOK'
  BY <1>4 DEF LoadLabel, TypeOK
<1>5. ASSUME NEW p \in Procs, NEW found \in SUBSET Recorded, Search(p, found) PROVE TypeOK'
  BY <1>5 DEF Search, TypeOK
<1>6. ASSUME NEW p \in Procs, NEW v \in view[p], NEW label \in Labels,
             SetLabel(v.id, label), view' = [view EXCEPT ![p] = @ \ {v}],
             UNCHANGED <<clock, stored, queue, ids, entries, adding, proc, tab, job, sweep>>
      PROVE  TypeOK'
  <2>2. \A f \in Recorded : [row[f] EXCEPT !.label = label] \in Row
    BY DEF Row
  <2>3. row' \in [Files -> Row \cup {NoRow}]
    BY <1>6, <2>2 DEF SetLabel, TypeOK
  <2> QED BY <1>6, <2>3 DEF TypeOK
<1>7. ASSUME NEW p \in Procs, NEW f \in Files, NEW a \in BOOLEAN, MoveToImha(p, f, a) PROVE TypeOK'
  <2>1. f \in Recorded /\ row[f] \in Row /\ clock + 1 \in Times
    BY <1>7 DEF MoveToImha, TypeOK, Times
  <2>2. \A r \in Row : [r EXCEPT !.label = "Imha", !.timer = clock + 1] \in Row
    BY <2>1 DEF Row, Labels
  <2>3. row' = [row EXCEPT ![f] = [@ EXCEPT !.label = "Imha", !.timer = clock + 1]]
    BY <1>7 DEF MoveToImha
  <2>5. row' \in [Files -> Row \cup {NoRow}]
    BY <2>1, <2>2, <2>3 DEF TypeOK
  <2>6. \A v \in SUBSET Shown : {w \in v : w.id # row[f].id} \in SUBSET Shown
    OBVIOUS
  <2>7. view' \in [Procs -> SUBSET Shown]
    BY <1>7, <2>6 DEF MoveToImha, TypeOK
  <2> QED BY <1>7, <2>5, <2>7 DEF MoveToImha, TypeOK
<1>8. ASSUME NEW p \in Procs, NEW f \in Files, NEW a \in BOOLEAN, PurgeFile(p, f, a) PROVE TypeOK'
  <2> DEFINE e == Deletion(row[f].id, f, "purge_file", 0)
             j == [pc |-> "enqueue", todo |-> {}, cur |-> {e}]
  <2>1. e \in Item
    BY <1>8 DEF PurgeFile, Deletion, Item, Row
  <2>2. job' = [job EXCEPT ![p]["gui"] = j]
    BY <1>8 DEF PurgeFile
  <2> HIDE DEF e
  <2>3. WellFormed(j)
    BY <2>1, AtMostOne DEF WellFormed, Jobs, Steps
  <2> HIDE DEF j
  <2>4. /\ job' \in [Procs -> [Threads -> Jobs]]
        /\ \A q \in Procs, u \in Threads : WellFormed(job'[q][u])
    BY <2>2, <2>3, JobType DEF Threads
  <2> QED BY <1>8, <2>4, TypeFromJobs DEF PurgeFile, TypeOK
<1>9. ASSUME NEW p \in Procs, NEW f \in Files, NEW t \in Terms, AssignProfile(p, f, Term(t))
      PROVE  TypeOK'
  <2>1. Term(t) \in Times \cup {NoProfile, Undated, Unlimited}
    BY TermType DEF TypeOK
  <2>2. f \in Recorded /\ row[f] \in Row /\ row' = [row EXCEPT ![f].retention = Term(t)]
    BY <1>9 DEF AssignProfile
  <2>3. \A r \in Row : [r EXCEPT !.retention = Term(t)] \in Row
    BY <2>1 DEF Row
  <2>4. row' \in [Files -> Row \cup {NoRow}]
    BY <2>2, <2>3 DEF TypeOK
  <2> QED BY <1>9, <2>4 DEF AssignProfile, TypeOK
<1>10. ASSUME NEW p \in Procs, NEW v \in view[p],
              MoveLabel(p, v, "Genel") \/ MoveLabel(p, v, "Imha") \/ MoveToKritik(p, v)
       PROVE  TypeOK'
  <2>1. CASE MoveLabel(p, v, "Genel")
    BY <1>6, <2>1 DEF MoveLabel, Labels
  <2>2. CASE MoveLabel(p, v, "Imha")
    BY <1>6, <2>2 DEF MoveLabel, Labels
  <2>3. CASE MoveToKritik(p, v)
    BY <1>6, <2>3 DEF MoveToKritik, Labels
  <2> QED BY <1>10, <2>1, <2>2, <2>3
<1>11. ASSUME NEW p \in Procs, User(p) PROVE TypeOK'
  BY <1>2, <1>3, <1>4, <1>5, <1>7, <1>8, <1>9, <1>10, <1>11 DEF User
<1> QED BY <1>1, <1>11
\* The steps that start a deletion, and those of a deletion.
LEMMA JobTypeStep ==
    ASSUME TypeOK, NEW p \in Procs,
           \/ TickExpiry(p) \/ PurgeExpired(p) \/ Start(p) \/ Stop(p)
           \/ \E t \in Threads : Delete(p, t) \/ StatementFails(p, t)
    PROVE  TypeOK'
<1> USE RecordedRows
<1>1. /\ job \in [Procs -> [Threads -> Jobs]]
      /\ \A t \in Threads : WellFormed(job[p][t])
      /\ \A t \in Threads : /\ job[p][t].todo \in SUBSET Item /\ job[p][t].cur \in SUBSET Item
                            /\ job[p][t].pc \in Steps
      /\ "gui" \in Threads /\ "purge" \in Threads
  BY DEF TypeOK, Jobs, WellFormed, Threads
<1>2. ASSUME NEW t \in Threads, NEW j, WellFormed(j), job' = [job EXCEPT ![p][t] = j]
      PROVE  /\ job' \in [Procs -> [Threads -> Jobs]]
             /\ \A q \in Procs, u \in Threads : WellFormed(job'[q][u])
  BY <1>2, JobType
<1>3. \A x \in SUBSET Item : WellFormed([pc |-> "pick", todo |-> x, cur |-> {}])
  BY AtMostOne DEF WellFormed, Jobs, Steps
<1>4. CASE TickExpiry(p)
  <2> DEFINE x == {Deletion(v.id, v.file, "purge_expired_file", 0) :
                        v \in {w \in view[p] : Due(w.timer)}}
             j == [pc |-> "pick", cur |-> {}, todo |-> x]
  <2>1. \A v \in Shown : Deletion(v.id, v.file, "purge_expired_file", 0) \in Item
    BY DEF Shown, Deletion, Item, TypeOK
  <2>2. x \in SUBSET Item
    BY <2>1 DEF TypeOK
  <2>3. job' = [job EXCEPT ![p]["gui"] = j]
    BY <1>4 DEF TickExpiry
  <2> HIDE DEF x
  <2>4. WellFormed(j)
    BY <1>3, <2>2
  <2>5. view' \in [Procs -> SUBSET Shown]
    BY <1>4 DEF TickExpiry, TypeOK
  <2> HIDE DEF j
  <2>6. /\ job' \in [Procs -> [Threads -> Jobs]]
        /\ \A q \in Procs, u \in Threads : WellFormed(job'[q][u])
    BY <1>1, <1>2, <2>3, <2>4
  <2> QED BY <1>4, <2>5, <2>6, TypeFromJobs DEF TickExpiry, TypeOK
<1>5. CASE PurgeExpired(p)
  <2> DEFINE x == {Deletion(row[f].id, f, "purge_expired_file", 0) : f \in Expired}
             j == [pc |-> "pick", cur |-> {}, todo |-> x]
  <2>1. \A f \in Recorded : Deletion(row[f].id, f, "purge_expired_file", 0) \in Item
    BY DEF Row, Deletion, Item, TypeOK
  <2>2. x \in SUBSET Item
    BY <2>1 DEF Expired
  <2>3. job' = [job EXCEPT ![p]["purge"] = j]
    BY <1>5 DEF PurgeExpired
  <2> HIDE DEF x
  <2>4. WellFormed(j)
    BY <1>3, <2>2
  <2> HIDE DEF j
  <2>5. /\ job' \in [Procs -> [Threads -> Jobs]]
        /\ \A q \in Procs, u \in Threads : WellFormed(job'[q][u])
    BY <1>1, <1>2, <2>3, <2>4
  <2> QED BY <1>5, <2>5, TypeFromJobs DEF PurgeExpired, TypeOK
<1>6. CASE Start(p)
  <2> DEFINE j == [pc |-> "pick", cur |-> {}, todo |-> queue]
  <2>1. job' = [job EXCEPT ![p]["gui"] = j] /\ proc' = [proc EXCEPT ![p] = "start"]
    BY <1>6 DEF Start
  <2>2. WellFormed(j)
    BY <1>3 DEF TypeOK
  <2> HIDE DEF j
  <2>3. /\ job' \in [Procs -> [Threads -> Jobs]]
        /\ \A q \in Procs, u \in Threads : WellFormed(job'[q][u])
    <3>1. job' = [job EXCEPT ![p]["gui"] = j]
      BY <2>1
    <3> QED BY <1>1, <1>2, <2>2, <3>1, ZenonT(30)
  <2>4. proc' \in [Procs -> {"down", "start", "up"}]
    BY <2>1 DEF TypeOK
  <2>5. /\ UNCHANGED <<clock, row, ids, adding, tab, sweep>> /\ view' \in [Procs -> SUBSET Shown]
        /\ stored' \subseteq Files /\ queue' \subseteq Item /\ entries' \in 0..MaxQueue
    BY <1>6 DEF Start, TypeOK
  <2> QED BY <2>3, <2>4, <2>5, TypeFromJobs
<1>7. CASE Stop(p)
  <2>1. job' = [job EXCEPT ![p] = [t \in Threads |-> Idle]]
    BY <1>7 DEF Stop
  <2>2. Idle \in Jobs
    BY IdleWellFormed DEF WellFormed
  <2>3. job' \in [Procs -> [Threads -> Jobs]]
    BY <1>1, <2>1, <2>2
  <2>4. \A q \in Procs, t \in Threads : job'[q][t] = IF q = p THEN Idle ELSE job[q][t]
    BY <1>1, <2>1
  <2>5. \A q \in Procs, t \in Threads : WellFormed(job[q][t])
    BY DEF TypeOK, WellFormed, Jobs
  <2>6. \A q \in Procs, t \in Threads : WellFormed(job'[q][t])
    BY <2>4, <2>5, IdleWellFormed
  <2>7. Asleep \in [pc : {"idle", "pick", "move"}, todo : SUBSET (1..MaxId)]
    BY DEF Asleep
  <2> QED BY <1>7, <2>3, <2>6, <2>7 DEF Stop, TypeOK, WellFormed, Jobs, Labels
<1>8. ASSUME NEW t \in Threads, Pick(p, t) PROVE TypeOK'
  <2>1. PICK e \in job[p][t].todo : job' = [job EXCEPT ![p][t] =
            [pc |-> IF Resuming(p, t) THEN "shred" ELSE IF Protected(e.id) THEN "pick" ELSE "enqueue",
             todo |-> @.todo \ {e},
             cur |-> IF ~Resuming(p, t) /\ Protected(e.id) THEN {} ELSE {e}]]
    BY <1>8 DEF Pick
  <2> DEFINE j == [pc |-> IF Resuming(p, t) THEN "shred" ELSE IF Protected(e.id) THEN "pick" ELSE "enqueue",
                   todo |-> job[p][t].todo \ {e},
                   cur |-> IF ~Resuming(p, t) /\ Protected(e.id) THEN {} ELSE {e}]
  <2>2. job' = [job EXCEPT ![p][t] = j]
    BY <1>1, <2>1
  <2>3. e \in Item /\ job[p][t].todo \ {e} \in SUBSET Item
    BY <1>1
  <2>4. WellFormed(j)
    BY <2>3, AtMostOne DEF WellFormed, Jobs, Steps
  <2> HIDE DEF j
  <2> QED BY <1>2, <1>8, <2>2, <2>4, TypeFromJobs DEF Pick, TypeOK
<1>9. ASSUME NEW t \in Threads, Finish(p, t) PROVE TypeOK'
  BY <1>2, <1>9, IdleWellFormed, TypeFromJobs DEF Finish, TypeOK
<1>10. ASSUME NEW t \in Threads, Enqueue(p, t) PROVE TypeOK'
  <2>1. PICK e \in job[p][t].cur : /\ queue' = queue \cup {[e EXCEPT !.entry = entries']}
            /\ job' = [job EXCEPT ![p][t] =
                          [@ EXCEPT !.pc = "shred", !.cur = {[e EXCEPT !.entry = entries']}]]
    BY <1>10 DEF Enqueue
  <2> DEFINE d == [e EXCEPT !.entry = entries']
             j == [job[p][t] EXCEPT !.pc = "shred", !.cur = {d}]
  <2>2. entries' \in 0..MaxQueue
    BY <1>10 DEF Enqueue, TypeOK
  <2>3. d \in Item
    BY <1>1, <2>2 DEF Item
  <2>4. job' = [job EXCEPT ![p][t] = j]
    BY <2>1
  <2>6. queue' = queue \cup {d}
    BY <2>1
  <2> HIDE DEF d
  <2>5. WellFormed(j)
    <3>1. Cardinality({d}) <= 1 /\ {d} \in SUBSET Item /\ {d} # {} /\ "shred" \in Steps
      BY <2>3, AtMostOne DEF Steps
    <3> QED BY <1>1, <3>1, JobUpdates
  <2> HIDE DEF j
  <2>7. queue' \subseteq Item
    BY <2>3, <2>6 DEF TypeOK
  <2> QED BY <1>2, <1>10, <2>2, <2>4, <2>5, <2>7, TypeFromJobs DEF Enqueue, TypeOK
<1>11. ASSUME NEW t \in Threads, Shred(p, t) PROVE TypeOK'
  <2> DEFINE j == [job[p][t] EXCEPT !.pc = "delete"]
  <2>1. job' = [job EXCEPT ![p][t] = j]
    BY <1>1, <1>11 DEF Shred
  <2>2. WellFormed(j)
    BY <1>1, <1>11, JobUpdates DEF Shred, At, Steps
  <2> HIDE DEF j
  <2>3. stored' \subseteq Files
    BY <1>11 DEF Shred, TypeOK
  <2> QED BY <1>2, <1>11, <2>1, <2>2, <2>3, TypeFromJobs DEF Shred, TypeOK
<1>12. ASSUME NEW t \in Threads, DeleteRow(p, t) PROVE TypeOK'
  <2> DEFINE j == [job[p][t] EXCEPT !.pc = "dequeue"]
  <2>1. job' = [job EXCEPT ![p][t] = j]
    BY <1>1, <1>12 DEF DeleteRow
  <2>2. WellFormed(j)
    BY <1>1, <1>12, JobUpdates DEF DeleteRow, At, Steps
  <2> HIDE DEF j
  <2>3. row' \in [Files -> Row \cup {NoRow}]
    BY <1>12 DEF DeleteRow, TypeOK
  <2>4. /\ job' \in [Procs -> [Threads -> Jobs]]
        /\ \A q \in Procs, u \in Threads : WellFormed(job'[q][u])
    BY <1>2, <2>1, <2>2
  <2> QED BY <1>12, <2>3, <2>4 DEF DeleteRow, TypeOK, WellFormed, Jobs
<1>13. ASSUME NEW t \in Threads, Dequeue(p, t) PROVE TypeOK'
  <2> DEFINE j == [job[p][t] EXCEPT !.pc = "pick", !.cur = {}]
  <2>1. job' = [job EXCEPT ![p][t] = j]
    BY <1>1, <1>13 DEF Dequeue
  <2>2. WellFormed(j)
    <3>1. {} \in SUBSET Item /\ Cardinality({}) <= 1 /\ "pick" \in Steps /\ WellFormed(job[p][t])
      BY <1>1, AtMostOne DEF Steps
    <3> QED BY <3>1, JobUpdates
  <2> HIDE DEF j
  <2> QED BY <1>2, <1>13, <2>1, <2>2, TypeFromJobs DEF Dequeue, TypeOK
<1>14. ASSUME NEW t \in Threads, StatementFails(p, t) PROVE TypeOK'
  <2> DEFINE x == IF t = "purge" THEN {} ELSE job[p][t].todo
             j == [pc |-> "pick", todo |-> x, cur |-> {}]
  <2>1. job' = [job EXCEPT ![p][t] = j]
    BY <1>1, <1>14 DEF StatementFails
  <2>2. WellFormed(j)
    BY <1>1, <1>3
  <2> HIDE DEF j
  <2> QED BY <1>2, <1>14, <2>1, <2>2, TypeFromJobs DEF StatementFails, TypeOK
<1> QED BY <1>4, <1>5, <1>6, <1>7, <1>8, <1>9, <1>10, <1>11, <1>12, <1>13, <1>14 DEF Delete

LEMMA SweepTypeStep ==
    ASSUME TypeOK, NEW p \in Procs, SweepSelect(p) \/ SweepCheck(p) \/ SweepMove(p)
    PROVE  TypeOK'
<1> USE RecordedRows
<1>1. CASE SweepSelect(p)
  <2>1. Candidates \subseteq 1..MaxId
    BY DEF Candidates, Row
  <2> QED BY <1>1, <2>1 DEF SweepSelect, TypeOK
<1>2. CASE SweepCheck(p)
  <2> DEFINE s == sweep[p]
  <2>1. s \in [pc : {"idle", "pick", "move"}, todo : SUBSET (1..MaxId)]
    BY DEF TypeOK
  <2>2. CASE s.todo = {}
    <3>1. Asleep \in [pc : {"idle", "pick", "move"}, todo : SUBSET (1..MaxId)]
      BY DEF Asleep
    <3>2. sweep' = [sweep EXCEPT ![p] = Asleep]
      BY <1>2, <2>2 DEF SweepCheck
    <3> QED BY <1>2, <3>1, <3>2 DEF SweepCheck, TypeOK
  <2>3. CASE s.todo # {}
    <3>1. PICK id \in s.todo : sweep' = [sweep EXCEPT ![p] =
                IF \E f \in Recorded : row[f].id = id /\ Over(row[f])
                THEN [@ EXCEPT !.pc = "move"] ELSE [pc |-> "pick", todo |-> @.todo \ {id}]]
      BY <1>2, <2>3 DEF SweepCheck
    <3>2. CASE \E f \in Recorded : row[f].id = id /\ Over(row[f])
      <4>1. sweep' = [sweep EXCEPT ![p] = [s EXCEPT !.pc = "move"]]
        BY <3>1, <3>2
      <4>2. [s EXCEPT !.pc = "move"] \in [pc : {"idle", "pick", "move"}, todo : SUBSET (1..MaxId)]
        BY <2>1
      <4>3. sweep' \in [Procs -> [pc : {"idle", "pick", "move"}, todo : SUBSET (1..MaxId)]]
        <5> HIDE DEF s
        <5> QED BY <4>1, <4>2 DEF TypeOK
      <4> QED BY <1>2, <4>3 DEF SweepCheck, TypeOK
    <3>3. CASE ~\E f \in Recorded : row[f].id = id /\ Over(row[f])
      <4>1. sweep' = [sweep EXCEPT ![p] = [pc |-> "pick", todo |-> s.todo \ {id}]]
        BY <3>1, <3>3
      <4>2. [pc |-> "pick", todo |-> s.todo \ {id}] \in [pc : {"idle", "pick", "move"}, todo : SUBSET (1..MaxId)]
        BY <2>1
      <4>3. sweep' \in [Procs -> [pc : {"idle", "pick", "move"}, todo : SUBSET (1..MaxId)]]
        <5> HIDE DEF s
        <5> QED BY <4>1, <4>2 DEF TypeOK
      <4> QED BY <1>2, <4>3 DEF SweepCheck, TypeOK
    <3> QED BY <3>2, <3>3
  <2> QED BY <2>2, <2>3
<1>3. CASE SweepMove(p)
  <2>1. \A r \in Row : [r EXCEPT !.label = "Imha", !.timer = NoTimer] \in Row
    BY DEF Row, Labels
  <2>2. PICK id \in sweep[p].todo :
            /\ row' = [f \in Files |-> IF f \in Recorded /\ row[f].id = id
                                   THEN [row[f] EXCEPT !.label = "Imha", !.timer = NoTimer]
                                   ELSE row[f]]
            /\ sweep' = [sweep EXCEPT ![p] = [pc |-> "pick", todo |-> @.todo \ {id}]]
    BY <1>3 DEF SweepMove
  <2>3. row' \in [Files -> Row \cup {NoRow}]
    <3>1. \A f \in Files : row[f] \in Row \cup {NoRow}
      BY DEF TypeOK
    <3>2. \A f \in Recorded : [row[f] EXCEPT !.label = "Imha", !.timer = NoTimer] \in Row
      BY <2>1
    <3> DEFINE new(f) == IF f \in Recorded /\ row[f].id = id
                         THEN [row[f] EXCEPT !.label = "Imha", !.timer = NoTimer] ELSE row[f]
    <3>3. \A f \in Files : new(f) \in Row \cup {NoRow}
      BY <3>1, <3>2, ZenonT(30)
    <3>4. row' = [f \in Files |-> new(f)]
      BY <2>2
    <3> HIDE DEF new
    <3> QED BY <3>3, <3>4
  <2>4. sweep' \in [Procs -> [pc : {"idle", "pick", "move"}, todo : SUBSET (1..MaxId)]]
    BY <2>2 DEF TypeOK
  <2>5. UNCHANGED <<clock, stored, queue, ids, entries, adding, proc, tab, view, job>>
    BY <1>3 DEF SweepMove
  <2> QED BY <2>3, <2>4, <2>5 DEF TypeOK
<1> QED BY <1>1, <1>2, <1>3

LEMMA TypeStep == TypeOK /\ [Next]_vars => TypeOK'
<1>1. TypeOK /\ UNCHANGED vars => TypeOK'
  BY DEF vars, TypeOK
<1> QED BY <1>1, UserTypeStep, JobTypeStep, SweepTypeStep DEF Next

\* The variables keep their types.
THEOREM TypeCorrect == Spec => []TypeOK
BY TypeInit, TypeStep, PTL DEF Spec
-----------------------------------------------------------------------------
(* The invariant *)

LEMMA IInvInit == Init => IInv
<1> SUFFICES ASSUME Init PROVE IInv
  OBVIOUS
<1>1. /\ TypeOK /\ Recorded = {} /\ queue = {}
      /\ \A p \in Procs : view[p] = {} /\ adding[p] = {}
      /\ \A p \in Procs, t \in Threads : job[p][t].todo = {} /\ job[p][t].cur = {}
      /\ "gui" \in Threads
  BY TypeInit DEF Init, Recorded, Idle, Threads
<1>2. \A e \in Item : ~OnRecord(e) /\ ~Decided(e)
  BY <1>1 DEF OnRecord, Decided
<1> QED BY <1>1, <1>2 DEF IInv, RowIds, AllKnown, PlaceKept, EntriesDiffer, Announced, AddingNew,
                          HalfDoneIsQueued

\* A row that exists is known by its id and its path.
LEMMA RowKnown ==
    ASSUME IInv, NEW f \in Recorded, NEW e, e.id = row[f].id, e.file = f
    PROVE  Known(e)
<1>1. row[f].id \in 1..ids
  BY RecordedRows DEF IInv, TypeOK, RowIds, Row
<1> QED BY <1>1 DEF IInv, RowIds, Known

\* A deletion that is on record or in hand has its types and a row of its own.
LEMMA DecidedTyped ==
    ASSUME IInv
    PROVE  /\ \A e \in queue : e \in Item /\ OnRecord(e)
           /\ \A p \in Procs, t \in Threads :
                /\ \A e \in job[p][t].todo : e \in Item
                /\ \A e \in job[p][t].cur : e \in Item /\ Decided(e)
           /\ \A e \in Item : OnRecord(e) => Decided(e)
           /\ "gui" \in Threads /\ "purge" \in Threads
BY DEF IInv, TypeOK, OnRecord, Decided, Threads

\* What a step must do that puts no file and no entry on record: every part of
\* the invariant follows.
LEMMA QuietStep ==
    ASSUME IInv, TypeOK',
           Recorded' \subseteq Recorded, \A f \in Recorded' : row'[f].id = row[f].id,
           UNCHANGED <<ids, entries>>,
           queue' \subseteq queue, \A e \in queue \ queue' : e.file \notin Recorded',
           stored' \subseteq stored,
           \A f \in stored \ stored' : \E e \in Item : OnRecord(e) /\ e.file = f,
           \A p \in Procs : adding'[p] \subseteq adding[p],
           \A d \in Item : OnRecord(d)' => OnRecord(d),
           \A d \in Item : Decided(d)' =>
                Decided(d) \/ (d.file \in Recorded /\ row[d.file].id = d.id),
           \A p \in Procs : \A v \in view'[p] : Known(v),
           \A p \in Procs, t \in Threads : \A e \in job'[p][t].todo : Known(e),
           \A p \in Procs, t \in Threads : \A e \in job'[p][t].cur :
                job'[p][t].pc = "dequeue" => e.file \notin Recorded'
    PROVE  IInv'
<1>1. RowIds'
  BY DEF IInv, RowIds
<1>2. \A e : Known(e) => Known(e)'
  BY DEF Known
<1>3. \A e \in Item : Decided(e)' => Known(e)
  BY RowKnown DEF IInv, AllKnown
<1>4. AllKnown'
  BY <1>2, <1>3 DEF AllKnown
<1>5. PlaceKept'
  BY DEF IInv, PlaceKept
<1>6. EntriesDiffer'
  BY DEF IInv, EntriesDiffer
<1>7. \A e \in Item : OnRecord(e)' => e \in queue' \/ e.file \notin Recorded'
  BY DEF IInv, Announced
<1>8. Announced'
  BY <1>7 DEF Announced
<1>9. AddingNew'
  <2> SUFFICES ASSUME NEW p \in Procs, NEW f \in adding'[p]
               PROVE  /\ f \in stored' /\ f \notin Recorded'
                      /\ \A e \in Item : Decided(e)' => e.file # f
                      /\ \A q \in Procs : f \in adding'[q] => q = p
    BY DEF AddingNew
  <2>1. /\ f \in stored /\ f \notin Recorded
        /\ \A e \in Item : Decided(e) => e.file # f
        /\ \A q \in Procs : f \in adding[q] => q = p
    BY DEF IInv, AddingNew
  <2> QED BY <2>1, DecidedTyped
<1>10. HalfDoneIsQueued'
  <2> SUFFICES ASSUME NEW f \in Recorded', f \notin stored'
               PROVE  \E e \in queue' : e.id = row'[f].id
    BY DEF HalfDoneIsQueued
  <2>1. \E e \in queue : e.id = row[f].id /\ e.file = f
    <3>1. CASE f \in stored
      BY <3>1, DecidedTyped DEF IInv, Announced, PlaceKept
    <3>2. CASE f \notin stored
      BY <3>2, DecidedTyped DEF IInv, HalfDoneIsQueued, AllKnown, Known
    <3> QED BY <3>1, <3>2
  <2> QED BY <2>1
<1> QED BY <1>1, <1>4, <1>5, <1>6, <1>8, <1>9, <1>10 DEF IInv

\* What the jobs' deletions become when one job becomes j.
LEMMA JobChange ==
    ASSUME TypeOK, NEW p \in Procs, NEW t \in Threads, NEW j \in Jobs,
           job' = [job EXCEPT ![p][t] = j], queue' \subseteq queue,
           \A q \in Procs : proc'[q] = "start" => proc[q] = "start" \/ (q = p /\ t = "gui")
    PROVE  /\ \A q \in Procs, u \in Threads : job'[q][u] = IF q = p /\ u = t THEN j ELSE job[q][u]
           /\ \A d \in Item : OnRecord(d)' =>
                \/ OnRecord(d)
                \/ d \in j.cur /\ j.pc \in {"shred", "delete", "dequeue"}
                \/ d \in j.todo /\ t = "gui" /\ proc'[p] = "start"
           /\ \A d \in Item : Decided(d)' =>
                \/ Decided(d)
                \/ d \in j.cur
                \/ d \in j.todo /\ t = "gui" /\ proc'[p] = "start"
<1>1. job \in [Procs -> [Threads -> Jobs]]
  BY DEF TypeOK, Jobs
<1>2. \A q \in Procs, u \in Threads : job'[q][u] = IF q = p /\ u = t THEN j ELSE job[q][u]
  <2> HIDE DEF Jobs
  <2> QED BY <1>1
<1>3. \A d \in Item : OnRecord(d)' =>
                \/ OnRecord(d)
                \/ d \in j.cur /\ j.pc \in {"shred", "delete", "dequeue"}
                \/ d \in j.todo /\ t = "gui" /\ proc'[p] = "start"
  BY <1>2 DEF OnRecord, Threads
<1> QED BY <1>2, <1>3 DEF Decided

\* The same for the timers: whoever newly decides for a timer has looked at the
\* retention, and the retention of a file somebody deletes stays.
LEMMA TimerStays ==
    ASSUME TypeOK, TypeOK', TimerSpares, clock <= clock',
           \A f \in Recorded' : \/ f \in Recorded /\ row'[f].retention = row[f].retention
                                \/ \A e \in Item : Decided(e)' => e.file # f,
           \A e \in Item : Decided(e)' /\ e.action = "purge_expired_file" /\ e.file \in Recorded
                => Decided(e) \/ ~NeedsApproval(row[e.file])
    PROVE  TimerSpares'
<1> SUFFICES ASSUME NEW e \in Item, Decided(e)', e.action = "purge_expired_file", e.file \in Recorded',
                    NeedsApproval(row[e.file])'
             PROVE  FALSE
  BY DEF TimerSpares
<1>1. e.file \in Recorded /\ row'[e.file].retention = row[e.file].retention
  OBVIOUS
<1>2. row[e.file] \in Row /\ row'[e.file] \in Row /\ clock \in Nat /\ clock' \in Nat
  BY <1>1 DEF TypeOK, Recorded
<1>3. NeedsApproval(row[e.file])
  BY <1>1, <1>2 DEF NeedsApproval, Row, Times, Unlimited, Undated, NoProfile
<1> QED BY <1>1, <1>3 DEF TimerSpares

LEMMA DecidedBusy ==
    ASSUME NEW e \in Item, Decided(e)
    PROVE  Busy(e.file)
BY DEF Decided, OnRecord, Busy

LEMMA LinesKnown ==
    ASSUME IInv
    PROVE  /\ \A f \in Recorded : Known(Line(f))
           /\ \A p \in Procs : \A v \in view[p] : Known(v)
           /\ \A p \in Procs, t \in Threads : \A e \in job[p][t].todo : Known(e)
<1>1. TypeOK
  BY DEF IInv
<1>2. ASSUME NEW f \in Recorded PROVE Known(Line(f))
  <2> DEFINE e == Line(f)
  <2>1. e.id = row[f].id /\ e.file = f
    BY DEF Line
  <2> HIDE DEF e
  <2>2. Known(e)
    BY <2>1, RowKnown
  <2> QED BY <2>2 DEF e
<1> QED BY <1>2 DEF IInv, AllKnown

\* A step that touches neither files nor deletions.
LEMMA TableStep ==
    ASSUME IInv, TypeOK', UNCHANGED <<stored, queue, ids, entries, adding, proc, job>>,
           Recorded' = Recorded, \A f \in Recorded : row'[f].id = row[f].id,
           \A p \in Procs : \A v \in view'[p] : Known(v),
           clock <= clock',
           \A f \in Recorded : row'[f].retention = row[f].retention \/ "assign" \in Overlap \/ ~Busy(f)
    PROVE  IInv' /\ ("assign" \notin Overlap /\ TimerSpares => TimerSpares')
<1>1. /\ \A d \in Item : OnRecord(d)' => OnRecord(d)
      /\ \A d \in Item : Decided(d)' => Decided(d)
  BY DEF OnRecord, Decided
<1>2. \A p \in Procs, t \in Threads : \A e \in job'[p][t].todo : Known(e)
  BY LinesKnown
<1>3. \A p \in Procs, t \in Threads : \A e \in job'[p][t].cur :
        job'[p][t].pc = "dequeue" => e.file \notin Recorded'
  BY DEF IInv, Announced
<1>4. /\ queue' \subseteq queue /\ \A e \in queue \ queue' : e.file \notin Recorded'
      /\ stored' \subseteq stored /\ \A f \in stored \ stored' : \E e \in Item : OnRecord(e) /\ e.file = f
      /\ \A p \in Procs : adding'[p] \subseteq adding[p]
      /\ Recorded' \subseteq Recorded /\ \A f \in Recorded' : row'[f].id = row[f].id
  OBVIOUS
<1>5. IInv'
  BY <1>1, <1>2, <1>3, <1>4, QuietStep
<1>6. ASSUME "assign" \notin Overlap, TimerSpares PROVE TimerSpares'
  BY <1>1, <1>6, DecidedBusy, TimerStays DEF IInv
<1> QED BY <1>5, <1>6

LEMMA RowsKept ==
    ASSUME TypeOK,
           \A f \in Files : \/ row'[f] = row[f]
                            \/ f \in Recorded /\ row'[f] \in Row /\ row'[f].id = row[f].id
    PROVE  Recorded' = Recorded /\ \A f \in Recorded : row'[f].id = row[f].id
BY DEF Recorded

\* The job of p's thread t turns to what its list or the table of files told it.
Turns(p, t, j) ==
    /\ j \in Jobs
    /\ job' = [job EXCEPT ![p][t] = j]
    /\ UNCHANGED <<clock, row, stored, queue, ids, entries, adding>>
    /\ \A q \in Procs : proc'[q] = "start" => proc[q] = "start" \/ (q = p /\ t = "gui")
    /\ \A q \in Procs : \A v \in view'[q] : v \in view[q]
    /\ \A d \in j.todo : Known(d) /\ (t = "gui" /\ proc'[p] = "start" => OnRecord(d))
    /\ \A d \in j.cur :
        \/ OnRecord(d)
        \/ /\ j.pc = "enqueue" /\ d.file \in Recorded /\ row[d.file].id = d.id
           /\ d.action = "purge_file" \/ ~NeedsApproval(row[d.file])
    /\ j.pc # "dequeue"

LEMMA JobQuietStep ==
    ASSUME IInv, TypeOK', NEW p \in Procs, NEW t \in Threads, NEW j, Turns(p, t, j)
    PROVE  IInv' /\ (TimerSpares => TimerSpares')
<1> USE DEF Turns
<1>1. TypeOK
  BY DEF IInv
<1>2. /\ \A q \in Procs, u \in Threads : job'[q][u] = IF q = p /\ u = t THEN j ELSE job[q][u]
      /\ \A d \in Item : OnRecord(d)' => OnRecord(d)
      /\ \A d \in Item : Decided(d)' =>
            \/ Decided(d)
            \/ /\ d.file \in Recorded /\ row[d.file].id = d.id
               /\ d.action = "purge_file" \/ ~NeedsApproval(row[d.file])
  <2>1. queue' \subseteq queue
    OBVIOUS
  <2>2. /\ \A q \in Procs, u \in Threads : job'[q][u] = IF q = p /\ u = t THEN j ELSE job[q][u]
        /\ \A d \in Item : OnRecord(d)' =>
                \/ OnRecord(d)
                \/ d \in j.cur /\ j.pc \in {"shred", "delete", "dequeue"}
                \/ d \in j.todo /\ t = "gui" /\ proc'[p] = "start"
        /\ \A d \in Item : Decided(d)' =>
                \/ Decided(d)
                \/ d \in j.cur
                \/ d \in j.todo /\ t = "gui" /\ proc'[p] = "start"
    BY <1>1, <2>1, JobChange
  <2>3. \A d \in Item : OnRecord(d) => Decided(d)
    BY DEF Decided
  <2> QED BY <2>2, <2>3
<1>3. \A q \in Procs, u \in Threads : \A e \in job'[q][u].todo : Known(e)
  BY <1>2, LinesKnown
<1>4. \A q \in Procs, u \in Threads : \A e \in job'[q][u].cur :
        job'[q][u].pc = "dequeue" => e.file \notin Recorded'
  BY <1>2 DEF IInv, Announced, Recorded
<1>5. Recorded' = Recorded
  BY DEF Recorded
<1>6. \A q \in Procs : \A v \in view'[q] : Known(v)
  BY LinesKnown
<1>7. /\ queue' \subseteq queue /\ \A e \in queue \ queue' : e.file \notin Recorded'
      /\ stored' \subseteq stored /\ \A f \in stored \ stored' : \E e \in Item : OnRecord(e) /\ e.file = f
      /\ \A q \in Procs : adding'[q] \subseteq adding[q]
      /\ \A f \in Recorded' : row'[f].id = row[f].id
  BY <1>5
<1>8. IInv'
  BY <1>2, <1>3, <1>4, <1>5, <1>6, <1>7, QuietStep
<1>9. ASSUME TimerSpares PROVE TimerSpares'
  <2>1. clock <= clock'
    BY <1>1 DEF TypeOK
  <2>2. \A d \in Item : d.action = "purge_expired_file" => d.action # "purge_file"
    OBVIOUS
  <2> QED BY <1>1, <1>2, <1>5, <1>9, <2>1, <2>2, TimerStays
<1> QED BY <1>8, <1>9

\* Time, the user's work on the table, and the sweep job.
LEMMA TableSteps ==
    ASSUME IInv, TypeOK',
           \/ Tick
           \/ \E p \in Procs :
                \/ \E label \in Labels : LoadLabel(p, label)
                \/ \E found \in SUBSET Recorded : Search(p, found)
                \/ \E v \in view[p] : MoveLabel(p, v, "Genel") \/ MoveLabel(p, v, "Imha") \/ MoveToKritik(p, v)
                \/ \E f \in Files, approved \in BOOLEAN : MoveToImha(p, f, approved)
                \/ \E f \in Files, t \in Terms : AssignProfile(p, f, Term(t))
                \/ SweepSelect(p) \/ SweepCheck(p) \/ SweepMove(p)
    PROVE  IInv' /\ ("assign" \notin Overlap /\ TimerSpares => TimerSpares')
<1> USE LinesKnown
<1> DEFINE Goal == IInv' /\ ("assign" \notin Overlap /\ TimerSpares => TimerSpares')
<1>1. TypeOK /\ clock <= clock /\ Recorded \subseteq Files /\ \A f \in Recorded : row[f] \in Row
  BY RecordedRows DEF IInv, TypeOK
<1>2. ASSUME UNCHANGED row PROVE Recorded' = Recorded
  BY <1>2 DEF Recorded
<1>3. ASSUME UNCHANGED <<clock, stored, queue, ids, entries, adding, proc, job>>,
             \A p \in Procs : \A v \in view'[p] : Known(v),
             \A f \in Files : \/ row'[f] = row[f]
                              \/ /\ f \in Recorded /\ row'[f] \in Row /\ row'[f].id = row[f].id
                                 /\ \/ row'[f].retention = row[f].retention
                                    \/ "assign" \in Overlap \/ ~Busy(f)
      PROVE  Goal
  <2>1. Recorded' = Recorded /\ \A f \in Recorded : row'[f].id = row[f].id
    <3>1. \A f \in Files : \/ row'[f] = row[f]
                           \/ f \in Recorded /\ row'[f] \in Row /\ row'[f].id = row[f].id
      BY <1>3
    <3> HIDE <1>3
    <3> QED BY <1>1, <3>1, RowsKept
  <2>2. clock <= clock'
    BY <1>1, <1>3
  <2>3. \A f \in Recorded : row'[f].retention = row[f].retention \/ "assign" \in Overlap \/ ~Busy(f)
    BY <1>1, <1>3
  <2> QED BY <1>3, <2>1, <2>2, <2>3, TableStep
<1>4. CASE Tick
  <2>1. clock <= clock'
    BY <1>4 DEF Tick, IInv, TypeOK
  <2>2. UNCHANGED <<row, stored, queue, ids, entries, adding, proc, view, job>>
    BY <1>4 DEF Tick
  <2>3. Recorded' = Recorded
    BY <1>2, <2>2
  <2> QED BY <2>1, <2>2, <2>3, TableStep
<1>5. ASSUME NEW p \in Procs, NEW label \in Labels, LoadLabel(p, label) PROVE Goal
  <2>1. \A q \in Procs : \A v \in view'[q] : Known(v)
    BY <1>5 DEF LoadLabel, IInv, TypeOK
  <2> QED BY <1>3, <1>5, <2>1 DEF LoadLabel
<1>6. ASSUME NEW p \in Procs, NEW found \in SUBSET Recorded, Search(p, found) PROVE Goal
  <2>1. \A q \in Procs : \A v \in view'[q] : Known(v)
    BY <1>6 DEF Search, IInv, TypeOK
  <2> QED BY <1>3, <1>6, <2>1 DEF Search
<1>7. ASSUME NEW p \in Procs, NEW v \in view[p], NEW label \in Labels,
             SetLabel(v.id, label), view' = [view EXCEPT ![p] = @ \ {v}],
             UNCHANGED <<clock, stored, queue, ids, entries, adding, proc, tab, job, sweep>>
      PROVE  Goal
  <2>1. \A q \in Procs : \A w \in view'[q] : Known(w)
    BY <1>7 DEF IInv, TypeOK
  <2>2. \A r \in Row : LET s == [r EXCEPT !.label = label] IN
            s \in Row /\ s.id = r.id /\ s.retention = r.retention
    BY DEF Row
  <2>3. \A f \in Files : \/ row'[f] = row[f]
                         \/ /\ f \in Recorded /\ row'[f] \in Row /\ row'[f].id = row[f].id
                            /\ row'[f].retention = row[f].retention
    BY <1>1, <1>7, <2>2 DEF SetLabel
  <2> QED BY <1>3, <1>7, <2>1, <2>3
<1>8. ASSUME NEW p \in Procs, NEW v \in view[p],
             MoveLabel(p, v, "Genel") \/ MoveLabel(p, v, "Imha") \/ MoveToKritik(p, v)
      PROVE  Goal
  <2>1. CASE MoveLabel(p, v, "Genel")
    BY <1>7, <2>1 DEF MoveLabel, Labels
  <2>2. CASE MoveLabel(p, v, "Imha")
    BY <1>7, <2>2 DEF MoveLabel, Labels
  <2>3. CASE MoveToKritik(p, v)
    BY <1>7, <2>3 DEF MoveToKritik, Labels
  <2> QED BY <1>8, <2>1, <2>2, <2>3
<1>9. ASSUME NEW p \in Procs, NEW f \in Files, NEW a \in BOOLEAN, MoveToImha(p, f, a) PROVE Goal
  <2>1. \A q \in Procs : \A v \in view'[q] : Known(v)
    <3>1. view' = [view EXCEPT ![p] = {v \in view[p] : v.id # row[f].id}] /\ view \in [Procs -> SUBSET Shown]
      BY <1>9 DEF MoveToImha, IInv, TypeOK
    <3>2. \A q \in Procs : view'[q] = IF q = p THEN {v \in view[p] : v.id # row[f].id} ELSE view[q]
      BY <3>1
    <3>3. \A q \in Procs : \A v \in view'[q] : v \in view[q]
      BY <3>2
    <3> QED BY <3>3
  <2>2. \A r \in Row : LET s == [r EXCEPT !.label = "Imha", !.timer = clock + 1] IN
            s.id = r.id /\ s.retention = r.retention
    BY DEF Row
  <2>3. f \in Recorded /\ row' = [row EXCEPT ![f] = [@ EXCEPT !.label = "Imha", !.timer = clock + 1]]
    BY <1>9 DEF MoveToImha
  <2>4. clock + 1 \in Times
    BY <1>1 DEF TypeOK, Times
  <2>5. \A r \in Row : [r EXCEPT !.label = "Imha", !.timer = clock + 1] \in Row
    BY <2>4 DEF Row, Labels
  <2>6. \A g \in Files : \/ row'[g] = row[g]
                         \/ /\ g \in Recorded /\ row'[g] \in Row /\ row'[g].id = row[g].id
                            /\ row'[g].retention = row[g].retention
    <3>1. \A g \in Files : row'[g] = IF g = f THEN [row[f] EXCEPT !.label = "Imha", !.timer = clock + 1]
                                          ELSE row[g]
      BY <1>1, <2>3 DEF TypeOK
    <3> DEFINE new == [row[f] EXCEPT !.label = "Imha", !.timer = clock + 1]
    <3>2. f \in Recorded /\ new \in Row /\ new.id = row[f].id /\ new.retention = row[f].retention
      BY <1>1, <2>2, <2>3, <2>5
    <3> HIDE DEF new
    <3>3. \A g \in Files : row'[g] = IF g = f THEN new ELSE row[g]
      BY <3>1 DEF new
    <3> QED BY <3>2, <3>3
  <2> QED BY <1>3, <1>9, <2>1, <2>6 DEF MoveToImha
<1>10. ASSUME NEW p \in Procs, NEW f \in Files, NEW t \in Terms, AssignProfile(p, f, Term(t)) PROVE Goal
  <2>1. Term(t) \in Times \cup {NoProfile, Undated, Unlimited}
    BY <1>1, TermType DEF TypeOK
  <2>2. f \in Recorded /\ row' = [row EXCEPT ![f].retention = Term(t)] /\ ("assign" \in Overlap \/ ~Busy(f))
    BY <1>10 DEF AssignProfile
  <2>3. \A r \in Row : LET s == [r EXCEPT !.retention = Term(t)] IN s \in Row /\ s.id = r.id
    BY <2>1 DEF Row
  <2>4. \A g \in Files : \/ row'[g] = row[g]
                         \/ /\ g \in Recorded /\ row'[g] \in Row /\ row'[g].id = row[g].id
                            /\ "assign" \in Overlap \/ ~Busy(g)
    BY <1>1, <2>2, <2>3 DEF TypeOK
  <2> QED BY <1>3, <1>10, <2>4 DEF AssignProfile
<1>11. ASSUME NEW p \in Procs, SweepSelect(p) \/ SweepCheck(p) PROVE Goal
  BY <1>3, <1>11 DEF SweepSelect, SweepCheck
<1>12. ASSUME NEW p \in Procs, SweepMove(p) PROVE Goal
  <2>1. \A r \in Row : LET s == [r EXCEPT !.label = "Imha", !.timer = NoTimer] IN
            s \in Row /\ s.id = r.id /\ s.retention = r.retention
    BY DEF Row, Labels
  <2>2. \A f \in Files : \/ row'[f] = row[f]
                         \/ /\ f \in Recorded /\ row'[f] \in Row /\ row'[f].id = row[f].id
                            /\ row'[f].retention = row[f].retention
    <3>1. \A f \in Files : row'[f] = row[f] \/
              (f \in Recorded /\ row'[f] = [row[f] EXCEPT !.label = "Imha", !.timer = NoTimer])
      BY <1>12 DEF SweepMove
    <3>2. ASSUME NEW f \in Recorded, row'[f] = [row[f] EXCEPT !.label = "Imha", !.timer = NoTimer]
          PROVE  row'[f] \in Row /\ row'[f].id = row[f].id /\ row'[f].retention = row[f].retention
      BY <1>1, <2>1, <3>2
    <3> QED BY <3>1, <3>2
  <2> QED BY <1>3, <1>12, <2>2 DEF SweepMove
<1> QED BY <1>4, <1>5, <1>6, <1>8, <1>9, <1>10, <1>11, <1>12

\* A job about to take the next of x.
Picking(x) == [pc |-> "pick", todo |-> x, cur |-> {}]

LEMMA PickingJob ==
    ASSUME NEW x \in SUBSET Item
    PROVE  Picking(x) \in Jobs /\ Picking(x).todo = x /\ Picking(x).cur = {} /\ Picking(x).pc # "dequeue"
BY DEF Picking, Jobs, Steps

LEMMA JobsTyped ==
    ASSUME IInv, NEW p \in Procs, NEW t \in Threads
    PROVE  /\ job[p][t] \in Jobs /\ WellFormed(job[p][t])
           /\ "pick" \in Steps /\ "enqueue" \in Steps /\ "shred" \in Steps /\ "delete" \in Steps
           /\ "dequeue" \in Steps
BY DEF IInv, TypeOK, WellFormed, Jobs, Steps

\* What the steps that start, continue or abandon a list of deletions keep.
LEMMA ListSteps ==
    ASSUME IInv, TypeOK', NEW p \in Procs,
           \/ \E f \in Files, approved \in BOOLEAN : PurgeFile(p, f, approved)
           \/ TickExpiry(p) \/ PurgeExpired(p) \/ Start(p) \/ Stop(p)
           \/ \E t \in Threads : Pick(p, t) \/ Finish(p, t) \/ StatementFails(p, t)
    PROVE  IInv' /\ (TimerSpares => TimerSpares')
<1> USE LinesKnown
<1> DEFINE Goal == IInv' /\ (TimerSpares => TimerSpares')
<1>1. /\ TypeOK /\ proc \in [Procs -> {"down", "start", "up"}]
      /\ view \in [Procs -> SUBSET Shown] /\ adding \in [Procs -> SUBSET Files]
      /\ "gui" \in Threads /\ "purge" \in Threads
  BY DEF IInv, TypeOK, Threads
<1>2. ASSUME NEW f \in Files, NEW a \in BOOLEAN, PurgeFile(p, f, a) PROVE Goal
  <2> DEFINE d == Deletion(row[f].id, f, "purge_file", 0)
             j == [pc |-> "enqueue", todo |-> {}, cur |-> {d}]
  <2>1. f \in Recorded /\ d \in Item /\ d.file = f /\ d.id = row[f].id /\ d.action = "purge_file"
    BY <1>1, <1>2, RecordedRows DEF PurgeFile, Deletion, Item, Row, TypeOK
  <2>2. job' = [job EXCEPT ![p]["gui"] = j] /\ UNCHANGED <<clock, row, stored, queue, ids, entries, adding, proc, view>>
    BY <1>2 DEF PurgeFile
  <2> HIDE DEF d
  <2>3. j \in Jobs /\ j.pc = "enqueue" /\ j.todo = {} /\ j.cur = {d}
    BY <2>1 DEF Jobs, Steps
  <2> HIDE DEF j
  <2>4. Turns(p, "gui", j)
    BY <2>1, <2>2, <2>3 DEF Turns
  <2> QED BY <1>1, <2>4, JobQuietStep
<1>3. CASE TickExpiry(p)
  <2> DEFINE x == {Deletion(v.id, v.file, "purge_expired_file", 0) :
                        v \in {w \in view[p] : Due(w.timer)}}
  <2>1. \A v \in Shown : LET d == Deletion(v.id, v.file, "purge_expired_file", 0) IN
            d \in Item /\ d.id = v.id /\ d.file = v.file
    BY <1>1 DEF Shown, Deletion, Item, TypeOK
  <2>2. x \in SUBSET Item
    BY <1>1, <2>1
  <2>3. \A d \in x : Known(d)
    BY <1>1, <2>1 DEF Known
  <2>4. job' = [job EXCEPT ![p]["gui"] = Picking(x)]
    BY <1>3 DEF TickExpiry, Picking
  <2>5. /\ proc[p] = "up"
        /\ UNCHANGED <<clock, row, stored, queue, ids, entries, adding, proc>>
        /\ \A q \in Procs : \A v \in view'[q] : v \in view[q]
    BY <1>1, <1>3 DEF TickExpiry, AtRest
  <2> HIDE DEF x
  <2>6. Turns(p, "gui", Picking(x))
    BY <2>2, <2>3, <2>4, <2>5, PickingJob DEF Turns
  <2> QED BY <1>1, <2>6, JobQuietStep
<1>4. CASE PurgeExpired(p)
  <2> DEFINE x == {Deletion(row[f].id, f, "purge_expired_file", 0) : f \in Expired}
  <2>1. \A f \in Recorded : LET d == Deletion(row[f].id, f, "purge_expired_file", 0) IN
            d \in Item /\ d.id = row[f].id /\ d.file = f
    BY <1>1, RecordedRows DEF Row, Deletion, Item, TypeOK
  <2>2. x \in SUBSET Item
    BY <2>1 DEF Expired
  <2>3. \A d \in x : Known(d)
    BY <2>1, RowKnown DEF Expired
  <2>4. /\ job' = [job EXCEPT ![p]["purge"] = Picking(x)]
        /\ UNCHANGED <<clock, row, stored, queue, ids, entries, adding, proc, view>>
    BY <1>4 DEF PurgeExpired, Picking
  <2> HIDE DEF x
  <2>5. Turns(p, "purge", Picking(x))
    BY <2>2, <2>3, <2>4, PickingJob DEF Turns
  <2> QED BY <1>1, <2>5, JobQuietStep
<1>5. CASE Start(p)
  <2>1. /\ job' = [job EXCEPT ![p]["gui"] = Picking(queue)]
        /\ proc' = [proc EXCEPT ![p] = "start"]
        /\ UNCHANGED <<clock, row, stored, queue, ids, entries, adding, view>>
    BY <1>5 DEF Start, Picking
  <2>2. \A q \in Procs : proc'[q] = "start" => proc[q] = "start" \/ q = p
    BY <1>1, <2>1
  <2>3. queue \in SUBSET Item /\ \A d \in queue : Known(d) /\ OnRecord(d)
    BY DecidedTyped DEF IInv, AllKnown
  <2>4. Turns(p, "gui", Picking(queue))
    BY <2>1, <2>2, <2>3, PickingJob DEF Turns
  <2> QED BY <1>1, <2>4, JobQuietStep
<1>6. CASE Stop(p)
  <2>1. /\ job' = [job EXCEPT ![p] = [t \in Threads |-> Idle]]
        /\ proc' = [proc EXCEPT ![p] = "down"]
        /\ view' = [view EXCEPT ![p] = {}] /\ adding' = [adding EXCEPT ![p] = {}]
        /\ UNCHANGED <<clock, row, stored, queue, ids, entries>>
    BY <1>6 DEF Stop
  <2>2. \A q \in Procs, t \in Threads : job'[q][t] = IF q = p THEN Idle ELSE job[q][t]
    BY <1>1, <2>1 DEF TypeOK
  <2>3. \A q \in Procs : proc'[q] = "start" => q # p /\ proc[q] = "start"
    BY <1>1, <2>1
  <2>4. \A d \in Item : OnRecord(d)' => OnRecord(d)
    BY <1>1, <2>1, <2>2, <2>3 DEF OnRecord, Idle
  <2>5. \A d \in Item : Decided(d)' => Decided(d)
    BY <2>2, <2>4 DEF Decided, Idle
  <2>6. Recorded' = Recorded
    BY <2>1 DEF Recorded
  <2>7. \A q \in Procs : view'[q] \subseteq view[q] /\ adding'[q] \subseteq adding[q]
    BY <1>1, <2>1
  <2>8. \A q \in Procs, t \in Threads : \A e \in job'[q][t].todo : Known(e)
    BY <2>2 DEF Idle
  <2>9. \A q \in Procs, t \in Threads : \A e \in job'[q][t].cur :
            job'[q][t].pc = "dequeue" => e.file \notin Recorded'
    BY <2>2, <2>6 DEF Idle, IInv, Announced
  <2>10. \A q \in Procs : \A v \in view'[q] : Known(v)
    BY <2>7
  <2>11. IInv'
    BY <2>1, <2>4, <2>5, <2>6, <2>7, <2>8, <2>9, <2>10, QuietStep
  <2>12. ASSUME TimerSpares PROVE TimerSpares'
    <3>1. clock <= clock'
      BY <1>1, <2>1 DEF TypeOK
    <3> QED BY <1>1, <2>1, <2>5, <2>6, <2>12, <3>1, TimerStays
  <2> QED BY <2>11, <2>12
<1>7. ASSUME NEW t \in Threads, Finish(p, t) PROVE Goal
  <2>1. job' = [job EXCEPT ![p][t] = Idle] /\ proc' = [proc EXCEPT ![p] = "up"]
        /\ UNCHANGED <<clock, row, stored, queue, ids, entries, adding, view>>
    BY <1>7 DEF Finish
  <2>2. \A q \in Procs : proc'[q] = "start" => proc[q] = "start"
    BY <1>1, <2>1
  <2>3. Idle \in Jobs /\ Idle.todo = {} /\ Idle.cur = {} /\ Idle.pc # "dequeue"
    BY DEF Idle, Jobs, Steps
  <2>4. Turns(p, t, Idle)
    BY <2>1, <2>2, <2>3 DEF Turns
  <2> QED BY <2>4, JobQuietStep
<1>8. ASSUME NEW t \in Threads, StatementFails(p, t) PROVE Goal
  <2> DEFINE x == IF t = "purge" THEN {} ELSE job[p][t].todo
  <2>1. /\ job' = [job EXCEPT ![p][t] = Picking(x)]
        /\ UNCHANGED <<clock, row, stored, queue, ids, entries, adding, proc, view>>
    BY <1>1, <1>8, JobsTyped DEF StatementFails, Picking, TypeOK
  <2>2. x \in SUBSET Item
    BY JobsTyped DEF Jobs
  <2>3. \A d \in x : Known(d) /\ (t = "gui" /\ proc'[p] = "start" => OnRecord(d))
    BY <2>1, <2>2 DEF OnRecord
  <2> HIDE DEF x
  <2>4. Turns(p, t, Picking(x))
    BY <2>1, <2>2, <2>3, PickingJob DEF Turns
  <2> QED BY <2>4, JobQuietStep
<1>9. ASSUME NEW t \in Threads, Pick(p, t) PROVE Goal
  <2> DEFINE rest(e) == job[p][t].todo \ {e}
  <2>1. PICK e \in job[p][t].todo :
            job' = [job EXCEPT ![p][t] =
            [pc |-> IF Resuming(p, t) THEN "shred" ELSE IF Protected(e.id) THEN "pick" ELSE "enqueue",
             todo |-> rest(e),
             cur |-> IF ~Resuming(p, t) /\ Protected(e.id) THEN {} ELSE {e}]]
    BY <1>9, JobsTyped DEF Pick, IInv, TypeOK
  <2>2. UNCHANGED <<clock, row, stored, queue, ids, entries, adding, proc, view>>
    BY <1>9 DEF Pick
  <2>3. e \in Item /\ rest(e) \in SUBSET Item /\ Known(e) /\ \A d \in rest(e) : Known(d)
    BY DecidedTyped
  <2>4. t = "gui" /\ proc[p] = "start" => OnRecord(e) /\ \A d \in rest(e) : OnRecord(d)
    BY <2>3 DEF OnRecord
  <2> DEFINE j == [pc |-> IF Resuming(p, t) THEN "shred" ELSE IF Protected(e.id) THEN "pick" ELSE "enqueue",
                   todo |-> rest(e),
                   cur |-> IF ~Resuming(p, t) /\ Protected(e.id) THEN {} ELSE {e}]
  <2>5. job' = [job EXCEPT ![p][t] = j]
    BY <2>1
  <2> HIDE DEF rest
  <2>6. j \in Jobs /\ j.todo = rest(e) /\ j.pc # "dequeue"
    BY <2>3 DEF Jobs, Steps
  <2>7. \A d \in j.cur :
            \/ OnRecord(d)
            \/ /\ j.pc = "enqueue" /\ d.file \in Recorded /\ row[d.file].id = d.id
               /\ d.action = "purge_file" \/ ~NeedsApproval(row[d.file])
    <3>1. CASE Resuming(p, t)
      BY <2>4, <3>1 DEF Resuming
    <3>2. CASE ~Resuming(p, t) /\ Protected(e.id)
      BY <3>2
    <3>3. CASE ~Resuming(p, t) /\ ~Protected(e.id)
      <4>1. e.file \in Recorded /\ row[e.file].id = e.id /\ ~NeedsApproval(row[e.file])
        BY <2>3, <3>3 DEF Protected, Known
      <4> QED BY <3>3, <4>1
    <3> QED BY <3>1, <3>2, <3>3
  <2>8. \A d \in j.todo : Known(d) /\ (t = "gui" /\ proc'[p] = "start" => OnRecord(d))
    BY <2>2, <2>3, <2>4, <2>6
  <2> HIDE DEF j
  <2>9. Turns(p, t, j)
    BY <2>2, <2>5, <2>6, <2>7, <2>8 DEF Turns
  <2> QED BY <2>9, JobQuietStep
<1> QED BY <1>2, <1>3, <1>4, <1>5, <1>6, <1>7, <1>8, <1>9

\* A deletion that advances has been announced before and stays so.
LEMMA JobAdvances ==
    ASSUME IInv, NEW p \in Procs, NEW t \in Threads, NEW j \in Jobs,
           job' = [job EXCEPT ![p][t] = j], queue' \subseteq queue, UNCHANGED proc,
           job[p][t].pc \in {"shred", "delete", "dequeue"},
           j.todo = job[p][t].todo, j.cur \subseteq job[p][t].cur
    PROVE  /\ \A q \in Procs, u \in Threads : job'[q][u] = IF q = p /\ u = t THEN j ELSE job[q][u]
           /\ \A d \in Item : OnRecord(d)' => OnRecord(d)
           /\ \A d \in Item : Decided(d)' => Decided(d)
           /\ \A q \in Procs, u \in Threads : \A e \in job'[q][u].todo : Known(e)
           /\ \A e \in job[p][t].cur : e \in Item /\ OnRecord(e)
<1>1. TypeOK
  BY DEF IInv
<1>2. /\ \A q \in Procs, u \in Threads : job'[q][u] = IF q = p /\ u = t THEN j ELSE job[q][u]
      /\ \A d \in Item : OnRecord(d)' =>
                \/ OnRecord(d)
                \/ d \in j.cur /\ j.pc \in {"shred", "delete", "dequeue"}
                \/ d \in j.todo /\ t = "gui" /\ proc'[p] = "start"
      /\ \A d \in Item : Decided(d)' =>
                \/ Decided(d)
                \/ d \in j.cur
                \/ d \in j.todo /\ t = "gui" /\ proc'[p] = "start"
  BY <1>1, JobChange
<1>3. \A e \in job[p][t].cur : e \in Item /\ OnRecord(e)
  BY DecidedTyped DEF OnRecord
<1>4. \A d \in Item : d \in j.todo /\ t = "gui" /\ proc'[p] = "start" => OnRecord(d)
  BY DEF OnRecord
<1>5. \A d \in Item : OnRecord(d) => Decided(d)
  BY DecidedTyped
<1>6. \A q \in Procs, u \in Threads : \A e \in job'[q][u].todo : Known(e)
  BY <1>2, LinesKnown
<1> QED BY <1>2, <1>3, <1>4, <1>5, <1>6

\* Shredding, deleting the row and taking the entry off, in this order.
LEMMA WorkSteps ==
    ASSUME IInv, TypeOK', NEW p \in Procs, NEW t \in Threads,
           Shred(p, t) \/ DeleteRow(p, t) \/ Dequeue(p, t)
    PROVE  IInv' /\ (TimerSpares => TimerSpares')
<1> DEFINE Goal == IInv' /\ (TimerSpares => TimerSpares')
           r == job[p][t]
<1>1. TypeOK /\ r \in Jobs /\ WellFormed(r)
  BY JobsTyped DEF IInv
<1>2. \A q \in Procs : \A v \in view[q] : Known(v)
  BY LinesKnown
<1>3. ASSUME UNCHANGED <<clock, row>>, \A d \in Item : Decided(d)' => Decided(d), TimerSpares
      PROVE  TimerSpares'
  <2>1. clock <= clock' /\ Recorded' = Recorded
    BY <1>1, <1>3 DEF TypeOK, Recorded
  <2> QED BY <1>1, <1>3, <2>1, TimerStays
<1>4. CASE Shred(p, t)
  <2> DEFINE j == [r EXCEPT !.pc = "delete"]
  <2>1. /\ r.pc = "shred" /\ job' = [job EXCEPT ![p][t] = j]
        /\ UNCHANGED <<clock, row, queue, ids, entries, adding, proc, view>>
    BY <1>4 DEF Shred, At
  <2>2. stored' \subseteq stored /\ \A f \in stored \ stored' : \E e \in r.cur : e.file = f
    BY <1>4 DEF Shred
  <2>3. j \in Jobs /\ j.pc = "delete" /\ j.todo = r.todo /\ j.cur = r.cur
    BY <1>1 DEF Jobs, Steps
  <2> HIDE DEF j
  <2>4. /\ \A q \in Procs, u \in Threads : job'[q][u] = IF q = p /\ u = t THEN j ELSE job[q][u]
        /\ \A d \in Item : OnRecord(d)' => OnRecord(d)
        /\ \A d \in Item : Decided(d)' => Decided(d)
        /\ \A q \in Procs, u \in Threads : \A e \in job'[q][u].todo : Known(e)
        /\ \A e \in r.cur : e \in Item /\ OnRecord(e)
    BY <2>1, <2>3, JobAdvances
  <2>5. \A f \in stored \ stored' : \E e \in Item : OnRecord(e) /\ e.file = f
    BY <2>2, <2>4
  <2>6. Recorded' = Recorded
    BY <2>1 DEF Recorded
  <2>7. \A q \in Procs, u \in Threads : \A e \in job'[q][u].cur :
            job'[q][u].pc = "dequeue" => e.file \notin Recorded'
    BY <2>3, <2>4, <2>6 DEF IInv, Announced
  <2>8. IInv'
    BY <1>2, <2>1, <2>2, <2>4, <2>5, <2>6, <2>7, QuietStep
  <2> QED BY <1>3, <2>1, <2>4, <2>8
<1>5. CASE DeleteRow(p, t)
  <2> DEFINE j == [r EXCEPT !.pc = "dequeue"]
  <2>1. /\ r.pc = "delete" /\ job' = [job EXCEPT ![p][t] = j]
        /\ UNCHANGED <<clock, stored, queue, ids, entries, adding, proc, view>>
    BY <1>5 DEF DeleteRow, At
  <2>2. \A f \in Files : row'[f] = IF f \in Recorded /\ \E e \in r.cur : e.id = row[f].id
                               THEN NoRow ELSE row[f]
    BY <1>5 DEF DeleteRow
  <2>3. j \in Jobs /\ j.pc = "dequeue" /\ j.todo = r.todo /\ j.cur = r.cur
    BY <1>1 DEF Jobs, Steps
  <2> HIDE DEF j
  <2>4. /\ \A q \in Procs, u \in Threads : job'[q][u] = IF q = p /\ u = t THEN j ELSE job[q][u]
        /\ \A d \in Item : OnRecord(d)' => OnRecord(d)
        /\ \A d \in Item : Decided(d)' => Decided(d)
        /\ \A q \in Procs, u \in Threads : \A e \in job'[q][u].todo : Known(e)
        /\ \A e \in r.cur : e \in Item /\ OnRecord(e)
    BY <2>1, <2>3, JobAdvances
  <2>5. Recorded' \subseteq Recorded /\ \A f \in Recorded' : row'[f] = row[f]
    BY <2>2 DEF Recorded
  <2>6. \A e \in r.cur : e.file \notin Recorded'
    <3>1. \A e \in r.cur : e.file \in Recorded => row[e.file].id = e.id
      BY <2>4, DecidedTyped DEF IInv, PlaceKept
    <3> QED BY <2>2, <2>5, <3>1 DEF Recorded
  <2>7. \A q \in Procs, u \in Threads : \A e \in job'[q][u].cur :
            job'[q][u].pc = "dequeue" => e.file \notin Recorded'
    BY <2>3, <2>4, <2>5, <2>6 DEF IInv, Announced
  <2>8. IInv'
    BY <1>2, <2>1, <2>4, <2>5, <2>7, QuietStep
  <2>9. ASSUME TimerSpares PROVE TimerSpares'
    <3>1. clock <= clock'
      BY <1>1, <2>1 DEF TypeOK
    <3> QED BY <1>1, <2>4, <2>5, <2>9, <3>1, TimerStays
  <2> QED BY <2>8, <2>9
<1>6. CASE Dequeue(p, t)
  <2> DEFINE j == [r EXCEPT !.pc = "pick", !.cur = {}]
  <2>1. /\ r.pc = "dequeue" /\ job' = [job EXCEPT ![p][t] = j]
        /\ queue' = {q \in queue : \A e \in r.cur : q.entry # e.entry}
        /\ UNCHANGED <<clock, row, stored, ids, entries, adding, proc, view>>
    BY <1>6 DEF Dequeue, At
  <2>2. j \in Jobs /\ j.pc = "pick" /\ j.todo = r.todo /\ j.cur = {}
    BY <1>1 DEF Jobs, Steps
  <2> HIDE DEF j
  <2>3. queue' \subseteq queue
    BY <2>1
  <2>4. /\ \A q \in Procs, u \in Threads : job'[q][u] = IF q = p /\ u = t THEN j ELSE job[q][u]
        /\ \A d \in Item : OnRecord(d)' => OnRecord(d)
        /\ \A d \in Item : Decided(d)' => Decided(d)
        /\ \A q \in Procs, u \in Threads : \A e \in job'[q][u].todo : Known(e)
        /\ \A e \in r.cur : e \in Item /\ OnRecord(e)
    BY <2>1, <2>2, <2>3, JobAdvances
  <2>5. Recorded' = Recorded
    BY <2>1 DEF Recorded
  <2>6. \A e \in queue \ queue' : e.file \notin Recorded'
    <3> SUFFICES ASSUME NEW e \in queue \ queue' PROVE e.file \notin Recorded
      BY <2>5
    <3>1. PICK d \in r.cur : e.entry = d.entry
      BY <2>1
    <3>2. e = d
      BY <2>4, <3>1, DecidedTyped DEF IInv, EntriesDiffer
    <3>3. d.file \notin Recorded
      BY <2>1, <3>1 DEF IInv, Announced
    <3> QED BY <3>2, <3>3
  <2>7. \A q \in Procs, u \in Threads : \A e \in job'[q][u].cur :
            job'[q][u].pc = "dequeue" => e.file \notin Recorded'
    BY <2>2, <2>4, <2>5 DEF IInv, Announced
  <2>8. IInv'
    BY <1>2, <2>1, <2>3, <2>4, <2>5, <2>6, <2>7, QuietStep
  <2> QED BY <1>3, <2>1, <2>4, <2>8
<1> QED BY <1>4, <1>5, <1>6

\* A document that comes in; its path is free while its row is written.
LEMMA AddSteps ==
    ASSUME IInv, TypeOK', "add" \notin Overlap, NEW p \in Procs, NEW f \in Files,
           AddEncrypt(p, f) \/ AddRecord(p, f)
    PROVE  IInv' /\ (TimerSpares => TimerSpares')
<1>1. TypeOK /\ Recorded \subseteq Files /\ ids \in Nat /\ \A g \in Recorded : row[g].id \in Nat
  BY RecordedRows DEF IInv, TypeOK, Row
<1>2. UNCHANGED <<queue, proc, job>>
  BY DEF AddEncrypt, AddRecord
<1>3. /\ \A d \in Item : OnRecord(d)' <=> OnRecord(d)
      /\ \A d \in Item : Decided(d)' <=> Decided(d)
  BY <1>2 DEF OnRecord, Decided
<1>4. UNCHANGED <<clock, entries>> /\ clock <= clock'
  BY <1>1 DEF AddEncrypt, AddRecord, TypeOK
<1>5. EntriesDiffer'
  BY <1>3, <1>4 DEF IInv, EntriesDiffer
<1>6. CASE AddEncrypt(p, f)
  <2>1. /\ f \notin Recorded /\ ~Busy(f) /\ \A q \in Procs : f \notin adding[q]
        /\ stored' = stored \cup {f} /\ adding' = [adding EXCEPT ![p] = @ \cup {f}]
        /\ UNCHANGED <<row, ids, view>>
    BY <1>6 DEF AddEncrypt
  <2>2. Recorded' = Recorded
    BY <2>1 DEF Recorded
  <2>3. RowIds'
    BY <2>1, <2>2 DEF IInv, RowIds
  <2>4. \A e : Known(e)' <=> Known(e)
    BY <2>1, <2>2 DEF Known
  <2>5. AllKnown'
    BY <1>2, <1>3, <2>1, <2>4 DEF IInv, AllKnown
  <2>6. PlaceKept'
    BY <1>3, <2>1, <2>2 DEF IInv, PlaceKept
  <2>7. Announced'
    BY <1>2, <1>3, <2>2 DEF IInv, Announced
  <2>8. \A e \in Item : Decided(e) => e.file # f
    BY <2>1, DecidedBusy
  <2>9. AddingNew'
    <3>1. \A q \in Procs : adding'[q] = IF q = p THEN adding[p] \cup {f} ELSE adding[q]
      BY <1>1, <2>1 DEF TypeOK
    <3> QED BY <1>3, <2>1, <2>2, <2>8, <3>1 DEF IInv, AddingNew
  <2>10. HalfDoneIsQueued'
    BY <1>2, <2>1, <2>2 DEF IInv, HalfDoneIsQueued
  <2>11. IInv'
    BY <1>5, <2>3, <2>5, <2>6, <2>7, <2>9, <2>10 DEF IInv
  <2>12. TimerSpares => TimerSpares'
    BY <1>1, <1>3, <1>4, <2>1, <2>2, TimerStays
  <2> QED BY <2>11, <2>12
<1>7. CASE AddRecord(p, f)
  <2>1. /\ f \in stored /\ f \notin Recorded
        /\ \A e \in Item : Decided(e) => e.file # f
        /\ \A q \in Procs : f \in adding[q] => q = p
    BY <1>7 DEF AddRecord, IInv, AddingNew
  <2> DEFINE new == [id |-> ids + 1, label |-> "Karantina", timer |-> clock + 1, retention |-> NoProfile]
  <2>2. /\ row' = [row EXCEPT ![f] = new] /\ ids' = ids + 1
        /\ adding' = [adding EXCEPT ![p] = @ \ {f}]
        /\ view' = [view EXCEPT ![p] = @ \cup {Line(f)'}]
        /\ UNCHANGED stored
    BY <1>7, <2>1 DEF AddRecord
  <2>3. new.id = ids + 1 /\ ids + 1 <= MaxId
    BY <1>7, <2>1 DEF AddRecord
  <2>4. new \in Row
    BY <1>1, <2>3 DEF Row, Labels, Times, NoProfile, TypeOK
  <2> HIDE DEF new
  <2>5. /\ \A g \in Files : row'[g] = IF g = f THEN new ELSE row[g]
        /\ Recorded' = Recorded \cup {f}
    <3>1. \A g \in Files : row'[g] = IF g = f THEN new ELSE row[g]
      BY <1>1, <2>2 DEF TypeOK
    <3> QED BY <2>4, <3>1 DEF Recorded
  <2>6. RowIds'
    BY <1>1, <2>1, <2>2, <2>3, <2>5 DEF IInv, RowIds
  <2>7. \A e : Known(e) => Known(e)'
    BY <1>1, <2>2, <2>3, <2>5 DEF Known
  <2>8. PICK l : l = Line(f)' /\ l.id = ids + 1 /\ l.file = f
    <3>1. LET l == Line(f)' IN l.id = ids + 1 /\ l.file = f
      BY <2>3, <2>5 DEF Line
    <3> QED BY <3>1
  <2>9. Known(l)'
    BY <1>1, <2>2, <2>5, <2>8 DEF Known, IInv, RowIds
  <2>10. AllKnown'
    <3>1. \A q \in Procs : \A v \in view'[q] : Known(v)'
      <4>1. Known(l)' /\ view' = [view EXCEPT ![p] = @ \cup {l}]
        BY <2>2, <2>8, <2>9
      <4>2. \A q \in Procs : \A v \in view'[q] : v \in view[q] \/ v = l
        BY <1>1, <4>1 DEF TypeOK
      <4> QED BY <2>7, <4>1, <4>2, LinesKnown
    <3> QED BY <1>2, <1>3, <2>7, <3>1 DEF IInv, AllKnown
  <2>11. PlaceKept'
    BY <1>1, <1>3, <2>1, <2>5 DEF IInv, PlaceKept
  <2>12. Announced'
    <3>1. \A q \in Procs, u \in Threads : \A e \in job[q][u].cur : e.file # f
      BY <2>1, DecidedTyped
    <3>2. \A e \in Item : OnRecord(e) => e.file # f
      BY <2>1, DecidedTyped
    <3> QED BY <1>2, <1>3, <2>5, <3>1, <3>2 DEF IInv, Announced
  <2>13. AddingNew'
    <3>1. \A q \in Procs : adding'[q] \subseteq adding[q] /\ f \notin adding'[q]
      BY <1>1, <2>1, <2>2 DEF TypeOK
    <3> QED BY <1>3, <2>2, <2>5, <3>1 DEF IInv, AddingNew
  <2>14. HalfDoneIsQueued'
    BY <1>1, <1>2, <2>1, <2>2, <2>5 DEF IInv, HalfDoneIsQueued
  <2>15. IInv'
    BY <1>5, <2>6, <2>10, <2>11, <2>12, <2>13, <2>14 DEF IInv
  <2>16. TimerSpares => TimerSpares'
    BY <1>1, <1>3, <1>4, <2>1, <2>5, TimerStays
  <2> QED BY <2>15, <2>16
<1> QED BY <1>6, <1>7

\* The entry of a deletion is written, with a number of its own.
LEMMA EnqueueStep ==
    ASSUME IInv, TypeOK', NEW p \in Procs, NEW t \in Threads, Enqueue(p, t)
    PROVE  IInv' /\ (TimerSpares => TimerSpares')
<1> DEFINE r == job[p][t]
<1>1. TypeOK /\ r \in Jobs /\ entries \in Nat /\ clock <= clock /\ job \in [Procs -> [Threads -> Jobs]]
  BY JobsTyped DEF IInv, TypeOK, Jobs
<1>2. PICK e \in r.cur :
        /\ queue' = queue \cup {[e EXCEPT !.entry = entries']}
        /\ job' = [job EXCEPT ![p][t] = [@ EXCEPT !.pc = "shred", !.cur = {[e EXCEPT !.entry = entries']}]]
  BY DEF Enqueue
<1>3. entries' = entries + 1 /\ entries < MaxQueue
      /\ UNCHANGED <<clock, row, stored, ids, adding, proc, view>>
  BY DEF Enqueue
<1> DEFINE d == [e EXCEPT !.entry = entries']
           j == [r EXCEPT !.pc = "shred", !.cur = {d}]
<1>4. e \in Item /\ Decided(e)
  BY DecidedTyped
<1>5. d \in Item /\ d.id = e.id /\ d.file = e.file /\ d.action = e.action /\ d.entry = entries + 1
  BY <1>1, <1>3, <1>4 DEF Item
<1>6. queue' = queue \cup {d} /\ job' = [job EXCEPT ![p][t] = j]
  BY <1>2
<1> HIDE DEF d
<1>7. j \in Jobs /\ j.todo = r.todo /\ j.pc = "shred" /\ j.cur = {d}
  BY <1>1, <1>5 DEF Jobs, Steps
<1> HIDE DEF j
<1>8. \A q \in Procs, u \in Threads : job'[q][u] = IF q = p /\ u = t THEN j ELSE job[q][u]
  <2> HIDE DEF Jobs
  <2> QED BY <1>1, <1>6, <1>7
<1>9. \A x \in Item : OnRecord(x)' => OnRecord(x) \/ x = d
  BY <1>3, <1>6, <1>7, <1>8 DEF OnRecord
<1>10. \A x \in Item : Decided(x)' => Decided(x) \/ x = d
  BY <1>7, <1>8, <1>9 DEF Decided
<1>11. Recorded' = Recorded
  BY <1>3 DEF Recorded
<1>12. RowIds'
  BY <1>3, <1>11 DEF IInv, RowIds
<1>13. (\A x : Known(x)' <=> Known(x)) /\ (Known(d) <=> Known(e))
  BY <1>3, <1>5, <1>11 DEF Known
<1>14. AllKnown'
  <2>1. \A q \in Procs, u \in Threads : \A x \in job'[q][u].todo : Known(x)
    BY <1>7, <1>8, LinesKnown
  <2> QED BY <1>3, <1>4, <1>10, <1>13, <2>1 DEF IInv, AllKnown
<1>15. PlaceKept'
  BY <1>3, <1>4, <1>5, <1>10, <1>11 DEF IInv, PlaceKept
<1>16. EntriesDiffer'
  <2>1. \A x \in Item : OnRecord(x) => x.entry \in 1..entries
    BY DEF IInv, EntriesDiffer
  <2>2. \A x \in Item : OnRecord(x)' => x.entry \in 1..entries' /\ (x.entry = entries + 1 <=> x = d)
    BY <1>1, <1>3, <1>5, <1>9, <2>1
  <2> QED BY <1>5, <1>9, <2>2 DEF IInv, EntriesDiffer
<1>17. Announced'
  BY <1>6, <1>7, <1>8, <1>9, <1>11 DEF IInv, Announced
<1>18. AddingNew'
  BY <1>3, <1>4, <1>5, <1>10, <1>11 DEF IInv, AddingNew
<1>19. HalfDoneIsQueued'
  BY <1>3, <1>6, <1>11 DEF IInv, HalfDoneIsQueued
<1>20. IInv'
  BY <1>12, <1>14, <1>15, <1>16, <1>17, <1>18, <1>19 DEF IInv
<1>21. ASSUME TimerSpares PROVE TimerSpares'
  <2>1. d.action = "purge_expired_file" /\ d.file \in Recorded => ~NeedsApproval(row[d.file])
    BY <1>4, <1>5, <1>21 DEF TimerSpares
  <2>2. clock <= clock'
    BY <1>1, <1>3
  <2> QED BY <1>1, <1>3, <1>10, <1>11, <1>21, <2>1, <2>2, TimerStays
<1> QED BY <1>20, <1>21

LEMMA IInvStep ==
    ASSUME IInv, "add" \notin Overlap, [Next]_vars
    PROVE  IInv' /\ ("assign" \notin Overlap /\ TimerSpares => TimerSpares')
<1>1. TypeOK'
  BY TypeStep DEF IInv
<1>2. CASE UNCHANGED vars
  <2>1. Recorded' = Recorded
    BY <1>2 DEF vars, Recorded
  <2>2. clock <= clock'
    BY <1>2 DEF vars, IInv, TypeOK
  <2> QED BY <1>1, <1>2, <2>1, <2>2, LinesKnown, TableStep DEF vars
<1>3. ASSUME NEW p \in Procs, User(p)
      PROVE  IInv' /\ ("assign" \notin Overlap /\ TimerSpares => TimerSpares')
  BY <1>1, <1>3, AddSteps, TableSteps, ListSteps DEF User
<1>4. ASSUME NEW p \in Procs, NEW t \in Threads, Delete(p, t)
      PROVE  IInv' /\ ("assign" \notin Overlap /\ TimerSpares => TimerSpares')
  BY <1>1, <1>4, ListSteps, EnqueueStep, WorkSteps DEF Delete
<1> QED BY <1>1, <1>2, <1>3, <1>4, TableSteps, ListSteps DEF Next

\* A row whose file is gone is on the queue, so the next start finds it: shown
\* for documents that come in under a path nobody is deleting.
THEOREM HalfDone ==
    ASSUME "add" \notin Overlap
    PROVE  Spec => []HalfDoneIsQueued
<1>1. Init => IInv
  BY IInvInit
<1>2. IInv /\ [Next]_vars => IInv'
  BY IInvStep
<1>3. IInv => HalfDoneIsQueued
  BY DEF IInv
<1> QED BY <1>1, <1>2, <1>3, PTL DEF Spec

LEMMA TimerInit == Init => TimerSpares
<1> SUFFICES ASSUME Init PROVE TimerSpares
  OBVIOUS
<1>1. queue = {} /\ \A p \in Procs, t \in Threads : job[p][t].todo = {} /\ job[p][t].cur = {}
  BY DEF Init, Idle
<1>2. "gui" \in Threads
  BY DEF Threads
<1> QED BY <1>1, <1>2 DEF TimerSpares, Decided, OnRecord

\* Only a shredding removes a file, and of a held one only the user's.
LEMMA HeldStep ==
    ASSUME IInv, TimerSpares, [Next]_vars,
           NEW f \in (stored \ stored') \cap Recorded, NeedsApproval(row[f])
    PROVE  \E p \in Procs, t \in Threads :
                \E e \in job[p][t].cur : e.file = f /\ e.action = "purge_file"
<1>1. PICK p \in Procs, t \in Threads : Shred(p, t)
  <2>1. f \in stored /\ f \notin stored'
    OBVIOUS
  <2>2. ASSUME NEW p \in Procs, User(p) PROVE FALSE
    <3>1. PICK g \in Files : AddEncrypt(p, g)
      BY <2>1, <2>2 DEF User, AddRecord, LoadLabel, Search, MoveLabel, MoveToKritik, MoveToImha,
                        AssignProfile, PurgeFile
    <3> QED BY <2>1, <3>1 DEF AddEncrypt
  <2>3. ASSUME NEW p \in Procs, Start(p) \/ Stop(p) \/ TickExpiry(p) \/ PurgeExpired(p)
                                \/ SweepSelect(p) \/ SweepCheck(p) \/ SweepMove(p) PROVE FALSE
    BY <2>1, <2>3 DEF Start, Stop, TickExpiry, PurgeExpired, SweepSelect, SweepCheck, SweepMove
  <2>4. ASSUME NEW p \in Procs, NEW t \in Threads, Delete(p, t) \/ StatementFails(p, t) PROVE Shred(p, t)
    BY <2>1, <2>4 DEF Delete, Pick, Finish, Enqueue, DeleteRow, Dequeue, StatementFails
  <2>5. ~Tick /\ ~UNCHANGED vars
    BY <2>1 DEF Tick, vars
  <2> QED BY <2>2, <2>3, <2>4, <2>5 DEF Next
<1>2. PICK e \in job[p][t].cur : e.file = f
  BY <1>1 DEF Shred
<1>3. e \in Item /\ Decided(e)
  BY DecidedTyped
<1>4. e.action = "purge_file"
  BY <1>2, <1>3 DEF TimerSpares, Item
<1> QED BY <1>2, <1>4

\* No timer and no start that resumes a deletion destroys a file whose retention
\* runs: shown for files whose profile stays while somebody deletes them.
THEOREM HeldSurvives ==
    ASSUME "add" \notin Overlap, "assign" \notin Overlap
    PROVE  Spec => HeldFileSurvives
<1>1. Init => IInv /\ TimerSpares
  BY IInvInit, TimerInit
<1>2. IInv /\ TimerSpares /\ [Next]_vars => IInv' /\ TimerSpares'
  BY IInvStep
<1>3. IInv /\ TimerSpares /\ [Next]_vars =>
        [\A f \in (stored \ stored') \cap Recorded : NeedsApproval(row[f]) =>
            \E p \in Procs, t \in Threads :
                \E e \in job[p][t].cur : e.file = f /\ e.action = "purge_file"]_vars
  BY HeldStep
<1> QED BY <1>1, <1>2, <1>3, PTL DEF Spec, HeldFileSurvives
=============================================================================
