--------------------------- MODULE EnrolmentProofs ---------------------------
(***************************************************************************)
(* Proofs about Enrolment: for any number of tokens and of vaults, in one  *)
(* process, whichever operation but a takeover is cut short, it implements *)
(* Custody: the key of every sealed document keeps two of its shares.      *)
(* In one process in which no takeover is cut short either, an account is  *)
(* provided for only as somebody meant it to be, and a token's row tells   *)
(* the truth about its key and its recovery share.                         *)
(***************************************************************************)
EXTENDS Enrolment, TLAPS

\* One process at a time: a second one may discard a vault the first one has read.
OneProcess == \A p, q \in Procs : p = q
\* A takeover that is cut between its two stores leaves the documents with a token
\* whose vault is gone already.
TakeoverRunsThrough == "takeover" \notin Killed

Making == {"wizard", "register", "setup", "reset"}
Renewing == {"recover", "takeover"}
Dropping == {"drop_totp", "drop_share", "drop_row", "drop_file"}

Stored(h, k) == vault[h] # NoVault /\ vault[h].line = k
Has(h, k) == Stored(h, k) \/ share2[h] = k

\* Lines are given in turn, and a vault file is signed with a share of its line.
LineInv ==
    /\ \A h \in HWIDs :
        /\ vault[h] # NoVault => vault[h].line <= made /\ vault[h].signer = vault[h].line
        /\ share2[h] <= made
    /\ \A p \in Procs : \A j \in job[p] :
        /\ j.line <= made
        /\ j.back # NoVault => j.back.line <= made /\ j.back.signer = j.back.line
        /\ j.back2 <= made

\* No two tokens have shares of one line, but for a takeover that is under way.
Shared(g, h, k) == \E p \in Procs : \E j \in job[p] :
    j.op = "takeover" /\ j.at # "replace" /\ j.line = k /\ j.h \in {g, h}
ApartInv ==
    \A g, h \in HWIDs, k \in Lines : g # h /\ Has(g, k) /\ Has(h, k) => Shared(g, h, k)

\* An account has documents under one key, and at its own token two of the three
\* shares; or else the new token of a takeover has them all.
Pair(h, k) ==
    \/ vault[h] # NoVault /\ share2[h] = k
    \/ k \in papers /\ (vault[h] # NoVault \/ share2[h] = k)
TakenOver(h, k) == \E p \in Procs : \E j \in job[p] :
    j.op = "takeover" /\ j.old = h /\ j.h # h /\ j.line = k /\ j.at \in Dropping \cup {"move"}
Kept(h, k) ==
    /\ users[h] = "approved"
    /\ k \in Lines /\ docs[h] = {k}
    /\ vault[h] # NoVault => vault[h].line = k
    /\ share2[h] \in {Nil, k}
    /\ Pair(h, k) \/ TakenOver(h, k)
DocInv == \A h \in HWIDs : \A k \in docs[h] : Kept(h, k)

\* Which operation passes through which places.
Way(j) ==
    /\ j.op # "takeover" => j.old = j.h
    /\ j.op = "takeover" /\ j.at \notin Dropping => j.old # j.h
    /\ j.op = "rewrite" <=> j.at = "read"
    /\ j.at \in {"file", "reset_file", "reset_share", "reset_row"} => j.op \in Making
    /\ j.at \in {"share", "row"} => j.op \in Making \cup Renewing
    /\ j.at = "open" => j.op = "wizard"
    /\ j.at = "totp" => j.op \in {"wizard", "register"}
    /\ j.at = "user" => j.op = "register"
    /\ j.at \in {"replace", "issue", "undo_file", "undo_share"} => j.op \in Renewing
    /\ j.at \in {"check", "copy", "move"} => j.op = "takeover"
    /\ j.at \in Dropping => j.op \in {"register", "reject", "delete", "takeover"}

\* Whose line it is that the operation writes.
Owner(j) ==
    /\ j.op \notin {"recover", "rewrite"} => docs[j.h] = {}
    /\ j.op \in Making \cup Renewing \cup {"rewrite"} => j.line \in Lines /\ j.token \in Lines
    /\ j.op \in Making => \A g \in HWIDs \ {j.h} : ~Has(g, j.line)
    /\ j.op \in Renewing => j.line \in papers
    /\ j.op = "recover" \/ (j.op = "takeover" /\ j.old # j.h) =>
        /\ docs[j.old] \subseteq {j.line}
        /\ \A g \in HWIDs \ {j.h, j.old} : ~Has(g, j.line)

\* What it has written so far, and what it has removed.
Written(j) ==
    /\ j.op = "rewrite" => Stored(j.h, j.line) /\ share2[j.h] = j.line
    /\ j.op \in Renewing /\ j.at \in {"share", "row", "issue", "check", "copy", "undo_file"} => Stored(j.h, j.line)
    /\ j.op \in Renewing /\ j.at \in {"row", "issue", "check", "copy"} => share2[j.h] = j.line
    /\ j.op = "takeover" /\ j.at \in Dropping \cup {"move"} /\ j.old # j.h =>
        Stored(j.h, j.line) /\ share2[j.h] = j.line
    /\ j.at \in {"drop_row", "drop_file", "move"} => share2[j.old] = Nil
    /\ j.at = "move" => vault[j.old] = NoVault

\* What it would put back.
WayBack(j) ==
    j.op \in Renewing /\ j.at \in {"share", "row", "undo_file", "undo_share"} =>
        /\ share2[j.h] \in {j.back2, j.line}
        /\ j.at = "undo_share" => vault[j.h] = j.back
        /\ \A g \in HWIDs \ {j.h} :
            /\ j.back # NoVault => ~Has(g, j.back.line)
            /\ j.back2 # Nil => ~Has(g, j.back2)
        /\ docs[j.h] # {} =>
            /\ j.back # NoVault => j.back.line = j.line
            /\ j.back2 \in {Nil, j.line}
            /\ j.back # NoVault \/ j.back2 = j.line

JobInv == \A p \in Procs : \A j \in job[p] : Way(j) /\ Owner(j) /\ Written(j) /\ WayBack(j)

\* The row that is marked is there.
RowInv == \A p \in Procs : \A j \in job[p] : j.at = "issue" => row[j.h] # NoRow

\* The inductive invariant.
IInv == TypeOK /\ RowInv /\ LineInv /\ ApartInv /\ DocInv /\ JobInv

-----------------------------------------------------------------------------
\* Lines are numbers.
LEMMA NatType ==
    ASSUME NEW n \in 0..MaxMade
    PROVE  n \in Nat /\ Nil <= n
BY MadeAssumption DEF Nil

LEMMA NilIsNoLine == Nil \notin Lines
BY MadeAssumption DEF Nil, Lines

LEMMA Later ==
    ASSUME NEW l \in Nat, NEW m \in Nat, NEW n \in Nat, l <= m, m <= n
    PROVE  l <= n
OBVIOUS

LEMMA NumberType ==
    ASSUME TypeOK
    PROVE  /\ made \in Nat
           /\ \A h \in HWIDs : share2[h] \in Nat /\ (vault[h] # NoVault => vault[h] \in Vault /\ vault[h].line \in Nat)
<1>1. made \in Nat
  BY MadeAssumption DEF TypeOK
<1>2. vault \in [HWIDs -> Vault \cup {NoVault}] /\ share2 \in [HWIDs -> Lines \cup {Nil}]
  BY DEF TypeOK
<1>3. Lines \subseteq Nat /\ Nil \in Nat
  BY MadeAssumption DEF Lines, Nil
<1>4. \A h \in HWIDs : vault[h] # NoVault => vault[h] \in Vault
  BY <1>2
<1>5. \A v \in Vault : v.line \in Lines
  BY DEF Vault
<1> QED BY <1>1, <1>2, <1>3, <1>4, <1>5

\* What a process does next replaces what it is in the middle of.
LEMMA JobType ==
    ASSUME TypeOK, NEW p \in Procs, NEW S \in SUBSET Job, \A i, j \in S : i = j,
           job' = [job EXCEPT ![p] = S]
    PROVE  /\ job' \in [Procs -> SUBSET Job]
           /\ \A q \in Procs : \A i, j \in job'[q] : i = j
           /\ \A q \in Procs : job'[q] = IF q = p THEN S ELSE job[q]
<1>1. job \in [Procs -> SUBSET Job] /\ \A q \in Procs : \A i, j \in job[q] : i = j
  BY DEF TypeOK
<1>2. \A q \in Procs : job'[q] = IF q = p THEN S ELSE job[q]
  BY <1>1
<1>3. job' \in [Procs -> SUBSET Job]
  BY <1>1
<1> QED BY <1>1, <1>2, <1>3

LEMMA EndType ==
    ASSUME TypeOK, OneProcess, NEW p \in Procs, End(p)
    PROVE  /\ job' \in [Procs -> SUBSET Job]
           /\ \A q \in Procs : \A i, j \in job'[q] : i = j
           /\ \A q \in Procs : job'[q] = {}
<1>1. job' = [job EXCEPT ![p] = {}] /\ {} \in SUBSET Job
  BY DEF End
<1>2. \A q \in Procs : q = p
  BY DEF OneProcess
<1> QED BY <1>1, <1>2, JobType

\* An operation that is under way, at its next place.
LEMMA ReplaceType ==
    ASSUME TypeOK, OneProcess, NEW p \in Procs, NEW k \in Job, job' = [job EXCEPT ![p] = {k}]
    PROVE  /\ job' \in [Procs -> SUBSET Job]
           /\ \A q \in Procs : \A i, l \in job'[q] : i = l
           /\ \A q \in Procs : job'[q] = {k}
<1>1. {k} \in SUBSET Job /\ \A i, l \in {k} : i = l
  OBVIOUS
<1>2. \A q \in Procs : q = p
  BY DEF OneProcess
<1> QED BY <1>1, <1>2, JobType

LEMMA GotoType ==
    ASSUME TypeOK, OneProcess, NEW p \in Procs, NEW j \in job[p], NEW at \in Places, Goto(p, j, at)
    PROVE  /\ job' \in [Procs -> SUBSET Job]
           /\ \A q \in Procs : \A i, l \in job'[q] : i = l
           /\ \E k \in Job :
               /\ \A q \in Procs : job'[q] = {k}
               /\ k.at = at /\ k.op = j.op /\ k.h = j.h /\ k.old = j.old
               /\ k.line = j.line /\ k.token = j.token /\ k.back = j.back /\ k.back2 = j.back2
<1> DEFINE k == [j EXCEPT !.at = at]
<1>1. j \in Job
  BY DEF TypeOK
<1>2. /\ k \in Job
      /\ k.at = at /\ k.op = j.op /\ k.h = j.h /\ k.old = j.old
      /\ k.line = j.line /\ k.token = j.token /\ k.back = j.back /\ k.back2 = j.back2
  BY <1>1 DEF Job
<1>3. job' = [job EXCEPT ![p] = {k}]
  BY DEF Goto
<1> HIDE DEF k
<1>4. \A q \in Procs : job'[q] = {k}
  BY <1>2, <1>3, ReplaceType
<1> QED BY <1>2, <1>3, <1>4, ReplaceType

LEMMA BeginType ==
    ASSUME TypeOK, OneProcess, NEW p \in Procs, NEW op \in AllOps, NEW at \in Places, NEW h \in HWIDs, NEW old \in HWIDs,
           NEW line \in Lines \cup {Nil}, NEW token \in Lines \cup {Nil}, Begin(p, op, at, h, old, line, token)
    PROVE  /\ job' \in [Procs -> SUBSET Job]
           /\ \A q \in Procs : \A i, l \in job'[q] : i = l
           /\ \A q \in Procs : job[q] = {}
           /\ \E k \in Job :
               /\ \A q \in Procs : job'[q] = {k}
               /\ k.at = at /\ k.op = op /\ k.h = h /\ k.old = old
               /\ k.line = line /\ k.token = token /\ k.back = NoVault /\ k.back2 = Nil
<1> DEFINE k == [op |-> op, at |-> at, h |-> h, old |-> old, line |-> line, token |-> token,
                 back |-> NoVault, back2 |-> Nil]
<1>1. /\ k \in Job
      /\ k.at = at /\ k.op = op /\ k.h = h /\ k.old = old
      /\ k.line = line /\ k.token = token /\ k.back = NoVault /\ k.back2 = Nil
  BY DEF Job
<1>2. job[p] = {} /\ job' = [job EXCEPT ![p] = {k}]
  BY DEF Begin
<1> HIDE DEF k
<1>3. \A q \in Procs : job'[q] = {k}
  BY <1>1, <1>2, ReplaceType
<1>4. \A q \in Procs : job[q] = {}
  BY <1>2 DEF OneProcess
<1> QED BY <1>1, <1>2, <1>3, <1>4, ReplaceType

-----------------------------------------------------------------------------
\* What leaves the stores and the operations alone.
LEMMA FrameInv ==
    ASSUME IInv, TypeOK', RowInv', UNCHANGED <<vault, share2, docs, job, made>>, papers \subseteq papers',
           \A h \in HWIDs : docs[h] # {} => users'[h] = "approved"
    PROVE  IInv'
<1>1. LineInv'
  BY DEF IInv, LineInv
<1>2. ApartInv'
  BY DEF IInv, ApartInv, Has, Stored, Shared
<1>3. DocInv'
  BY DEF IInv, DocInv, Kept, Pair, TakenOver
<1>4. JobInv'
  <2> SUFFICES ASSUME NEW p \in Procs, NEW j \in job[p]
               PROVE  (Way(j) /\ Owner(j) /\ Written(j) /\ WayBack(j))'
    BY DEF JobInv
  <2>1. Way(j) /\ Owner(j) /\ Written(j) /\ WayBack(j)
    BY DEF IInv, JobInv
  <2>2. Way(j)'
    BY <2>1 DEF Way
  <2>3. Owner(j)'
    BY <2>1 DEF Owner, Has, Stored
  <2>4. Written(j)'
    BY <2>1 DEF Written, Stored
  <2>5. WayBack(j)'
    BY <2>1 DEF WayBack, Has, Stored
  <2> QED BY <2>2, <2>3, <2>4, <2>5
<1> QED BY <1>1, <1>2, <1>3, <1>4 DEF IInv

\* An operation that begins.
LEMMA BeginInv ==
    ASSUME IInv, TypeOK', RowInv', \A q \in Procs : job[q] = {}, NEW k \in Job, \A q \in Procs : job'[q] = {k},
           UNCHANGED <<vault, share2>>, papers \subseteq papers', made <= made',
           k.line <= made', k.back = NoVault, k.back2 = Nil, k.at \notin {"share", "row", "undo_file", "undo_share"},
           \A h \in HWIDs : docs'[h] \subseteq docs[h] /\ (docs'[h] # {} => users'[h] = "approved"),
           Way(k), Owner(k)', Written(k)
    PROVE  IInv'
<1>1. LineInv'
  <2>1. made \in Nat /\ \A h \in HWIDs : share2[h] \in Nat /\ (vault[h] # NoVault => vault[h].line \in Nat)
    BY NumberType DEF IInv
  <2>2. made' \in Nat
    BY NatType DEF TypeOK
  <2>3. \A h \in HWIDs :
        /\ vault[h] # NoVault => vault[h].line <= made /\ vault[h].signer = vault[h].line
        /\ share2[h] <= made
    BY DEF IInv, LineInv
  <2>4. \A h \in HWIDs :
        /\ vault'[h] # NoVault => vault'[h].line <= made' /\ vault'[h].signer = vault'[h].line
        /\ share2'[h] <= made'
    <3> SUFFICES ASSUME NEW h \in HWIDs
                 PROVE  /\ vault[h] # NoVault => vault[h].line <= made' /\ vault[h].signer = vault[h].line
                        /\ share2[h] <= made'
      OBVIOUS
    <3>1. share2[h] <= made /\ share2[h] \in Nat /\ made \in Nat
      BY <2>1, <2>3
    <3>2. share2[h] <= made'
      BY <2>2, <3>1, Later
    <3>3. CASE vault[h] # NoVault
      <4>1. vault[h].line <= made /\ vault[h].line \in Nat /\ vault[h].signer = vault[h].line
        BY <2>1, <2>3, <3>3
      <4>2. vault[h].line <= made'
        BY <2>2, <3>1, <4>1, Later
      <4> QED BY <3>2, <4>1, <4>2
    <3> QED BY <3>2, <3>3, Zenon
  <2>5. k.back2 <= made'
    BY NatType DEF TypeOK
  <2>6. \A q \in Procs : \A j \in job'[q] : j = k
    OBVIOUS
  <2> QED BY <2>4, <2>5, <2>6, Zenon DEF LineInv
<1>2. ApartInv'
  <2> SUFFICES ASSUME NEW g \in HWIDs, NEW h \in HWIDs, NEW l \in Lines, g # h, Has(g, l)', Has(h, l)'
               PROVE  FALSE
    BY DEF ApartInv
  <2>1. Has(g, l) /\ Has(h, l)
    BY DEF Has, Stored
  <2>2. ~Shared(g, h, l)
    BY DEF Shared
  <2> QED BY <2>1, <2>2 DEF IInv, ApartInv
<1>3. DocInv'
  <2> SUFFICES ASSUME NEW h \in HWIDs, NEW l \in docs'[h]
               PROVE  Kept(h, l)'
    BY DEF DocInv
  <2>1. l \in docs[h] /\ docs'[h] \subseteq docs[h] /\ users'[h] = "approved"
    OBVIOUS
  <2>2. Kept(h, l)
    BY <2>1 DEF IInv, DocInv
  <2>3. Pair(h, l)
    BY <2>2 DEF Kept, TakenOver
  <2>4. Pair(h, l)'
    BY <2>3 DEF Pair
  <2> QED BY <2>1, <2>2, <2>4 DEF Kept
<1>4. JobInv'
  <2>1. Way(k)'
    BY DEF Way
  <2>2. Written(k)'
    BY DEF Written, Stored
  <2>3. WayBack(k)'
    BY DEF WayBack
  <2> QED BY <2>1, <2>2, <2>3 DEF JobInv
<1> QED BY <1>1, <1>2, <1>3, <1>4 DEF IInv

\* An operation that goes on and has written nothing an invariant speaks of.
LEMMA MoveOnInv ==
    ASSUME IInv, OneProcess, TypeOK', RowInv', NEW p \in Procs, NEW j \in job[p], NEW k \in Job, \A q \in Procs : job'[q] = {k},
           UNCHANGED <<vault, share2, docs, users, papers, made>>,
           k.op = j.op, k.h = j.h, k.line = j.line, k.back = j.back, k.back2 = j.back2,
           k.at # "replace", j.at \in Dropping \cup {"move"} => k.at \in Dropping \cup {"move"} /\ k.old = j.old,
           Way(k), Owner(k), Written(k), WayBack(k)
    PROVE  IInv'
<1>0. \A q \in Procs : q = p /\ \A i \in job[q] : i = j
  BY DEF OneProcess, IInv, TypeOK
<1>1. LineInv'
  BY DEF IInv, LineInv
<1>2. ApartInv'
  BY <1>0 DEF IInv, ApartInv, Has, Stored, Shared
<1>3. DocInv'
  BY <1>0 DEF IInv, DocInv, Kept, Pair, TakenOver
<1>4. JobInv'
  <2>1. Way(k)'
    BY DEF Way
  <2>2. Owner(k)'
    BY DEF Owner, Has, Stored
  <2>3. Written(k)'
    BY DEF Written, Stored
  <2>4. WayBack(k)'
    BY DEF WayBack, Has, Stored
  <2> QED BY <2>1, <2>2, <2>3, <2>4 DEF JobInv
<1> QED BY <1>1, <1>2, <1>3, <1>4 DEF IInv

\* An operation that ends, or is cut short, and is no takeover in its middle.
LEMMA FinishInv ==
    ASSUME IInv, OneProcess, TypeOK', RowInv', NEW p \in Procs, NEW j \in job[p], \A q \in Procs : job'[q] = {},
           j.op # "takeover" \/ j.at = "replace",
           UNCHANGED <<vault, share2, docs, papers, made>>,
           \A h \in HWIDs : docs[h] # {} => users'[h] = "approved"
    PROVE  IInv'
<1>0. \A q \in Procs : q = p /\ \A i \in job[q] : i = j
  BY DEF OneProcess, IInv, TypeOK
<1>1. LineInv'
  BY DEF IInv, LineInv
<1>2. ApartInv'
  BY <1>0 DEF IInv, ApartInv, Has, Stored, Shared
<1>3. DocInv'
  <2> SUFFICES ASSUME NEW h \in HWIDs, NEW l \in docs[h]
               PROVE  Kept(h, l)'
    BY DEF DocInv
  <2>1. Kept(h, l) /\ users'[h] = "approved"
    BY DEF IInv, DocInv
  <2>2. ~TakenOver(h, l)
    BY <1>0 DEF TakenOver, Dropping
  <2>3. Pair(h, l)'
    BY <2>1, <2>2 DEF Kept, Pair
  <2> QED BY <2>1, <2>3 DEF Kept
<1>4. JobInv'
  BY DEF JobInv
<1> QED BY <1>1, <1>2, <1>3, <1>4 DEF IInv

-----------------------------------------------------------------------------
\* The type invariant without the operations.
StoresOK ==
    /\ made \in 0..MaxMade
    /\ vault \in [HWIDs -> Vault \cup {NoVault}]
    /\ share2 \in [HWIDs -> Lines \cup {Nil}]
    /\ row \in [HWIDs -> Row \cup {NoRow}]
    /\ totp \in [HWIDs -> Lines \cup {Nil}]
    /\ users \in [HWIDs -> {"none", "pending", "approved"}]
    /\ docs \in [HWIDs -> SUBSET (Lines \cup {Nil})]
    /\ papers \subseteq Lines /\ shown \subseteq Lines 
    /\ entering \subseteq HWIDs /\ founded \subseteq HWIDs /\ mixed \subseteq HWIDs /\ adrift \subseteq HWIDs

LEMMA GotoTyped ==
    ASSUME IInv, OneProcess, StoresOK', NEW p \in Procs, NEW j \in job[p], NEW at \in Places \ {"issue"}, Goto(p, j, at)
    PROVE  TypeOK' /\ RowInv'
<1>1. /\ job' \in [Procs -> SUBSET Job]
      /\ \A q \in Procs : \A i, l \in job'[q] : i = l
      /\ \E k \in Job : (\A q \in Procs : job'[q] = {k}) /\ k.at = at
  BY GotoType DEF IInv
<1> QED BY <1>1 DEF TypeOK, StoresOK, RowInv

LEMMA EndTyped ==
    ASSUME IInv, OneProcess, StoresOK', NEW p \in Procs, End(p)
    PROVE  TypeOK' /\ RowInv'
<1>1. /\ job' \in [Procs -> SUBSET Job]
      /\ \A q \in Procs : \A i, l \in job'[q] : i = l
      /\ \A q \in Procs : job'[q] = {}
  BY EndType DEF IInv
<1> QED BY <1>1 DEF TypeOK, StoresOK, RowInv

LEMMA BeginTyped ==
    ASSUME IInv, OneProcess, StoresOK', NEW p \in Procs, NEW op \in AllOps, NEW at \in Places \ {"issue"},
           NEW h \in HWIDs, NEW old \in HWIDs, NEW line \in Lines \cup {Nil}, NEW token \in Lines \cup {Nil},
           Begin(p, op, at, h, old, line, token)
    PROVE  TypeOK' /\ RowInv'
<1>1. /\ job' \in [Procs -> SUBSET Job]
      /\ \A q \in Procs : \A i, l \in job'[q] : i = l
      /\ \E k \in Job : (\A q \in Procs : job'[q] = {k}) /\ k.at = at
  BY BeginType DEF IInv
<1> QED BY <1>1 DEF TypeOK, StoresOK, RowInv

\* What is known of an operation that is under way.
LEMMA JobFacts ==
    ASSUME IInv, NEW p \in Procs, NEW j \in job[p]
    PROVE  /\ j \in Job /\ j.op \in AllOps /\ j.h \in HWIDs /\ j.old \in HWIDs /\ j.at \in Places
           /\ j.line \in Lines \cup {Nil} /\ j.token \in Lines \cup {Nil}
           /\ j.back \in Vault \cup {NoVault} /\ j.back2 \in Lines \cup {Nil}
           /\ Way(j) /\ Owner(j) /\ Written(j) /\ WayBack(j)
<1>1. j \in Job
  BY DEF IInv, TypeOK
<1> QED BY <1>1 DEF IInv, JobInv, Job

LEMMA RewriteType ==
    ASSUME IInv, NEW h \in HWIDs, NEW line \in Lines, NEW token \in Lines, NEW signer \in Lines,
           _rewrite_vault(h, line, token, signer)
    PROVE  /\ vault' \in [HWIDs -> Vault \cup {NoVault}]
           /\ vault'[h] # NoVault /\ vault'[h].line = line /\ vault'[h].signer = signer
           /\ \A g \in HWIDs \ {h} : vault'[g] = vault[g]
<1> DEFINE v == [line |-> line, token |-> token, signer |-> signer]
<1>1. v \in Vault /\ v.line = line /\ v.signer = signer
  BY DEF Vault
<1>2. vault' = [vault EXCEPT ![h] = v] /\ vault \in [HWIDs -> Vault \cup {NoVault}]
  BY DEF _rewrite_vault, IInv, TypeOK
<1> HIDE DEF v
<1>3. v # NoVault
  BY <1>1, NoValueAssumption
<1> QED BY <1>1, <1>2, <1>3

LEMMA KcvType ==
    ASSUME IInv, NEW h \in HWIDs, open_vault(h), _kcv_eksikse_yaz(h)
    PROVE  row' \in [HWIDs -> Row \cup {NoRow}] /\ \A g \in HWIDs : row[g] # NoRow => row'[g] # NoRow
<1>1. row \in [HWIDs -> Row \cup {NoRow}] /\ row[h] # NoRow
  BY DEF IInv, TypeOK, open_vault
<1>2. Key(h) \in Lines \cup {Nil}
  <2>1. vault[h] \in Vault
    BY DEF IInv, TypeOK, open_vault, _decrypt_vault
  <2> QED BY <2>1 DEF Key, Recover, Vault
<1>3. CASE row' = row
  BY <1>1, <1>3
<1>4. CASE row' = [row EXCEPT ![h].kcv = Key(h)]
  <2> DEFINE r == [row[h] EXCEPT !.kcv = Key(h)]
  <2>1. r \in Row
    BY <1>1, <1>2 DEF Row
  <2>2. row' = [row EXCEPT ![h] = r]
    BY <1>1, <1>4
  <2> HIDE DEF r
  <2>3. r # NoRow
    BY <2>1, NoValueAssumption
  <2> QED BY <1>1, <2>1, <2>2, <2>3
<1> QED BY <1>3, <1>4 DEF _kcv_eksikse_yaz

-----------------------------------------------------------------------------

\* A step that writes none of the stores an invariant speaks of.
LEMMA PassOn ==
    ASSUME IInv, OneProcess, StoresOK', NEW p \in Procs, NEW j \in job[p], NEW at \in Places \ {"issue", "replace"}, Goto(p, j, at),
           UNCHANGED <<vault, share2, docs, users, papers, made>>,
           j.at \in Dropping \cup {"move"} => at \in Dropping \cup {"move"},
           \A k \in Job : /\ k.at = at /\ k.op = j.op /\ k.h = j.h /\ k.old = j.old
                          /\ k.line = j.line /\ k.token = j.token /\ k.back = j.back /\ k.back2 = j.back2
                          => Way(k) /\ Written(k) /\ WayBack(k)
    PROVE  IInv'
<1>1. TypeOK' /\ RowInv'
  BY GotoTyped
<1>2. PICK k \in Job : /\ \A q \in Procs : job'[q] = {k}
                       /\ k.at = at /\ k.op = j.op /\ k.h = j.h /\ k.old = j.old
                       /\ k.line = j.line /\ k.token = j.token /\ k.back = j.back /\ k.back2 = j.back2
  BY GotoType DEF IInv
<1>3. Way(k) /\ Written(k) /\ WayBack(k)
  BY <1>2
<1>4. Owner(k)
  BY <1>2, JobFacts DEF Owner
<1> QED BY <1>1, <1>2, <1>3, <1>4, MoveOnInv

LEMMA InsertTokenInv ==
    ASSUME IInv, OneProcess, NEW p \in Procs, InsertToken(p)
    PROVE  IInv'
<1> PICK j \in At(p, "row") :
      /\ SaveRow(j.h, j.line, j.token)
      /\ IF j.op \in {"setup", "reset"} THEN End(p)
         ELSE Goto(p, j, CASE j.op \in {"recover", "takeover"} -> "issue" [] j.op = "wizard" -> "open" [] OTHER -> "totp")
      /\ mixed' = mixed \ {j.h}
      /\ UNCHANGED <<vault, share2, totp, users, papers, docs, shown, entering, made, founded, adrift>>
  BY DEF InsertToken
<1>1. j \in job[p] /\ j.at = "row"
  BY DEF At
<1>2. /\ j \in Job /\ j.op \in AllOps /\ j.h \in HWIDs /\ j.old \in HWIDs /\ Way(j) /\ Owner(j) /\ Written(j) /\ WayBack(j)
  BY <1>1, JobFacts
<1>3. j.op \in {"wizard", "register", "setup", "reset", "recover", "takeover"} /\ j.line \in Lines /\ j.token \in Lines
  BY <1>1, <1>2 DEF Way, Owner, Making, Renewing
<1>4. row' \in [HWIDs -> Row \cup {NoRow}] /\ row'[j.h] # NoRow
  <2> DEFINE r == [token |-> j.token, kcv |-> j.line, black |-> FALSE, issued |-> FALSE]
  <2>1. r \in Row
    BY <1>3 DEF Row
  <2>2. row' = [row EXCEPT ![j.h] = r] /\ row \in [HWIDs -> Row \cup {NoRow}]
    BY DEF SaveRow, IInv, TypeOK
  <2> HIDE DEF r
  <2>3. r # NoRow
    BY <2>1, NoValueAssumption
  <2> QED BY <1>2, <2>1, <2>2, <2>3
<1>5. StoresOK'
  BY <1>4 DEF StoresOK, IInv, TypeOK
<1>6. CASE j.op \in {"setup", "reset"}
  <2>1. End(p)
    BY <1>6
  <2>2. TypeOK' /\ RowInv' /\ \A q \in Procs : job'[q] = {}
    BY <1>5, <2>1, EndTyped, EndType DEF IInv
  <2>3. \A h \in HWIDs : docs[h] # {} => users'[h] = "approved"
    BY DEF IInv, DocInv, Kept
  <2> QED BY <1>1, <1>6, <2>2, <2>3, FinishInv
<1>7. CASE j.op \in {"wizard", "register"}
  <2> DEFINE at == IF j.op = "wizard" THEN "open" ELSE "totp"
  <2>1. Goto(p, j, at) /\ at \in {"open", "totp"}
    BY <1>7
  <2>2. \A k \in Job : /\ k.at = at /\ k.op = j.op /\ k.h = j.h /\ k.old = j.old
                       /\ k.line = j.line /\ k.token = j.token /\ k.back = j.back /\ k.back2 = j.back2
                       => Way(k) /\ Written(k) /\ WayBack(k)
    BY <1>1, <1>2, <1>7 DEF Way, Written, WayBack, Making, Renewing, Dropping
  <2>3. at \in Places \ {"issue", "replace"} /\ j.at \notin Dropping \cup {"move"}
    BY <1>1, <2>1 DEF Places, Dropping
  <2> HIDE DEF at
  <2> QED BY <1>1, <1>5, <2>1, <2>2, <2>3, PassOn
<1>8. CASE j.op \in {"recover", "takeover"}
  <2>1. Goto(p, j, "issue")
    BY <1>8
  <2>2. /\ job' \in [Procs -> SUBSET Job]
        /\ \A q \in Procs : \A i, l \in job'[q] : i = l
        /\ \E k \in Job :
               /\ \A q \in Procs : job'[q] = {k}
               /\ k.at = "issue" /\ k.op = j.op /\ k.h = j.h /\ k.old = j.old
               /\ k.line = j.line /\ k.token = j.token /\ k.back = j.back /\ k.back2 = j.back2
    <3>1. "issue" \in Places /\ TypeOK
      BY DEF Places, IInv
    <3> QED BY <1>1, <2>1, <3>1, GotoType
  <2> PICK k \in Job :
               /\ \A q \in Procs : job'[q] = {k}
               /\ k.at = "issue" /\ k.op = j.op /\ k.h = j.h /\ k.old = j.old
               /\ k.line = j.line /\ k.token = j.token /\ k.back = j.back /\ k.back2 = j.back2
    BY <2>2
  <2>3. TypeOK' /\ RowInv'
    BY <1>4, <1>5, <2>2 DEF TypeOK, StoresOK, RowInv
  <2>4. Way(k) /\ Written(k) /\ WayBack(k)
    BY <1>1, <1>2, <1>8 DEF Way, Written, WayBack, Making, Renewing, Dropping
  <2>5. Owner(k)
    BY <1>2 DEF Owner
  <2>6. j.at \notin Dropping \cup {"move"}
    BY <1>1 DEF Dropping
  <2> QED BY <1>1, <2>3, <2>4, <2>5, <2>6, MoveOnInv
<1> QED BY <1>3, <1>6, <1>7, <1>8

LEMMA FinishOn ==
    ASSUME IInv, OneProcess, StoresOK', NEW p \in Procs, NEW j \in job[p], End(p),
           j.op # "takeover" \/ j.at = "replace",
           UNCHANGED <<vault, share2, docs, papers, made>>,
           \A h \in HWIDs : docs[h] # {} => users'[h] = "approved"
    PROVE  IInv'
<1>1. TypeOK' /\ RowInv' /\ \A q \in Procs : job'[q] = {}
  BY EndTyped, EndType DEF IInv
<1> QED BY <1>1, FinishInv

LEMMA Approved ==
    ASSUME IInv
    PROVE  \A h \in HWIDs : docs[h] # {} => users[h] = "approved"
BY DEF IInv, DocInv, Kept

LEMMA OpenFirstVaultInv ==
    ASSUME IInv, OneProcess, NEW p \in Procs, OpenFirstVault(p)
    PROVE  IInv'
<1> PICK j \in At(p, "open") :
      /\ IF open_vault(j.h) THEN Goto(p, j, "totp") ELSE End(p)
      /\ UNCHANGED <<vault, share2, row, totp, users, papers, docs, shown, entering, made, mixed, founded, adrift>>
  BY DEF OpenFirstVault
<1>1. j \in job[p] /\ j.at = "open"
  BY DEF At
<1>2. Way(j) /\ Written(j) /\ j.op = "wizard"
  BY <1>1, JobFacts DEF Way
<1>3. StoresOK'
  BY DEF StoresOK, IInv, TypeOK
<1>4. CASE Goto(p, j, "totp")
  <2>1. "totp" \in Places \ {"issue", "replace"} /\ j.at \notin Dropping \cup {"move"}
    BY <1>1 DEF Places, Dropping
  <2>2. \A k \in Job : /\ k.at = "totp" /\ k.op = j.op /\ k.h = j.h /\ k.old = j.old
                       /\ k.line = j.line /\ k.token = j.token /\ k.back = j.back /\ k.back2 = j.back2
                       => Way(k) /\ Written(k) /\ WayBack(k)
    BY <1>1, <1>2 DEF Way, Written, WayBack, Making, Renewing, Dropping
  <2> QED BY <1>1, <1>3, <1>4, <2>1, <2>2, PassOn
<1>5. CASE End(p)
  BY <1>1, <1>2, <1>3, <1>5, Approved, FinishOn
<1> QED BY <1>4, <1>5

LEMMA StoreTotpInv ==
    ASSUME IInv, OneProcess, NEW p \in Procs, store_totp_secret_for_hwid(p)
    PROVE  IInv'
<1> PICK j \in At(p, "totp") :
      /\ totp' = [totp EXCEPT ![j.h] = j.token]
      /\ IF j.op = "wizard" THEN End(p) /\ entering' = entering \cup {j.h}
         ELSE Goto(p, j, "user") /\ UNCHANGED entering
      /\ UNCHANGED <<vault, share2, row, users, papers, docs, shown, made, mixed, founded, adrift>>
  BY DEF store_totp_secret_for_hwid
<1>1. j \in job[p] /\ j.at = "totp"
  BY DEF At
<1>2. /\ Way(j) /\ Written(j) /\ j.op \in {"wizard", "register"}
      /\ j.h \in HWIDs /\ j.token \in Lines \cup {Nil}
  BY <1>1, JobFacts DEF Way
<1>3. StoresOK'
  BY <1>2 DEF StoresOK, IInv, TypeOK
<1>4. CASE j.op = "wizard"
  BY <1>1, <1>3, <1>4, Approved, FinishOn
<1>5. CASE j.op = "register"
  <2>1. Goto(p, j, "user") /\ "user" \in Places \ {"issue", "replace"} /\ j.at \notin Dropping \cup {"move"}
    BY <1>1, <1>5 DEF Places, Dropping
  <2>2. \A k \in Job : /\ k.at = "user" /\ k.op = j.op /\ k.h = j.h /\ k.old = j.old
                       /\ k.line = j.line /\ k.token = j.token /\ k.back = j.back /\ k.back2 = j.back2
                       => Way(k) /\ Written(k) /\ WayBack(k)
    BY <1>1, <1>2, <1>5 DEF Way, Written, WayBack, Making, Renewing, Dropping
  <2> QED BY <1>1, <1>3, <2>1, <2>2, PassOn
<1> QED BY <1>2, <1>4, <1>5

\* The account is written, or its token was taken meanwhile.
LEMMA InsertUserInv ==
    ASSUME IInv, OneProcess, NEW p \in Procs, InsertUser(p)
    PROVE  IInv'
<1> PICK j \in At(p, "user") :
      /\ IF users[j.h] = "none"
         THEN /\ users' = [users EXCEPT ![j.h] = "pending"]
              /\ shown' = shown \cup {j.token}
              /\ adrift' = adrift \ {j.h}
              /\ End(p)
         ELSE Goto(p, j, "drop_totp") /\ UNCHANGED <<users, shown, adrift>>
      /\ UNCHANGED <<vault, share2, row, totp, papers, docs, entering, made, mixed, founded>>
  BY DEF InsertUser
<1>1. j \in job[p] /\ j.at = "user"
  BY DEF At
<1>2. /\ Way(j) /\ Written(j) /\ j.op = "register" /\ j.h \in HWIDs /\ j.token \in Lines
  BY <1>1, JobFacts DEF Way, Owner, Making
<1>3. CASE users[j.h] = "none"
  <2>1. StoresOK' /\ End(p)
    BY <1>2, <1>3 DEF StoresOK, IInv, TypeOK
  <2>2. \A h \in HWIDs : docs[h] # {} => users'[h] = "approved"
    BY <1>2, <1>3, Approved DEF IInv, TypeOK
  <2> QED BY <1>1, <1>2, <2>1, <2>2, FinishOn
<1>4. CASE users[j.h] # "none"
  <2>1. /\ Goto(p, j, "drop_totp") /\ "drop_totp" \in Places \ {"issue", "replace"} /\ j.at \notin Dropping \cup {"move"}
        /\ UNCHANGED users
    BY <1>1, <1>4 DEF Places, Dropping
  <2>2. StoresOK'
    BY <1>4 DEF StoresOK, IInv, TypeOK
  <2>3. \A k \in Job : /\ k.at = "drop_totp" /\ k.op = j.op /\ k.h = j.h /\ k.old = j.old
                       /\ k.line = j.line /\ k.token = j.token /\ k.back = j.back /\ k.back2 = j.back2
                       => Way(k) /\ Written(k) /\ WayBack(k)
    BY <1>1, <1>2 DEF Way, Written, WayBack, Making, Renewing, Dropping
  <2>4. UNCHANGED <<vault, share2, docs, users, papers, made>>
    BY <2>1
  <2> QED BY <1>1, <2>1, <2>2, <2>3, <2>4, PassOn, ZenonT(60)
<1> QED BY <1>3, <1>4

LEMMA RegistrationFailsInv ==
    ASSUME IInv, OneProcess, NEW p \in Procs, RegistrationFails(p)
    PROVE  IInv'
<1> PICK j \in job[p] :
      /\ j.op = "register" /\ j.at \in {"totp", "user"}
      /\ Goto(p, j, "drop_totp")
      /\ UNCHANGED <<vault, share2, row, totp, users, papers, docs, shown, entering, made, mixed, founded, adrift>>
  BY DEF RegistrationFails
<1>1. Way(j) /\ Written(j)
  BY JobFacts
<1>2. "drop_totp" \in Places \ {"issue", "replace"} /\ j.at \notin Dropping \cup {"move"} /\ StoresOK'
  BY DEF Places, Dropping, StoresOK, IInv, TypeOK
<1>3. \A k \in Job : /\ k.at = "drop_totp" /\ k.op = j.op /\ k.h = j.h /\ k.old = j.old
                     /\ k.line = j.line /\ k.token = j.token /\ k.back = j.back /\ k.back2 = j.back2
                     => Way(k) /\ Written(k) /\ WayBack(k)
  BY <1>1 DEF Way, Written, WayBack, Making, Renewing, Dropping
<1> QED BY <1>2, <1>3, PassOn

LEMMA EraseTotpInv ==
    ASSUME IInv, OneProcess, NEW p \in Procs, EraseTotp(p)
    PROVE  IInv'
<1> PICK j \in At(p, "drop_totp") :
      /\ totp' = [totp EXCEPT ![j.old] = Nil]
      /\ Goto(p, j, "drop_share")
      /\ UNCHANGED <<vault, share2, row, users, papers, docs, shown, entering, made, mixed, founded, adrift>>
  BY DEF EraseTotp
<1>1. j \in job[p] /\ j.at = "drop_totp"
  BY DEF At
<1>2. Way(j) /\ Written(j) /\ j.old \in HWIDs
  BY <1>1, JobFacts
<1>3. "drop_share" \in Places \ {"issue", "replace"} /\ "drop_share" \in Dropping
  BY DEF Places, Dropping
<1>4. StoresOK'
  BY <1>2 DEF StoresOK, IInv, TypeOK
<1>5. \A k \in Job : /\ k.at = "drop_share" /\ k.op = j.op /\ k.h = j.h /\ k.old = j.old
                     /\ k.line = j.line /\ k.token = j.token /\ k.back = j.back /\ k.back2 = j.back2
                     => Way(k) /\ Written(k) /\ WayBack(k)
  BY <1>1, <1>2 DEF Way, Written, WayBack, Making, Renewing, Dropping
<1> QED BY <1>1, <1>3, <1>4, <1>5, PassOn

LEMMA DeleteRowInv ==
    ASSUME IInv, OneProcess, NEW p \in Procs, DeleteRow(p)
    PROVE  IInv'
<1> DEFINE next(j) == IF j.at = "drop_row" THEN "drop_file" ELSE "file"
<1> PICK j \in job[p] :
      /\ j.at \in {"drop_row", "reset_row"}
      /\ row' = [row EXCEPT ![j.old] = NoRow]
      /\ Goto(p, j, next(j))
      /\ UNCHANGED <<vault, share2, totp, users, papers, docs, shown, entering, made, mixed, founded, adrift>>
  BY DEF DeleteRow
<1>1. Way(j) /\ Written(j) /\ j.old \in HWIDs
  BY JobFacts
<1>2. next(j) \in Places \ {"issue", "replace"} /\ (j.at \in Dropping \cup {"move"} => next(j) \in Dropping)
  BY DEF Places, Dropping
<1>3. StoresOK'
  BY <1>1 DEF StoresOK, IInv, TypeOK
<1>4. \A k \in Job : /\ k.at = next(j) /\ k.op = j.op /\ k.h = j.h /\ k.old = j.old
                     /\ k.line = j.line /\ k.token = j.token /\ k.back = j.back /\ k.back2 = j.back2
                     => Way(k) /\ Written(k) /\ WayBack(k)
  BY <1>1 DEF Way, Written, WayBack, Making, Renewing, Dropping
<1> HIDE DEF next
<1> QED BY <1>2, <1>3, <1>4, PassOn

LEMMA ReprovisionFailsInv ==
    ASSUME IInv, OneProcess, NEW p \in Procs, ReprovisionFails(p)
    PROVE  IInv'
<1> PICK j \in job[p] :
      /\ j.op \in {"recover", "takeover"} /\ j.at \in {"share", "row"}
      /\ Goto(p, j, "undo_file")
      /\ UNCHANGED <<vault, share2, row, totp, users, papers, docs, shown, entering, made, mixed, founded, adrift>>
  BY DEF ReprovisionFails
<1>1. Way(j) /\ Written(j) /\ WayBack(j)
  BY JobFacts
<1>2. "undo_file" \in Places \ {"issue", "replace"} /\ j.at \notin Dropping \cup {"move"} /\ StoresOK'
  BY DEF Places, Dropping, StoresOK, IInv, TypeOK
<1>3. \A k \in Job : /\ k.at = "undo_file" /\ k.op = j.op /\ k.h = j.h /\ k.old = j.old
                     /\ k.line = j.line /\ k.token = j.token /\ k.back = j.back /\ k.back2 = j.back2
                     => Way(k) /\ Written(k) /\ WayBack(k)
  BY <1>1 DEF Way, Written, WayBack, Making, Renewing, Dropping
<1> QED BY <1>2, <1>3, PassOn

\* The staged vault that does not open, and whatever is cut short.
LEMMA StopInv ==
    ASSUME IInv, OneProcess, TakeoverRunsThrough, NEW p \in Procs, _hazirlanan_kasayi_dogrula(p) \/ Kill(p)
    PROVE  IInv'
<1> PICK j \in job[p] :
      /\ j.op # "takeover" \/ j.at = "replace"
      /\ End(p)
      /\ UNCHANGED <<vault, share2, row, totp, users, papers, docs, shown, entering, made, mixed, founded, adrift>>
  BY DEF _hazirlanan_kasayi_dogrula, Kill, At, TakeoverRunsThrough
<1>1. StoresOK'
  BY DEF StoresOK, IInv, TypeOK
<1> QED BY <1>1, Approved, FinishOn

LEMMA MarkIssuedInv ==
    ASSUME IInv, OneProcess, NEW p \in Procs, MarkIssued(p)
    PROVE  IInv'
<1> PICK j \in At(p, "issue") :
      /\ row' = [row EXCEPT ![j.h].issued = TRUE]
      /\ IF j.op = "takeover" THEN Goto(p, j, "check") ELSE End(p)
      /\ UNCHANGED <<vault, share2, totp, users, papers, docs, shown, entering, made, mixed, founded, adrift>>
  BY DEF MarkIssued
<1>1. j \in job[p] /\ j.at = "issue"
  BY DEF At
<1>2. Way(j) /\ Written(j) /\ j.h \in HWIDs
  BY <1>1, JobFacts
<1>3. row' \in [HWIDs -> Row \cup {NoRow}]
  <2> DEFINE r == [row[j.h] EXCEPT !.issued = TRUE]
  <2>1. row \in [HWIDs -> Row \cup {NoRow}] /\ row[j.h] # NoRow
    BY <1>1 DEF IInv, TypeOK, RowInv
  <2>2. r \in Row
    BY <1>2, <2>1 DEF Row
  <2>3. row' = [row EXCEPT ![j.h] = r]
    BY <2>1
  <2> HIDE DEF r
  <2> QED BY <1>2, <2>1, <2>2, <2>3
<1>4. StoresOK'
  BY <1>3 DEF StoresOK, IInv, TypeOK
<1>5. CASE j.op = "takeover"
  <2>1. /\ Goto(p, j, "check") /\ "check" \in Places \ {"issue", "replace"} /\ j.at \notin Dropping \cup {"move"}
        /\ UNCHANGED <<vault, share2, docs, users, papers, made>>
    BY <1>1, <1>5 DEF Places, Dropping
  <2>2. \A k \in Job : /\ k.at = "check" /\ k.op = j.op /\ k.h = j.h /\ k.old = j.old
                       /\ k.line = j.line /\ k.token = j.token /\ k.back = j.back /\ k.back2 = j.back2
                       => Way(k) /\ Written(k) /\ WayBack(k)
    BY <1>1, <1>2, <1>5 DEF Way, Written, WayBack, Making, Renewing, Dropping
  <2> QED BY <1>1, <1>4, <2>1, <2>2, PassOn
<1>6. CASE j.op # "takeover"
  <2>1. End(p) /\ UNCHANGED <<vault, share2, docs, users, papers, made>>
    BY <1>6
  <2> QED BY <1>1, <1>4, <1>6, <2>1, Approved, FinishOn
<1> QED BY <1>5, <1>6

\* The new vault opens and the takeover goes on; or it does not, and the takeover
\* discards it.
LEMMA TakeoverInv ==
    ASSUME IInv, OneProcess, NEW p \in Procs, takeover_usb(p)
    PROVE  IInv'
<1> PICK j \in At(p, "check") :
      /\ \/ Goto(p, j, "copy")
         \/ job' = [job EXCEPT ![p] = {[j EXCEPT !.at = "drop_totp", !.old = j.h]}]
      /\ UNCHANGED <<vault, share2, row, totp, users, papers, docs, shown, entering, made, mixed, founded, adrift>>
  BY DEF takeover_usb
<1>1. j \in job[p] /\ j.at = "check"
  BY DEF At
<1>2. /\ j \in Job /\ j.h \in HWIDs /\ j.op = "takeover"
      /\ Way(j) /\ Owner(j) /\ Written(j) /\ WayBack(j)
  BY <1>1, JobFacts DEF Way
<1>3. StoresOK' /\ UNCHANGED <<vault, share2, docs, users, papers, made>>
  BY DEF StoresOK, IInv, TypeOK
<1>4. j.at \notin Dropping \cup {"move"}
  BY <1>1 DEF Dropping
<1>5. CASE Goto(p, j, "copy")
  <2>1. "copy" \in Places \ {"issue", "replace"}
    BY DEF Places
  <2>2. \A k \in Job : /\ k.at = "copy" /\ k.op = j.op /\ k.h = j.h /\ k.old = j.old
                       /\ k.line = j.line /\ k.token = j.token /\ k.back = j.back /\ k.back2 = j.back2
                       => Way(k) /\ Written(k) /\ WayBack(k)
    BY <1>1, <1>2 DEF Way, Written, WayBack, Making, Renewing, Dropping
  <2> QED BY <1>1, <1>3, <1>4, <1>5, <2>1, <2>2, PassOn
<1>6. CASE job' = [job EXCEPT ![p] = {[j EXCEPT !.at = "drop_totp", !.old = j.h]}]
  <2> DEFINE k == [j EXCEPT !.at = "drop_totp", !.old = j.h]
  <2>1. /\ k \in Job /\ k.at = "drop_totp" /\ k.op = j.op /\ k.h = j.h /\ k.old = j.h
        /\ k.line = j.line /\ k.token = j.token /\ k.back = j.back /\ k.back2 = j.back2
    BY <1>2 DEF Job, Places
  <2>2. job' = [job EXCEPT ![p] = {k}]
    BY <1>6
  <2> HIDE DEF k
  <2>3. /\ job' \in [Procs -> SUBSET Job]
        /\ \A q \in Procs : \A i, l \in job'[q] : i = l
        /\ \A q \in Procs : job'[q] = {k}
    BY <2>1, <2>2, ReplaceType DEF IInv
  <2>4. TypeOK' /\ RowInv'
    BY <1>3, <2>1, <2>3 DEF TypeOK, StoresOK, RowInv
  <2>5. Way(k) /\ Written(k) /\ WayBack(k)
    BY <1>2, <2>1 DEF Way, Written, WayBack, Making, Renewing, Dropping
  <2>6. Owner(k)
    BY <1>2, <2>1 DEF Owner, Making, Renewing
  <2> QED BY <1>1, <1>3, <1>4, <2>1, <2>3, <2>4, <2>5, <2>6, MoveOnInv
<1> QED BY <1>5, <1>6

LEMMA CopyTotpInv ==
    ASSUME IInv, OneProcess, NEW p \in Procs, CopyTotp(p)
    PROVE  IInv'
<1> PICK j \in At(p, "copy") :
      /\ totp' = IF totp[j.old] = Nil THEN totp ELSE [totp EXCEPT ![j.h] = totp[j.old]]
      /\ Goto(p, j, "drop_totp")
      /\ adrift' = adrift \cup {j.old}
      /\ UNCHANGED <<vault, share2, row, users, papers, docs, shown, entering, made, mixed, founded>>
  BY DEF CopyTotp
<1>1. j \in job[p] /\ j.at = "copy"
  BY DEF At
<1>2. /\ j.h \in HWIDs /\ j.old \in HWIDs /\ j.op = "takeover"
      /\ Way(j) /\ Written(j) /\ WayBack(j)
  BY <1>1, JobFacts DEF Way
<1>3. StoresOK'
  <2>1. totp \in [HWIDs -> Lines \cup {Nil}] /\ totp[j.old] \in Lines \cup {Nil}
    BY <1>2 DEF IInv, TypeOK
  <2>2. totp' \in [HWIDs -> Lines \cup {Nil}]
    BY <2>1
  <2> QED BY <1>2, <2>2 DEF StoresOK, IInv, TypeOK
<1>4. "drop_totp" \in Places \ {"issue", "replace"} /\ j.at \notin Dropping \cup {"move"}
  BY <1>1 DEF Places, Dropping
<1>5. \A k \in Job : /\ k.at = "drop_totp" /\ k.op = j.op /\ k.h = j.h /\ k.old = j.old
                     /\ k.line = j.line /\ k.token = j.token /\ k.back = j.back /\ k.back2 = j.back2
                     => Way(k) /\ Written(k) /\ WayBack(k)
  <2> SUFFICES ASSUME NEW k \in Job,
                      k.at = "drop_totp", k.op = j.op, k.h = j.h, k.old = j.old, k.line = j.line
               PROVE  Way(k) /\ Written(k) /\ WayBack(k)
    OBVIOUS
  <2>1. j.old # j.h
    BY <1>1, <1>2 DEF Way, Dropping
  <2>2. Way(k) /\ WayBack(k)
    BY <1>2, <2>1 DEF Way, WayBack, Dropping
  <2>3. Stored(j.h, j.line) /\ share2[j.h] = j.line
    BY <1>1, <1>2 DEF Written, Renewing, Stored
  <2>4. Written(k)
    BY <1>2, <2>3 DEF Written
  <2> QED BY <2>2, <2>4
<1>6. Goto(p, j, "drop_totp") /\ UNCHANGED <<vault, share2, docs, users, papers, made>>
  OBVIOUS
<1> QED BY <1>1, <1>3, <1>4, <1>5, <1>6, PassOn

-----------------------------------------------------------------------------
\* The steps that write a vault file or share 2: what their proofs have in common.
LEMMA LineKept ==
    ASSUME IInv, NEW p \in Procs, NEW j \in job[p], UNCHANGED made,
           \A h \in HWIDs : vault'[h] # NoVault =>
               vault'[h] = vault[h] \/ (vault'[h].line <= made /\ vault'[h].signer = vault'[h].line),
           \A h \in HWIDs : share2'[h] = share2[h] \/ share2'[h] <= made,
           \A q \in Procs : \A k \in job'[q] :
               /\ k.line = j.line /\ k.back2 <= made
               /\ k.back # NoVault => k.back.line <= made /\ k.back.signer = k.back.line
    PROVE  LineInv'
<1>1. /\ \A h \in HWIDs :
          /\ vault[h] # NoVault => vault[h].line <= made /\ vault[h].signer = vault[h].line
          /\ share2[h] <= made
      /\ j.line <= made /\ made' = made
  BY DEF IInv, LineInv
<1>2. \A h \in HWIDs :
        /\ vault'[h] # NoVault => vault'[h].line <= made' /\ vault'[h].signer = vault'[h].line
        /\ share2'[h] <= made'
  BY <1>1, Zenon
<1>3. \A q \in Procs : \A k \in job'[q] :
        /\ k.line <= made'
        /\ k.back # NoVault => k.back.line <= made' /\ k.back.signer = k.back.line
        /\ k.back2 <= made'
  BY <1>1, Zenon
<1> QED BY <1>2, <1>3, Zenon DEF LineInv

LEMMA ApartKept ==
    ASSUME IInv, NEW h \in HWIDs,
           \A g \in HWIDs \ {h} : vault'[g] = vault[g] /\ share2'[g] = share2[g],
           \A g \in HWIDs \ {h}, l \in Lines : Has(h, l)' =>
               \/ Has(h, l) /\ ~Shared(g, h, l)
               \/ ~Has(g, l)
               \/ Shared(g, h, l)',
           \A f, g \in HWIDs \ {h}, l \in Lines : Shared(f, g, l) => Shared(f, g, l)'
    PROVE  ApartInv'
<1> SUFFICES ASSUME NEW f \in HWIDs, NEW g \in HWIDs, NEW l \in Lines, f # g, Has(f, l)', Has(g, l)'
             PROVE  Shared(f, g, l)'
  BY DEF ApartInv
<1>1. \A e \in HWIDs \ {h} : Has(e, l)' => Has(e, l)
  BY DEF Has, Stored
<1>2. Has(f, l) /\ Has(g, l) => Shared(f, g, l)
  BY DEF IInv, ApartInv
<1>3. CASE f # h /\ g # h
  BY <1>1, <1>2, <1>3
<1>4. CASE f = h
  BY <1>1, <1>2, <1>4 DEF Shared
<1>5. CASE g = h
  <2>1. Shared(f, g, l) => Shared(g, f, l)
    BY DEF Shared
  <2>2. Shared(g, f, l)' => Shared(f, g, l)'
    BY DEF Shared
  <2> QED BY <1>1, <1>2, <1>5, <2>1, <2>2
<1> QED BY <1>3, <1>4, <1>5

\* The one operation there is.
LEMMA TheOne ==
    ASSUME IInv, OneProcess, NEW p \in Procs, NEW j \in job[p]
    PROVE  \A q \in Procs : \A i \in job[q] : i = j
BY DEF IInv, TypeOK, OneProcess

\* An operation that goes on has its facts to itself.
LEMMA JobKept ==
    ASSUME NEW k, \A q \in Procs : job'[q] = {k}, Way(k)', Owner(k)', Written(k)', WayBack(k)'
    PROVE  JobInv'
BY DEF JobInv

LEMMA CreateFileInv ==
    ASSUME IInv, OneProcess, NEW p \in Procs, CreateFile(p)
    PROVE  IInv'
<1> PICK j \in At(p, "file") :
      /\ _rewrite_vault(j.h, j.line, j.token, j.line)
      /\ Goto(p, j, "share")
      /\ UNCHANGED <<share2, row, totp, users, papers, docs, shown, entering, made, mixed, founded, adrift>>
  BY DEF CreateFile
<1>1. j \in job[p] /\ j.at = "file"
  BY DEF At
<1>2. /\ j \in Job /\ j.h \in HWIDs /\ j.op \in Making /\ j.line \in Lines /\ j.token \in Lines
      /\ Way(j) /\ Owner(j) /\ Written(j) /\ docs[j.h] = {}
      /\ \A g \in HWIDs \ {j.h} : ~Has(g, j.line)
  BY <1>1, JobFacts DEF Way, Owner, Making, Renewing
<1>3. /\ vault' \in [HWIDs -> Vault \cup {NoVault}]
      /\ vault'[j.h] # NoVault /\ vault'[j.h].line = j.line /\ vault'[j.h].signer = j.line
      /\ \A g \in HWIDs \ {j.h} : vault'[g] = vault[g]
  BY <1>2, RewriteType
<1>4. StoresOK' /\ "share" \in Places \ {"issue"}
  BY <1>3 DEF StoresOK, IInv, TypeOK, Places
<1>5. TypeOK' /\ RowInv'
  BY <1>1, <1>4, GotoTyped
<1>6. PICK k \in Job :
        /\ \A q \in Procs : job'[q] = {k}
        /\ k.at = "share" /\ k.op = j.op /\ k.h = j.h /\ k.old = j.old
        /\ k.line = j.line /\ k.token = j.token /\ k.back = j.back /\ k.back2 = j.back2
  BY <1>1, <1>4, GotoType DEF IInv
<1>7. LineInv'
  <2>1. /\ j.line <= made /\ j.back2 <= made
        /\ j.back # NoVault => j.back.line <= made /\ j.back.signer = j.back.line
    BY <1>1 DEF IInv, LineInv
  <2> QED BY <1>1, <1>2, <1>3, <1>6, <2>1, LineKept
<1>8. ApartInv'
  <2>1. \A f, g \in HWIDs, l \in Lines : ~Shared(f, g, l)
    BY <1>1, <1>2, TheOne DEF Shared, Making
  <2>2. \A g \in HWIDs \ {j.h}, l \in Lines : Has(j.h, l)' => Has(j.h, l) \/ ~Has(g, l)
    BY <1>2, <1>3 DEF Has, Stored
  <2> QED BY <1>2, <1>3, <2>1, <2>2, ApartKept
<1>9. DocInv'
  <2> SUFFICES ASSUME NEW h \in HWIDs, NEW l \in docs[h]
               PROVE  Kept(h, l)'
    BY DEF DocInv
  <2>1. Kept(h, l) /\ h # j.h
    BY <1>2 DEF IInv, DocInv
  <2>2. ~TakenOver(h, l)
    BY <1>1, <1>2, TheOne DEF TakenOver, Making
  <2>3. Pair(h, l)'
    BY <1>3, <2>1, <2>2 DEF Kept, Pair
  <2> QED BY <1>3, <2>1, <2>3 DEF Kept
<1>10. JobInv'
  <2>1. Way(k)'
    BY <1>1, <1>2, <1>6 DEF Way, Making, Dropping
  <2>2. Owner(k)'
    BY <1>2, <1>3, <1>6 DEF Owner, Has, Stored, Making, Renewing
  <2>3. Written(k)' /\ WayBack(k)'
    BY <1>2, <1>6 DEF Written, WayBack, Making, Renewing
  <2> QED BY <1>6, <2>1, <2>2, <2>3, JobKept
<1> QED BY <1>5, <1>7, <1>8, <1>9, <1>10 DEF IInv

LEMMA SaveShareInv ==
    ASSUME IInv, OneProcess, NEW p \in Procs, _save_usb_token(p)
    PROVE  IInv'
<1> PICK j \in At(p, "share") :
      /\ share2' = [share2 EXCEPT ![j.h] = j.line]
      /\ Goto(p, j, "row")
      /\ UNCHANGED <<vault, row, totp, users, papers, docs, shown, entering, made, mixed, founded, adrift>>
  BY DEF _save_usb_token
<1>1. j \in job[p] /\ j.at = "share"
  BY DEF At
<1>2. /\ j \in Job /\ j.h \in HWIDs /\ j.op \in Making \cup Renewing /\ j.line \in Lines
      /\ Way(j) /\ Owner(j) /\ Written(j) /\ WayBack(j)
  BY <1>1, JobFacts DEF Way, Owner, Making, Renewing
<1>3. /\ share2' \in [HWIDs -> Lines \cup {Nil}] /\ share2'[j.h] = j.line
      /\ \A g \in HWIDs \ {j.h} : share2'[g] = share2[g]
  BY <1>2 DEF IInv, TypeOK
<1>4. StoresOK' /\ "row" \in Places \ {"issue"}
  BY <1>3 DEF StoresOK, IInv, TypeOK, Places
<1>5. TypeOK' /\ RowInv'
  BY <1>1, <1>4, GotoTyped
<1>6. PICK k \in Job :
        /\ \A q \in Procs : job'[q] = {k}
        /\ k.at = "row" /\ k.op = j.op /\ k.h = j.h /\ k.old = j.old
        /\ k.line = j.line /\ k.token = j.token /\ k.back = j.back /\ k.back2 = j.back2
  BY <1>1, <1>4, GotoType DEF IInv
<1>7. LineInv'
  <2>1. /\ j.line <= made /\ j.back2 <= made
        /\ j.back # NoVault => j.back.line <= made /\ j.back.signer = j.back.line
    BY <1>1 DEF IInv, LineInv
  <2> QED BY <1>1, <1>2, <1>3, <1>6, <2>1, LineKept
<1>8. ApartInv'
  <2>1. \A f, g \in HWIDs, l \in Lines : Shared(f, g, l) => Shared(f, g, l)' /\ j.op = "takeover"
    BY <1>1, <1>6, TheOne DEF Shared
  <2>2. ASSUME NEW g \in HWIDs \ {j.h}, NEW l \in Lines, Has(j.h, l)'
        PROVE  (Has(j.h, l) /\ ~Shared(g, j.h, l)) \/ ~Has(g, l) \/ Shared(g, j.h, l)'
    <3>1. CASE Has(j.h, l)
      BY <1>2, <2>1, <3>1
    <3>2. CASE ~Has(j.h, l)
      <4>1. l = j.line
        BY <1>3, <2>2, <3>2 DEF Has, Stored
      <4>2. CASE j.op = "takeover"
        BY <1>6, <4>1, <4>2 DEF Shared
      <4>3. CASE j.op # "takeover"
        BY <1>2, <4>1, <4>3 DEF Way, Owner, Making, Renewing
      <4> QED BY <4>2, <4>3
    <3> QED BY <3>1, <3>2
  <2> QED BY <1>2, <1>3, <2>1, <2>2, ApartKept
<1>9. DocInv'
  <2> SUFFICES ASSUME NEW h \in HWIDs, NEW l \in docs[h]
               PROVE  Kept(h, l)'
    BY DEF DocInv
  <2>1. Kept(h, l)
    BY DEF IInv, DocInv
  <2>2. ~TakenOver(h, l)
    BY <1>1, TheOne DEF TakenOver, Dropping
  <2>3. CASE h # j.h
    <3>1. Pair(h, l)'
      BY <1>3, <2>1, <2>2, <2>3 DEF Kept, Pair
    <3> QED BY <1>3, <2>1, <2>3, <3>1 DEF Kept
  <2>4. CASE h = j.h
    <3>1. j.op = "recover" /\ j.old = j.h
      BY <1>2, <2>4 DEF Way, Owner, Making, Renewing
    <3>2. l = j.line /\ vault[j.h] # NoVault
      BY <1>1, <1>2, <2>4, <3>1 DEF Owner, Written, Renewing, Stored
    <3>3. Pair(h, l)'
      BY <1>3, <2>4, <3>2 DEF Pair
    <3> QED BY <1>3, <2>1, <2>4, <3>2, <3>3 DEF Kept
  <2> QED BY <2>3, <2>4
<1>10. JobInv'
  <2>1. Way(k)'
    BY <1>1, <1>2, <1>6 DEF Way, Making, Renewing, Dropping
  <2>2. \A g \in HWIDs \ {j.h}, l \in Lines : Has(g, l)' => Has(g, l)
    BY <1>3 DEF Has, Stored
  <2>3. Owner(k)'
    BY <1>2, <1>6, <2>2 DEF Owner
  <2>4. Written(k)'
    BY <1>1, <1>2, <1>3, <1>6 DEF Written, Stored, Making, Renewing, Dropping
  <2>5. WayBack(k)'
    <3>1. j.op \in Renewing =>
            /\ \A g \in HWIDs \ {j.h} :
                /\ j.back # NoVault => ~Has(g, j.back.line)
                /\ j.back2 # Nil => ~Has(g, j.back2)
            /\ docs[j.h] # {} =>
                /\ j.back # NoVault => j.back.line = j.line
                /\ j.back2 \in {Nil, j.line}
                /\ j.back # NoVault \/ j.back2 = j.line
      BY <1>1, <1>2 DEF WayBack
    <3>2. \A g \in HWIDs \ {j.h} : \A l : Has(g, l)' => Has(g, l)
      BY <1>3 DEF Has, Stored
    <3> QED BY <1>3, <1>6, <3>1, <3>2 DEF WayBack
  <2> QED BY <1>6, <2>1, <2>3, <2>4, <2>5, JobKept
<1> QED BY <1>5, <1>7, <1>8, <1>9, <1>10 DEF IInv

\* Share 2 of the token that is discarded or reset.
ShareGone(j, k) ==
    \/ j.at = "drop_share" /\ k.at = "drop_row"
    \/ j.at = "reset_share" /\ k.at = "reset_row"

LEMMA ShareGoneInv ==
    ASSUME IInv, OneProcess, NEW p \in Procs, NEW j \in job[p], NEW k \in Job, \A q \in Procs : job'[q] = {k}, TypeOK', RowInv',
           k.op = j.op, k.h = j.h, k.old = j.old, k.line = j.line, k.token = j.token, k.back = j.back, k.back2 = j.back2,
           ShareGone(j, k),
           share2' = [share2 EXCEPT ![j.old] = Nil],
           UNCHANGED <<vault, users, papers, docs, made>>
    PROVE  IInv'
<1>1. \A q \in Procs : q = p /\ \A i \in job[q] : i = j
  BY DEF IInv, TypeOK, OneProcess
<1>2. /\ j \in Job /\ j.h \in HWIDs /\ j.old \in HWIDs
      /\ Way(j) /\ Owner(j) /\ Written(j)
  BY JobFacts
<1>3. /\ share2'[j.old] = Nil
      /\ \A g \in HWIDs \ {j.old} : share2'[g] = share2[g]
  BY <1>2 DEF IInv, TypeOK
<1>4. k.at # "replace" /\ (j.at \in Dropping \cup {"move"} => k.at \in Dropping \cup {"move"})
  BY DEF ShareGone, Dropping
<1>7. LineInv'
  <2>1. /\ j.line <= made /\ j.back2 <= made
        /\ j.back # NoVault => j.back.line <= made /\ j.back.signer = j.back.line
    BY DEF IInv, LineInv
  <2>2. share2'[j.old] <= made
    <3>1. made \in 0..MaxMade
      BY DEF IInv, TypeOK
    <3> QED BY <1>3, <3>1, NatType
  <2> QED BY <1>2, <1>3, <2>1, <2>2, LineKept
<1>8. ApartInv'
  <2>1. \A f, g \in HWIDs, l \in Lines : Shared(f, g, l) => Shared(f, g, l)'
    BY <1>1, <1>4 DEF Shared
  <2>2. \A l \in Lines : Has(j.old, l)' => Has(j.old, l)
    BY <1>3, NilIsNoLine DEF Has, Stored
  <2> QED BY <1>2, <1>3, <2>1, <2>2, ApartKept
<1>9. DocInv'
  <2> SUFFICES ASSUME NEW h \in HWIDs, NEW l \in docs[h]
               PROVE  Kept(h, l)'
    BY DEF DocInv
  <2>1. Kept(h, l)
    BY DEF IInv, DocInv
  <2>2. TakenOver(h, l) => TakenOver(h, l)'
    BY <1>1, <1>4 DEF TakenOver
  <2>3. CASE h # j.old
    <3>1. Pair(h, l) => Pair(h, l)'
      BY <1>3, <2>3 DEF Pair
    <3> QED BY <1>3, <2>1, <2>2, <2>3, <3>1 DEF Kept
  <2>4. CASE h = j.old
    <3>1. j.op = "takeover" /\ j.old # j.h /\ j.at = "drop_share"
      BY <1>2, <2>4 DEF ShareGone, Way, Owner, Making, Dropping
    <3>2. l = j.line
      BY <1>2, <2>4, <3>1 DEF Owner
    <3>3. TakenOver(h, l)'
      BY <2>4, <3>1, <3>2 DEF ShareGone, TakenOver, Dropping
    <3> QED BY <1>3, <2>1, <2>4, <3>3 DEF Kept
  <2> QED BY <2>3, <2>4
<1>10. JobInv'
  <2>1. Way(k)'
    BY <1>2 DEF ShareGone, Way, Making, Renewing, Dropping
  <2>2. \A g \in HWIDs, l \in Lines : Has(g, l)' => Has(g, l)
    BY <1>3, NilIsNoLine DEF Has, Stored
  <2>3. Owner(k)'
    <3>1. j.op \in Making \cup Renewing \cup {"rewrite"} => j.line \in Lines /\ j.token \in Lines
      BY <1>2 DEF Owner
    <3> QED BY <1>2, <2>2, <3>1 DEF Owner, Making, Renewing
  <2>4. Written(k)'
    BY <1>2, <1>3 DEF ShareGone, Written, Way, Stored, Making, Renewing, Dropping
  <2>5. WayBack(k)'
    BY DEF ShareGone, WayBack
  <2> QED BY <2>1, <2>3, <2>4, <2>5, JobKept
<1> QED BY <1>7, <1>8, <1>9, <1>10 DEF IInv

LEMMA DeleteShareInv ==
    ASSUME IInv, OneProcess, NEW p \in Procs, delete_usb_token(p)
    PROVE  IInv'
<1>1. /\ {"drop_row", "reset_row"} \subseteq Places \ {"issue"}
      /\ \A j \in job[p], at \in Places : Goto(p, j, at) =>
            \E k \in Job : /\ \A q \in Procs : job'[q] = {k}
                           /\ k.at = at /\ k.op = j.op /\ k.h = j.h /\ k.old = j.old
                           /\ k.line = j.line /\ k.token = j.token /\ k.back = j.back /\ k.back2 = j.back2
  <2>1. {"drop_row", "reset_row"} \subseteq Places \ {"issue"}
    BY DEF Places
  <2>3. TypeOK
    BY DEF IInv
  <2>2. ASSUME NEW j \in job[p], NEW at \in Places, Goto(p, j, at)
        PROVE  \E k \in Job :
                 /\ \A q \in Procs : job'[q] = {k}
                 /\ k.at = at /\ k.op = j.op /\ k.h = j.h /\ k.old = j.old
                 /\ k.line = j.line /\ k.token = j.token /\ k.back = j.back /\ k.back2 = j.back2
    BY <2>2, <2>3, GotoType
  <2> QED BY <2>1, <2>2
<1>2. ASSUME NEW j \in job[p], j.at = "drop_share", Goto(p, j, "drop_row"),
             share2' = [share2 EXCEPT ![j.old] = Nil],
             UNCHANGED <<vault, row, totp, users, papers, docs, shown, entering, made, mixed, founded, adrift>>
      PROVE  IInv'
  <2>1. j.old \in HWIDs
    BY JobFacts
  <2>2. StoresOK'
    BY <2>1, <1>2 DEF StoresOK, IInv, TypeOK
  <2>3. TypeOK' /\ RowInv'
    BY <1>1, <1>2, <2>2, GotoTyped
  <2> PICK k \in Job :
        /\ \A q \in Procs : job'[q] = {k}
        /\ k.at = "drop_row" /\ k.op = j.op /\ k.h = j.h /\ k.old = j.old
        /\ k.line = j.line /\ k.token = j.token /\ k.back = j.back /\ k.back2 = j.back2
    BY <1>1, <1>2
  <2>4. ShareGone(j, k)
    BY <1>2 DEF ShareGone
  <2> QED BY <1>2, <2>3, <2>4, ShareGoneInv
<1>3. ASSUME NEW j \in job[p], j.at = "reset_share", Goto(p, j, "reset_row"),
             share2' = [share2 EXCEPT ![j.old] = Nil],
             UNCHANGED <<vault, row, totp, users, papers, docs, shown, entering, made, mixed, founded, adrift>>
      PROVE  IInv'
  <2>1. j.old \in HWIDs
    BY JobFacts
  <2>2. StoresOK'
    BY <2>1, <1>3 DEF StoresOK, IInv, TypeOK
  <2>3. TypeOK' /\ RowInv'
    BY <1>1, <1>3, <2>2, GotoTyped
  <2> PICK k \in Job :
        /\ \A q \in Procs : job'[q] = {k}
        /\ k.at = "reset_row" /\ k.op = j.op /\ k.h = j.h /\ k.old = j.old
        /\ k.line = j.line /\ k.token = j.token /\ k.back = j.back /\ k.back2 = j.back2
    BY <1>1, <1>3
  <2>4. ShareGone(j, k)
    BY <1>3 DEF ShareGone
  <2> QED BY <1>3, <2>3, <2>4, ShareGoneInv
<1> QED BY <1>2, <1>3 DEF delete_usb_token

\* The vault file of the token that is discarded: a takeover has then only the
\* account to move, any other operation is over.
LEMMA UnlinkVaultInv ==
    ASSUME IInv, OneProcess, NEW p \in Procs, UnlinkVault(p)
    PROVE  IInv'
<1>0. PICK j \in At(p, "drop_file") :
      /\ vault' = [vault EXCEPT ![j.old] = NoVault]
      /\ IF j.old # j.h THEN Goto(p, j, "move") /\ UNCHANGED adrift
         ELSE End(p) /\ adrift' = adrift \ ({j.h} \ entering)
      /\ UNCHANGED <<share2, row, totp, users, papers, docs, shown, entering, made, mixed, founded>>
  BY DEF UnlinkVault
<1>1. j \in job[p] /\ j.at = "drop_file"
  BY <1>0 DEF At
<1>2. /\ j \in Job /\ j.h \in HWIDs /\ j.old \in HWIDs
      /\ Way(j) /\ Owner(j) /\ Written(j)
  BY <1>1, JobFacts
<1>3. /\ vault' \in [HWIDs -> Vault \cup {NoVault}] /\ vault'[j.old] = NoVault
      /\ \A g \in HWIDs \ {j.old} : vault'[g] = vault[g]
  BY <1>0, <1>2 DEF IInv, TypeOK
<1>4. StoresOK'
  BY <1>0, <1>3 DEF StoresOK, IInv, TypeOK
<1>5. UNCHANGED <<share2, users, papers, docs, made>> /\ share2[j.old] = Nil
  BY <1>0, <1>1, <1>2 DEF Written
<1>6. \A g \in HWIDs, l \in Lines : (Has(g, l)' => Has(g, l)) /\ ~Has(j.old, l)'
  BY <1>3, <1>5, NilIsNoLine DEF Has, Stored
<1>7. CASE j.old # j.h
  <2>1. Goto(p, j, "move") /\ "move" \in Places \ {"issue"}
    BY <1>0, <1>7 DEF Places
  <2>2. TypeOK' /\ RowInv'
    BY <1>1, <1>4, <2>1, GotoTyped
  <2>3. PICK k \in Job :
          /\ \A q \in Procs : job'[q] = {k}
          /\ k.at = "move" /\ k.op = j.op /\ k.h = j.h /\ k.old = j.old
          /\ k.line = j.line /\ k.token = j.token /\ k.back = j.back /\ k.back2 = j.back2
    BY <1>1, <2>1, GotoType DEF IInv
  <2>4. j.op = "takeover" /\ j.line \in Lines /\ Stored(j.h, j.line) /\ share2[j.h] = j.line
    BY <1>1, <1>2, <1>7 DEF Way, Owner, Written, Renewing, Dropping
  <2>5. LineInv'
    <3>1. /\ j.line <= made /\ j.back2 <= made
          /\ j.back # NoVault => j.back.line <= made /\ j.back.signer = j.back.line
      BY <1>1 DEF IInv, LineInv
    <3> QED BY <1>1, <1>3, <1>5, <2>3, <3>1, LineKept
  <2>6. ApartInv'
    <3>1. \A f, g \in HWIDs, l \in Lines : Shared(f, g, l) => Shared(f, g, l)'
      BY <1>1, <2>3, TheOne DEF Shared
    <3> QED BY <1>2, <1>3, <1>5, <1>6, <3>1, ApartKept
  <2>7. DocInv'
    <3> SUFFICES ASSUME NEW h \in HWIDs, NEW l \in docs[h]
                 PROVE  Kept(h, l)'
      BY <1>5 DEF DocInv
    <3>1. Kept(h, l)
      BY DEF IInv, DocInv
    <3>2. TakenOver(h, l) => TakenOver(h, l)'
      BY <1>1, <2>3, TheOne DEF TakenOver
    <3>3. CASE h # j.old
      <4>1. Pair(h, l) => Pair(h, l)'
        BY <1>3, <1>5, <3>3 DEF Pair
      <4> QED BY <1>3, <1>5, <3>1, <3>2, <3>3, <4>1 DEF Kept
    <3>4. CASE h = j.old
      <4>1. l = j.line
        BY <1>2, <1>7, <2>4, <3>4 DEF Owner
      <4>2. TakenOver(h, l)'
        BY <1>7, <2>3, <2>4, <3>4, <4>1 DEF TakenOver
      <4> QED BY <1>3, <1>5, <3>1, <3>4, <4>2 DEF Kept
    <3> QED BY <3>3, <3>4
  <2>8. JobInv'
    <3>1. Way(k)'
      BY <1>2, <1>7, <2>3, <2>4 DEF Way, Renewing, Dropping
    <3>2. Owner(k)'
      <4>1. j.token \in Lines /\ docs[j.h] = {} /\ j.line \in papers /\ docs[j.old] \subseteq {j.line}
            /\ \A g \in HWIDs \ {j.h, j.old} : ~Has(g, j.line)
        BY <1>2, <1>7, <2>4 DEF Owner, Renewing
      <4> QED BY <1>5, <1>6, <2>3, <2>4, <4>1 DEF Owner, Making
    <3>3. Written(k)'
      BY <1>2, <1>3, <1>5, <1>7, <2>3, <2>4 DEF Written, Stored
    <3>4. WayBack(k)'
      BY <2>3 DEF WayBack
    <3> QED BY <2>3, <3>1, <3>2, <3>3, <3>4, JobKept
  <2> QED BY <2>2, <2>5, <2>6, <2>7, <2>8 DEF IInv
<1>8. CASE j.old = j.h
  <2>1. End(p)
    BY <1>0, <1>8
  <2>2. TypeOK' /\ RowInv' /\ \A q \in Procs : job'[q] = {}
    BY <1>4, <2>1, EndTyped, EndType DEF IInv
  <2>3. docs[j.h] = {}
    BY <1>1, <1>2 DEF Way, Owner, Dropping
  <2>4. LineInv'
    BY <1>1, <1>3, <1>5, <2>2, LineKept
  <2>5. ApartInv'
    <3> SUFFICES ASSUME NEW f \in HWIDs, NEW g \in HWIDs, NEW l \in Lines, f # g, Has(f, l)', Has(g, l)'
                 PROVE  FALSE
      BY DEF ApartInv
    <3>1. f # j.h /\ g # j.h /\ Has(f, l) /\ Has(g, l)
      BY <1>6, <1>8
    <3>2. ~Shared(f, g, l)
      BY <1>1, <3>1, TheOne DEF Shared
    <3> QED BY <3>1, <3>2 DEF IInv, ApartInv
  <2>6. DocInv'
    <3> SUFFICES ASSUME NEW h \in HWIDs, NEW l \in docs[h]
                 PROVE  Kept(h, l)'
      BY <1>5 DEF DocInv
    <3>1. Kept(h, l) /\ h # j.h
      BY <2>3 DEF IInv, DocInv
    <3>2. ~TakenOver(h, l)
      BY <1>1, <1>8, TheOne DEF TakenOver
    <3>3. Pair(h, l)'
      BY <1>3, <1>5, <1>8, <3>1, <3>2 DEF Kept, Pair
    <3> QED BY <1>3, <1>5, <1>8, <3>1, <3>3 DEF Kept
  <2>7. JobInv'
    BY <2>2 DEF JobInv
  <2> QED BY <2>2, <2>4, <2>5, <2>6, <2>7 DEF IInv
<1> QED BY <1>7, <1>8

\* setup_usb.py removes the old file of a token whose documents are given up.
LEMMA ResetFileInv ==
    ASSUME IInv, OneProcess, NEW p \in Procs, ResetFile(p)
    PROVE  IInv'
<1>0. PICK j \in At(p, "reset_file") :
      /\ vault' = [vault EXCEPT ![j.h] = NoVault]
      /\ Goto(p, j, "reset_share")
      /\ UNCHANGED <<share2, row, totp, users, papers, docs, shown, entering, made, mixed, founded, adrift>>
  BY DEF ResetFile
<1>1. j \in job[p] /\ j.at = "reset_file"
  BY <1>0 DEF At
<1>2. /\ j \in Job /\ j.h \in HWIDs /\ j.op \in Making
      /\ Way(j) /\ Owner(j) /\ docs[j.h] = {}
  BY <1>1, JobFacts DEF Way, Owner, Making
<1>3. /\ vault' \in [HWIDs -> Vault \cup {NoVault}] /\ vault'[j.h] = NoVault
      /\ \A g \in HWIDs \ {j.h} : vault'[g] = vault[g]
  BY <1>0, <1>2 DEF IInv, TypeOK
<1>4. StoresOK' /\ "reset_share" \in Places \ {"issue"}
  BY <1>0, <1>3 DEF StoresOK, IInv, TypeOK, Places
<1>5. TypeOK' /\ RowInv'
  BY <1>0, <1>1, <1>4, GotoTyped
<1>6. PICK k \in Job :
        /\ \A q \in Procs : job'[q] = {k}
        /\ k.at = "reset_share" /\ k.op = j.op /\ k.h = j.h /\ k.old = j.old
        /\ k.line = j.line /\ k.token = j.token /\ k.back = j.back /\ k.back2 = j.back2
  BY <1>0, <1>1, <1>4, GotoType DEF IInv
<1>12. UNCHANGED <<share2, users, papers, docs, made>>
  BY <1>0
<1>7. LineInv'
  <2>1. /\ j.line <= made /\ j.back2 <= made
        /\ j.back # NoVault => j.back.line <= made /\ j.back.signer = j.back.line
    BY <1>1 DEF IInv, LineInv
  <2> QED BY <1>1, <1>3, <1>6, <1>12, <2>1, LineKept
<1>8. \A g \in HWIDs : \A l : Has(g, l)' => Has(g, l)
  BY <1>3, <1>12 DEF Has, Stored
<1>9. ApartInv'
  <2>1. \A f, g \in HWIDs, l \in Lines : ~Shared(f, g, l)
    BY <1>1, <1>2, TheOne DEF Shared, Making
  <2> QED BY <1>2, <1>3, <1>8, <1>12, <2>1, ApartKept
<1>10. DocInv'
  <2> SUFFICES ASSUME NEW h \in HWIDs, NEW l \in docs[h]
               PROVE  Kept(h, l)'
    BY <1>12 DEF DocInv
  <2>1. Kept(h, l) /\ h # j.h
    BY <1>2 DEF IInv, DocInv
  <2>2. ~TakenOver(h, l)
    BY <1>1, <1>2, TheOne DEF TakenOver, Making
  <2>3. Pair(h, l)'
    BY <1>3, <1>12, <2>1, <2>2 DEF Kept, Pair
  <2> QED BY <1>3, <1>12, <2>1, <2>3 DEF Kept
<1>11. JobInv'
  <2>1. Way(k)'
    BY <1>2, <1>6 DEF Way, Making, Dropping
  <2>2. Owner(k)'
    <3>1. j.line \in Lines /\ j.token \in Lines /\ \A g \in HWIDs \ {j.h} : ~Has(g, j.line)
      BY <1>2 DEF Owner
    <3> QED BY <1>2, <1>6, <1>8, <1>12, <3>1 DEF Owner, Making, Renewing
  <2>3. Written(k)' /\ WayBack(k)'
    BY <1>2, <1>6 DEF Written, WayBack, Making, Renewing, Dropping
  <2> QED BY <1>6, <2>1, <2>2, <2>3, JobKept
<1> QED BY <1>5, <1>7, <1>9, <1>10, <1>11 DEF IInv

\* The staged vault takes the place of the old one, which is kept for the way back.
LEMMA ReplaceVaultInv ==
    ASSUME IInv, OneProcess, NEW p \in Procs, ReplaceVault(p)
    PROVE  IInv'
<1>0. PICK j \in At(p, "replace") :
        /\ _rewrite_vault(j.h, j.line, j.token, j.line)
        /\ job' = [job EXCEPT ![p] = {[j EXCEPT !.at = "share", !.back = vault[j.h], !.back2 = share2[j.h]]}]
        /\ adrift' = IF j.op = "takeover" THEN adrift \cup {j.h} ELSE adrift
        /\ UNCHANGED <<share2, row, totp, users, papers, docs, shown, entering, made, mixed, founded>>
  BY DEF ReplaceVault
<1>1. j \in job[p] /\ j.at = "replace"
  BY <1>0 DEF At
<1>2. /\ j \in Job /\ j.h \in HWIDs /\ j.old \in HWIDs /\ j.op \in Renewing /\ j.line \in Lines /\ j.token \in Lines
      /\ j.line \in papers /\ Way(j) /\ Owner(j)
  BY <1>1, JobFacts DEF Way, Owner, Renewing
<1>3. /\ vault' \in [HWIDs -> Vault \cup {NoVault}]
      /\ vault'[j.h] # NoVault /\ vault'[j.h].line = j.line /\ vault'[j.h].signer = j.line
      /\ \A g \in HWIDs \ {j.h} : vault'[g] = vault[g]
  BY <1>0, <1>2, RewriteType
<1>4. UNCHANGED <<share2, users, papers, docs, made>> /\ StoresOK'
  BY <1>0, <1>2, <1>3 DEF StoresOK, IInv, TypeOK
<1>5. PICK k \in Job :
        /\ job' = [job EXCEPT ![p] = {k}]
        /\ k.at = "share" /\ k.op = j.op /\ k.h = j.h /\ k.old = j.old
        /\ k.line = j.line /\ k.token = j.token /\ k.back = vault[j.h] /\ k.back2 = share2[j.h]
  <2> DEFINE k == [j EXCEPT !.at = "share", !.back = vault[j.h], !.back2 = share2[j.h]]
  <2>1. vault[j.h] \in Vault \cup {NoVault} /\ share2[j.h] \in Lines \cup {Nil}
    BY <1>2 DEF IInv, TypeOK
  <2>2. /\ k \in Job /\ k.at = "share" /\ k.op = j.op /\ k.h = j.h /\ k.old = j.old
        /\ k.line = j.line /\ k.token = j.token /\ k.back = vault[j.h] /\ k.back2 = share2[j.h]
    BY <1>2, <2>1 DEF Job, Places
  <2>3. job' = [job EXCEPT ![p] = {k}]
    BY <1>0
  <2> HIDE DEF k
  <2> QED BY <2>2, <2>3
<1>6. /\ job' \in [Procs -> SUBSET Job]
      /\ \A q \in Procs : \A i, l \in job'[q] : i = l
      /\ \A q \in Procs : job'[q] = {k}
  BY <1>5, ReplaceType DEF IInv
<1>7. TypeOK' /\ RowInv'
  BY <1>4, <1>5, <1>6 DEF TypeOK, StoresOK, RowInv
<1>8. \A f, g \in HWIDs, l \in Lines : ~Shared(f, g, l) /\ ~TakenOver(f, l)
  BY <1>1, TheOne DEF Shared, TakenOver, Dropping
<1>9. LineInv'
  <2>1. /\ j.line <= made /\ share2[j.h] <= made
        /\ vault[j.h] # NoVault => vault[j.h].line <= made /\ vault[j.h].signer = vault[j.h].line
    BY <1>1, <1>2 DEF IInv, LineInv
  <2> QED BY <1>1, <1>3, <1>4, <1>5, <1>6, <2>1, LineKept
<1>10. ApartInv'
  <2> SUFFICES ASSUME NEW g \in HWIDs \ {j.h}, NEW l \in Lines, Has(j.h, l)'
               PROVE  Has(j.h, l) \/ ~Has(g, l) \/ Shared(g, j.h, l)'
    BY <1>2, <1>3, <1>4, <1>8, ApartKept
  <2>1. CASE l # j.line
    BY <1>3, <1>4, <2>1 DEF Has, Stored
  <2>2. CASE l = j.line /\ j.op = "takeover"
    BY <1>5, <1>6, <2>2 DEF Shared
  <2>3. CASE l = j.line /\ j.op = "recover"
    BY <1>2, <2>3 DEF Way, Owner
  <2> QED BY <1>2, <2>1, <2>2, <2>3 DEF Renewing
<1>11. ASSUME NEW l \in docs[j.h]
       PROVE  j.op = "recover" /\ docs[j.h] = {j.line} /\ l = j.line /\ Kept(j.h, l)
  <2>1. Kept(j.h, l)
    BY <1>2 DEF IInv, DocInv
  <2>2. j.op = "recover" /\ j.old = j.h
    BY <1>2 DEF Way, Owner, Renewing
  <2> QED BY <1>2, <2>1, <2>2 DEF Owner, Kept
<1>12. DocInv'
  <2> SUFFICES ASSUME NEW h \in HWIDs, NEW l \in docs[h]
               PROVE  Kept(h, l)'
    BY <1>4 DEF DocInv
  <2>1. Kept(h, l)
    BY DEF IInv, DocInv
  <2>2. CASE h = j.h
    <3>1. l = j.line
      BY <1>11, <2>2
    <3>2. Pair(h, l)'
      BY <1>2, <1>3, <1>4, <2>2, <3>1 DEF Pair
    <3> QED BY <1>3, <1>4, <2>1, <2>2, <3>1, <3>2 DEF Kept
  <2>3. CASE h # j.h
    <3>1. ~TakenOver(h, l)
      BY <1>8, <2>1 DEF Kept
    <3>2. Pair(h, l)'
      BY <1>3, <1>4, <2>1, <2>3, <3>1 DEF Kept, Pair
    <3> QED BY <1>3, <1>4, <2>1, <2>3, <3>2 DEF Kept
  <2> QED BY <2>2, <2>3
<1>13. JobInv'
  <2>1. Way(k)'
    BY <1>1, <1>2, <1>5 DEF Way, Renewing, Dropping
  <2>2. \A g \in HWIDs \ {j.h} : \A l : Has(g, l)' => Has(g, l)
    BY <1>3, <1>4 DEF Has, Stored
  <2>3. Owner(k)'
    BY <1>2, <1>4, <1>5, <2>2 DEF Owner
  <2>4. Written(k)'
    BY <1>2, <1>3, <1>5 DEF Written, Stored, Renewing, Dropping
  <2>5. WayBack(k)'
    <3>1. ASSUME NEW g \in HWIDs \ {j.h}
          PROVE  (vault[j.h] # NoVault => ~Has(g, vault[j.h].line)) /\ (share2[j.h] # Nil => ~Has(g, share2[j.h]))
      <4>1. \A l \in Lines : ~(Has(j.h, l) /\ Has(g, l))
        BY <1>2, <1>8 DEF IInv, ApartInv
      <4>2. (vault[j.h] # NoVault => vault[j.h].line \in Lines) /\ share2[j.h] \in Lines \cup {Nil}
        BY <1>2 DEF IInv, TypeOK, Vault
      <4> QED BY <4>1, <4>2 DEF Has, Stored
    <3>2. docs[j.h] # {} =>
            /\ vault[j.h] # NoVault => vault[j.h].line = j.line
            /\ share2[j.h] \in {Nil, j.line}
            /\ vault[j.h] # NoVault \/ share2[j.h] = j.line
      BY <1>2, <1>8, <1>11 DEF Kept, Pair
    <3> QED BY <1>4, <1>5, <2>2, <3>1, <3>2 DEF WayBack
  <2> QED BY <1>6, <2>1, <2>3, <2>4, <2>5, JobKept
<1> QED BY <1>7, <1>9, <1>10, <1>12, <1>13 DEF IInv

\* The way back, first step: the old vault file.
LEMMA UndoFileInv ==
    ASSUME IInv, OneProcess, NEW p \in Procs, NEW j \in job[p], j.at = "undo_file",
           vault' = [vault EXCEPT ![j.h] = j.back], Goto(p, j, "undo_share"),
           UNCHANGED <<share2, row, totp, users, papers, docs, shown, entering, made, mixed, founded, adrift>>
    PROVE  IInv'
<1>2. /\ j \in Job /\ j.h \in HWIDs /\ j.old \in HWIDs /\ j.op \in Renewing /\ j.line \in Lines
      /\ j.back \in Vault \cup {NoVault} /\ j.line \in papers
      /\ Way(j) /\ Owner(j) /\ WayBack(j)
  BY JobFacts DEF Way, Owner, Renewing
<1>3. /\ vault' \in [HWIDs -> Vault \cup {NoVault}] /\ vault'[j.h] = j.back
      /\ \A g \in HWIDs \ {j.h} : vault'[g] = vault[g]
  BY <1>2 DEF IInv, TypeOK
<1>4. StoresOK' /\ "undo_share" \in Places \ {"issue"}
  BY <1>3 DEF StoresOK, IInv, TypeOK, Places
<1>5. TypeOK' /\ RowInv'
  BY <1>4, GotoTyped
<1>6. PICK k \in Job :
        /\ \A q \in Procs : job'[q] = {k}
        /\ k.at = "undo_share" /\ k.op = j.op /\ k.h = j.h /\ k.old = j.old
        /\ k.line = j.line /\ k.token = j.token /\ k.back = j.back /\ k.back2 = j.back2
  BY <1>4, GotoType DEF IInv
<1>7. /\ share2[j.h] \in {j.back2, j.line}
      /\ \A g \in HWIDs \ {j.h} :
          /\ j.back # NoVault => ~Has(g, j.back.line)
          /\ j.back2 # Nil => ~Has(g, j.back2)
      /\ docs[j.h] # {} =>
          /\ j.back # NoVault => j.back.line = j.line
          /\ j.back2 \in {Nil, j.line}
          /\ j.back # NoVault \/ j.back2 = j.line
  BY <1>2 DEF WayBack
<1>8. LineInv'
  <2>1. /\ j.line <= made /\ j.back2 <= made
        /\ j.back # NoVault => j.back.line <= made /\ j.back.signer = j.back.line
    BY DEF IInv, LineInv
  <2> QED BY <1>3, <1>6, <2>1, LineKept
<1>9. ApartInv'
  <2>1. \A f, g \in HWIDs, l \in Lines : Shared(f, g, l) => Shared(f, g, l)'
    BY <1>6, TheOne DEF Shared
  <2>2. ASSUME NEW g \in HWIDs \ {j.h}, NEW l \in Lines, Has(j.h, l)'
        PROVE  (Has(j.h, l) /\ ~Shared(g, j.h, l)) \/ ~Has(g, l) \/ Shared(g, j.h, l)'
    <3>1. CASE j.back # NoVault /\ l = j.back.line
      BY <1>7, <3>1
    <3>2. CASE ~(j.back # NoVault /\ l = j.back.line)
      <4>1. Has(j.h, l)
        BY <1>3, <2>2, <3>2 DEF Has, Stored
      <4> QED BY <1>2, <2>1, <4>1
    <3> QED BY <3>1, <3>2
  <2> QED BY <1>2, <1>3, <2>1, <2>2, ApartKept
<1>10. DocInv'
  <2> SUFFICES ASSUME NEW h \in HWIDs, NEW l \in docs[h]
               PROVE  Kept(h, l)'
    BY DEF DocInv
  <2>1. Kept(h, l)
    BY DEF IInv, DocInv
  <2>2. ~TakenOver(h, l)
    BY TheOne DEF TakenOver, Dropping
  <2>3. CASE h # j.h
    <3>1. Pair(h, l)'
      BY <1>3, <2>1, <2>2, <2>3 DEF Kept, Pair
    <3> QED BY <1>3, <2>1, <2>3, <3>1 DEF Kept
  <2>4. CASE h = j.h
    <3>1. j.op = "recover" /\ j.old = j.h
      BY <1>2, <2>4 DEF Way, Owner, Renewing
    <3>2. l = j.line
      BY <1>2, <2>4, <3>1 DEF Owner
    <3>3. Pair(h, l)'
      BY <1>2, <1>3, <1>7, <2>4, <3>2 DEF Pair
    <3> QED BY <1>3, <1>7, <2>1, <2>4, <3>2, <3>3 DEF Kept
  <2> QED BY <2>3, <2>4
<1>11. JobInv'
  <2>1. Way(k)'
    BY <1>2, <1>6 DEF Way, Making, Renewing, Dropping
  <2>2. \A g \in HWIDs \ {j.h} : \A l : Has(g, l)' => Has(g, l)
    BY <1>3 DEF Has, Stored
  <2>3. Owner(k)'
    BY <1>2, <1>6, <2>2 DEF Owner
  <2>4. Written(k)'
    BY <1>2, <1>6 DEF Written, Renewing, Dropping
  <2>5. WayBack(k)'
    BY <1>3, <1>6, <1>7, <2>2 DEF WayBack
  <2> QED BY <1>6, <2>1, <2>3, <2>4, <2>5, JobKept
<1> QED BY <1>5, <1>8, <1>9, <1>10, <1>11 DEF IInv

\* The way back, second step: the old share 2, and the operation is over.
LEMMA UndoShareInv ==
    ASSUME IInv, OneProcess, NEW p \in Procs, NEW j \in job[p], j.at = "undo_share",
           share2' = [share2 EXCEPT ![j.h] = j.back2], End(p),
           UNCHANGED <<vault, row, totp, users, papers, docs, shown, entering, made, mixed, founded, adrift>>
    PROVE  IInv'
<1>2. /\ j \in Job /\ j.h \in HWIDs /\ j.op \in Renewing /\ j.line \in Lines
      /\ j.back2 \in Lines \cup {Nil} /\ j.line \in papers
      /\ Way(j) /\ Owner(j) /\ WayBack(j)
  BY JobFacts DEF Way, Owner, Renewing
<1>3. /\ share2' \in [HWIDs -> Lines \cup {Nil}] /\ share2'[j.h] = j.back2
      /\ \A g \in HWIDs \ {j.h} : share2'[g] = share2[g]
  BY <1>2 DEF IInv, TypeOK
<1>4. StoresOK'
  BY <1>3 DEF StoresOK, IInv, TypeOK
<1>5. TypeOK' /\ RowInv' /\ \A q \in Procs : job'[q] = {}
  BY <1>4, EndTyped, EndType DEF IInv
<1>6. /\ vault[j.h] = j.back
      /\ \A g \in HWIDs \ {j.h} :
          /\ j.back # NoVault => ~Has(g, j.back.line)
          /\ j.back2 # Nil => ~Has(g, j.back2)
      /\ docs[j.h] # {} =>
          /\ j.back # NoVault => j.back.line = j.line
          /\ j.back2 \in {Nil, j.line}
          /\ j.back # NoVault \/ j.back2 = j.line
  BY <1>2 DEF WayBack
<1>7. LineInv'
  <2>1. j.back2 <= made
    BY DEF IInv, LineInv
  <2> QED BY <1>3, <1>5, <2>1, LineKept
<1>8. ApartInv'
  <2>1. \A f, g \in HWIDs \ {j.h}, l \in Lines : ~Shared(f, g, l)
    BY TheOne DEF Shared
  <2>2. ASSUME NEW g \in HWIDs \ {j.h}, NEW l \in Lines, Has(j.h, l)'
        PROVE  ~Has(g, l)
    BY <1>3, <1>6, <2>2, NilIsNoLine DEF Has, Stored
  <2> QED BY <1>2, <1>3, <2>1, <2>2, ApartKept
<1>9. DocInv'
  <2> SUFFICES ASSUME NEW h \in HWIDs, NEW l \in docs[h]
               PROVE  Kept(h, l)'
    BY DEF DocInv
  <2>1. Kept(h, l)
    BY DEF IInv, DocInv
  <2>2. ~TakenOver(h, l)
    BY TheOne DEF TakenOver, Dropping
  <2>3. CASE h # j.h
    <3>1. Pair(h, l)'
      BY <1>3, <2>1, <2>2, <2>3 DEF Kept, Pair
    <3> QED BY <1>3, <2>1, <2>3, <3>1 DEF Kept
  <2>4. CASE h = j.h
    <3>1. j.op = "recover" /\ j.old = j.h
      BY <1>2, <2>4 DEF Way, Owner, Renewing
    <3>2. l = j.line
      BY <1>2, <2>4, <3>1 DEF Owner
    <3>3. Pair(h, l)'
      BY <1>2, <1>3, <1>6, <2>4, <3>2 DEF Pair
    <3> QED BY <1>3, <1>6, <2>1, <2>4, <3>2, <3>3 DEF Kept
  <2> QED BY <2>3, <2>4
<1>10. JobInv'
  BY <1>5 DEF JobInv
<1> QED BY <1>5, <1>7, <1>8, <1>9, <1>10 DEF IInv

\* A changed PIN or role: the same share under the present share 2, which is of its line.
LEMMA SealAnewInv ==
    ASSUME IInv, OneProcess, NEW p \in Procs, SealAnew(p)
    PROVE  IInv'
<1>0. PICK j \in At(p, "read") :
        /\ IF share2[j.h] = Nil THEN UNCHANGED vault
           ELSE _rewrite_vault(j.h, j.line, j.token, share2[j.h])
        /\ End(p)
        /\ UNCHANGED <<share2, row, totp, users, papers, docs, shown, entering, made, mixed, founded, adrift>>
  BY DEF SealAnew
<1>1. j \in job[p] /\ j.at = "read"
  BY <1>0 DEF At
<1>2. /\ j.h \in HWIDs /\ j.line \in Lines /\ j.token \in Lines /\ j.op = "rewrite"
      /\ Stored(j.h, j.line) /\ share2[j.h] = j.line
  BY <1>1, JobFacts DEF Way, Owner, Written
<1>3. /\ vault' \in [HWIDs -> Vault \cup {NoVault}]
      /\ vault'[j.h] # NoVault /\ vault'[j.h].line = j.line /\ vault'[j.h].signer = j.line
      /\ \A g \in HWIDs \ {j.h} : vault'[g] = vault[g]
  BY <1>0, <1>2, RewriteType, NilIsNoLine
<1>4. UNCHANGED <<share2, users, papers, docs, made>> /\ StoresOK' /\ End(p)
  BY <1>0, <1>3 DEF StoresOK, IInv, TypeOK
<1>5. TypeOK' /\ RowInv' /\ \A q \in Procs : job'[q] = {}
  BY <1>4, EndTyped, EndType DEF IInv
<1>6. LineInv'
  <2>1. j.line <= made
    BY <1>1 DEF IInv, LineInv
  <2> QED BY <1>1, <1>3, <1>4, <1>5, <2>1, LineKept
<1>7. ApartInv'
  <2>1. \A f, g \in HWIDs, l \in Lines : ~Shared(f, g, l)
    BY <1>1, <1>2, TheOne DEF Shared
  <2>2. \A l \in Lines : Has(j.h, l)' => Has(j.h, l)
    BY <1>2, <1>3, <1>4 DEF Has, Stored
  <2> QED BY <1>2, <1>3, <1>4, <2>1, <2>2, ApartKept
<1>8. DocInv'
  <2> SUFFICES ASSUME NEW h \in HWIDs, NEW l \in docs[h]
               PROVE  Kept(h, l)'
    BY <1>4 DEF DocInv
  <2>1. Kept(h, l)
    BY DEF IInv, DocInv
  <2>2. ~TakenOver(h, l)
    BY <1>1, <1>2, TheOne DEF TakenOver
  <2>3. Pair(h, l)'
    BY <1>2, <1>3, <1>4, <2>1, <2>2 DEF Kept, Pair, Stored
  <2> QED BY <1>2, <1>3, <1>4, <2>1, <2>3 DEF Kept, Stored
<1>9. JobInv'
  BY <1>5 DEF JobInv
<1> QED BY <1>5, <1>6, <1>7, <1>8, <1>9 DEF IInv

\* The documents follow the account to the token that has all of the key.
LEMMA MoveAccountInv ==
    ASSUME IInv, OneProcess, NEW p \in Procs, MoveAccount(p)
    PROVE  IInv'
<1>0. PICK j \in At(p, "move") :
        /\ users[j.h] = "none"
        /\ users' = [users EXCEPT ![j.h] = users[j.old], ![j.old] = "none"]
        /\ docs' = [docs EXCEPT ![j.h] = docs[j.old], ![j.old] = {}]
        /\ adrift' = adrift \ ({j.h, j.old} \ entering)
        /\ End(p)
        /\ UNCHANGED <<vault, share2, row, totp, papers, shown, entering, made, mixed, founded>>
  BY DEF MoveAccount
<1>1. j \in job[p] /\ j.at = "move"
  BY <1>0 DEF At
<1>2. /\ j.h \in HWIDs /\ j.old \in HWIDs /\ j.op = "takeover" /\ j.old # j.h /\ j.line \in Lines
      /\ docs[j.old] \subseteq {j.line} /\ \A g \in HWIDs \ {j.h, j.old} : ~Has(g, j.line)
      /\ Stored(j.h, j.line) /\ share2[j.h] = j.line /\ share2[j.old] = Nil /\ vault[j.old] = NoVault
  BY <1>1, JobFacts DEF Way, Owner, Written, Renewing, Dropping
<1>3. /\ docs' \in [HWIDs -> SUBSET (Lines \cup {Nil})] /\ users' \in [HWIDs -> {"none", "pending", "approved"}]
      /\ docs'[j.h] = docs[j.old] /\ docs'[j.old] = {} /\ users'[j.h] = users[j.old]
      /\ \A g \in HWIDs \ {j.h, j.old} : docs'[g] = docs[g] /\ users'[g] = users[g]
  BY <1>0, <1>2 DEF IInv, TypeOK
<1>4. UNCHANGED <<vault, share2, papers, made>> /\ StoresOK' /\ End(p)
  BY <1>0, <1>3 DEF StoresOK, IInv, TypeOK
<1>5. TypeOK' /\ RowInv' /\ \A q \in Procs : job'[q] = {}
  BY <1>4, EndTyped, EndType DEF IInv
<1>6. LineInv'
  BY <1>1, <1>4, <1>5, LineKept
<1>7. ApartInv'
  <2> SUFFICES ASSUME NEW f \in HWIDs, NEW g \in HWIDs, NEW l \in Lines, f # g, Has(f, l), Has(g, l)
               PROVE  FALSE
    BY <1>4 DEF ApartInv, Has, Stored
  <2>1. Shared(f, g, l)
    BY DEF IInv, ApartInv
  <2>2. l = j.line
    BY <1>1, <2>1, TheOne DEF Shared
  <2>3. f # j.old /\ g # j.old
    BY <1>2, <2>2, NilIsNoLine DEF Has, Stored
  <2> QED BY <1>2, <2>2, <2>3
<1>8. DocInv'
  <2> SUFFICES ASSUME NEW h \in HWIDs, NEW l \in docs'[h]
               PROVE  Kept(h, l)'
    BY DEF DocInv
  <2>1. CASE h = j.h
    <3>1. l \in docs[j.old] /\ l = j.line
      BY <1>2, <1>3, <2>1
    <3>2. Kept(j.old, l)
      BY <1>2, <3>1 DEF IInv, DocInv
    <3>3. Pair(h, l)'
      BY <1>2, <1>4, <2>1, <3>1 DEF Pair, Stored
    <3> QED BY <1>2, <1>3, <1>4, <2>1, <3>1, <3>2, <3>3 DEF Kept, Stored
  <2>2. CASE h # j.h
    <3>1. h # j.old /\ l \in docs[h]
      BY <1>3, <2>2
    <3>2. Kept(h, l) /\ docs'[h] = docs[h] /\ users'[h] = users[h]
      BY <1>3, <2>2, <3>1 DEF IInv, DocInv
    <3>3. ~TakenOver(h, l)
      BY <1>1, <3>1, TheOne DEF TakenOver
    <3>4. Pair(h, l)'
      BY <1>4, <3>2, <3>3 DEF Kept, Pair
    <3> QED BY <1>4, <3>2, <3>4 DEF Kept
  <2> QED BY <2>1, <2>2
<1>9. JobInv'
  BY <1>5 DEF JobInv
<1> QED BY <1>5, <1>6, <1>7, <1>8, <1>9 DEF IInv

LEMMA ContinueInv ==
    ASSUME IInv, OneProcess, TakeoverRunsThrough, NEW p \in Procs, Continue(p)
    PROVE  IInv'
<1>1. CASE CreateFile(p)  BY <1>1, CreateFileInv
<1>2. CASE _save_usb_token(p)  BY <1>2, SaveShareInv
<1>3. CASE InsertToken(p)  BY <1>3, InsertTokenInv
<1>4. CASE store_totp_secret_for_hwid(p)  BY <1>4, StoreTotpInv
<1>5. CASE OpenFirstVault(p)  BY <1>5, OpenFirstVaultInv
<1>6. CASE InsertUser(p)  BY <1>6, InsertUserInv
<1>7. CASE RegistrationFails(p)  BY <1>7, RegistrationFailsInv
<1>8. CASE EraseTotp(p)  BY <1>8, EraseTotpInv
<1>9. CASE delete_usb_token(p)  BY <1>9, DeleteShareInv
<1>10. CASE DeleteRow(p)  BY <1>10, DeleteRowInv
<1>11. CASE UnlinkVault(p)  BY <1>11, UnlinkVaultInv
<1>12. CASE ReplaceVault(p)  BY <1>12, ReplaceVaultInv
<1>13. CASE _hazirlanan_kasayi_dogrula(p)  BY <1>13, StopInv
<1>14. CASE ReprovisionFails(p)  BY <1>14, ReprovisionFailsInv
<1>15. CASE _eski_kasayi_geri_yukle(p)
  BY <1>15, UndoFileInv, UndoShareInv DEF _eski_kasayi_geri_yukle
<1>16. CASE MarkIssued(p)  BY <1>16, MarkIssuedInv
<1>17. CASE takeover_usb(p)  BY <1>17, TakeoverInv
<1>18. CASE CopyTotp(p)  BY <1>18, CopyTotpInv
<1>19. CASE MoveAccount(p)  BY <1>19, MoveAccountInv
<1>20. CASE ResetFile(p)  BY <1>20, ResetFileInv
<1>21. CASE SealAnew(p)  BY <1>21, SealAnewInv
<1>22. CASE Kill(p)  BY <1>22, StopInv
<1> QED
  BY <1>1, <1>2, <1>3, <1>4, <1>5, <1>6, <1>7, <1>8, <1>9, <1>10, <1>11, <1>12, <1>13, <1>14, <1>15, <1>16,
     <1>17, <1>18, <1>19, <1>20, <1>21, <1>22 DEF Continue

-----------------------------------------------------------------------------
\* What an operation knows when it begins.
LEMMA Resting ==
    ASSUME IInv, \A q \in Procs : job[q] = {}
    PROVE  /\ \A h \in HWIDs : docs[h] \subseteq Lines /\ (users[h] # "approved" => docs[h] = {})
           /\ \A h \in HWIDs : \A l \in docs[h] : docs[h] = {l}
           /\ \A g, h \in HWIDs, l \in Lines : g # h => ~(Has(g, l) /\ Has(h, l))
           /\ \A h \in HWIDs, l \in Lines : Has(h, l) => docs[h] \subseteq {l} /\ l <= made
<1>1. \A h \in HWIDs : \A l \in docs[h] : Kept(h, l)
  BY DEF IInv, DocInv
<1>2. \A g, h \in HWIDs, l \in Lines : g # h => ~(Has(g, l) /\ Has(h, l))
  BY DEF IInv, ApartInv, Shared
<1>3. \A h \in HWIDs, l \in Lines : Has(h, l) => docs[h] \subseteq {l} /\ l <= made
  BY <1>1, NilIsNoLine DEF Has, Stored, Kept, IInv, LineInv
<1> QED BY <1>1, <1>2, <1>3 DEF Kept

\* A line that is new.
LEMMA NextLine ==
    ASSUME IInv, made < MaxMade
    PROVE  /\ made + 1 \in Lines /\ made + 1 \in 0..MaxMade /\ made <= made + 1 /\ made + 1 # Nil
           /\ \A l \in Lines : l <= made => l <= made + 1 /\ l # made + 1
<1>1. made \in Nat
  BY NumberType DEF IInv
<1> QED BY <1>1, MadeAssumption DEF Lines, Nil

\* A vault with a line of its own, for a token without documents.
LEMMA CreateInv ==
    ASSUME IInv, OneProcess, NEW p \in Procs, NEW op \in Making, NEW h \in HWIDs, NEW at \in {"file", "reset_file"},
           _kasa_hazirla(p, op, at, h, h, Nil),
           StoresOK', UNCHANGED <<vault, share2, users, papers>>, docs'[h] = {},
           \A g \in HWIDs \ {h} : docs'[g] = docs[g]
    PROVE  IInv'
<1>1. made < MaxMade /\ made' = made + 1 /\ Begin(p, op, at, h, h, made + 1, made + 1)
  BY DEF _kasa_hazirla
<1>2. op \in AllOps /\ at \in Places \ {"issue"}
  BY DEF Making, AllOps, Places
<1>3. /\ made + 1 \in Lines /\ made <= made'
      /\ \A l \in Lines : l <= made => l # made + 1
  BY <1>1, NextLine
<1>4. TypeOK' /\ RowInv'
  BY <1>1, <1>2, <1>3, BeginTyped
<1>5. /\ \A q \in Procs : job[q] = {}
      /\ \E k \in Job :
           /\ \A q \in Procs : job'[q] = {k}
           /\ k.at = at /\ k.op = op /\ k.h = h /\ k.old = h
           /\ k.line = made + 1 /\ k.token = made + 1 /\ k.back = NoVault /\ k.back2 = Nil
  BY <1>1, <1>2, <1>3, BeginType DEF IInv
<1> PICK k \in Job :
      /\ \A q \in Procs : job'[q] = {k}
      /\ k.at = at /\ k.op = op /\ k.h = h /\ k.old = h
      /\ k.line = made + 1 /\ k.token = made + 1 /\ k.back = NoVault /\ k.back2 = Nil
  BY <1>5
<1>6. \A g \in HWIDs : ~Has(g, made + 1)
  BY <1>3, <1>5, Resting
<1>7. \A g \in HWIDs : docs'[g] \subseteq docs[g] /\ (docs'[g] # {} => users'[g] = "approved")
  BY <1>5, Resting
<1>8. Way(k) /\ Written(k)
  BY DEF Way, Written, Making, Renewing, Dropping
<1>9. Owner(k)'
  BY <1>3, <1>6 DEF Owner, Has, Stored, Making, Renewing
<1>10. k.line <= made'
  BY <1>1, NatType DEF TypeOK, IInv
<1>11. k.at \notin {"share", "row", "undo_file", "undo_share"}
  OBVIOUS
<1> QED BY <1>3, <1>4, <1>5, <1>7, <1>8, <1>9, <1>10, <1>11, BeginInv

\* A removal: the account and its documents are gone already.
LEMMA DropInv ==
    ASSUME IInv, OneProcess, NEW p \in Procs, NEW op \in {"reject", "delete"}, NEW h \in HWIDs,
           Begin(p, op, "drop_totp", h, h, Nil, Nil),
           StoresOK', UNCHANGED <<vault, share2, papers, made>>, docs'[h] = {},
           \A g \in HWIDs \ {h} : docs'[g] = docs[g] /\ users'[g] = users[g]
    PROVE  IInv'
<1>2. op \in AllOps /\ "drop_totp" \in Places \ {"issue"} /\ Nil \in Lines \cup {Nil}
  BY DEF AllOps, Places
<1>4. TypeOK' /\ RowInv'
  BY <1>2, BeginTyped
<1>5. /\ \A q \in Procs : job[q] = {}
      /\ \E k \in Job :
           /\ \A q \in Procs : job'[q] = {k}
           /\ k.at = "drop_totp" /\ k.op = op /\ k.h = h /\ k.old = h
           /\ k.line = Nil /\ k.token = Nil /\ k.back = NoVault /\ k.back2 = Nil
  BY <1>2, BeginType DEF IInv
<1> PICK k \in Job :
      /\ \A q \in Procs : job'[q] = {k}
      /\ k.at = "drop_totp" /\ k.op = op /\ k.h = h /\ k.old = h
      /\ k.line = Nil /\ k.token = Nil /\ k.back = NoVault /\ k.back2 = Nil
  BY <1>5
<1>7. \A g \in HWIDs : docs'[g] \subseteq docs[g] /\ (docs'[g] # {} => users'[g] = "approved")
  BY <1>5, Resting
<1>8. Way(k) /\ Written(k)
  BY DEF Way, Written, Making, Renewing, Dropping
<1>9. Owner(k)'
  BY DEF Owner, Making, Renewing
<1>10. k.line <= made' /\ made <= made'
  <2>1. made' \in 0..MaxMade /\ made' = made
    BY DEF StoresOK
  <2>2. made' \in Nat /\ Nil <= made'
    BY <2>1, NatType
  <2> QED BY <2>1, <2>2
<1> QED BY <1>4, <1>5, <1>7, <1>8, <1>9, <1>10, BeginInv

\* A vault that is read is signed with the share 2 of its own line.
LEMMA Verified ==
    ASSUME IInv, NEW h \in HWIDs, verify_vault(h)
    PROVE  vault[h] \in Vault /\ Stored(h, vault[h].line) /\ share2[h] = vault[h].line /\ vault[h].line \in Lines
<1>1. vault[h] # NoVault /\ vault[h] \in Vault /\ vault[h].signer = share2[h]
  BY DEF verify_vault, IInv, TypeOK
<1>2. vault[h].signer = vault[h].line
  BY <1>1 DEF IInv, LineInv
<1> QED BY <1>1, <1>2 DEF Stored, Vault

\* _on_change_role() and rotate_pin().
LEMMA ReadVaultInv ==
    ASSUME IInv, OneProcess, NEW p \in Procs, NEW h \in HWIDs, ReadVault(p, h)
    PROVE  IInv'
<1>1. /\ read_vault_role(h) /\ Begin(p, "rewrite", "read", h, h, vault[h].line, vault[h].token)
      /\ UNCHANGED <<vault, share2, users, papers, docs, made>> /\ StoresOK'
  BY DEF ReadVault, StoresOK, IInv, TypeOK
<1>2. Stored(h, vault[h].line) /\ share2[h] = vault[h].line /\ vault[h].line \in Lines /\ vault[h].token \in Lines
  BY <1>1, Verified DEF read_vault_role, Vault
<1>3. "rewrite" \in AllOps /\ "read" \in Places \ {"issue"}
  BY DEF AllOps, Places
<1>4. TypeOK' /\ RowInv'
  BY <1>1, <1>2, <1>3, BeginTyped
<1>5. /\ \A q \in Procs : job[q] = {}
      /\ \E k \in Job :
           /\ \A q \in Procs : job'[q] = {k}
           /\ k.at = "read" /\ k.op = "rewrite" /\ k.h = h /\ k.old = h
           /\ k.line = vault[h].line /\ k.token = vault[h].token /\ k.back = NoVault /\ k.back2 = Nil
  BY <1>1, <1>2, <1>3, BeginType DEF IInv
<1>6. PICK k \in Job :
        /\ \A q \in Procs : job'[q] = {k}
        /\ k.at = "read" /\ k.op = "rewrite" /\ k.h = h /\ k.old = h
        /\ k.line = vault[h].line /\ k.token = vault[h].token /\ k.back = NoVault /\ k.back2 = Nil
  BY <1>5
<1>7. \A g \in HWIDs : docs'[g] \subseteq docs[g] /\ (docs'[g] # {} => users'[g] = "approved")
  BY <1>1, Approved
<1>8. Way(k) /\ Written(k) /\ Owner(k)'
  BY <1>2, <1>6 DEF Way, Written, Owner, Making, Renewing, Dropping
<1>9. k.line <= made' /\ made <= made'
  <2>1. made \in Nat /\ made' = made /\ vault[h].line <= made
    BY <1>1, <1>2, NumberType DEF IInv, LineInv, Stored
  <2> QED BY <1>6, <2>1
<1>10. k.at \notin {"share", "row", "undo_file", "undo_share"}
  BY <1>6
<1> QED BY <1>1, <1>4, <1>5, <1>6, <1>7, <1>8, <1>9, <1>10, BeginInv

\* A recovery or a takeover lays its line through shares of the old token, or through
\* a recovery share alone when no document is there to lose.
LEMMA ReprovisionInv ==
    ASSUME IInv, OneProcess, NEW p \in Procs, NEW op \in Renewing, NEW new \in HWIDs, NEW old \in HWIDs,
           NEW paper \in papers, NEW way \in {1, 2},
           op = "recover" => new = old,
           op = "takeover" => new # old /\ users[new] = "none",
           reprovision_vault(p, op, new, old, paper, way),
           UNCHANGED <<vault, share2, row, totp, users, docs, shown, entering, mixed, founded, adrift>>
    PROVE  IInv'
<1> DEFINE key == Recover(Rest(old, way), paper)
           line == IF key = Nil THEN made + 1 ELSE key
<1>1. /\ recover_master_key(old, paper, way)
      /\ made < MaxMade /\ made' = made + 1 /\ Begin(p, op, "replace", new, old, line, made + 1)
      /\ papers' = papers \cup {line}
  BY DEF reprovision_vault, _kasa_hazirla
<1>2. /\ made + 1 \in Lines /\ made + 1 \in 0..MaxMade /\ made <= made + 1 /\ made + 1 # Nil
      /\ \A l \in Lines : l <= made => l <= made + 1 /\ l # made + 1
  BY <1>1, NextLine
<1>3. \A q \in Procs : job[q] = {}
  BY <1>1 DEF Begin, OneProcess
<1>4. /\ \A g \in HWIDs : docs[g] \subseteq Lines /\ (users[g] # "approved" => docs[g] = {})
      /\ \A g, h \in HWIDs, l \in Lines : g # h => ~(Has(g, l) /\ Has(h, l))
      /\ \A h \in HWIDs, l \in Lines : Has(h, l) => docs[h] \subseteq {l} /\ l <= made
  BY <1>3, Resting
<1>5. /\ line \in Lines /\ line <= made + 1 /\ docs[old] \subseteq {line}
      /\ \A g \in HWIDs \ {old} : ~Has(g, line)
  <2>1. CASE key = Nil
    <3>1. docs[old] = {}
      BY <1>1, <1>4, <2>1, NilIsNoLine DEF recover_master_key, _kurtarilan_anahtari_dogrula, _hcl_ile_dogrula
    <3>2. line = made + 1
      BY <2>1
    <3>3. made + 1 <= made + 1
      BY NumberType DEF IInv
    <3>4. \A g \in HWIDs : ~Has(g, made + 1)
      BY <1>2, <1>4
    <3> QED BY <1>2, <3>1, <3>2, <3>3, <3>4
  <2>2. CASE key # Nil
    <3>1. key = Rest(old, way) /\ key = paper /\ line = key
      BY <2>2 DEF Recover
    <3>2. key \in Lines
      BY <3>1 DEF IInv, TypeOK
    <3>3. Has(old, key)
      BY <1>1, <3>1 DEF recover_master_key, _decrypt_vault, Rest, Has, Stored
    <3> QED BY <1>2, <1>4, <3>1, <3>2, <3>3
  <2> QED BY <2>1, <2>2
<1> HIDE DEF line
<1>6. op \in AllOps /\ "replace" \in Places \ {"issue"}
  BY DEF AllOps, Places, Renewing
<1>7. StoresOK'
  BY <1>1, <1>2, <1>5 DEF StoresOK, IInv, TypeOK
<1>8. TypeOK' /\ RowInv'
  BY <1>1, <1>2, <1>5, <1>6, <1>7, BeginTyped
<1>9. \E k \in Job :
        /\ \A q \in Procs : job'[q] = {k}
        /\ k.at = "replace" /\ k.op = op /\ k.h = new /\ k.old = old
        /\ k.line = line /\ k.token = made + 1 /\ k.back = NoVault /\ k.back2 = Nil
  BY <1>1, <1>2, <1>5, <1>6, BeginType DEF IInv
<1>10. PICK k \in Job :
        /\ \A q \in Procs : job'[q] = {k}
        /\ k.at = "replace" /\ k.op = op /\ k.h = new /\ k.old = old
        /\ k.line = line /\ k.token = made + 1 /\ k.back = NoVault /\ k.back2 = Nil
  BY <1>9
<1>11. \A g \in HWIDs : docs'[g] \subseteq docs[g] /\ (docs'[g] # {} => users'[g] = "approved")
  BY Approved
<1>12. Way(k) /\ Written(k)
  BY <1>10 DEF Way, Written, Making, Renewing, Dropping
<1>13. Owner(k)'
  <2>1. op = "takeover" => docs[new] = {}
    BY <1>4
  <2>2. \A g \in HWIDs \ {old} : ~(Has(g, k.line)')
    BY <1>5, <1>10 DEF Has, Stored
  <2>3. line \in papers'
    BY <1>1
  <2>4. k.line \in Lines /\ k.token \in Lines /\ k.line \in papers' /\ docs[old] \subseteq {k.line}
    BY <1>2, <1>5, <1>10, <2>3
  <2> QED BY <1>10, <2>1, <2>2, <2>4 DEF Owner, Making, Renewing
<1>14. k.line <= made' /\ made <= made' /\ papers \subseteq papers'
  BY <1>1, <1>2, <1>5, <1>10
<1>15. k.at \notin {"share", "row", "undo_file", "undo_share"}
  BY <1>10
<1> QED BY <1>3, <1>8, <1>10, <1>11, <1>12, <1>13, <1>14, <1>15, BeginInv

LEMMA StartInv ==
    ASSUME IInv, OneProcess, NEW p \in Procs, Start(p)
    PROVE  IInv'
<1> PICK h \in HWIDs :
      \/ _on_setup_confirm(p, h) \/ _on_register(p, h) \/ _on_detect(p, h)
      \/ _on_reject(p, h) \/ _on_delete(p, h) \/ _on_change_role(p, h) \/ rotate_pin(p, h)
      \/ Setup(p, h) \/ _do_reset(p, h) \/ _cmd_recover(p, h)
      \/ \E g \in HWIDs \ {h} : _cmd_takeover(p, h, g)
  BY DEF Start
<1>1. CASE _on_setup_confirm(p, h)
  <2>1. /\ _kasa_hazirla(p, "wizard", "file", h, h, Nil) /\ "wizard" \in Making
        /\ UNCHANGED <<vault, share2, users, papers>> /\ docs' = [docs EXCEPT ![h] = {}] /\ shown' = shown \cup {made + 1}
    BY <1>1 DEF _on_setup_confirm, create_vault, Making
  <2>2. docs' \in [HWIDs -> SUBSET (Lines \cup {Nil})] /\ docs'[h] = {} /\ \A g \in HWIDs \ {h} : docs'[g] = docs[g]
    BY <2>1 DEF IInv, TypeOK
  <2>3. made' = made + 1 /\ made < MaxMade
    BY <2>1 DEF _kasa_hazirla
  <2>4. made + 1 \in Lines /\ made' \in 0..MaxMade
    BY <2>3, NextLine
  <2>5. StoresOK'
    BY <1>1, <2>1, <2>2, <2>4 DEF _on_setup_confirm, StoresOK, IInv, TypeOK
  <2> QED BY <2>1, <2>2, <2>5, CreateInv
<1>2. CASE _on_register(p, h) \/ _on_detect(p, h)
  <2>1. /\ users[h] = "none" /\ _kasa_hazirla(p, "register", "file", h, h, Nil) /\ "register" \in Making
        /\ UNCHANGED <<vault, share2, row, totp, users, papers, docs, shown, entering, mixed, founded>>
        /\ adrift' = adrift \cup {h}
    BY <1>2 DEF _on_register, _on_detect, register_new_user, create_vault, Making
  <2>2. docs'[h] = {} /\ \A g \in HWIDs \ {h} : docs'[g] = docs[g]
    BY <2>1, Approved
  <2>3. made' = made + 1 /\ made < MaxMade
    BY <2>1 DEF _kasa_hazirla
  <2>4. made' \in 0..MaxMade
    BY <2>3, NextLine
  <2>5. StoresOK'
    BY <2>1, <2>4 DEF StoresOK, IInv, TypeOK
  <2> QED BY <2>1, <2>2, <2>5, CreateInv
<1>3. CASE Setup(p, h) \/ _do_reset(p, h)
  <2>1. PICK op \in {"setup", "reset"}, at \in {"file", "reset_file"} :
        /\ _kasa_hazirla(p, op, at, h, h, Nil)
        /\ UNCHANGED <<vault, share2, row, totp, users, papers, shown, entering, mixed, adrift>>
        /\ docs' = [docs EXCEPT ![h] = {}] /\ founded' = founded \cup {h}
    BY <1>3 DEF Setup, _do_reset, create_vault
  <2>2. docs' \in [HWIDs -> SUBSET (Lines \cup {Nil})] /\ docs'[h] = {} /\ \A g \in HWIDs \ {h} : docs'[g] = docs[g]
    BY <2>1 DEF IInv, TypeOK
  <2>3. made' = made + 1 /\ made < MaxMade
    BY <2>1 DEF _kasa_hazirla
  <2>4. made' \in 0..MaxMade
    BY <2>3, NextLine
  <2>5. StoresOK' /\ op \in Making
    BY <2>1, <2>2, <2>4 DEF StoresOK, IInv, TypeOK, Making
  <2> QED BY <2>1, <2>2, <2>5, CreateInv
<1>4. CASE _on_reject(p, h)
  <2>1. /\ users[h] = "pending" /\ Begin(p, "reject", "drop_totp", h, h, Nil, Nil)
        /\ users' = [users EXCEPT ![h] = "none"] /\ adrift' = adrift \cup {h}
        /\ UNCHANGED <<vault, share2, row, totp, papers, docs, shown, entering, made, mixed, founded>>
    BY <1>4 DEF _on_reject
  <2>2. /\ users' \in [HWIDs -> {"none", "pending", "approved"}]
        /\ \A g \in HWIDs \ {h} : docs'[g] = docs[g] /\ users'[g] = users[g]
    BY <2>1 DEF IInv, TypeOK
  <2>3. docs'[h] = {}
    BY <2>1, Approved
  <2>4. StoresOK'
    BY <2>1, <2>2 DEF StoresOK, IInv, TypeOK
  <2> QED BY <2>1, <2>2, <2>3, <2>4, DropInv
<1>5. CASE _on_delete(p, h)
  <2>1. /\ Begin(p, "delete", "drop_totp", h, h, Nil, Nil)
        /\ users' = [users EXCEPT ![h] = "none"] /\ docs' = [docs EXCEPT ![h] = {}] /\ adrift' = adrift \cup {h}
        /\ UNCHANGED <<vault, share2, row, totp, papers, shown, entering, made, mixed, founded>>
    BY <1>5 DEF _on_delete
  <2>2. /\ users' \in [HWIDs -> {"none", "pending", "approved"}] /\ docs' \in [HWIDs -> SUBSET (Lines \cup {Nil})]
        /\ docs'[h] = {} /\ \A g \in HWIDs \ {h} : docs'[g] = docs[g] /\ users'[g] = users[g]
    BY <2>1 DEF IInv, TypeOK
  <2>3. StoresOK'
    BY <2>1, <2>2 DEF StoresOK, IInv, TypeOK
  <2> QED BY <2>1, <2>2, <2>3, DropInv
<1>6. CASE _on_change_role(p, h) \/ rotate_pin(p, h)
  BY <1>6, ReadVaultInv DEF _on_change_role, rotate_pin
<1>7. CASE _cmd_recover(p, h)
  <2>1. PICK paper \in papers, way \in {1, 2} :
        /\ reprovision_vault(p, "recover", h, h, paper, way)
        /\ UNCHANGED <<vault, share2, row, totp, users, docs, shown, entering, mixed, founded, adrift>>
    BY <1>7 DEF _cmd_recover
  <2>2. "recover" \in Renewing
    BY DEF Renewing
  <2> QED BY <2>1, <2>2, ReprovisionInv
<1>8. ASSUME NEW g \in HWIDs \ {h}, _cmd_takeover(p, h, g)
      PROVE  IInv'
  <2>1. PICK paper \in papers, way \in {1, 2} :
        /\ users[g] = "none" /\ reprovision_vault(p, "takeover", g, h, paper, way)
        /\ UNCHANGED <<vault, share2, row, totp, users, docs, shown, entering, mixed, founded, adrift>>
    BY <1>8 DEF _cmd_takeover
  <2>2. "takeover" \in Renewing
    BY DEF Renewing
  <2> QED BY <2>1, <2>2, ReprovisionInv
<1> QED BY <1>1, <1>2, <1>3, <1>4, <1>5, <1>6, <1>7, <1>8

-----------------------------------------------------------------------------
\* The steps that leave the operations alone.
LEMMA FrameTyped ==
    ASSUME IInv, StoresOK', UNCHANGED job, \A h \in HWIDs : row[h] # NoRow => row'[h] # NoRow
    PROVE  TypeOK' /\ RowInv'
<1>1. TypeOK'
  BY DEF TypeOK, StoresOK, IInv
<1>2. RowInv'
  <2>1. \A p \in Procs : \A j \in job[p] : j.h \in HWIDs /\ (j.at = "issue" => row[j.h] # NoRow)
    BY JobFacts DEF IInv, RowInv
  <2> QED BY <2>1 DEF RowInv
<1> QED BY <1>1, <1>2

LEMMA SyncType ==
    ASSUME IInv, NEW h \in HWIDs, sync_session_user(h)
    PROVE  /\ users' \in [HWIDs -> {"none", "pending", "approved"}]
           /\ \A g \in HWIDs : docs[g] # {} => users'[g] = "approved"
BY Approved DEF sync_session_user, IInv, TypeOK

LEMMA QuietInv ==
    ASSUME IInv, NEW h \in HWIDs,
           \/ _on_approve(h) \/ blacklist_usb(h) \/ export_recovery_share(h)
           \/ _on_login(h) \/ EnterSession(h) \/ _trigger_usb_reauth(h)
    PROVE  IInv'
<1>1. UNCHANGED <<vault, share2, totp, docs, shown, job, made, founded, adrift>> /\ mixed' \subseteq HWIDs
  BY DEF _on_approve, blacklist_usb, export_recovery_share, _on_login, EnterSession, _trigger_usb_reauth,
     _kcv_eksikse_yaz, Completed, IInv, TypeOK
<1>2. ASSUME NEW r \in Row, row[h] # NoRow, row' = [row EXCEPT ![h] = r]
      PROVE  row' \in [HWIDs -> Row \cup {NoRow}] /\ \A g \in HWIDs : row[g] # NoRow => row'[g] # NoRow
  BY <1>2, NoValueAssumption DEF IInv, TypeOK
<1>3. row[h] # NoRow => row[h] \in Row
  BY DEF IInv, TypeOK
<1>4. /\ row' \in [HWIDs -> Row \cup {NoRow}] /\ \A g \in HWIDs : row[g] # NoRow => row'[g] # NoRow
      /\ users' \in [HWIDs -> {"none", "pending", "approved"}] /\ \A g \in HWIDs : docs[g] # {} => users'[g] = "approved"
      /\ papers \subseteq papers' /\ papers' \subseteq Lines /\ entering' \subseteq HWIDs
  <2>1. /\ row \in [HWIDs -> Row \cup {NoRow}] /\ users \in [HWIDs -> {"none", "pending", "approved"}]
        /\ papers \subseteq Lines /\ entering \subseteq HWIDs
        /\ \A g \in HWIDs : docs[g] # {} => users[g] = "approved"
    BY Approved DEF IInv, TypeOK
  <2>2. CASE _on_approve(h)
    BY <2>1, <2>2 DEF _on_approve
  <2>3. CASE blacklist_usb(h)
    <3> DEFINE r == [row[h] EXCEPT !.black = ~row[h].black]
    <3>1. row[h] # NoRow /\ UNCHANGED <<users, papers, entering>> /\ row' = [row EXCEPT ![h].black = ~row[h].black]
      BY <2>3 DEF blacklist_usb
    <3>2. r \in Row
      BY <1>3, <3>1 DEF Row
    <3>3. row' = [row EXCEPT ![h] = r]
      BY <3>1
    <3> HIDE DEF r
    <3> QED BY <1>2, <2>1, <3>1, <3>2, <3>3
  <2>4. CASE export_recovery_share(h)
    <3> DEFINE r == [row[h] EXCEPT !.issued = TRUE]
    <3>1. /\ _decrypt_vault(h) /\ share2[h] # Nil /\ UNCHANGED <<users, entering>>
          /\ papers' = papers \cup ({Key(h)} \ {Nil})
          /\ row' = IF row[h] = NoRow THEN row ELSE [row EXCEPT ![h].issued = TRUE]
      BY <2>4 DEF export_recovery_share
    <3>2. Key(h) \in Lines
      BY <3>1, Verified DEF _decrypt_vault, Key, Recover
    <3>3. CASE row[h] = NoRow
      BY <2>1, <3>1, <3>2, <3>3
    <3>4. CASE row[h] # NoRow
      <4>1. r \in Row
        BY <1>3, <3>4 DEF Row
      <4>2. row' = [row EXCEPT ![h] = r]
        BY <3>1, <3>4
      <4> HIDE DEF r
      <4> QED BY <1>2, <2>1, <3>1, <3>2, <3>4, <4>1, <4>2
    <3> QED BY <3>3, <3>4
  <2>5. CASE _on_login(h)
    <3>1. open_vault(h) /\ _kcv_eksikse_yaz(h) /\ entering' = entering \cup {h} /\ UNCHANGED <<users, papers>>
      BY <2>5 DEF _on_login
    <3> QED BY <2>1, <3>1, KcvType
  <2>6. CASE EnterSession(h)
    <3>1. entering' = entering \ {h} /\ sync_session_user(h) /\ UNCHANGED <<row, papers>>
      BY <2>6 DEF EnterSession
    <3> QED BY <2>1, <3>1, SyncType
  <2>7. CASE _trigger_usb_reauth(h)
    <3>1. open_vault(h) /\ _kcv_eksikse_yaz(h) /\ sync_session_user(h) /\ UNCHANGED <<papers, entering>>
      BY <2>7 DEF _trigger_usb_reauth
    <3> QED BY <2>1, <3>1, KcvType, SyncType
  <2> QED BY <2>2, <2>3, <2>4, <2>5, <2>6, <2>7
<1>5. StoresOK'
  BY <1>1, <1>4 DEF StoresOK, IInv, TypeOK
<1>6. TypeOK' /\ RowInv'
  BY <1>1, <1>4, <1>5, FrameTyped
<1> QED BY <1>1, <1>4, <1>6, FrameInv

\* A session seals under the key whose shares lie at its token, which no operation
\* is about.
LEMMA SealDocumentInv ==
    ASSUME IInv, NEW h \in HWIDs, SealDocument(h)
    PROVE  IInv'
<1>1. /\ users[h] = "approved" /\ open_vault(h) /\ ~Busy(h)
      /\ docs' = [docs EXCEPT ![h] = @ \cup {Key(h)}]
      /\ UNCHANGED <<vault, share2, row, totp, users, papers, shown, entering, job, made, mixed, founded, adrift>>
  BY DEF SealDocument
<1>2. /\ vault[h] # NoVault /\ vault[h].line = Key(h) /\ share2[h] = Key(h) /\ Key(h) \in Lines
  BY <1>1, Verified DEF open_vault, _decrypt_vault, Key, Recover, verify_vault
<1>3. ASSUME NEW l \in docs[h]
      PROVE  l = Key(h)
  <2>1. Kept(h, l)
    BY DEF IInv, DocInv
  <2> QED BY <1>2, <2>1 DEF Kept
<1>4. /\ docs' \in [HWIDs -> SUBSET (Lines \cup {Nil})] /\ docs'[h] = {Key(h)}
      /\ \A g \in HWIDs \ {h} : docs'[g] = docs[g]
  BY <1>1, <1>2, <1>3 DEF IInv, TypeOK
<1>5. StoresOK'
  BY <1>1, <1>4 DEF StoresOK, IInv, TypeOK
<1>6. TypeOK' /\ RowInv'
  BY <1>1, <1>5, FrameTyped
<1>7. LineInv' /\ ApartInv'
  BY <1>1 DEF IInv, LineInv, ApartInv, Has, Stored, Shared
<1>8. DocInv'
  <2> SUFFICES ASSUME NEW g \in HWIDs, NEW l \in docs'[g]
               PROVE  Kept(g, l)'
    BY DEF DocInv
  <2>1. CASE g = h
    BY <1>1, <1>2, <1>4, <2>1 DEF Kept, Pair
  <2>2. CASE g # h
    <3>1. Kept(g, l)
      BY <1>4, <2>2 DEF IInv, DocInv
    <3>2. TakenOver(g, l) => TakenOver(g, l)'
      BY <1>1 DEF TakenOver
    <3>3. Pair(g, l) => Pair(g, l)'
      BY <1>1 DEF Pair
    <3> QED BY <1>1, <1>4, <2>2, <3>1, <3>2, <3>3 DEF Kept
  <2> QED BY <2>1, <2>2
<1>9. JobInv'
  <2> SUFFICES ASSUME NEW p \in Procs, NEW j \in job[p]
               PROVE  (Way(j) /\ Owner(j) /\ Written(j) /\ WayBack(j))'
    BY <1>1 DEF JobInv
  <2>1. j.h \in HWIDs /\ j.old \in HWIDs /\ Way(j) /\ Owner(j) /\ Written(j) /\ WayBack(j)
    BY JobFacts
  <2>2. docs'[j.h] = docs[j.h] /\ docs'[j.old] = docs[j.old]
    BY <1>1, <1>4, <2>1 DEF Busy
  <2>3. Way(j)' /\ Written(j)'
    BY <1>1, <2>1 DEF Way, Written, Stored
  <2>4. Owner(j)'
    BY <1>1, <2>1, <2>2 DEF Owner, Has, Stored
  <2>5. WayBack(j)'
    BY <1>1, <2>1, <2>2 DEF WayBack, Has, Stored
  <2> QED BY <2>3, <2>4, <2>5
<1> QED BY <1>6, <1>7, <1>8, <1>9 DEF IInv

\* A share is lost while all three exist.
LEMMA LoseInv ==
    ASSUME IInv, NEW h \in HWIDs, Lose(h)
    PROVE  IInv'
<1>1. /\ \A p \in Procs : job[p] = {}
      /\ vault[h] # NoVault /\ vault[h].line = share2[h] /\ share2[h] \in papers
      /\ \/ vault' = [vault EXCEPT ![h] = NoVault] /\ UNCHANGED share2
         \/ share2' = [share2 EXCEPT ![h] = Nil] /\ UNCHANGED vault
      /\ UNCHANGED <<row, totp, users, papers, docs, shown, entering, job, made, mixed, founded, adrift>>
  BY DEF Lose
<1>2. /\ vault' \in [HWIDs -> Vault \cup {NoVault}] /\ share2' \in [HWIDs -> Lines \cup {Nil}]
      /\ \A g \in HWIDs \ {h} : vault'[g] = vault[g] /\ share2'[g] = share2[g]
      /\ \/ vault'[h] = NoVault /\ share2'[h] = share2[h]
         \/ vault'[h] = vault[h] /\ share2'[h] = Nil
  BY <1>1 DEF IInv, TypeOK
<1>3. StoresOK'
  BY <1>1, <1>2 DEF StoresOK, IInv, TypeOK
<1>4. TypeOK' /\ RowInv'
  BY <1>1, <1>3, FrameTyped
<1>5. LineInv'
  <2>1. made \in 0..MaxMade /\ made' = made
    BY <1>1 DEF IInv, TypeOK
  <2>2. Nil <= made
    BY <2>1, NatType
  <2>3. \A g \in HWIDs :
          /\ vault[g] # NoVault => vault[g].line <= made /\ vault[g].signer = vault[g].line
          /\ share2[g] <= made
    BY DEF IInv, LineInv
  <2>4. \A g \in HWIDs :
          /\ vault'[g] # NoVault => vault'[g].line <= made /\ vault'[g].signer = vault'[g].line
          /\ share2'[g] <= made
    BY <1>2, <2>2, <2>3, Zenon
  <2> QED BY <1>1, <2>1, <2>4, Zenon DEF LineInv
<1>6. ApartInv'
  <2>1. \A l \in Lines : Has(h, l)' => Has(h, l)
    BY <1>2, NilIsNoLine DEF Has, Stored
  <2>2. \A f, g \in HWIDs, l \in Lines : ~Shared(f, g, l)
    BY <1>1 DEF Shared
  <2> QED BY <1>2, <2>1, <2>2, ApartKept
<1>7. DocInv'
  <2> SUFFICES ASSUME NEW g \in HWIDs, NEW l \in docs[g]
               PROVE  Kept(g, l)'
    BY <1>1 DEF DocInv
  <2>1. Kept(g, l) /\ ~TakenOver(g, l)
    BY <1>1 DEF IInv, DocInv, TakenOver
  <2>2. Pair(g, l)
    BY <2>1 DEF Kept
  <2>3. Pair(g, l)'
    BY <1>1, <1>2, <2>1, <2>2 DEF Kept, Pair
  <2> QED BY <1>1, <1>2, <2>1, <2>3 DEF Kept
<1>8. JobInv'
  BY <1>1 DEF JobInv
<1> QED BY <1>4, <1>5, <1>6, <1>7, <1>8 DEF IInv

LEMMA NextInv ==
    ASSUME IInv, OneProcess, TakeoverRunsThrough, [Next]_vars
    PROVE  IInv'
<1>1. ASSUME NEW p \in Procs, Start(p) \/ Continue(p)
      PROVE  IInv'
  BY <1>1, StartInv, ContinueInv
<1>2. ASSUME NEW h \in HWIDs,
             \/ _on_approve(h) \/ blacklist_usb(h) \/ export_recovery_share(h)
             \/ _on_login(h) \/ EnterSession(h) \/ _trigger_usb_reauth(h)
      PROVE  IInv'
  BY <1>2, QuietInv
<1>3. ASSUME NEW h \in HWIDs, SealDocument(h)
      PROVE  IInv'
  BY <1>3, SealDocumentInv
<1>4. ASSUME NEW h \in HWIDs, Lose(h)
      PROVE  IInv'
  BY <1>4, LoseInv
<1>5. CASE UNCHANGED vars
  <2>1. StoresOK' /\ UNCHANGED <<vault, share2, docs, job, made, papers, users, row>>
    BY <1>5 DEF vars, StoresOK, IInv, TypeOK
  <2>2. TypeOK' /\ RowInv'
    BY <2>1, FrameTyped
  <2> QED BY <2>1, <2>2, Approved, FrameInv
<1> QED BY <1>1, <1>2, <1>3, <1>4, <1>5 DEF Next

LEMMA InitInv == ASSUME Init PROVE IInv
<1>1. /\ made \in {0, 1} /\ made <= MaxMade
      /\ papers = {} /\ docs = [h \in HWIDs |-> {}] /\ entering = {} /\ job = [p \in Procs |-> {}]
      /\ mixed = {} /\ founded = {} /\ adrift = {} /\ shown = Lines \cap {made}
  BY DEF Init
<1>2. PICK h \in HWIDs :
        LET old(value, none) == [g \in HWIDs |-> IF made = 1 /\ g = h THEN value ELSE none] IN
        /\ vault = old([line |-> 1, token |-> 1, signer |-> 1], NoVault)
        /\ share2 = old(1, Nil)
        /\ row = old([token |-> 1, kcv |-> Nil, black |-> FALSE, issued |-> FALSE], NoRow)
        /\ totp = old(1, Nil)
        /\ users = old("approved", "none")
  BY DEF Init
<1> DEFINE v == [line |-> 1, token |-> 1, signer |-> 1]
           r == [token |-> 1, kcv |-> Nil, black |-> FALSE, issued |-> FALSE]
<1>3. /\ vault = [g \in HWIDs |-> IF made = 1 /\ g = h THEN v ELSE NoVault]
      /\ share2 = [g \in HWIDs |-> IF made = 1 /\ g = h THEN 1 ELSE Nil]
      /\ row = [g \in HWIDs |-> IF made = 1 /\ g = h THEN r ELSE NoRow]
      /\ totp = [g \in HWIDs |-> IF made = 1 /\ g = h THEN 1 ELSE Nil]
      /\ users = [g \in HWIDs |-> IF made = 1 /\ g = h THEN "approved" ELSE "none"]
  BY <1>2
<1>4. made \in 0..MaxMade /\ (made = 1 => 1 \in Lines)
  BY <1>1, MadeAssumption DEF Lines
<1>5. made = 1 => v \in Vault /\ r \in Row
  BY <1>4 DEF Vault, Row
<1>6. v.line = 1 /\ v.signer = 1
  OBVIOUS
<1> HIDE DEF v, r
<1>7. TypeOK
  <2>1. vault \in [HWIDs -> Vault \cup {NoVault}]
    BY <1>3, <1>5
  <2>2. row \in [HWIDs -> Row \cup {NoRow}]
    BY <1>3, <1>5
  <2>3. share2 \in [HWIDs -> Lines \cup {Nil}] /\ totp \in [HWIDs -> Lines \cup {Nil}]
    BY <1>3, <1>4
  <2>4. users \in [HWIDs -> {"none", "pending", "approved"}]
    BY <1>3
  <2> QED BY <1>1, <1>4, <2>1, <2>2, <2>3, <2>4 DEF TypeOK
<1>8. RowInv /\ DocInv /\ JobInv
  BY <1>1 DEF RowInv, DocInv, JobInv
<1>9. LineInv
  <2>1. \A g \in HWIDs : (vault[g] # NoVault => vault[g].line <= made /\ vault[g].signer = vault[g].line) /\ share2[g] <= made
    <3> SUFFICES ASSUME NEW g \in HWIDs
                 PROVE  (vault[g] # NoVault => vault[g].line <= made /\ vault[g].signer = vault[g].line) /\ share2[g] <= made
      OBVIOUS
    <3>1. CASE made = 1 /\ g = h
      BY <1>3, <1>6, <3>1
    <3>2. CASE ~(made = 1 /\ g = h)
      BY <1>1, <1>3, <3>2 DEF Nil
    <3> QED BY <3>1, <3>2
  <2> QED BY <1>1, <2>1 DEF LineInv
<1>10. ApartInv
  BY <1>3, NilIsNoLine DEF ApartInv, Has, Stored
<1> QED BY <1>7, <1>8, <1>9, <1>10 DEF IInv

-----------------------------------------------------------------------------
\* In one process, and with takeovers that are not cut short, the invariant holds.
THEOREM Invariance ==
    ASSUME OneProcess, TakeoverRunsThrough
    PROVE  Spec => []IInv
<1>1. Init => IInv
  BY InitInv
<1>2. IInv /\ [Next]_vars => IInv'
  BY NextInv
<1> QED BY <1>1, <1>2, PTL DEF Spec

-----------------------------------------------------------------------------
\* The refinement.
\* Two shares of the key of every sealed document exist.
Recoverable == \A h \in HWIDs : \A k \in docs[h] : \E a, b \in Share(k) : a # b

LEMMA Enough ==
    ASSUME IInv, NEW h \in HWIDs, NEW k \in docs[h]
    PROVE  k \in Lines /\ \E a, b \in Share(k) : a # b
<1>1. Kept(h, k)
  BY DEF IInv, DocInv
<1>2. (1 \in Share(k) /\ 2 \in Share(k)) \/ (1 \in Share(k) /\ 3 \in Share(k)) \/ (2 \in Share(k) /\ 3 \in Share(k))
  <2>1. CASE Pair(h, k)
    BY <1>1, <2>1 DEF Pair, Kept, Share
  <2>2. CASE TakenOver(h, k)
    <3>1. PICK p \in Procs : \E j \in job[p] :
            j.op = "takeover" /\ j.old = h /\ j.h # h /\ j.line = k /\ j.at \in Dropping \cup {"move"}
      BY <2>2 DEF TakenOver
    <3>2. PICK j \in job[p] :
            j.op = "takeover" /\ j.old = h /\ j.h # h /\ j.line = k /\ j.at \in Dropping \cup {"move"}
      BY <3>1
    <3>3. j.h \in HWIDs /\ Stored(j.h, k) /\ share2[j.h] = k
      BY <3>2, JobFacts DEF Written
    <3> QED BY <3>3 DEF Stored, Share
  <2> QED BY <1>1, <2>1, <2>2 DEF Kept
<1> QED BY <1>1, <1>2 DEF Kept

\* A step writes the vault files or the keyring, and no printed share is called back.
LEMMA OneStore ==
    ASSUME [Next]_vars
    PROVE  papers \subseteq papers' /\ (vault' = vault \/ share2' = share2)
<1>1. ASSUME NEW p \in Procs, NEW h \in HWIDs,
             \/ _on_setup_confirm(p, h) \/ _on_register(p, h) \/ _on_detect(p, h)
             \/ _on_reject(p, h) \/ _on_delete(p, h) \/ _on_change_role(p, h) \/ rotate_pin(p, h)
             \/ Setup(p, h) \/ _do_reset(p, h)
      PROVE  UNCHANGED <<vault, share2, papers>>
  BY <1>1 DEF _on_setup_confirm, _on_register, _on_detect, register_new_user, _on_reject, _on_delete,
     _on_change_role, rotate_pin, ReadVault, Setup, _do_reset
<1>2. ASSUME NEW p \in Procs, NEW h \in HWIDs, _cmd_recover(p, h) \/ \E g \in HWIDs \ {h} : _cmd_takeover(p, h, g)
      PROVE  UNCHANGED <<vault, share2>> /\ papers \subseteq papers'
  BY <1>2 DEF _cmd_recover, _cmd_takeover, reprovision_vault
<1>3. ASSUME NEW p \in Procs, Start(p)
      PROVE  UNCHANGED <<vault, share2>> /\ papers \subseteq papers'
  BY <1>1, <1>2, <1>3 DEF Start
<1>4. ASSUME NEW p \in Procs, Continue(p)
      PROVE  UNCHANGED papers /\ (UNCHANGED vault \/ UNCHANGED share2)
  <2>1. CASE CreateFile(p) \/ _save_usb_token(p) \/ InsertToken(p) \/ store_totp_secret_for_hwid(p) \/ OpenFirstVault(p)
    BY <2>1 DEF CreateFile, _save_usb_token, InsertToken, store_totp_secret_for_hwid, OpenFirstVault
  <2>2. CASE InsertUser(p) \/ RegistrationFails(p) \/ EraseTotp(p) \/ delete_usb_token(p) \/ DeleteRow(p) \/ UnlinkVault(p)
    BY <2>2 DEF InsertUser, RegistrationFails, EraseTotp, delete_usb_token, DeleteRow, UnlinkVault
  <2>3. CASE ReplaceVault(p) \/ _hazirlanan_kasayi_dogrula(p) \/ ReprovisionFails(p) \/ _eski_kasayi_geri_yukle(p)
    BY <2>3 DEF ReplaceVault, _hazirlanan_kasayi_dogrula, ReprovisionFails, _eski_kasayi_geri_yukle
  <2>4. CASE MarkIssued(p) \/ takeover_usb(p) \/ CopyTotp(p) \/ MoveAccount(p) \/ ResetFile(p) \/ SealAnew(p) \/ Kill(p)
    BY <2>4 DEF MarkIssued, takeover_usb, CopyTotp, MoveAccount, ResetFile, SealAnew, Kill
  <2> QED BY <1>4, <2>1, <2>2, <2>3, <2>4 DEF Continue
<1>5. ASSUME NEW h \in HWIDs,
             \/ _on_approve(h) \/ blacklist_usb(h) \/ export_recovery_share(h) \/ _on_login(h)
             \/ EnterSession(h) \/ _trigger_usb_reauth(h) \/ SealDocument(h) \/ Lose(h)
      PROVE  papers \subseteq papers' /\ (UNCHANGED vault \/ UNCHANGED share2)
  BY <1>5 DEF _on_approve, blacklist_usb, export_recovery_share, _on_login, EnterSession,
     _trigger_usb_reauth, SealDocument, Lose
<1>6. CASE UNCHANGED vars
  BY <1>6 DEF vars
<1> QED BY <1>3, <1>4, <1>5, <1>6 DEF Next

LEMMA StepInCustody ==
    ASSUME IInv, IInv', Recoverable', [Next]_vars
    PROVE  Abstract!Step
<1> DEFINE Sealed == UNION {docs[h] : h \in HWIDs}
           Held == [k \in Lines |-> Share(k)]
<1>1. Sealed' \in SUBSET Lines
  <2>1. \A h \in HWIDs : \A k \in docs'[h] : k \in Lines
    BY DEF IInv, DocInv, Kept
  <2> QED BY <2>1
<1>2. Held' \in [Lines -> SUBSET {1, 2, 3}]
  BY DEF Share
<1>3. \A k \in Sealed' : \E a, b \in Held'[k] : a # b
  <2>1. \A k \in Sealed' : Held'[k] = Share(k)'
    BY <1>1
  <2> QED BY <2>1 DEF Recoverable
<1>4. ASSUME NEW k \in Sealed \cap Sealed'
      PROVE  \E n \in {1, 2, 3} : Held[k] \ Held'[k] \subseteq {n}
  <2>1. k \in Lines /\ Held[k] = Share(k) /\ Held'[k] = Share(k)'
    BY <1>1
  <2>2. PICK n \in {1, 2} : Share(k) \ Share(k)' \subseteq {n}
    <3>1. papers \subseteq papers'
      BY OneStore
    <3>2. CASE vault' = vault
      BY <3>1, <3>2 DEF Share
    <3>3. CASE share2' = share2
      BY <3>1, <3>3 DEF Share
    <3> QED BY <3>2, <3>3, OneStore
  <2> QED BY <2>1, <2>2
<1> QED BY <1>1, <1>2, <1>3, <1>4 DEF Abstract!Step, Abstract!Enough, Abstract!Shares

LEMMA InitInCustody ==
    ASSUME Init
    PROVE  Abstract!Init
<1>1. UNION {docs[h] : h \in HWIDs} = {}
  BY DEF Init
<1>2. [k \in Lines |-> Share(k)] \in [Lines -> SUBSET {1, 2, 3}]
  BY DEF Share
<1> QED BY <1>1, <1>2 DEF Abstract!Init, Abstract!Enough, Abstract!Shares

\* Whatever is lost or cut short, but a takeover, the accounts of one process are
\* promised what Custody says: two shares of the key of every sealed document.
THEOREM Implementation ==
    ASSUME OneProcess, TakeoverRunsThrough
    PROVE  Spec => KeysInCustody
<1>1. Init => Abstract!Init
  BY InitInCustody
<1>2. IInv => Recoverable
  BY Enough DEF Recoverable
<1>3. IInv /\ IInv' /\ Recoverable' /\ [Next]_vars => [Abstract!Step]_<<UNION {docs[h] : h \in HWIDs}, [k \in Lines |-> Share(k)]>>
  BY StepInCustody
<1> QED BY <1>1, <1>2, <1>3, Invariance, PTL DEF Spec, KeysInCustody, Abstract!Spec

-----------------------------------------------------------------------------
(***************************************************************************)
(* Nobody gets an account by accident.  An account nobody approved is made *)
(* from what lies at a token that has none; so whatever lies there must be *)
(* the work of the wizard or of setup_usb.py, or of an operation that is   *)
(* under way or was cut short.                                             *)
(***************************************************************************)
Left(h) == vault[h] # NoVault \/ share2[h] # Nil \/ row[h] # NoRow
Purpose(h) == users[h] # "none" \/ h \in founded \cup adrift

\* What an operation knows of the token it works on.
Errand(j) ==
    /\ j.op \in {"wizard", "setup", "reset"} => j.h \in founded
    /\ j.op = "register" => j.h \in adrift
    /\ j.op \in {"recover", "rewrite"} => Purpose(j.h)
    /\ j.op = "takeover" =>
        /\ j.at # "replace" => j.h \in adrift
        /\ j.old # j.h => users[j.old] # "none"
        /\ j.at \in Dropping \cup {"move"} => j.old \in adrift
    /\ j.at \in {"drop_file", "move"} => row[j.old] = NoRow

PurposeInv ==
    /\ \A h \in HWIDs : Left(h) \/ h \in entering => Purpose(h)
    /\ \A p \in Procs : \A j \in job[p] : Errand(j)

\* The token an operation writes to has a reason to be written to.
LEMMA Purposeful ==
    ASSUME IInv, PurposeInv, NEW p \in Procs, NEW j \in job[p],
           j.op \in Making \cup {"recover", "rewrite"} \/ (j.op = "takeover" /\ j.at # "replace")
    PROVE  j.h \in HWIDs /\ Purpose(j.h)
<1>1. j.h \in HWIDs
  BY JobFacts
<1>2. Errand(j)
  BY DEF PurposeInv
<1> QED BY <1>1, <1>2 DEF Errand, Purpose, Making

\* An operation that goes on keeps its errand.
LEMMA ErrandGoesOn ==
    ASSUME IInv, OneProcess, PurposeInv, NEW p \in Procs, NEW j \in job[p], NEW at \in Places, Goto(p, j, at),
           UNCHANGED <<users, founded>>, adrift \subseteq adrift', j.at # "replace",
           at \in Dropping \cup {"move"} /\ j.op = "takeover" => j.old \in adrift',
           at \in {"drop_file", "move"} => row'[j.old] = NoRow
    PROVE  \A q \in Procs : \A k \in job'[q] : Errand(k)'
<1>1. PICK k \in Job : /\ \A q \in Procs : job'[q] = {k}
                       /\ k.at = at /\ k.op = j.op /\ k.h = j.h /\ k.old = j.old
  BY GotoType DEF IInv
<1>2. Errand(j)
  BY DEF PurposeInv
<1>3. Errand(k)'
  BY <1>1, <1>2 DEF Errand, Purpose
<1> QED BY <1>1, <1>3

\* A step that adds something at one token only, which has a reason.
LEMMA PurposeStays ==
    ASSUME PurposeInv, UNCHANGED <<users, founded>>, adrift \subseteq adrift', NEW x \in HWIDs, Purpose(x)',
           \A h \in HWIDs \ {x} : Left(h)' => Left(h),
           entering' \subseteq entering \cup {x},
           \A q \in Procs : \A k \in job'[q] : Errand(k)'
    PROVE  PurposeInv'
<1>1. \A h \in HWIDs : Purpose(h) => Purpose(h)'
  BY DEF Purpose
<1>2. \A h \in HWIDs : (Left(h) \/ h \in entering) => Purpose(h)
  BY DEF PurposeInv
<1>3. \A h \in HWIDs \ {x} : (Left(h)' \/ h \in entering') => Left(h) \/ h \in entering
  OBVIOUS
<1>4. \A h \in HWIDs : (Left(h)' \/ h \in entering') => Purpose(h)'
  BY <1>1, <1>2, <1>3
<1> QED BY <1>4 DEF PurposeInv

\* create_vault() and _save_usb_token(): the file, share 2, the row.
LEMMA WritingPurpose ==
    ASSUME IInv, OneProcess, PurposeInv, NEW p \in Procs,
           CreateFile(p) \/ _save_usb_token(p) \/ InsertToken(p) \/ OpenFirstVault(p) \/ MarkIssued(p)
    PROVE  PurposeInv'
<1>1. PICK j \in job[p] :
        /\ j.at \in {"file", "share", "row", "open", "issue"}
        /\ \/ End(p)
           \/ \E at \in Places \ (Dropping \cup {"move"}) : Goto(p, j, at)
        /\ UNCHANGED <<users, founded, adrift, entering>>
        /\ \A g \in HWIDs \ {j.h} : vault'[g] = vault[g] /\ share2'[g] = share2[g] /\ row'[g] = row[g]
  <2>1. CASE CreateFile(p)
    BY <2>1 DEF CreateFile, At, _rewrite_vault, Places, Dropping, IInv, TypeOK
  <2>2. CASE _save_usb_token(p)
    BY <2>2 DEF _save_usb_token, At, Places, Dropping, IInv, TypeOK
  <2>3. CASE InsertToken(p)
    BY <2>3 DEF InsertToken, SaveRow, At, Places, Dropping, IInv, TypeOK
  <2>4. CASE OpenFirstVault(p)
    BY <2>4 DEF OpenFirstVault, At, Places, Dropping
  <2>5. CASE MarkIssued(p)
    BY <2>5 DEF MarkIssued, At, Places, Dropping, IInv, TypeOK
  <2> QED BY <2>1, <2>2, <2>3, <2>4, <2>5
<1>2. j.op \in Making \cup Renewing
  BY <1>1, JobFacts DEF Way, Making
<1>3. j.h \in HWIDs /\ Purpose(j.h)
  BY <1>1, <1>2, Purposeful DEF Renewing
<1>4. \A q \in Procs : \A k \in job'[q] : Errand(k)'
  <2>1. CASE End(p)
    BY <2>1, EndType DEF IInv
  <2>2. ASSUME NEW at \in Places \ (Dropping \cup {"move"}), Goto(p, j, at)
        PROVE  \A q \in Procs : \A k \in job'[q] : Errand(k)'
    <3>1. at \notin {"drop_file", "move"} /\ at \in Places /\ j.at # "replace" /\ UNCHANGED <<users, founded, adrift>>
      BY <1>1, <2>2 DEF Dropping
    <3> QED BY <2>2, <3>1, ErrandGoesOn
  <2> QED BY <1>1, <2>1, <2>2
<1>5. Purpose(j.h)'
  BY <1>1, <1>3 DEF Purpose
<1>6. \A g \in HWIDs \ {j.h} : Left(g)' => Left(g)
  BY <1>1 DEF Left
<1> QED BY <1>1, <1>3, <1>4, <1>5, <1>6, PurposeStays

\* discard_vault() and what leads to it: nothing is added to a store.
LEMMA DroppingPurpose ==
    ASSUME IInv, OneProcess, PurposeInv, NEW p \in Procs,
           \/ RegistrationFails(p) \/ EraseTotp(p) \/ delete_usb_token(p) \/ DeleteRow(p)
           \/ ReprovisionFails(p) \/ CopyTotp(p) \/ ResetFile(p)
    PROVE  PurposeInv'
<1>1. PICK j \in job[p], at \in Places :
        /\ Goto(p, j, at) /\ UNCHANGED <<users, founded, entering>> /\ adrift \subseteq adrift'
        /\ at \in Dropping \cup {"move"} => j.at \in Dropping \/ j.op = "register" \/ j.old \in adrift'
        /\ at \in {"drop_file", "move"} => row'[j.old] = NoRow
        /\ j.at # "replace" /\ at # "issue"
        /\ \A g \in HWIDs : Left(g)' => Left(g)
  <2> USE DEF IInv, TypeOK, Left, Dropping, Places
  <2>0. \A j \in job[p] : j.h \in HWIDs /\ j.old \in HWIDs
    BY JobFacts
  <2>1. CASE RegistrationFails(p)
    BY <2>1 DEF RegistrationFails
  <2>2. CASE EraseTotp(p)
    BY <2>2 DEF EraseTotp, At
  <2>3. CASE delete_usb_token(p)
    <3>1. PICK j \in job[p] :
            /\ j.at \in {"drop_share", "reset_share"}
            /\ share2' = [share2 EXCEPT ![j.old] = Nil]
            /\ Goto(p, j, IF j.at = "drop_share" THEN "drop_row" ELSE "reset_row")
            /\ UNCHANGED <<vault, row, totp, users, papers, docs, shown, entering, made, mixed, founded, adrift>>
      BY <2>3 DEF delete_usb_token
    <3>2. \A g \in HWIDs : share2'[g] = Nil \/ share2'[g] = share2[g]
      BY <3>1
    <3>3. \A g \in HWIDs : Left(g)' => Left(g)
      BY <3>1, <3>2
    <3>4. CASE j.at = "drop_share"
      BY <3>1, <3>3, <3>4
    <3>5. CASE j.at = "reset_share"
      BY <3>1, <3>3, <3>5
    <3> QED BY <3>1, <3>4, <3>5
  <2>4. CASE DeleteRow(p)
    <3>1. PICK j \in job[p] :
            /\ j.at \in {"drop_row", "reset_row"}
            /\ row' = [row EXCEPT ![j.old] = NoRow]
            /\ Goto(p, j, IF j.at = "drop_row" THEN "drop_file" ELSE "file")
            /\ UNCHANGED <<vault, share2, totp, users, papers, docs, shown, entering, made, mixed, founded, adrift>>
      BY <2>4 DEF DeleteRow
    <3>2. row'[j.old] = NoRow /\ \A g \in HWIDs : row'[g] = NoRow \/ row'[g] = row[g]
      BY <2>0, <3>1
    <3>3. \A g \in HWIDs : Left(g)' => Left(g)
      BY <3>1, <3>2
    <3>4. CASE j.at = "drop_row"
      BY <3>1, <3>2, <3>3, <3>4
    <3>5. CASE j.at = "reset_row"
      BY <3>1, <3>3, <3>5
    <3> QED BY <3>1, <3>4, <3>5
  <2>5. CASE ReprovisionFails(p)
    BY <2>5 DEF ReprovisionFails
  <2>6. CASE CopyTotp(p)
    BY <2>6 DEF CopyTotp, At
  <2>7. CASE ResetFile(p)
    <3>1. \A g \in HWIDs : vault'[g] = NoVault \/ vault'[g] = vault[g]
      BY <2>7 DEF ResetFile, At
    <3> QED BY <2>7, <3>1 DEF ResetFile, At
  <2> QED BY <2>1, <2>2, <2>3, <2>4, <2>5, <2>6, <2>7
<1>2. at \in Dropping \cup {"move"} /\ j.op = "takeover" => j.old \in adrift'
  BY <1>1 DEF PurposeInv, Errand
<1>3. \A q \in Procs : \A k \in job'[q] : Errand(k)'
  BY <1>1, <1>2, ErrandGoesOn
<1>4. \A h \in HWIDs : (Left(h) \/ h \in entering) => Purpose(h)
  BY DEF PurposeInv
<1>5. \A h \in HWIDs : Purpose(h) => Purpose(h)'
  BY <1>1 DEF Purpose
<1> QED BY <1>1, <1>3, <1>4, <1>5 DEF PurposeInv

\* An operation that ends and has only put something at its own token, which has a reason.
LEMMA EndingPurpose ==
    ASSUME IInv, OneProcess, PurposeInv, NEW p \in Procs,
           \/ _hazirlanan_kasayi_dogrula(p) \/ SealAnew(p) \/ Kill(p) \/ _eski_kasayi_geri_yukle(p)
           \/ takeover_usb(p) \/ ReplaceVault(p) \/ store_totp_secret_for_hwid(p)
    PROVE  PurposeInv'
<1>1. \A j \in job[p] : /\ j \in Job /\ j.h \in HWIDs /\ j.old \in HWIDs /\ j.at \in Places /\ Way(j) /\ Errand(j)
  BY JobFacts DEF PurposeInv
<1>2. End(p) => \A q \in Procs : \A k \in job'[q] : Errand(k)'
  BY EndType DEF IInv
<1>3. CASE _hazirlanan_kasayi_dogrula(p) \/ Kill(p)
  <2>1. End(p) /\ UNCHANGED <<vault, share2, row, users, entering, founded, adrift>>
    BY <1>3 DEF _hazirlanan_kasayi_dogrula, Kill
  <2> QED BY <1>2, <2>1 DEF PurposeInv, Purpose, Left
<1>4. CASE SealAnew(p)
  <2>1. PICK j \in job[p] :
          /\ j.at = "read" /\ End(p) /\ UNCHANGED <<share2, row, users, entering, founded, adrift>>
          /\ \A g \in HWIDs \ {j.h} : vault'[g] = vault[g]
    BY <1>4 DEF SealAnew, At, _rewrite_vault, IInv, TypeOK
  <2>2. j.h \in HWIDs /\ Purpose(j.h)
    BY <1>1, <2>1, Purposeful DEF Way
  <2>3. Purpose(j.h)' /\ \A g \in HWIDs \ {j.h} : Left(g)' => Left(g)
    BY <2>1, <2>2 DEF Purpose, Left
  <2> QED BY <1>2, <2>1, <2>2, <2>3, PurposeStays
<1>5. CASE _eski_kasayi_geri_yukle(p)
  <2>1. PICK j \in job[p] :
          /\ j.at \in {"undo_file", "undo_share"} /\ UNCHANGED <<row, users, entering, founded, adrift>>
          /\ (j.at = "undo_file" /\ Goto(p, j, "undo_share")) \/ End(p)
          /\ \A g \in HWIDs \ {j.h} : vault'[g] = vault[g] /\ share2'[g] = share2[g]
    BY <1>5 DEF _eski_kasayi_geri_yukle, IInv, TypeOK
  <2>2. j.op \in Renewing
    BY <1>1, <2>1 DEF Way
  <2>3. j.h \in HWIDs /\ Purpose(j.h)
    BY <2>1, <2>2, Purposeful DEF Renewing
  <2>4. Purpose(j.h)' /\ \A g \in HWIDs \ {j.h} : Left(g)' => Left(g)
    BY <2>1, <2>3 DEF Purpose, Left
  <2>5. "undo_share" \in Places \ (Dropping \cup {"move", "drop_file"})
    BY DEF Places, Dropping
  <2>6. ASSUME Goto(p, j, "undo_share")
        PROVE  \A q \in Procs : \A k \in job'[q] : Errand(k)'
    BY <2>1, <2>5, <2>6, ErrandGoesOn
  <2> QED BY <1>2, <2>1, <2>3, <2>4, <2>6, PurposeStays
<1>6. CASE takeover_usb(p)
  <2>1. PICK j \in job[p] :
          /\ j.at = "check" /\ UNCHANGED <<vault, share2, row, users, entering, founded, adrift>>
          /\ Goto(p, j, "copy") \/ job' = [job EXCEPT ![p] = {[j EXCEPT !.at = "drop_totp", !.old = j.h]}]
    BY <1>6 DEF takeover_usb, At
  <2>2. /\ \A h \in HWIDs : (Left(h)' \/ h \in entering') => Purpose(h)'
    BY <2>1 DEF PurposeInv, Left, Purpose
  <2>3. CASE Goto(p, j, "copy")
    <3>1. "copy" \in Places \ (Dropping \cup {"move", "drop_file"})
      BY DEF Places, Dropping
    <3>2. \A q \in Procs : \A k \in job'[q] : Errand(k)'
      BY <2>1, <2>3, <3>1, ErrandGoesOn
    <3> QED BY <2>2, <3>2 DEF PurposeInv
  <2>4. CASE job' = [job EXCEPT ![p] = {[j EXCEPT !.at = "drop_totp", !.old = j.h]}]
    <3> DEFINE k == [j EXCEPT !.at = "drop_totp", !.old = j.h]
    <3>1. /\ k \in Job /\ k.at = "drop_totp" /\ k.old = j.h /\ k.h = j.h /\ k.op = j.op
      BY <1>1 DEF Job, Places
    <3>2. job' = [job EXCEPT ![p] = {k}]
      BY <2>4
    <3> HIDE DEF k
    <3>3. \A q \in Procs : job'[q] = {k}
      BY <3>1, <3>2, ReplaceType DEF IInv
    <3>4. j.op = "takeover" /\ j.h \in adrift
      BY <1>1, <2>1 DEF Way, Errand
    <3>5. Errand(k)'
      BY <2>1, <3>1, <3>4 DEF Errand
    <3> QED BY <2>2, <3>3, <3>5 DEF PurposeInv
  <2> QED BY <2>1, <2>3, <2>4
<1>7. CASE ReplaceVault(p)
  <2>1. PICK j \in job[p] :
          /\ j.at = "replace" /\ _rewrite_vault(j.h, j.line, j.token, j.line)
          /\ job' = [job EXCEPT ![p] = {[j EXCEPT !.at = "share", !.back = vault[j.h], !.back2 = share2[j.h]]}]
          /\ adrift' = IF j.op = "takeover" THEN adrift \cup {j.h} ELSE adrift
          /\ UNCHANGED <<share2, row, users, entering, founded>>
    BY <1>7 DEF ReplaceVault, At
  <2>2. PICK k \in Job : k.at = "share" /\ k.old = j.old /\ k.h = j.h /\ k.op = j.op /\ job' = [job EXCEPT ![p] = {k}]
    <3>1. vault[j.h] \in Vault \cup {NoVault} /\ share2[j.h] \in Lines \cup {Nil} /\ j \in Job /\ "share" \in Places
      BY <1>1 DEF IInv, TypeOK, Places
    <3> DEFINE i == [j EXCEPT !.at = "share", !.back = vault[j.h], !.back2 = share2[j.h]]
    <3>2. i \in Job /\ i.at = "share" /\ i.old = j.old /\ i.h = j.h /\ i.op = j.op
      BY <3>1 DEF Job
    <3>3. job' = [job EXCEPT ![p] = {i}]
      BY <2>1
    <3> HIDE DEF i
    <3> QED BY <3>2, <3>3
  <2>4. \A q \in Procs : job'[q] = {k}
    BY <2>2, ReplaceType DEF IInv
  <2>5. j.op \in Renewing /\ Errand(j) /\ j.h \in HWIDs
    BY <1>1, <2>1 DEF Way
  <2>6. Errand(k)'
    <3>1. CASE j.op = "recover"
      BY <2>1, <2>2, <2>5, <3>1 DEF Errand, Purpose
    <3>2. CASE j.op = "takeover"
      <4>1. j.h \in adrift' /\ users' = users /\ (j.old # j.h => users[j.old] # "none")
        BY <2>1, <2>5, <3>2 DEF Errand
      <4> QED BY <2>2, <3>2, <4>1 DEF Errand, Dropping
    <3> QED BY <2>5, <3>1, <3>2 DEF Renewing
  <2>7. Purpose(j.h)'
    BY <2>1, <2>5 DEF Errand, Purpose, Renewing
  <2>8. \A g \in HWIDs \ {j.h} : Left(g)' => Left(g)
    BY <2>1 DEF Left, _rewrite_vault, IInv, TypeOK
  <2>9. adrift \subseteq adrift' /\ UNCHANGED <<users, founded>> /\ entering' \subseteq entering \cup {j.h}
    BY <2>1
  <2>10. \A q \in Procs : \A i \in job'[q] : Errand(i)'
    BY <2>4, <2>6
  <2> QED BY <2>5, <2>7, <2>8, <2>9, <2>10, PurposeStays
<1>8. CASE store_totp_secret_for_hwid(p)
  <2>1. PICK j \in job[p] :
          /\ j.at = "totp" /\ UNCHANGED <<vault, share2, row, users, founded, adrift>>
          /\ entering' \subseteq entering \cup {j.h}
          /\ End(p) \/ Goto(p, j, "user")
    BY <1>8 DEF store_totp_secret_for_hwid, At
  <2>2. j.op \in Making
    BY <1>1, <2>1 DEF Way, Making
  <2>3. j.h \in HWIDs /\ Purpose(j.h)
    BY <2>2, Purposeful
  <2>4. Purpose(j.h)' /\ \A g \in HWIDs \ {j.h} : Left(g)' => Left(g)
    BY <2>1, <2>3 DEF Purpose, Left
  <2>5. "user" \in Places \ (Dropping \cup {"move", "drop_file"})
    BY DEF Places, Dropping
  <2>6. ASSUME Goto(p, j, "user")
        PROVE  \A q \in Procs : \A k \in job'[q] : Errand(k)'
    BY <2>1, <2>5, <2>6, ErrandGoesOn
  <2> QED BY <1>2, <2>1, <2>3, <2>4, <2>6, PurposeStays
<1> QED BY <1>3, <1>4, <1>5, <1>6, <1>7, <1>8

\* An operation lets go of its token when the account is there, or nothing is left.
LEMMA LettingGo ==
    ASSUME IInv, OneProcess, PurposeInv, NEW p \in Procs, InsertUser(p) \/ UnlinkVault(p) \/ MoveAccount(p)
    PROVE  PurposeInv'
<1>1. \A j \in job[p] : /\ j \in Job /\ j.h \in HWIDs /\ j.old \in HWIDs /\ Way(j) /\ Written(j) /\ Errand(j)
  BY JobFacts DEF PurposeInv
<1>2. End(p) => \A q \in Procs : \A k \in job'[q] : Errand(k)'
  BY EndType DEF IInv
<1>3. \A h \in HWIDs : (Left(h) \/ h \in entering) => Purpose(h)
  BY DEF PurposeInv
<1>4. CASE InsertUser(p)
  <2>1. PICK j \in job[p] :
          /\ j.at = "user" /\ UNCHANGED <<vault, share2, row, entering, founded>>
          /\ \/ /\ users' = [users EXCEPT ![j.h] = "pending"]
                /\ adrift' = adrift \ {j.h} /\ End(p)
             \/ Goto(p, j, "drop_totp") /\ UNCHANGED <<users, adrift>>
    BY <1>4 DEF InsertUser, At
  <2>2. CASE users' = [users EXCEPT ![j.h] = "pending"] /\ adrift' = adrift \ {j.h} /\ End(p)
    <3>1. users'[j.h] # "none" /\ \A g \in HWIDs \ {j.h} : users'[g] = users[g]
      BY <1>1, <2>2 DEF IInv, TypeOK
    <3>2. \A h \in HWIDs : Purpose(h) => Purpose(h)'
      BY <2>1, <2>2, <3>1 DEF Purpose
    <3>3. \A h \in HWIDs : (Left(h)' \/ h \in entering') => Purpose(h)'
      BY <1>3, <2>1, <3>2 DEF Left
    <3> QED BY <1>2, <2>2, <3>3 DEF PurposeInv
  <2>3. CASE Goto(p, j, "drop_totp") /\ UNCHANGED <<users, adrift>>
    <3>1. j.op = "register" /\ "drop_totp" \in Places
      BY <1>1, <2>1 DEF Way, Places
    <3>2. \A q \in Procs : \A k \in job'[q] : Errand(k)'
      BY <2>1, <2>3, <3>1, ErrandGoesOn
    <3> QED BY <1>3, <2>1, <2>3, <3>2 DEF PurposeInv, Purpose, Left
  <2> QED BY <2>1, <2>2, <2>3
<1>5. CASE UnlinkVault(p)
  <2>1. PICK j \in job[p] :
          /\ j.at = "drop_file" /\ UNCHANGED <<share2, row, users, entering, founded>>
          /\ vault' = [vault EXCEPT ![j.old] = NoVault]
          /\ IF j.old # j.h THEN Goto(p, j, "move") /\ UNCHANGED adrift
             ELSE End(p) /\ adrift' = adrift \ ({j.h} \ entering)
    BY <1>5 DEF UnlinkVault, At
  <2>2. /\ vault'[j.old] = NoVault /\ share2[j.old] = Nil /\ row[j.old] = NoRow
        /\ \A g \in HWIDs \ {j.old} : vault'[g] = vault[g]
    BY <1>1, <2>1 DEF Written, Errand, IInv, TypeOK
  <2>3. ~Left(j.old)' /\ \A g \in HWIDs : Left(g)' => Left(g)
    BY <1>1, <2>1, <2>2 DEF Left
  <2>4. CASE j.old # j.h
    <3>1. Goto(p, j, "move") /\ UNCHANGED adrift /\ "move" \in Places
      BY <2>1, <2>4 DEF Places
    <3>2. j.op = "takeover" /\ j.old \in adrift'
      BY <1>1, <2>1, <2>4, <3>1 DEF Way, Errand, Dropping
    <3>3. \A q \in Procs : \A k \in job'[q] : Errand(k)'
      BY <2>1, <2>2, <3>1, <3>2, ErrandGoesOn
    <3> QED BY <1>3, <2>1, <2>3, <3>1, <3>3 DEF PurposeInv, Purpose
  <2>5. CASE j.old = j.h
    <3>1. End(p) /\ adrift' = adrift \ ({j.h} \ entering)
      BY <2>1, <2>5
    <3>2. \A h \in HWIDs : (Left(h)' \/ h \in entering') => Purpose(h)'
      BY <1>3, <2>1, <2>3, <2>5, <3>1 DEF Purpose
    <3> QED BY <1>2, <3>1, <3>2 DEF PurposeInv
  <2> QED BY <2>4, <2>5
<1>6. CASE MoveAccount(p)
  <2>1. PICK j \in job[p] :
          /\ j.at = "move" /\ users[j.h] = "none"
          /\ users' = [users EXCEPT ![j.h] = users[j.old], ![j.old] = "none"]
          /\ adrift' = adrift \ ({j.h, j.old} \ entering) /\ End(p)
          /\ UNCHANGED <<vault, share2, row, entering, founded>>
    BY <1>6 DEF MoveAccount, At
  <2>2. /\ j.op = "takeover" /\ j.old # j.h /\ users[j.old] # "none" /\ j.old \in adrift
        /\ row[j.old] = NoRow /\ share2[j.old] = Nil /\ vault[j.old] = NoVault
    BY <1>1, <2>1 DEF Way, Written, Errand, Dropping
  <2>3. /\ users'[j.h] # "none" /\ \A g \in HWIDs \ {j.h, j.old} : users'[g] = users[g]
    BY <1>1, <2>1, <2>2 DEF IInv, TypeOK
  <2>4. ~Left(j.old)' /\ \A g \in HWIDs : Left(g)' => Left(g)
    BY <2>1, <2>2 DEF Left
  <2>5. j.old \in entering => j.old \in adrift'
    BY <2>1, <2>2
  <2>6. \A g \in HWIDs \ {j.h, j.old} : Purpose(g) => Purpose(g)'
    BY <2>1, <2>3 DEF Purpose
  <2>7. \A h \in HWIDs : (Left(h)' \/ h \in entering') => Purpose(h)'
    <3> SUFFICES ASSUME NEW h \in HWIDs, Left(h)' \/ h \in entering'
                 PROVE  Purpose(h)'
      OBVIOUS
    <3>1. CASE h = j.h
      BY <2>3, <3>1 DEF Purpose
    <3>2. CASE h = j.old
      BY <2>1, <2>4, <2>5, <3>2 DEF Purpose
    <3>3. CASE h \notin {j.h, j.old}
      BY <1>3, <2>1, <2>4, <2>6, <3>3
    <3> QED BY <3>1, <3>2, <3>3
  <2> QED BY <1>2, <2>1, <2>7 DEF PurposeInv
<1> QED BY <1>4, <1>5, <1>6

\* An operation that begins: it has written nothing.
LEMMA BegunPurpose ==
    ASSUME IInv, OneProcess, PurposeInv, NEW p \in Procs, NEW op \in AllOps, NEW at \in Places \ {"move", "drop_file"},
           NEW h \in HWIDs, NEW old \in HWIDs, NEW line \in Lines \cup {Nil}, NEW token \in Lines \cup {Nil},
           Begin(p, op, at, h, old, line, token),
           UNCHANGED <<vault, share2, row, entering>>, founded \subseteq founded', adrift \subseteq adrift',
           \A g \in HWIDs : users'[g] = users[g] \/ g \in adrift',
           op \in {"wizard", "setup", "reset"} => h \in founded',
           op = "register" => h \in adrift',
           op \in {"recover", "rewrite"} => Purpose(h)',
           op = "takeover" => at = "replace" /\ (old # h => users'[old] # "none")
    PROVE  PurposeInv'
<1>1. PICK k \in Job : (\A q \in Procs : job'[q] = {k}) /\ k.at = at /\ k.op = op /\ k.h = h /\ k.old = old
  BY BeginType DEF IInv
<1>2. Errand(k)'
  BY <1>1 DEF Errand, Dropping
<1>3. \A g \in HWIDs : Purpose(g) => Purpose(g)'
  BY DEF Purpose
<1> QED BY <1>1, <1>2, <1>3 DEF PurposeInv, Left

\* reprovision_vault() finds a share at the old token.
LEMMA RestIsLeft ==
    ASSUME IInv, NEW h \in HWIDs, NEW paper \in papers, NEW way \in {1, 2}, recover_master_key(h, paper, way)
    PROVE  Left(h) /\ Rest(h, way) \in Lines \cup {Nil}
<1>1. Left(h)
  BY DEF recover_master_key, _decrypt_vault, Left
<1>2. CASE way = 1
  <2>1. vault[h] \in Vault
    BY <1>2 DEF recover_master_key, _decrypt_vault, IInv, TypeOK
  <2> QED BY <1>1, <1>2, <2>1 DEF Rest, Vault
<1>3. CASE way # 1
  BY <1>1, <1>3 DEF Rest, IInv, TypeOK
<1> QED BY <1>2, <1>3

LEMMA StartPurpose ==
    ASSUME IInv, OneProcess, PurposeInv, NEW p \in Procs, Start(p)
    PROVE  PurposeInv'
<1> PICK h \in HWIDs :
      \/ _on_setup_confirm(p, h) \/ _on_register(p, h) \/ _on_detect(p, h)
      \/ _on_reject(p, h) \/ _on_delete(p, h) \/ _on_change_role(p, h) \/ rotate_pin(p, h)
      \/ Setup(p, h) \/ _do_reset(p, h) \/ _cmd_recover(p, h)
      \/ \E g \in HWIDs \ {h} : _cmd_takeover(p, h, g)
  BY DEF Start
<1>0. /\ AllOps = {"wizard", "register", "reject", "delete", "reset", "setup", "rewrite", "recover", "takeover"}
      /\ {"file", "reset_file", "drop_totp", "read", "replace"} \subseteq Places \ {"move", "drop_file"}
  BY DEF AllOps, Places
<1>1. made < MaxMade => made + 1 \in Lines
  BY NextLine
<1>2. ASSUME NEW op \in {"wizard", "register", "setup", "reset"}, NEW at \in {"file", "reset_file"},
             _kasa_hazirla(p, op, at, h, h, Nil), UNCHANGED <<vault, share2, row, users, entering>>,
             founded \subseteq founded', adrift \subseteq adrift',
             op = "register" => h \in adrift', op # "register" => h \in founded'
      PROVE  PurposeInv'
  <2>1. Begin(p, op, at, h, h, made + 1, made + 1) /\ made + 1 \in Lines
    BY <1>1, <1>2 DEF _kasa_hazirla
  <2> QED BY <1>0, <1>2, <2>1, BegunPurpose
<1>3. CASE _on_setup_confirm(p, h) \/ _on_register(p, h) \/ _on_detect(p, h) \/ Setup(p, h) \/ _do_reset(p, h)
  <2>1. CASE _on_setup_confirm(p, h)
    BY <1>2, <2>1 DEF _on_setup_confirm, create_vault
  <2>2. CASE _on_register(p, h) \/ _on_detect(p, h)
    BY <1>2, <2>2 DEF _on_register, _on_detect, register_new_user, create_vault
  <2>3. CASE Setup(p, h)
    BY <1>2, <2>3 DEF Setup, create_vault
  <2>4. CASE _do_reset(p, h)
    BY <1>2, <2>4 DEF _do_reset
  <2> QED BY <1>3, <2>1, <2>2, <2>3, <2>4
<1>4. CASE _on_reject(p, h) \/ _on_delete(p, h)
  <2>1. PICK op \in {"reject", "delete"} :
          /\ Begin(p, op, "drop_totp", h, h, Nil, Nil)
          /\ users' = [users EXCEPT ![h] = "none"] /\ adrift' = adrift \cup {h}
          /\ UNCHANGED <<vault, share2, row, entering, founded>>
    BY <1>4 DEF _on_reject, _on_delete
  <2>2. \A g \in HWIDs : users'[g] = users[g] \/ g \in adrift'
    BY <2>1 DEF IInv, TypeOK
  <2> QED BY <1>0, <2>1, <2>2, BegunPurpose
<1>5. CASE _on_change_role(p, h) \/ rotate_pin(p, h)
  <2>1. /\ read_vault_role(h) /\ Begin(p, "rewrite", "read", h, h, vault[h].line, vault[h].token)
        /\ UNCHANGED <<vault, share2, row, users, entering, founded, adrift>>
    BY <1>5 DEF _on_change_role, rotate_pin, ReadVault
  <2>2. vault[h] \in Vault /\ vault[h] # NoVault
    BY <2>1, Verified DEF read_vault_role, verify_vault
  <2>3. vault[h].line \in Lines /\ vault[h].token \in Lines /\ Purpose(h)'
    BY <2>1, <2>2 DEF Vault, PurposeInv, Left, Purpose
  <2> QED BY <1>0, <2>1, <2>3, BegunPurpose
<1>6. ASSUME NEW op \in {"recover", "takeover"}, NEW g \in HWIDs, NEW paper \in papers, NEW way \in {1, 2},
             reprovision_vault(p, op, g, h, paper, way),
             op = "recover" => g = h,
             op = "takeover" => users[h] # "none",
             UNCHANGED <<vault, share2, row, totp, users, docs, shown, entering, mixed, founded, adrift>>
      PROVE  PurposeInv'
  <2> DEFINE key == Recover(Rest(h, way), paper)
             line == IF key = Nil THEN made + 1 ELSE key
  <2>1. recover_master_key(h, paper, way) /\ made < MaxMade /\ Begin(p, op, "replace", g, h, line, made + 1)
    BY <1>6 DEF reprovision_vault, _kasa_hazirla
  <2>2. Rest(h, way) \in Lines \cup {Nil}
    BY <2>1, RestIsLeft
  <2>3. line \in Lines /\ made + 1 \in Lines
    BY <1>1, <2>1, <2>2 DEF Recover
  <2>4. Purpose(h)'
    BY <1>6, <2>1, RestIsLeft DEF PurposeInv, Purpose
  <2> HIDE DEF line
  <2> QED BY <1>0, <1>6, <2>1, <2>3, <2>4, BegunPurpose
<1>7. CASE _cmd_recover(p, h)
  BY <1>6, <1>7 DEF _cmd_recover
<1>8. ASSUME NEW g \in HWIDs \ {h}, _cmd_takeover(p, h, g)
      PROVE  PurposeInv'
  BY <1>6, <1>8 DEF _cmd_takeover
<1> QED BY <1>3, <1>4, <1>5, <1>7, <1>8

\* The steps that leave the operations alone.
LEMMA QuietPurpose ==
    ASSUME IInv, PurposeInv, NEW h \in HWIDs,
           \/ _on_approve(h) \/ blacklist_usb(h) \/ export_recovery_share(h) \/ _on_login(h)
           \/ EnterSession(h) \/ _trigger_usb_reauth(h) \/ SealDocument(h) \/ Lose(h)
    PROVE  PurposeInv'
<1>1. /\ UNCHANGED <<job, founded, adrift>>
      /\ \A g \in HWIDs : users[g] # "none" => users'[g] # "none"
      /\ \A g \in HWIDs : row'[g] = row[g] \/ (row[g] # NoRow)
      /\ \A g \in HWIDs : vault'[g] = vault[g] \/ vault'[g] = NoVault
      /\ \A g \in HWIDs : share2'[g] = share2[g] \/ share2'[g] = Nil
      /\ \A g \in HWIDs : g \in entering' => g \in entering \/ row[g] # NoRow
  <2>0. TypeOK
    BY DEF IInv
  <2>1. CASE _on_approve(h)
    BY <2>0, <2>1 DEF _on_approve, TypeOK
  <2>2. CASE blacklist_usb(h)
    BY <2>0, <2>2 DEF blacklist_usb, TypeOK
  <2>3. CASE export_recovery_share(h)
    BY <2>0, <2>3 DEF export_recovery_share, TypeOK
  <2>4. CASE _on_login(h)
    BY <2>0, <2>4 DEF _on_login, open_vault, _kcv_eksikse_yaz, TypeOK
  <2>5. CASE EnterSession(h)
    BY <2>0, <2>5 DEF EnterSession, sync_session_user, TypeOK
  <2>6. CASE _trigger_usb_reauth(h)
    BY <2>0, <2>6 DEF _trigger_usb_reauth, open_vault, _kcv_eksikse_yaz, sync_session_user, TypeOK
  <2>7. CASE SealDocument(h)
    BY <2>0, <2>7 DEF SealDocument
  <2>8. CASE Lose(h)
    BY <2>0, <2>8 DEF Lose, TypeOK
  <2> QED BY <2>1, <2>2, <2>3, <2>4, <2>5, <2>6, <2>7, <2>8
<1>2. \A g \in HWIDs : Left(g)' \/ g \in entering' => Left(g) \/ g \in entering
  BY <1>1 DEF Left
<1>3. \A g \in HWIDs : Purpose(g) => Purpose(g)'
  BY <1>1 DEF Purpose
<1>4. \A g \in HWIDs : Left(g)' \/ g \in entering' => Purpose(g)'
  BY <1>2, <1>3 DEF PurposeInv
<1>5. ASSUME NEW p \in Procs, NEW j \in job[p]
      PROVE  Errand(j)'
  <2>1. /\ Errand(j) /\ j.h \in HWIDs /\ j.old \in HWIDs
    BY <1>5, JobFacts DEF PurposeInv
  <2>2. row[j.old] = NoRow => row'[j.old] = NoRow
    BY <1>1, <2>1
  <2>3. Purpose(j.h) => Purpose(j.h)'
    BY <1>3, <2>1
  <2>4. users[j.old] # "none" => users'[j.old] # "none"
    BY <1>1, <2>1
  <2> QED BY <1>1, <2>1, <2>2, <2>3, <2>4 DEF Errand
<1> QED BY <1>1, <1>4, <1>5 DEF PurposeInv

\* Who gets an account that was not there, and was not asked for.
LEMMA WhoIsProvisioned ==
    ASSUME IInv, PurposeInv, [Next]_vars, NEW h \in HWIDs, users[h] = "none", users'[h] = "approved"
    PROVE  h \in founded \cup adrift
<1>0. users \in [HWIDs -> {"none", "pending", "approved"}]
  BY DEF IInv, TypeOK
<1>1. ASSUME NEW p \in Procs, NEW g \in HWIDs,
             \/ _on_setup_confirm(p, g) \/ _on_register(p, g) \/ _on_detect(p, g)
             \/ _on_reject(p, g) \/ _on_delete(p, g) \/ _on_change_role(p, g) \/ rotate_pin(p, g)
             \/ Setup(p, g) \/ _do_reset(p, g) \/ _cmd_recover(p, g)
             \/ \E f \in HWIDs \ {g} : _cmd_takeover(p, g, f)
      PROVE  FALSE
  BY <1>0, <1>1 DEF _on_setup_confirm, _on_register, _on_detect, register_new_user, _on_reject, _on_delete,
     _on_change_role, rotate_pin, ReadVault, Setup, _do_reset, _cmd_recover, _cmd_takeover
<1>2. ASSUME NEW p \in Procs, Continue(p)
      PROVE  h \in founded \cup adrift
  <2>1. CASE MoveAccount(p)
    <3>1. PICK j \in job[p] : j.at = "move" /\ users' = [users EXCEPT ![j.h] = users[j.old], ![j.old] = "none"]
      BY <2>1 DEF MoveAccount, At
    <3>2. j.op = "takeover" /\ j.h \in adrift
      <4>1. Way(j) /\ Errand(j)
        BY <3>1, JobFacts DEF PurposeInv
      <4> QED BY <3>1, <4>1 DEF Way, Errand
    <3>3. h = j.h
      BY <1>0, <3>1
    <3> QED BY <3>2, <3>3
  <2>2. CASE InsertUser(p)
    BY <1>0, <2>2 DEF InsertUser
  <2>3. CASE CreateFile(p) \/ _save_usb_token(p) \/ InsertToken(p) \/ store_totp_secret_for_hwid(p) \/ OpenFirstVault(p)
    BY <2>3 DEF CreateFile, _save_usb_token, InsertToken, store_totp_secret_for_hwid, OpenFirstVault
  <2>4. CASE RegistrationFails(p) \/ EraseTotp(p) \/ delete_usb_token(p) \/ DeleteRow(p) \/ UnlinkVault(p)
    BY <2>4 DEF RegistrationFails, EraseTotp, delete_usb_token, DeleteRow, UnlinkVault
  <2>5. CASE ReplaceVault(p) \/ _hazirlanan_kasayi_dogrula(p) \/ ReprovisionFails(p) \/ _eski_kasayi_geri_yukle(p)
    BY <2>5 DEF ReplaceVault, _hazirlanan_kasayi_dogrula, ReprovisionFails, _eski_kasayi_geri_yukle
  <2>6. CASE MarkIssued(p) \/ takeover_usb(p) \/ CopyTotp(p) \/ ResetFile(p) \/ SealAnew(p) \/ Kill(p)
    BY <2>6 DEF MarkIssued, takeover_usb, CopyTotp, ResetFile, SealAnew, Kill
  <2> QED BY <1>2, <2>1, <2>2, <2>3, <2>4, <2>5, <2>6 DEF Continue
<1>3. ASSUME NEW g \in HWIDs, EnterSession(g)
      PROVE  h \in founded \cup adrift
  <2>1. g \in entering /\ h = g
    BY <1>0, <1>3 DEF EnterSession, sync_session_user
  <2> QED BY <2>1 DEF PurposeInv, Purpose
<1>4. ASSUME NEW g \in HWIDs, _trigger_usb_reauth(g)
      PROVE  h \in founded \cup adrift
  <2>1. row[g] # NoRow /\ h = g
    BY <1>0, <1>4 DEF _trigger_usb_reauth, authenticate_usb, sync_session_user
  <2> QED BY <2>1 DEF PurposeInv, Purpose, Left
<1>5. ASSUME NEW g \in HWIDs,
             \/ _on_approve(g) \/ blacklist_usb(g) \/ export_recovery_share(g) \/ _on_login(g)
             \/ SealDocument(g) \/ Lose(g)
      PROVE  FALSE
  BY <1>0, <1>5 DEF _on_approve, blacklist_usb, export_recovery_share, _on_login, SealDocument, Lose
<1>6. CASE UNCHANGED vars
  BY <1>6 DEF vars
<1> QED BY <1>1, <1>2, <1>3, <1>4, <1>5, <1>6 DEF Next, Start

LEMMA PurposeStep ==
    ASSUME IInv, OneProcess, PurposeInv, [Next]_vars
    PROVE  PurposeInv'
<1>1. ASSUME NEW p \in Procs, Continue(p)
      PROVE  PurposeInv'
  BY <1>1, WritingPurpose, DroppingPurpose, EndingPurpose, LettingGo DEF Continue
<1>2. CASE UNCHANGED vars
  BY <1>2 DEF vars, PurposeInv, Purpose, Left, Errand
<1> QED BY <1>1, <1>2, StartPurpose, QuietPurpose DEF Next

LEMMA PurposeInit ==
    ASSUME Init
    PROVE  PurposeInv
<1>1. /\ \A p \in Procs : job[p] = {}
      /\ entering = {}
  BY DEF Init
<1>2. PICK h \in HWIDs : \A g \in HWIDs :
        \/ made = 1 /\ g = h /\ users[g] = "approved"
        \/ vault[g] = NoVault /\ share2[g] = Nil /\ row[g] = NoRow
  BY DEF Init
<1> QED BY <1>1, <1>2 DEF PurposeInv, Purpose, Left

\* In one process, with takeovers that are not cut short, whatever else is: an
\* account that nobody approved comes from the wizard or from setup_usb.py, or
\* from an operation that is under way or was cut short (registration.py,
\* session_user.py).
THEOREM NotByAccident ==
    ASSUME OneProcess, TakeoverRunsThrough
    PROVE  Spec => ProvisionedOnPurpose
<1>1. Init => PurposeInv
  BY PurposeInit
<1>2. IInv /\ PurposeInv /\ [Next]_vars => PurposeInv'
  BY PurposeStep
<1>3. IInv /\ PurposeInv /\ [Next]_vars
      => [\A h \in HWIDs : users[h] = "none" /\ users'[h] = "approved" => h \in founded \cup adrift]_vars
  BY WhoIsProvisioned
<1> QED BY <1>1, <1>2, <1>3, Invariance, PTL DEF Spec, ProvisionedOnPurpose

-----------------------------------------------------------------------------
(***************************************************************************)
(* What a row says.  A row and a vault belong together when they carry one *)
(* token_id; no other vault ever gets it, because an operation writes the  *)
(* token_id it made up into the vault first and into the row last.         *)
(***************************************************************************)
Truth(r, l) == r.kcv \in {Nil, l} /\ (r.issued => l \in papers)
Together(v, r) == v # NoVault /\ r # NoRow /\ v.token = r.token

Before == {"file", "share", "row", "replace", "undo_file", "reset_file", "reset_share", "reset_row"}
\* What an operation knows of the row of its token: the row does not have its
\* token_id before it is written, and tells the truth of the vault that may be
\* put back.
Told(j) ==
    /\ j.op = "rewrite" => vault[j.h].token = j.token
    /\ j.at \in Before =>
        /\ j.token <= made
        /\ row[j.h] # NoRow => row[j.h].token # j.token
    /\ j.at \in {"share", "row", "undo_file"} => Stored(j.h, j.line) /\ vault[j.h].token = j.token
    /\ /\ j.op \in Renewing /\ j.at \in {"share", "row", "undo_file"}
       /\ j.h \notin mixed /\ Together(j.back, row[j.h])
       => Truth(row[j.h], j.back.line)

TruthInv ==
    /\ \A h \in HWIDs : row[h] # NoRow => row[h].token <= made
    /\ \A h \in HWIDs \ mixed : Together(vault[h], row[h]) => Truth(row[h], vault[h].line)
    /\ \A p \in Procs : \A j \in job[p] : Told(j)

\* An invariant of the stores gives what the run checks.
LEMMA RowsTrue ==
    ASSUME IInv, TruthInv
    PROVE  RowTellsTheTruth
<1> SUFFICES ASSUME NEW h \in HWIDs \ mixed, authenticate_usb(h)
             PROVE  row[h].kcv \in {Nil, Key(h)} /\ (row[h].issued => Key(h) \in papers)
  BY DEF RowTellsTheTruth
<1>1. Together(vault[h], row[h]) /\ Key(h) = vault[h].line
  BY Verified DEF authenticate_usb, Together, Key, Recover, verify_vault
<1> QED BY <1>1 DEF TruthInv, Truth

\* A step that leaves the rows and the vaults, and the operation, as far as a row
\* depends on them.
LEMMA TruthKept ==
    ASSUME IInv, TruthInv, OneProcess, NEW p \in Procs, NEW j \in job[p],
           UNCHANGED <<vault, row, mixed, made>>, papers \subseteq papers',
           \/ \A q \in Procs : job'[q] = {}
           \/ \E k \in Job : /\ \A q \in Procs : job'[q] = {k}
                             /\ k.op # "rewrite"
                             /\ k.at \in Before => /\ j.at \in Before
                                                   /\ k.h = j.h /\ k.token = j.token
                             /\ k.at \in {"share", "row", "undo_file"} =>
                                  /\ j.at \in {"share", "row", "undo_file"}
                                  /\ k.op = j.op /\ k.h = j.h /\ k.line = j.line /\ k.token = j.token /\ k.back = j.back
    PROVE  TruthInv'
<1>1. Told(j)
  BY DEF TruthInv
<1>2. \A q \in Procs : \A k \in job'[q] : Told(k)'
  <2>1. ASSUME NEW k \in Job, \A q \in Procs : job'[q] = {k}, k.op # "rewrite",
               k.at \in Before => j.at \in Before /\ k.h = j.h /\ k.token = j.token,
               k.at \in {"share", "row", "undo_file"} =>
                 /\ j.at \in {"share", "row", "undo_file"}
                 /\ k.op = j.op /\ k.h = j.h /\ k.line = j.line /\ k.token = j.token /\ k.back = j.back
        PROVE  Told(k)'
    BY <1>1, <2>1 DEF Told, Stored, Together, Truth
  <2> QED BY <2>1
<1> QED BY <1>2 DEF TruthInv, Together, Truth

\* The same, for an operation that goes on by name.
LEMMA TruthGoesOn ==
    ASSUME IInv, TruthInv, OneProcess, NEW p \in Procs, NEW j \in job[p], NEW at \in Places, Goto(p, j, at),
           UNCHANGED <<vault, row, mixed, made, papers>>, j.op # "rewrite",
           at \in Before => j.at \in Before,
           at \in {"share", "row", "undo_file"} => j.at \in {"share", "row", "undo_file"}
    PROVE  TruthInv'
<1>1. \E k \in Job : /\ \A q \in Procs : job'[q] = {k}
                     /\ k.at = at /\ k.op = j.op /\ k.h = j.h /\ k.line = j.line /\ k.token = j.token /\ k.back = j.back
  BY GotoType DEF IInv
<1> QED BY <1>1, TruthKept

\* A step that writes the row or the vault of one token.
LEMMA TruthAtOne ==
    ASSUME IInv, TruthInv, NEW x \in HWIDs, made' = made, papers \subseteq papers',
           \A g \in HWIDs \ {x} : vault'[g] = vault[g] /\ row'[g] = row[g] /\ (g \in mixed <=> g \in mixed'),
           row'[x] # NoRow => row'[x].token <= made,
           x \notin mixed' /\ Together(vault[x], row[x])' => Truth(row[x], vault[x].line)',
           \A q \in Procs : \A k \in job'[q] : Told(k)'
    PROVE  TruthInv'
<1>1. \A h \in HWIDs : row'[h] # NoRow => row'[h].token <= made'
  BY DEF TruthInv
<1>2. ASSUME NEW h \in HWIDs, h \notin mixed', Together(vault[h], row[h])'
      PROVE  Truth(row[h], vault[h].line)'
  <2>1. CASE h = x
    BY <1>2, <2>1 DEF Together, Truth
  <2>2. CASE h # x
    <3>1. Truth(row[h], vault[h].line)
      BY <1>2, <2>2 DEF TruthInv, Together
    <3> QED BY <2>2, <3>1 DEF Truth
  <2> QED BY <2>1, <2>2
<1> QED BY <1>1, <1>2 DEF TruthInv

\* Steps of an operation that write neither the vault nor the row.
LEMMA PassingTruth ==
    ASSUME IInv, TruthInv, OneProcess, NEW p \in Procs,
           \/ _save_usb_token(p) \/ OpenFirstVault(p) \/ store_totp_secret_for_hwid(p) \/ InsertUser(p)
           \/ RegistrationFails(p) \/ EraseTotp(p) \/ delete_usb_token(p) \/ ReprovisionFails(p) \/ CopyTotp(p)
           \/ MoveAccount(p) \/ _hazirlanan_kasayi_dogrula(p) \/ Kill(p)
    PROVE  TruthInv'
<1>1. PICK j \in job[p] :
        /\ UNCHANGED <<vault, row, mixed, made, papers>>
        /\ \/ End(p)
           \/ j.at # "read" /\ \E at \in Places : /\ Goto(p, j, at)
                                                  /\ at \in Before => j.at \in Before
                                                  /\ at \in {"share", "row", "undo_file"} => j.at \in {"share", "row", "undo_file"}
  <2> USE DEF Places, Before
  <2>1. CASE _save_usb_token(p)
    BY <2>1 DEF _save_usb_token, At
  <2>2. CASE OpenFirstVault(p)
    BY <2>2 DEF OpenFirstVault, At
  <2>3. CASE store_totp_secret_for_hwid(p)
    BY <2>3 DEF store_totp_secret_for_hwid, At
  <2>4. CASE InsertUser(p)
    BY <2>4 DEF InsertUser, At
  <2>5. CASE RegistrationFails(p)
    BY <2>5 DEF RegistrationFails
  <2>6. CASE EraseTotp(p)
    BY <2>6 DEF EraseTotp, At
  <2>7. CASE delete_usb_token(p)
    <3>1. PICK j \in job[p] :
            /\ j.at \in {"drop_share", "reset_share"} /\ UNCHANGED <<vault, row, mixed, made, papers>>
            /\ Goto(p, j, IF j.at = "drop_share" THEN "drop_row" ELSE "reset_row")
      BY <2>7 DEF delete_usb_token
    <3>2. CASE j.at = "drop_share"
      BY <3>1, <3>2
    <3>3. CASE j.at = "reset_share"
      BY <3>1, <3>3
    <3> QED BY <3>1, <3>2, <3>3
  <2>8. CASE ReprovisionFails(p)
    BY <2>8 DEF ReprovisionFails
  <2>9. CASE CopyTotp(p)
    BY <2>9 DEF CopyTotp, At
  <2>10. CASE MoveAccount(p) \/ _hazirlanan_kasayi_dogrula(p) \/ Kill(p)
    BY <2>10 DEF MoveAccount, _hazirlanan_kasayi_dogrula, Kill, At
  <2> QED BY <2>1, <2>2, <2>3, <2>4, <2>5, <2>6, <2>7, <2>8, <2>9, <2>10
<1>2. CASE End(p)
  <2>1. \A q \in Procs : job'[q] = {}
    BY <1>2, EndType DEF IInv
  <2> QED BY <1>1, <2>1, TruthKept
<1>3. ASSUME NEW at \in Places, Goto(p, j, at), j.at # "read", at \in Before => j.at \in Before,
             at \in {"share", "row", "undo_file"} => j.at \in {"share", "row", "undo_file"}
      PROVE  TruthInv'
  <2>1. j.op # "rewrite"
    BY <1>3, JobFacts DEF Way
  <2> QED BY <1>1, <1>3, <2>1, TruthGoesOn
<1> QED BY <1>1, <1>2, <1>3

\* The new vault of a takeover does not open: it is the one to discard.
LEMMA TakeoverTruth ==
    ASSUME IInv, TruthInv, OneProcess, NEW p \in Procs, takeover_usb(p)
    PROVE  TruthInv'
<1>1. PICK j \in job[p] :
        /\ j.at = "check" /\ UNCHANGED <<vault, row, mixed, made, papers>>
        /\ Goto(p, j, "copy") \/ job' = [job EXCEPT ![p] = {[j EXCEPT !.at = "drop_totp", !.old = j.h]}]
  BY DEF takeover_usb, At
<1>2. j \in Job /\ j.op = "takeover" /\ j.h \in HWIDs
  BY <1>1, JobFacts DEF Way
<1>3. CASE Goto(p, j, "copy")
  <2>1. "copy" \in Places \ Before /\ {"share", "row", "undo_file"} \subseteq Before
    BY DEF Places, Before
  <2> QED BY <1>1, <1>2, <1>3, <2>1, TruthGoesOn
<1>4. CASE job' = [job EXCEPT ![p] = {[j EXCEPT !.at = "drop_totp", !.old = j.h]}]
  <2> DEFINE k == [j EXCEPT !.at = "drop_totp", !.old = j.h]
  <2>1. k \in Job /\ k.at = "drop_totp" /\ k.op = "takeover"
    BY <1>2 DEF Job, Places
  <2>2. job' = [job EXCEPT ![p] = {k}]
    BY <1>4
  <2> HIDE DEF k
  <2>3. \A q \in Procs : job'[q] = {k}
    BY <2>1, <2>2, ReplaceType DEF IInv
  <2>4. k.op # "rewrite" /\ k.at \notin Before /\ k.at \notin {"share", "row", "undo_file"}
    BY <2>1 DEF Before
  <2> QED BY <1>1, <2>1, <2>3, <2>4, TruthKept
<1> QED BY <1>1, <1>3, <1>4

\* A vault with a token_id its row does not have.
LEMMA CreateTruth ==
    ASSUME IInv, TruthInv, OneProcess, NEW p \in Procs, CreateFile(p)
    PROVE  TruthInv'
<1>1. PICK j \in job[p] :
        /\ j.at = "file" /\ _rewrite_vault(j.h, j.line, j.token, j.line) /\ Goto(p, j, "share")
        /\ UNCHANGED <<row, mixed, made, papers>>
  BY DEF CreateFile, At
<1>2. j.h \in HWIDs /\ j.op \in Making /\ j.line \in Lines /\ j.token \in Lines /\ Told(j)
  BY <1>1, JobFacts DEF Way, Owner, TruthInv
<1>3. /\ vault'[j.h] # NoVault /\ vault'[j.h].line = j.line /\ vault'[j.h].token = j.token
      /\ \A g \in HWIDs \ {j.h} : vault'[g] = vault[g]
  BY <1>1, <1>2, RewriteType DEF _rewrite_vault, IInv, TypeOK
<1>4. PICK k \in Job : /\ \A q \in Procs : job'[q] = {k}
                       /\ k.at = "share" /\ k.op = j.op /\ k.h = j.h
                       /\ k.line = j.line /\ k.token = j.token /\ k.back = j.back
  <2>1. "share" \in Places
    BY DEF Places
  <2> QED BY <1>1, <2>1, GotoType DEF IInv
<1>5. j.token <= made /\ (row[j.h] # NoRow => row[j.h].token # j.token)
  BY <1>1, <1>2 DEF Told, Before
<1>6. Told(k)'
  <2>1. k.op # "rewrite" /\ k.op \notin Renewing
    BY <1>2, <1>4 DEF Making, Renewing
  <2>2. Stored(k.h, k.line)' /\ vault'[k.h].token = k.token /\ k.token <= made' /\ (row'[k.h] # NoRow => row'[k.h].token # k.token)
    BY <1>1, <1>3, <1>4, <1>5 DEF Stored
  <2> QED BY <2>1, <2>2 DEF Told
<1>7. ~Together(vault[j.h], row[j.h])'
  BY <1>1, <1>3, <1>5 DEF Together
<1>8. row[j.h] # NoRow => row[j.h].token <= made
  BY <1>2 DEF TruthInv
<1> QED BY <1>1, <1>2, <1>3, <1>4, <1>6, <1>7, <1>8, TruthAtOne

LEMMA ReplaceTruth ==
    ASSUME IInv, TruthInv, OneProcess, NEW p \in Procs, ReplaceVault(p)
    PROVE  TruthInv'
<1>1. PICK j \in job[p] :
        /\ j.at = "replace" /\ _rewrite_vault(j.h, j.line, j.token, j.line)
        /\ job' = [job EXCEPT ![p] = {[j EXCEPT !.at = "share", !.back = vault[j.h], !.back2 = share2[j.h]]}]
        /\ UNCHANGED <<row, mixed, made, papers>>
  BY DEF ReplaceVault, At
<1>2. /\ j \in Job /\ j.h \in HWIDs /\ j.op \in Renewing /\ j.line \in Lines /\ j.token \in Lines /\ Told(j)
      /\ vault[j.h] \in Vault \cup {NoVault} /\ share2[j.h] \in Lines \cup {Nil}
  BY <1>1, JobFacts DEF Way, Owner, TruthInv, IInv, TypeOK
<1>3. /\ vault'[j.h] # NoVault /\ vault'[j.h].line = j.line /\ vault'[j.h].token = j.token
      /\ \A g \in HWIDs \ {j.h} : vault'[g] = vault[g]
  BY <1>1, <1>2, RewriteType, ZenonT(60) DEF _rewrite_vault, IInv, TypeOK
<1>4. PICK k \in Job : /\ \A q \in Procs : job'[q] = {k}
                       /\ k.at = "share" /\ k.op = j.op /\ k.h = j.h
                       /\ k.line = j.line /\ k.token = j.token /\ k.back = vault[j.h]
  <2> DEFINE i == [j EXCEPT !.at = "share", !.back = vault[j.h], !.back2 = share2[j.h]]
  <2>1. /\ i \in Job /\ i.at = "share" /\ i.op = j.op /\ i.h = j.h
        /\ i.line = j.line /\ i.token = j.token /\ i.back = vault[j.h]
    <3>1. "share" \in Places
      BY DEF Places
    <3> QED BY <1>2, <3>1 DEF Job
  <2>2. job' = [job EXCEPT ![p] = {i}]
    BY <1>1
  <2> HIDE DEF i
  <2> QED BY <2>1, <2>2, ReplaceType DEF IInv
<1>5. j.token <= made /\ (row[j.h] # NoRow => row[j.h].token # j.token)
  BY <1>1, <1>2 DEF Told, Before
<1>6. Told(k)'
  <2>1. k.op # "rewrite"
    BY <1>2, <1>4 DEF Renewing
  <2>2. Stored(k.h, k.line)' /\ vault'[k.h].token = k.token /\ k.token <= made' /\ (row'[k.h] # NoRow => row'[k.h].token # k.token)
    BY <1>1, <1>3, <1>4, <1>5 DEF Stored
  <2>3. k.h \notin mixed' /\ Together(k.back, row'[k.h]) => Truth(row[k.h], k.back.line)'
    BY <1>1, <1>2, <1>4 DEF TruthInv, Together, Truth
  <2> QED BY <2>1, <2>2, <2>3 DEF Told
<1>7. ~Together(vault[j.h], row[j.h])'
  BY <1>1, <1>3, <1>5 DEF Together
<1>8. row[j.h] # NoRow => row[j.h].token <= made
  BY <1>2 DEF TruthInv
<1> QED BY <1>1, <1>2, <1>3, <1>4, <1>6, <1>7, <1>8, TruthAtOne

\* The row is written whole: it has the token_id, the key check value, and counts
\* as not issued.
LEMMA InsertTruth ==
    ASSUME IInv, TruthInv, OneProcess, NEW p \in Procs, InsertToken(p)
    PROVE  TruthInv'
<1>1. PICK j \in job[p] :
        /\ j.at = "row" /\ SaveRow(j.h, j.line, j.token)
        /\ IF j.op \in {"setup", "reset"} THEN End(p)
           ELSE Goto(p, j, CASE j.op \in {"recover", "takeover"} -> "issue" [] j.op = "wizard" -> "open" [] OTHER -> "totp")
        /\ mixed' = mixed \ {j.h} /\ UNCHANGED <<vault, made, papers>>
  BY DEF InsertToken, At
<1>2. j.h \in HWIDs /\ j.op \in Making \cup Renewing /\ Told(j)
  BY <1>1, JobFacts DEF Way, TruthInv
<1>3. /\ row'[j.h] = [token |-> j.token, kcv |-> j.line, black |-> FALSE, issued |-> FALSE]
      /\ \A g \in HWIDs \ {j.h} : row'[g] = row[g]
  BY <1>1, <1>2 DEF SaveRow, IInv, TypeOK
<1>4. \A q \in Procs : \A k \in job'[q] : Told(k)'
  <2>1. CASE End(p)
    BY <2>1, EndType DEF IInv
  <2>2. ASSUME NEW at \in {"issue", "open", "totp"}, Goto(p, j, at)
        PROVE  \A q \in Procs : \A k \in job'[q] : Told(k)'
    <3>1. PICK k \in Job : (\A q \in Procs : job'[q] = {k}) /\ k.at = at /\ k.op = j.op
      <4>1. at \in Places
        BY DEF Places
      <4> QED BY <2>2, <4>1, GotoType DEF IInv
    <3>2. k.op # "rewrite" /\ k.at \notin Before /\ k.at \notin {"share", "row", "undo_file"}
      BY <1>2, <3>1 DEF Making, Renewing, Before
    <3> QED BY <3>1, <3>2 DEF Told
  <2>3. CASE j.op \in {"setup", "reset"}
    BY <1>1, <2>1, <2>3
  <2>4. CASE j.op \in {"recover", "takeover"}
    BY <1>1, <2>2, <2>4
  <2>5. CASE j.op = "wizard"
    BY <1>1, <2>2, <2>5
  <2>6. CASE j.op = "register"
    BY <1>1, <2>2, <2>6
  <2> QED BY <1>2, <2>3, <2>4, <2>5, <2>6 DEF Making, Renewing
<1>5. vault[j.h] # NoVault /\ vault[j.h].line = j.line /\ j.token <= made
  BY <1>1, <1>2 DEF Told, Stored, Before
<1>6. Truth(row[j.h], vault[j.h].line)'
  BY <1>1, <1>3, <1>5 DEF Truth
<1>7. row'[j.h].token <= made
  BY <1>3, <1>5
<1> QED BY <1>1, <1>2, <1>3, <1>4, <1>6, <1>7, TruthAtOne

\* A vault or a row that goes says nothing.
LEMMA GoneTruth ==
    ASSUME IInv, TruthInv, OneProcess, NEW p \in Procs, DeleteRow(p) \/ UnlinkVault(p) \/ ResetFile(p)
    PROVE  TruthInv'
<1>1. PICK j \in job[p], x \in HWIDs :
        /\ x = j.h \/ j.at \in Dropping
        /\ vault'[x] = NoVault \/ row'[x] = NoRow
        /\ row'[x] \in {row[x], NoRow}
        /\ \A g \in HWIDs \ {x} : vault'[g] = vault[g] /\ row'[g] = row[g]
        /\ UNCHANGED <<mixed, made, papers>> /\ j.at # "read"
        /\ \/ End(p)
           \/ \E at \in {"drop_file", "move", "reset_share", "file"} :
                Goto(p, j, at) /\ (at \in Before => x = j.h /\ j.at \in Before)
  <2>0. \A j \in job[p] : j.h \in HWIDs /\ j.old \in HWIDs /\ Way(j)
    BY JobFacts
  <2>1. CASE DeleteRow(p)
    <3>1. PICK j \in job[p] :
            /\ j.at \in {"drop_row", "reset_row"}
            /\ row' = [row EXCEPT ![j.old] = NoRow]
            /\ Goto(p, j, IF j.at = "drop_row" THEN "drop_file" ELSE "file")
            /\ UNCHANGED <<vault, mixed, made, papers>>
      BY <2>1 DEF DeleteRow
    <3>2. row'[j.old] = NoRow /\ \A g \in HWIDs \ {j.old} : row'[g] = row[g]
      BY <2>0, <3>1 DEF IInv, TypeOK
    <3>3. CASE j.at = "drop_row"
      BY <2>0, <3>1, <3>2, <3>3 DEF Dropping, Before
    <3>4. CASE j.at = "reset_row"
      <4>1. j.old = j.h
        BY <2>0, <3>4 DEF Way, Making
      <4> QED BY <2>0, <3>1, <3>2, <3>4, <4>1 DEF Before
    <3> QED BY <3>1, <3>3, <3>4
  <2>2. CASE UnlinkVault(p)
    BY <2>0, <2>2 DEF UnlinkVault, At, Dropping, Before, IInv, TypeOK
  <2>3. CASE ResetFile(p)
    BY <2>0, <2>3 DEF ResetFile, At, Before, IInv, TypeOK
  <2> QED BY <2>1, <2>2, <2>3
<1>2. j.op # "rewrite" /\ Told(j)
  BY <1>1, JobFacts DEF Way, TruthInv
<1>3. \A q \in Procs : \A k \in job'[q] : Told(k)'
  <2>1. CASE End(p)
    BY <2>1, EndType DEF IInv
  <2>2. ASSUME NEW at \in {"drop_file", "move", "reset_share", "file"}, Goto(p, j, at),
               at \in Before => x = j.h /\ j.at \in Before
        PROVE  \A q \in Procs : \A k \in job'[q] : Told(k)'
    <3>1. PICK k \in Job : (\A q \in Procs : job'[q] = {k}) /\ k.at = at /\ k.op = j.op /\ k.h = j.h /\ k.token = j.token
      <4>1. at \in Places
        BY DEF Places
      <4> QED BY <2>2, <4>1, GotoType DEF IInv
    <3>2. k.at \notin {"share", "row", "undo_file"}
      BY <3>1
    <3>3. k.at \in Before => k.token <= made' /\ (row'[k.h] # NoRow => row'[k.h].token # k.token)
      BY <1>1, <1>2, <2>2, <3>1 DEF Told
    <3> QED BY <1>2, <3>1, <3>2, <3>3 DEF Told
  <2> QED BY <1>1, <2>1, <2>2
<1>4. ~Together(vault[x], row[x])'
  BY <1>1 DEF Together
<1>5. row'[x] # NoRow => row'[x].token <= made
  BY <1>1 DEF TruthInv
<1> QED BY <1>1, <1>3, <1>4, <1>5, TruthAtOne

\* What is put back was true of its row, unless the row was completed meanwhile.
LEMMA UndoTruth ==
    ASSUME IInv, TruthInv, OneProcess, NEW p \in Procs, _eski_kasayi_geri_yukle(p)
    PROVE  TruthInv'
<1>1. PICK j \in job[p] :
        /\ \/ j.at = "undo_file" /\ vault' = [vault EXCEPT ![j.h] = j.back] /\ Goto(p, j, "undo_share")
           \/ j.at = "undo_share" /\ End(p) /\ UNCHANGED vault
        /\ UNCHANGED <<row, mixed, made, papers>>
  BY DEF _eski_kasayi_geri_yukle
<1>2. j.h \in HWIDs /\ j.op \in Renewing /\ Told(j)
  BY <1>1, JobFacts DEF Way, TruthInv
<1>3. CASE j.at = "undo_file" /\ vault' = [vault EXCEPT ![j.h] = j.back] /\ Goto(p, j, "undo_share")
  <2>1. vault'[j.h] = j.back /\ \A g \in HWIDs \ {j.h} : vault'[g] = vault[g]
    BY <1>2, <1>3 DEF IInv, TypeOK
  <2>2. PICK k \in Job : (\A q \in Procs : job'[q] = {k}) /\ k.at = "undo_share" /\ k.op = j.op
    <3>1. "undo_share" \in Places
      BY DEF Places
    <3> QED BY <1>3, <3>1, GotoType DEF IInv
  <2>3. Told(k)'
    BY <1>2, <2>2 DEF Told, Before, Renewing
  <2>4. j.h \notin mixed' /\ Together(vault[j.h], row[j.h])' => Truth(row[j.h], vault[j.h].line)'
    BY <1>1, <1>2, <1>3, <2>1 DEF Told, Together, Truth
  <2>5. row'[j.h] # NoRow => row'[j.h].token <= made
    BY <1>1, <1>2 DEF TruthInv
  <2> QED BY <1>1, <1>2, <2>1, <2>2, <2>3, <2>4, <2>5, TruthAtOne
<1>4. CASE j.at = "undo_share" /\ End(p) /\ UNCHANGED vault
  <2>1. \A q \in Procs : job'[q] = {}
    BY <1>4, EndType DEF IInv
  <2> QED BY <1>1, <1>4, <2>1, TruthKept
<1> QED BY <1>1, <1>3, <1>4

\* The printed share of a recovery lies on the line of the vault it made.
LEMMA IssueTruth ==
    ASSUME IInv, TruthInv, OneProcess, NEW p \in Procs, MarkIssued(p)
    PROVE  TruthInv'
<1>1. PICK j \in job[p] :
        /\ j.at = "issue" /\ row' = [row EXCEPT ![j.h].issued = TRUE]
        /\ IF j.op = "takeover" THEN Goto(p, j, "check") ELSE End(p)
        /\ UNCHANGED <<vault, mixed, made, papers>>
  BY DEF MarkIssued, At
<1>2. /\ j.h \in HWIDs /\ j.op \in Renewing /\ row[j.h] # NoRow
      /\ Stored(j.h, j.line) /\ j.line \in papers
  BY <1>1, JobFacts DEF Way, Owner, Written, IInv, RowInv
<1>3. /\ row[j.h] \in Row /\ row'[j.h] = [row[j.h] EXCEPT !.issued = TRUE]
      /\ \A g \in HWIDs \ {j.h} : row'[g] = row[g]
  BY <1>1, <1>2 DEF IInv, TypeOK
<1>4. row'[j.h].token = row[j.h].token /\ row'[j.h].kcv = row[j.h].kcv
  BY <1>3 DEF Row
<1>5. \A q \in Procs : \A k \in job'[q] : Told(k)'
  <2>1. CASE j.op # "takeover"
    BY <1>1, <2>1, EndType DEF IInv
  <2>2. CASE j.op = "takeover"
    <3>1. PICK k \in Job : (\A q \in Procs : job'[q] = {k}) /\ k.at = "check" /\ k.op = j.op
      <4>1. "check" \in Places
        BY DEF Places
      <4> QED BY <1>1, <2>2, <4>1, GotoType DEF IInv
    <3>2. Told(k)'
      BY <2>2, <3>1 DEF Told, Before
    <3> QED BY <3>1, <3>2
  <2> QED BY <2>1, <2>2
<1>6. j.h \notin mixed' /\ Together(vault[j.h], row[j.h])' => Truth(row[j.h], vault[j.h].line)'
  BY <1>1, <1>2, <1>4 DEF TruthInv, Together, Truth, Stored
<1>7. row'[j.h].token <= made
  BY <1>2, <1>4 DEF TruthInv
<1> QED BY <1>1, <1>2, <1>3, <1>5, <1>6, <1>7, TruthAtOne

\* A new PIN or role: the share and the token_id are those that were read.
LEMMA SealTruth ==
    ASSUME IInv, TruthInv, OneProcess, NEW p \in Procs, SealAnew(p)
    PROVE  TruthInv'
<1>1. PICK j \in job[p] :
        /\ j.at = "read" /\ End(p) /\ UNCHANGED <<row, mixed, made, papers>>
        /\ vault' = vault \/ _rewrite_vault(j.h, j.line, j.token, share2[j.h])
  BY DEF SealAnew, At
<1>2. j.op = "rewrite" /\ j.h \in HWIDs /\ Stored(j.h, j.line) /\ Told(j)
  BY <1>1, JobFacts DEF Way, Written, TruthInv
<1>3. /\ vault'[j.h].line = vault[j.h].line /\ vault'[j.h].token = vault[j.h].token
      /\ \A g \in HWIDs \ {j.h} : vault'[g] = vault[g]
  BY <1>1, <1>2 DEF Told, Stored, _rewrite_vault, IInv, TypeOK
<1>4. \A q \in Procs : \A k \in job'[q] : Told(k)'
  BY <1>1, EndType DEF IInv
<1>5. j.h \notin mixed' /\ Together(vault[j.h], row[j.h])' => Truth(row[j.h], vault[j.h].line)'
  BY <1>1, <1>2, <1>3 DEF TruthInv, Together, Truth, Stored
<1>6. row'[j.h] # NoRow => row'[j.h].token <= made
  BY <1>1, <1>2 DEF TruthInv
<1> QED BY <1>1, <1>2, <1>3, <1>4, <1>5, <1>6, TruthAtOne

\* An operation that begins makes up a token_id no row has.
LEMMA BegunTruth ==
    ASSUME IInv, TruthInv, OneProcess, NEW p \in Procs, NEW op \in AllOps, NEW at \in Places \ {"share", "row", "undo_file"},
           NEW h \in HWIDs, NEW old \in HWIDs, NEW line \in Lines \cup {Nil}, NEW token \in Lines \cup {Nil},
           Begin(p, op, at, h, old, line, token),
           UNCHANGED <<vault, row, mixed>>, papers \subseteq papers',
           \/ made' = made /\ at \notin Before
           \/ made' = made + 1 /\ token = made + 1,
           op = "rewrite" => vault[h].token = token
    PROVE  TruthInv'
<1>1. PICK k \in Job : /\ \A q \in Procs : job'[q] = {k}
                       /\ k.at = at /\ k.op = op /\ k.h = h /\ k.token = token
  BY BeginType DEF IInv
<1>2. made \in Nat
  BY NumberType DEF IInv
<1>3. row[h] # NoRow => row[h].token <= made /\ row[h].token \in Nat
  <2>1. row[h] # NoRow => row[h] \in Row
    BY DEF IInv, TypeOK
  <2>2. \A r \in Row : r.token \in Nat
    BY MadeAssumption DEF Row, Lines
  <2> QED BY <2>1, <2>2 DEF TruthInv
<1>4. at \in Before => k.token <= made' /\ (row'[h] # NoRow => row'[h].token # k.token)
  <2>1. CASE made' = made + 1 /\ token = made + 1
    BY <1>1, <1>2, <1>3, <2>1
  <2> QED BY <2>1
<1>5. Told(k)'
  BY <1>1, <1>4 DEF Told
<1>6. \A g \in HWIDs : row'[g] # NoRow => row'[g].token <= made'
  <2> SUFFICES ASSUME NEW g \in HWIDs, row[g] # NoRow
               PROVE  row[g].token <= made'
    OBVIOUS
  <2>1. row[g] \in Row /\ row[g].token <= made
    BY DEF IInv, TypeOK, TruthInv
  <2>2. row[g].token \in Nat
    BY <2>1, MadeAssumption DEF Row, Lines
  <2> QED BY <1>2, <2>1, <2>2
<1> QED BY <1>1, <1>5, <1>6 DEF TruthInv, Together, Truth

LEMMA StartTruth ==
    ASSUME IInv, TruthInv, OneProcess, NEW p \in Procs, Start(p)
    PROVE  TruthInv'
<1> PICK h \in HWIDs :
      \/ _on_setup_confirm(p, h) \/ _on_register(p, h) \/ _on_detect(p, h)
      \/ _on_reject(p, h) \/ _on_delete(p, h) \/ _on_change_role(p, h) \/ rotate_pin(p, h)
      \/ Setup(p, h) \/ _do_reset(p, h) \/ _cmd_recover(p, h)
      \/ \E g \in HWIDs \ {h} : _cmd_takeover(p, h, g)
  BY DEF Start
<1>0. /\ AllOps = {"wizard", "register", "reject", "delete", "reset", "setup", "rewrite", "recover", "takeover"}
      /\ {"file", "reset_file", "drop_totp", "read", "replace"} \subseteq Places \ {"share", "row", "undo_file"}
      /\ "drop_totp" \notin Before /\ "read" \notin Before
  BY DEF AllOps, Places, Before
<1>1. made < MaxMade => made + 1 \in Lines
  BY NextLine
<1>2. ASSUME NEW op \in {"wizard", "register", "setup", "reset"}, NEW at \in {"file", "reset_file"},
             _kasa_hazirla(p, op, at, h, h, Nil), UNCHANGED <<vault, row, mixed, papers>>
      PROVE  TruthInv'
  <2>1. Begin(p, op, at, h, h, made + 1, made + 1) /\ made + 1 \in Lines /\ made' = made + 1
    BY <1>1, <1>2 DEF _kasa_hazirla
  <2> QED BY <1>0, <1>2, <2>1, BegunTruth
<1>3. CASE _on_setup_confirm(p, h) \/ _on_register(p, h) \/ _on_detect(p, h) \/ Setup(p, h) \/ _do_reset(p, h)
  BY <1>2, <1>3 DEF _on_setup_confirm, _on_register, _on_detect, register_new_user, create_vault, Setup, _do_reset
<1>4. CASE _on_reject(p, h) \/ _on_delete(p, h)
  <2>1. PICK op \in {"reject", "delete"} :
          Begin(p, op, "drop_totp", h, h, Nil, Nil) /\ UNCHANGED <<vault, row, mixed, papers, made>>
    BY <1>4 DEF _on_reject, _on_delete
  <2> QED BY <1>0, <2>1, BegunTruth
<1>5. CASE _on_change_role(p, h) \/ rotate_pin(p, h)
  <2>1. /\ read_vault_role(h) /\ Begin(p, "rewrite", "read", h, h, vault[h].line, vault[h].token)
        /\ UNCHANGED <<vault, row, mixed, papers, made>>
    BY <1>5 DEF _on_change_role, rotate_pin, ReadVault
  <2>2. vault[h].line \in Lines /\ vault[h].token \in Lines
    BY <2>1, Verified DEF read_vault_role, Vault
  <2> QED BY <1>0, <2>1, <2>2, BegunTruth
<1>6. ASSUME NEW op \in {"recover", "takeover"}, NEW g \in HWIDs, NEW paper \in papers, NEW way \in {1, 2},
             reprovision_vault(p, op, g, h, paper, way), UNCHANGED <<vault, row, mixed>>
      PROVE  TruthInv'
  <2> DEFINE key == Recover(Rest(h, way), paper)
             line == IF key = Nil THEN made + 1 ELSE key
  <2>1. /\ recover_master_key(h, paper, way) /\ made < MaxMade /\ made' = made + 1
        /\ Begin(p, op, "replace", g, h, line, made + 1) /\ papers \subseteq papers'
    BY <1>6 DEF reprovision_vault, _kasa_hazirla
  <2>2. Rest(h, way) \in Lines \cup {Nil}
    BY <2>1, RestIsLeft
  <2>3. line \in Lines /\ made + 1 \in Lines
    BY <1>1, <2>1, <2>2 DEF Recover
  <2> HIDE DEF line
  <2> QED BY <1>0, <1>6, <2>1, <2>3, BegunTruth
<1>7. CASE _cmd_recover(p, h)
  BY <1>6, <1>7 DEF _cmd_recover
<1>8. ASSUME NEW g \in HWIDs \ {h}, _cmd_takeover(p, h, g)
      PROVE  TruthInv'
  BY <1>6, <1>8 DEF _cmd_takeover
<1> QED BY <1>3, <1>4, <1>5, <1>7, <1>8

\* A row that is completed keeps its token_id.  From a vault it belongs to it learns
\* the truth; from another one, and then it counts as mixed.
LEMMA CompletedRow ==
    ASSUME IInv, TruthInv, NEW h \in HWIDs,
           export_recovery_share(h) \/ _on_login(h) \/ _trigger_usb_reauth(h)
    PROVE  /\ UNCHANGED <<vault, share2, job, made>> /\ papers \subseteq papers'
           /\ \A g \in HWIDs \ {h} : row'[g] = row[g] /\ (g \in mixed <=> g \in mixed')
           /\ row'[h] # NoRow <=> row[h] # NoRow
           /\ row'[h] # NoRow => row'[h].token = row[h].token
           /\ row'[h] = row[h] \/ vault[h].token = row[h].token \/ h \in mixed'
           /\ h \in mixed => h \in mixed'
           /\ h \notin mixed' /\ Together(vault[h], row[h])' => Truth(row[h], vault[h].line)'
<1>1. CASE export_recovery_share(h)
  <2>1. /\ UNCHANGED <<vault, share2, job, made>> /\ papers' = papers \cup ({Key(h)} \ {Nil})
        /\ verify_vault(h) /\ Completed(h)
        /\ row' = IF row[h] = NoRow THEN row ELSE [row EXCEPT ![h].issued = TRUE]
    BY <1>1 DEF export_recovery_share, _decrypt_vault
  <2>2. Key(h) = vault[h].line /\ vault[h].line \in Lines
    BY <2>1, Verified DEF Key, Recover
  <2>3. Key(h) \in papers'
    BY <2>1, <2>2, NilIsNoLine
  <2>4. CASE row[h] = NoRow
    <3>1. row' = row /\ mixed' = mixed
      BY <2>1, <2>4 DEF Completed
    <3> QED BY <2>1, <2>4, <3>1 DEF Together
  <2>5. CASE row[h] # NoRow
    <3>1. row[h] \in Row
      BY <2>5 DEF IInv, TypeOK
    <3> DEFINE r == [row[h] EXCEPT !.issued = TRUE]
    <3>2. r \in Row /\ r.token = row[h].token /\ r.kcv = row[h].kcv
      BY <3>1 DEF Row
    <3>3. row' = [row EXCEPT ![h] = r]
      BY <2>1, <2>5
    <3> HIDE DEF r
    <3>4. row'[h] = r /\ r # NoRow /\ \A g \in HWIDs \ {h} : row'[g] = row[g]
      BY <3>2, <3>3, NoValueAssumption DEF IInv, TypeOK
    <3>5. /\ \A g \in HWIDs \ {h} : g \in mixed <=> g \in mixed'
          /\ row'[h] = row[h] \/ vault[h].token = row[h].token \/ h \in mixed'
          /\ h \in mixed => h \in mixed'
      BY <2>1, <3>4 DEF Completed
    <3>6. h \notin mixed' /\ Together(vault[h], row[h])' => Truth(row[h], vault[h].line)'
      BY <2>1, <2>2, <2>3, <2>5, <3>2, <3>4, <3>5 DEF TruthInv, Together, Truth
    <3> QED BY <2>1, <2>5, <3>2, <3>4, <3>5, <3>6
  <2> QED BY <2>4, <2>5
<1>2. CASE _on_login(h) \/ _trigger_usb_reauth(h)
  <2>1. /\ UNCHANGED <<vault, share2, job, made, papers>>
        /\ verify_vault(h) /\ row[h] # NoRow /\ _kcv_eksikse_yaz(h)
    BY <1>2 DEF _on_login, _trigger_usb_reauth, open_vault, _decrypt_vault
  <2>2. Key(h) = vault[h].line /\ vault[h].line \in Lines /\ row[h] \in Row
    BY <2>1, Verified DEF Key, Recover, IInv, TypeOK
  <2>3. CASE row' = row
    <3>1. mixed' = mixed
      BY <2>1, <2>3 DEF _kcv_eksikse_yaz, Completed
    <3> QED BY <2>1, <2>3, <3>1 DEF TruthInv, Together, Truth
  <2>4. CASE row' = [row EXCEPT ![h].kcv = Key(h)]
    <3> DEFINE r == [row[h] EXCEPT !.kcv = Key(h)]
    <3>1. r \in Row /\ r.token = row[h].token /\ r.kcv = vault[h].line /\ r.issued = row[h].issued
      BY <2>2 DEF Row
    <3>2. row' = [row EXCEPT ![h] = r]
      BY <2>4
    <3> HIDE DEF r
    <3>3. row'[h] = r /\ r # NoRow /\ \A g \in HWIDs \ {h} : row'[g] = row[g]
      BY <3>1, <3>2, NoValueAssumption DEF IInv, TypeOK
    <3>4. /\ \A g \in HWIDs \ {h} : g \in mixed <=> g \in mixed'
          /\ row'[h] = row[h] \/ vault[h].token = row[h].token \/ h \in mixed'
          /\ h \in mixed => h \in mixed'
      BY <2>1, <3>3 DEF _kcv_eksikse_yaz, Completed
    <3>5. h \notin mixed' /\ Together(vault[h], row[h])' => Truth(row[h], vault[h].line)'
      BY <2>1, <3>1, <3>3, <3>4 DEF TruthInv, Together, Truth
    <3> QED BY <2>1, <3>1, <3>3, <3>4, <3>5
  <2> QED BY <2>1, <2>3, <2>4 DEF _kcv_eksikse_yaz
<1> QED BY <1>1, <1>2

\* The steps that leave the operations alone.
LEMMA QuietTruth ==
    ASSUME IInv, TruthInv, NEW h \in HWIDs,
           \/ _on_approve(h) \/ blacklist_usb(h) \/ export_recovery_share(h) \/ _on_login(h)
           \/ EnterSession(h) \/ _trigger_usb_reauth(h) \/ SealDocument(h) \/ Lose(h)
    PROVE  TruthInv'
<1>1. CASE _on_approve(h) \/ EnterSession(h) \/ SealDocument(h)
  <2>1. UNCHANGED <<vault, row, job, made, mixed, papers>>
    BY <1>1 DEF _on_approve, EnterSession, SealDocument
  <2> QED BY <2>1 DEF TruthInv, Told, Together, Truth, Stored
<1>2. CASE export_recovery_share(h) \/ _on_login(h) \/ _trigger_usb_reauth(h)
  <2>1. /\ UNCHANGED <<vault, job, made>> /\ papers \subseteq papers'
        /\ \A g \in HWIDs \ {h} : row'[g] = row[g] /\ (g \in mixed <=> g \in mixed')
        /\ row'[h] # NoRow <=> row[h] # NoRow
        /\ row'[h] # NoRow => row'[h].token = row[h].token
        /\ row'[h] = row[h] \/ vault[h].token = row[h].token \/ h \in mixed'
        /\ h \in mixed => h \in mixed'
        /\ h \notin mixed' /\ Together(vault[h], row[h])' => Truth(row[h], vault[h].line)'
    BY <1>2, CompletedRow
  <2>2. ASSUME NEW p \in Procs, NEW j \in job[p]
        PROVE  Told(j)'
    <3>1. j.h \in HWIDs /\ Told(j)
      BY JobFacts DEF TruthInv
    <3>2. /\ row'[j.h] # NoRow <=> row[j.h] # NoRow
          /\ row'[j.h] # NoRow => row'[j.h].token = row[j.h].token
          /\ j.h \in mixed => j.h \in mixed'
      BY <2>1, <3>1
    <3>3. j.at \in {"share", "row", "undo_file"} /\ row[j.h] # NoRow => row'[j.h] = row[j.h] \/ j.h \in mixed'
      BY <2>1, <3>1 DEF Told, Before
    <3>4. /\ j.op \in Renewing /\ j.at \in {"share", "row", "undo_file"}
          /\ j.h \notin mixed' /\ Together(j.back, row'[j.h])
          => Truth(row[j.h], j.back.line)'
      BY <2>1, <3>1, <3>2, <3>3 DEF Told, Together, Truth
    <3> QED BY <2>1, <3>1, <3>2, <3>4 DEF Told, Stored
  <2>3. row'[h] # NoRow => row'[h].token <= made
    BY <2>1 DEF TruthInv
  <2> QED BY <2>1, <2>2, <2>3, TruthAtOne
<1>3. CASE blacklist_usb(h)
  <2>1. /\ row[h] # NoRow /\ row' = [row EXCEPT ![h].black = ~row[h].black]
        /\ UNCHANGED <<vault, job, made, mixed, papers>>
    BY <1>3 DEF blacklist_usb
  <2>2. row[h] \in Row
    BY <2>1 DEF IInv, TypeOK
  <2> DEFINE r == [row[h] EXCEPT !.black = ~row[h].black]
  <2>3. r \in Row /\ r.token = row[h].token /\ r.kcv = row[h].kcv /\ r.issued = row[h].issued
    BY <2>2 DEF Row
  <2>4. row' = [row EXCEPT ![h] = r]
    BY <2>1
  <2> HIDE DEF r
  <2>5. row'[h] = r /\ r # NoRow /\ \A g \in HWIDs \ {h} : row'[g] = row[g]
    BY <2>3, <2>4, NoValueAssumption DEF IInv, TypeOK
  <2>6. \A g \in HWIDs : /\ row'[g] # NoRow <=> row[g] # NoRow
                         /\ row[g] # NoRow => /\ row'[g].token = row[g].token /\ row'[g].kcv = row[g].kcv
                                              /\ row'[g].issued = row[g].issued
    BY <2>1, <2>3, <2>5
  <2>7. \A p \in Procs : \A j \in job'[p] : Told(j)'
    <3> SUFFICES ASSUME NEW p \in Procs, NEW j \in job[p]
                 PROVE  Told(j)'
      BY <2>1
    <3>1. j.h \in HWIDs /\ Told(j)
      BY JobFacts DEF TruthInv
    <3> QED BY <2>1, <2>6, <3>1 DEF Told, Together, Truth, Stored
  <2> QED BY <2>1, <2>6, <2>7 DEF TruthInv, Together, Truth
<1>4. CASE Lose(h)
  <2>1. /\ \A p \in Procs : job'[p] = {}
        /\ \A g \in HWIDs : vault'[g] \in {vault[g], NoVault}
        /\ UNCHANGED <<row, made, mixed, papers>>
    BY <1>4 DEF Lose, IInv, TypeOK
  <2> QED BY <2>1 DEF TruthInv, Together, Truth
<1> QED BY <1>1, <1>2, <1>3, <1>4

LEMMA TruthStep ==
    ASSUME IInv, OneProcess, TruthInv, [Next]_vars
    PROVE  TruthInv'
<1>1. ASSUME NEW p \in Procs, Continue(p)
      PROVE  TruthInv'
  BY <1>1, PassingTruth, TakeoverTruth, CreateTruth, ReplaceTruth, InsertTruth, GoneTruth, UndoTruth, IssueTruth,
     SealTruth DEF Continue
<1>2. CASE UNCHANGED vars
  BY <1>2 DEF vars, TruthInv, Told, Together, Truth, Stored
<1> QED BY <1>1, <1>2, StartTruth, QuietTruth DEF Next

LEMMA TruthInit ==
    ASSUME Init
    PROVE  TruthInv
<1>1. /\ \A p \in Procs : job[p] = {}
      /\ made \in {0, 1}
  BY DEF Init
<1>2. \A g \in HWIDs : \/ row[g] = NoRow
                       \/ made = 1 /\ row[g].token = 1 /\ row[g].kcv = Nil /\ row[g].issued = FALSE
  BY DEF Init
<1> QED BY <1>1, <1>2 DEF TruthInv, Together, Truth

\* In one process, with takeovers that are not cut short, whatever else is: what
\* usb_tokens says of a token that may log in is true of its vault, unless the row
\* was completed while another vault lay there (_save_usb_token, _kcv_eksikse_yaz,
\* export_recovery_share, reprovision_vault).
THEOREM RowsAreTrue ==
    ASSUME OneProcess, TakeoverRunsThrough
    PROVE  Spec => []RowTellsTheTruth
<1>1. Init => TruthInv
  BY TruthInit
<1>2. IInv /\ TruthInv /\ [Next]_vars => TruthInv'
  BY TruthStep
<1>3. IInv /\ TruthInv => RowTellsTheTruth
  BY RowsTrue
<1> QED BY <1>1, <1>2, <1>3, Invariance, PTL DEF Spec
=============================================================================
