--------------------------- MODULE BackgroundProofs ---------------------------
(***************************************************************************)
(* Proofs about AuditAnchor, Intake and IntegritySweep: a start that       *)
(* reports a mismatch has a cause, and one that follows a cut reports it   *)
(* before another anchor is written; the message that a batch is done      *)
(* comes last; the gate of the sweep closes on verdicts that are all there.*)
(***************************************************************************)
EXTENDS MCBackground, FiniteSetTheorems, SequenceTheorems, TLAPS

Bounds == MaxRows \in Nat /\ MaxAnchors \in Nat /\ MaxDays \in Nat

\* The part of a start that runs before any anchor is written.
Early == {"off", "schema", "verify", "mismatch"}

Newest == local[Len(local)]

\* One transaction is open at a time, and none when the program is off or compares.
OpenInv ==
    /\ \A g, h \in open : g = h
    /\ open # {} => at \notin {"off", "verify"} /\ Len(log) < MaxRows
    /\ at \in Early => \A th \in Strands : base[th] = {}

\* Hashes are given in turn: whatever is in the log, in an anchor or on its way to
\* one was given before the next.
HashInv ==
    /\ \A i \in DOMAIN log : log[i] <= fresh
    /\ \A h \in open : h <= fresh
    /\ \A i \in DOMAIN local : local[i].hash <= fresh
    /\ \A th \in Strands : \A s \in base[th] : s.hash <= fresh

\* What nobody altered and no rollback took away is what the newest anchor saw, be it
\* in a transaction that is still open.
WitnessInv ==
    local # <<>> /\ tampered = "none" /\ ~torn
        => Vouched(Newest, log) \/ (open # {} /\ Vouched(Newest, Seen))

\* The row that is gone does not come back, and its start has not yet passed the
\* comparison or has reported it.
TamperInv ==
    tampered = "named" =>
        /\ local # <<>> /\ ~Named(Newest, log) /\ Newest.hash \notin open
        /\ at \in Early \/ reported

\* The inductive invariant.
IInv == TypeOK /\ OpenInv /\ HashInv /\ WitnessInv /\ TamperInv /\ AlarmHasCause

-----------------------------------------------------------------------------
LEMMA SeenType ==
    ASSUME Bounds, TypeOK, OpenInv
    PROVE  /\ Seen \in Seq(0..MaxRows) /\ Len(Seen) <= MaxRows
           /\ open = {} => Seen = log
           /\ \A h \in open : Seen = Append(log, h)
<1>1. log \in Seq(0..MaxRows) /\ Len(log) <= MaxRows /\ open \subseteq 1..MaxRows /\ MaxRows \in Nat
  BY DEF TypeOK, Bounds
<1>2. CASE open = {}
  BY <1>1, <1>2 DEF Seen
<1>3. CASE open # {}
  <2>1. (CHOOSE h \in open : TRUE) \in open
    BY <1>3
  <2>2. \A h \in open : Seen = Append(log, h)
    BY <2>1 DEF Seen, OpenInv
  <2>3. PICK h \in open : Seen = Append(log, h)
    BY <1>3, <2>2
  <2>4. h \in 0..MaxRows /\ Len(log) < MaxRows
    BY <1>1, <1>3 DEF OpenInv
  <2>5. Seen \in Seq(0..MaxRows) /\ Len(Seen) = Len(log) + 1
    BY <1>1, <2>3, <2>4, AppendProperties
  <2>6. Len(log) \in Nat
    BY <1>1, LenProperties
  <2> QED BY <1>1, <1>3, <2>2, <2>4, <2>5, <2>6
<1> QED BY <1>2, <1>3

\* The number of rows that are left.
LEMMA CountType ==
    ASSUME NEW S, NEW l \in Seq(S)
    PROVE  Count(l) \in Nat /\ Count(l) <= Len(l) /\ IsFiniteSet({i \in DOMAIN l : l[i] # 0})
<1>1. DOMAIN l = 1..Len(l) /\ Len(l) \in Nat
  BY LenProperties
<1>2. IsFiniteSet(1..Len(l)) /\ Cardinality(1..Len(l)) = Len(l)
  BY <1>1, FS_Interval
<1>3. {i \in DOMAIN l : l[i] # 0} \in SUBSET (1..Len(l))
  BY <1>1
<1> QED BY <1>2, <1>3, FS_Subset, FS_CardinalityType DEF Count

\* A log that grows vouches for what it vouched for.
LEMMA VouchedGrows ==
    ASSUME Bounds, NEW l \in Seq(0..MaxRows), NEW h \in 1..MaxRows, NEW c \in Anchor, Vouched(c, l)
    PROVE  Vouched(c, Append(l, h))
<1> DEFINE m == Append(l, h)
<1>1. /\ m \in Seq(0..MaxRows) /\ Len(m) = Len(l) + 1 /\ Len(l) \in Nat
      /\ \A i \in 1..Len(l) : m[i] = l[i]
      /\ DOMAIN m = 1..Len(m) /\ DOMAIN l = 1..Len(l)
  BY AppendProperties, LenProperties DEF Bounds
<1> HIDE DEF m
<1>2. Named(c, m)
  <2>1. c.id \in 1..MaxRows /\ MaxRows \in Nat
    BY DEF Anchor, Bounds
  <2> QED BY <1>1, <2>1 DEF Vouched, Named
<1>3. Count(m) >= Count(l)
  <2>1. {i \in DOMAIN l : l[i] # 0} \in SUBSET {i \in DOMAIN m : m[i] # 0}
    BY <1>1
  <2>2. IsFiniteSet({i \in DOMAIN m : m[i] # 0}) /\ Count(m) \in Nat /\ Count(l) \in Nat
    BY <1>1, CountType
  <2> QED BY <2>1, <2>2, FS_Subset DEF Count
<1>4. Count(l) \in Nat /\ Count(m) \in Nat
  BY <1>1, CountType
<1>5. c.count \in Int
  BY DEF Anchor
<1> QED BY <1>2, <1>3, <1>4, <1>5 DEF Vouched, m

\* The newest anchor, and what one more makes of the file.
LEMMA NewestType ==
    ASSUME TypeOK, local # <<>>
    PROVE  Newest \in Anchor /\ Len(local) \in DOMAIN local
<1>1. local \in Seq(Anchor)
  BY DEF TypeOK
<1>2. Len(local) \in Nat /\ Len(local) # 0 /\ DOMAIN local = 1..Len(local)
  BY <1>1, LenProperties, EmptySeq
<1> QED BY <1>1, <1>2, ElementOfSeq DEF Newest

LEMMA InitInv == ASSUME Bounds, Init PROVE IInv
<1>1. TypeOK
  <2>1. <<>> \in Seq(0..MaxRows) /\ <<>> \in Seq(Anchor) /\ Len(<<>>) = 0
    BY EmptySeq
  <2>2. base \in [Strands -> SUBSET Row] /\ usb \in [Tokens -> Seq(Anchor)]
    BY <2>1 DEF Init
  <2>3. 0 \in 0..MaxRows /\ 0 \in 0..MaxDays /\ 0 <= MaxRows /\ 0 <= MaxAnchors
    BY DEF Bounds
  <2>4. Len(log) <= MaxRows /\ Len(local) <= MaxAnchors /\ log \in Seq(0..MaxRows) /\ local \in Seq(Anchor)
    BY <2>1, <2>3 DEF Init
  <2> QED BY <2>2, <2>3, <2>4 DEF Init, TypeOK
<1>2. OpenInv /\ HashInv
  BY DEF Init, OpenInv, HashInv, Strands
<1>3. WitnessInv /\ TamperInv /\ AlarmHasCause
  BY DEF Init, WitnessInv, TamperInv, AlarmHasCause
<1> QED BY <1>1, <1>2, <1>3 DEF IInv

-----------------------------------------------------------------------------
\* Steps that leave the log and the anchors alone.
LEMMA FrameInv ==
    ASSUME IInv, UNCHANGED <<log, open, fresh, files, base, reported, tampered, torn>>,
           at' = at \/ (at \notin Early /\ at' \in {"replicas", "run", "quit"}),
           plugged' \in Tokens \cup {NoToken}, hwid' \in Tokens, day' \in 0..MaxDays
    PROVE  IInv'
<1>1. TypeOK'
  BY DEF IInv, TypeOK, files
<1>2. OpenInv'
  BY DEF IInv, OpenInv, Early
<1>3. HashInv' /\ WitnessInv'
  BY DEF IInv, HashInv, WitnessInv, Newest, Seen, files
<1>4. TamperInv' /\ AlarmHasCause'
  BY DEF IInv, TamperInv, Newest, AlarmHasCause, Early, files
<1> QED BY <1>1, <1>2, <1>3, <1>4 DEF IInv

\* A thread takes up an anchor, or the number of rows for it.
LEMMA BaseInv ==
    ASSUME IInv, NEW th \in Strands, NEW s \in Row, s.hash <= fresh,
           base' = [base EXCEPT ![th] = {s}],
           at \notin Early, at' = at \/ at' = "quit",
           UNCHANGED <<log, open, fresh, files, plugged, hwid, day, reported, tampered, torn>>
    PROVE  IInv'
<1>1. base \in [Strands -> SUBSET Row] /\ {s} \in SUBSET Row
  BY DEF IInv, TypeOK
<1>2. base' \in [Strands -> SUBSET Row] /\ \A y \in Strands : base'[y] = IF y = th THEN {s} ELSE base[y]
  BY <1>1
<1>3. TypeOK'
  BY <1>2 DEF IInv, TypeOK, files
<1>4. OpenInv'
  BY DEF IInv, OpenInv, Early
<1>5. HashInv'
  BY <1>2 DEF IInv, HashInv, files
<1>6. WitnessInv'
  BY DEF IInv, WitnessInv, Newest, Seen, files
<1>7. TamperInv' /\ AlarmHasCause'
  BY DEF IInv, TamperInv, Newest, AlarmHasCause, Early, files
<1> QED BY <1>3, <1>4, <1>5, <1>6, <1>7 DEF IInv

LEMMA SeenHash == ASSUME Bounds, IInv, NEW i \in DOMAIN Seen PROVE Seen[i] <= fresh
<1>1. CASE open = {}
  BY <1>1, SeenType DEF IInv, HashInv
<1>2. CASE open # {}
  <2>1. PICK h \in open : Seen = Append(log, h)
    BY <1>2, SeenType DEF IInv
  <2>2. log \in Seq(0..MaxRows) /\ h \in 0..MaxRows
    BY DEF IInv, TypeOK, Bounds
  <2>3. /\ DOMAIN Seen = 1..Len(log) + 1 /\ DOMAIN log = 1..Len(log) /\ Len(log) \in Nat
        /\ \A k \in 1..Len(log) : Seen[k] = log[k]
        /\ Seen[Len(log) + 1] = h
    BY <2>1, <2>2, AppendProperties, LenProperties
  <2>4. i \in 1..Len(log) \/ i = Len(log) + 1
    BY <2>3
  <2> QED BY <2>3, <2>4 DEF IInv, HashInv
<1> QED BY <1>1, <1>2

LEMMA ReadTipInv ==
    ASSUME Bounds, IInv, NEW th \in Strands, ReadTip(th), at \notin Early, at' = at \/ at' = "quit"
    PROVE  IInv'
<1>1. PICK tip \in DOMAIN Seen :
        /\ Seen[tip] # 0
        /\ base' = [base EXCEPT ![th] = {[id |-> tip, hash |-> Seen[tip], count |-> 0]}]
        /\ UNCHANGED <<log, open, fresh, files, plugged, hwid, day, reported, tampered, torn>>
  BY DEF ReadTip
<1> DEFINE s == [id |-> tip, hash |-> Seen[tip], count |-> 0]
<1>2. Seen \in Seq(0..MaxRows) /\ Len(Seen) <= MaxRows /\ MaxRows \in Nat
  BY SeenType DEF IInv, Bounds
<1>3. DOMAIN Seen = 1..Len(Seen) /\ Len(Seen) \in Nat /\ Seen[tip] \in 0..MaxRows
  BY <1>2, LenProperties, ElementOfSeq
<1>4. tip \in 1..MaxRows /\ Seen[tip] \in 1..MaxRows /\ 0 \in 0..MaxRows
  BY <1>1, <1>2, <1>3
<1>5. s \in Row /\ s.hash <= fresh
  BY <1>4, SeenHash DEF Row
<1>6. base' = [base EXCEPT ![th] = {s}]
  BY <1>1
<1> HIDE DEF s
<1> QED BY <1>1, <1>5, <1>6, BaseInv

LEMMA ReadCountInv == ASSUME Bounds, IInv, NEW th \in Strands, ReadCount(th) PROVE IInv'
<1>1. PICK c \in base[th] :
        /\ base' = [base EXCEPT ![th] = {[c EXCEPT !.count = Count(Seen)]}]
        /\ UNCHANGED <<log, open, fresh, files, plugged, hwid, day, at, reported, tampered, torn>>
  BY DEF ReadCount
<1> DEFINE s == [c EXCEPT !.count = Count(Seen)]
<1>2. c \in Row /\ c.hash <= fresh /\ at \notin Early
  BY DEF IInv, TypeOK, HashInv, OpenInv
<1>3. Count(Seen) \in 0..MaxRows
  <2>1. Seen \in Seq(0..MaxRows) /\ Len(Seen) <= MaxRows /\ MaxRows \in Nat
    BY SeenType DEF IInv, Bounds
  <2>2. Count(Seen) \in Nat /\ Count(Seen) <= Len(Seen) /\ Len(Seen) \in Nat
    BY <2>1, CountType, LenProperties
  <2> QED BY <2>1, <2>2
<1>4. s \in Row /\ s.hash = c.hash
  BY <1>2, <1>3 DEF Row
<1>5. base' = [base EXCEPT ![th] = {s}]
  BY <1>1
<1> HIDE DEF s
<1> QED BY <1>1, <1>2, <1>4, <1>5, BaseInv

-----------------------------------------------------------------------------
\* The rows.  A new one has a hash that no anchor names.
LEMMA AppendInv == ASSUME Bounds, IInv, append_entry PROVE IInv'
<1>1. /\ open = {} /\ open' = {fresh + 1} /\ fresh' = fresh + 1 /\ fresh < MaxRows /\ Len(log) < MaxRows
      /\ at \in {"schema", "mismatch", "run"}
      /\ UNCHANGED <<log, files, plugged, hwid, day, at, base, reported, tampered, torn>>
  BY DEF append_entry
<1>2. fresh \in Nat /\ MaxRows \in Nat
  BY DEF IInv, TypeOK, Bounds
<1>3. TypeOK'
  BY <1>1, <1>2 DEF IInv, TypeOK, files
<1>4. OpenInv'
  BY <1>1 DEF IInv, OpenInv
<1>5. HashInv'
  <2>1. \A i \in DOMAIN log : log[i] \in 0..MaxRows
    BY ElementOfSeq, LenProperties DEF IInv, TypeOK
  <2>2. \A i \in DOMAIN local : local[i].hash \in 1..MaxRows
    <3>1. local \in Seq(Anchor)
      BY DEF IInv, TypeOK
    <3>2. \A i \in DOMAIN local : local[i] \in Anchor
      BY <3>1, ElementOfSeq, LenProperties
    <3> QED BY <3>2 DEF Anchor
  <2>3. \A th \in Strands : \A s \in base[th] : s.hash \in 1..MaxRows
    BY DEF IInv, TypeOK, Row
  <2> QED BY <1>1, <1>2, <2>1, <2>2, <2>3 DEF IInv, HashInv, files
<1>6. WitnessInv'
  BY <1>1 DEF IInv, WitnessInv, Newest, Seen, files
<1>7. TamperInv' /\ AlarmHasCause'
  <2>1. local # <<>> => Newest.hash \in Nat /\ Newest.hash <= fresh
    BY NewestType DEF IInv, HashInv, Newest, Anchor
  <2> QED BY <1>1, <1>2, <2>1 DEF IInv, TamperInv, Newest, AlarmHasCause, files
<1> QED BY <1>3, <1>4, <1>5, <1>6, <1>7 DEF IInv

LEMMA CommitInv == ASSUME Bounds, IInv, Commit PROVE IInv'
<1>1. /\ open # {} /\ log' = Seen /\ open' = {}
      /\ at' = CASE at = "schema" -> "verify" [] at = "mismatch" -> "daily" [] OTHER -> at
      /\ reported' = (reported \/ at = "mismatch")
      /\ UNCHANGED <<fresh, files, plugged, hwid, day, base, tampered, torn>>
  BY DEF Commit
<1>2. PICK h \in open : Seen = Append(log, h)
  BY <1>1, SeenType DEF IInv
<1>3. /\ log \in Seq(0..MaxRows) /\ h \in 1..MaxRows /\ Seen \in Seq(0..MaxRows) /\ Len(Seen) <= MaxRows
  BY SeenType DEF IInv, TypeOK
<1>4. TypeOK'
  BY <1>1, <1>3 DEF IInv, TypeOK, files
<1>5. at' # "mismatch" /\ at \notin {"off", "verify"}
  BY <1>1 DEF IInv, OpenInv
<1>6. OpenInv'
  BY <1>1, <1>5 DEF IInv, OpenInv, Early
<1>7. HashInv'
  BY <1>1, SeenHash DEF IInv, HashInv, files
<1>8. WitnessInv'
  <2>1. local # <<>> /\ Vouched(Newest, log) => Vouched(Newest, Seen)
    BY <1>2, <1>3, NewestType, VouchedGrows DEF IInv
  <2> QED BY <1>1, <2>1 DEF IInv, WitnessInv, Newest, files
<1>9. TamperInv'
  <2> SUFFICES ASSUME tampered = "named" PROVE TamperInv'
    BY <1>1 DEF TamperInv
  <2>1. local # <<>> /\ ~Named(Newest, log) /\ Newest.hash # h /\ (at \in Early \/ reported)
    BY DEF IInv, TamperInv
  <2>2. ~Named(Newest, Seen)
    <3>1. Newest.id \in 1..MaxRows /\ MaxRows \in Nat
      BY <2>1, NewestType DEF IInv, Anchor, Bounds
    <3>2. /\ Len(Seen) = Len(log) + 1 /\ Len(log) \in Nat /\ Seen[Len(log) + 1] = h
          /\ \A i \in 1..Len(log) : Seen[i] = log[i]
      BY <1>2, <1>3, AppendProperties, LenProperties
    <3>3. CASE Newest.id <= Len(log)
      BY <2>1, <3>1, <3>2, <3>3 DEF Named
    <3>4. CASE Newest.id = Len(log) + 1
      BY <2>1, <3>2, <3>4 DEF Named
    <3>5. CASE Newest.id > Len(log) + 1
      BY <3>1, <3>2, <3>5 DEF Named
    <3> QED BY <3>1, <3>2, <3>3, <3>4, <3>5
  <2>3. at' \in Early \/ reported'
    BY <1>1, <1>5, <2>1 DEF Early
  <2> QED BY <1>1, <2>1, <2>2, <2>3 DEF TamperInv, Newest, files
<1>10. AlarmHasCause'
  BY <1>5 DEF AlarmHasCause
<1> QED BY <1>4, <1>6, <1>7, <1>8, <1>9, <1>10 DEF IInv

\* A transaction that is rolled back, by its thread or by the end of the process.
LEMMA LostInv ==
    ASSUME IInv, open' = {}, torn' = Torn,
           \/ at' = "off" /\ base' = [th \in Strands |-> {}]
           \/ at' = at /\ at \notin Early /\ UNCHANGED base,
           UNCHANGED <<log, fresh, files, plugged, hwid, day, reported, tampered>>
    PROVE  IInv'
<1>1. base' \in [Strands -> SUBSET Row] /\ \A th \in Strands : base'[th] = {} \/ base'[th] = base[th]
  BY DEF IInv, TypeOK
<1>2. torn \in BOOLEAN /\ torn' \in BOOLEAN
  BY DEF IInv, TypeOK, Torn
<1>3. TypeOK'
  BY <1>1, <1>2 DEF IInv, TypeOK, files
<1>4. OpenInv'
  BY DEF IInv, OpenInv, Early
<1>5. HashInv'
  BY <1>1 DEF IInv, HashInv, files
<1>6. WitnessInv'
  <2> SUFFICES ASSUME local # <<>>, tampered = "none", ~torn' PROVE Vouched(Newest, log)
    BY DEF WitnessInv, Newest, files
  <2>1. ~torn /\ ~(open # {} /\ Vouched(Newest, Seen) /\ ~Vouched(Newest, log))
    BY DEF Torn, Newest
  <2> QED BY <2>1 DEF IInv, WitnessInv
<1>7. TamperInv' /\ AlarmHasCause'
  BY DEF IInv, TamperInv, Newest, AlarmHasCause, Early, files
<1> QED BY <1>3, <1>4, <1>5, <1>6, <1>7 DEF IInv

\* An anchor that is written vouches for what it saw.
LEMMA WriteInv == ASSUME Bounds, IInv, NEW th \in Strands, write_anchor(th) PROVE IInv'
<1>1. PICK s \in base[th] :
        LET line == [id |-> s.id, hash |-> s.hash, count |-> s.count, day |-> day, stamp |-> Len(local) + 1] IN
        /\ Len(local) < MaxAnchors
        /\ _append_anchor_line(line)
        /\ \/ /\ at' = "off" /\ open' = {} /\ base' = [y \in Strands |-> {}] /\ torn' = ~Vouched(s, log)
           \/ /\ at' = at \/ (at = "daily" /\ at' = "replicas")
              /\ base' = [base EXCEPT ![th] = {}] /\ torn' = ~Vouched(s, Seen) /\ open' = open
        /\ tampered' = "none"
        /\ UNCHANGED <<log, fresh, plugged, hwid, day, reported>>
  BY DEF write_anchor
<1> DEFINE line == [id |-> s.id, hash |-> s.hash, count |-> s.count, day |-> day, stamp |-> Len(local) + 1]
<1>2. /\ s \in Row /\ s.hash <= fresh /\ at \notin Early
      /\ local \in Seq(Anchor) /\ Len(local) \in Nat /\ MaxAnchors \in Nat
  BY LenProperties DEF IInv, TypeOK, HashInv, OpenInv, Bounds
<1>3. line \in Anchor /\ line.id = s.id /\ line.hash = s.hash /\ line.count = s.count
  BY <1>1, <1>2 DEF Row, Anchor, IInv, TypeOK
<1>4. /\ local' = Append(local, line)
      /\ (plugged = hwid /\ usb' = [usb EXCEPT ![plugged] = Append(@, line)]) \/ usb' = usb
  BY <1>1 DEF _append_anchor_line, _usb_hwid_dogrulanmis_mi
<1> HIDE DEF line
<1>5. /\ local' \in Seq(Anchor) /\ Len(local') = Len(local) + 1 /\ DOMAIN local' = 1..Len(local) + 1
      /\ DOMAIN local = 1..Len(local)
      /\ local'[Len(local) + 1] = line /\ \A i \in 1..Len(local) : local'[i] = local[i]
  BY <1>2, <1>3, <1>4, AppendProperties, LenProperties
<1>6. local' # <<>> /\ Newest' = line
  BY <1>2, <1>5, EmptySeq DEF Newest
<1>7. base' \in [Strands -> SUBSET Row] /\ \A y \in Strands : base'[y] = {} \/ base'[y] = base[y]
  BY <1>1 DEF IInv, TypeOK
<1>8. TypeOK'
  <2>1. usb' \in [Tokens -> Seq(Anchor)]
    <3>1. usb \in [Tokens -> Seq(Anchor)] /\ hwid \in Tokens
      BY DEF IInv, TypeOK
    <3>2. CASE plugged = hwid /\ usb' = [usb EXCEPT ![plugged] = Append(@, line)]
      <4>1. Append(usb[hwid], line) \in Seq(Anchor)
        BY <1>3, <3>1, AppendProperties
      <4> QED BY <3>1, <3>2, <4>1
    <3> QED BY <1>4, <3>1, <3>2
  <2>2. Len(local') <= MaxAnchors
    BY <1>1, <1>2, <1>5
  <2>3. open' \in SUBSET (1..MaxRows) /\ torn' \in BOOLEAN
    BY <1>1 DEF IInv, TypeOK, Vouched, Named
  <2> QED BY <1>1, <1>5, <1>7, <2>1, <2>2, <2>3 DEF IInv, TypeOK
<1>9. OpenInv'
  BY <1>1, <1>2, <1>7 DEF IInv, OpenInv, Early
<1>10. HashInv'
  <2>1. \A i \in DOMAIN local' : local'[i].hash <= fresh
    BY <1>2, <1>3, <1>5 DEF IInv, HashInv
  <2> QED BY <1>1, <1>7, <2>1 DEF IInv, HashInv
<1>11. WitnessInv'
  <2>1. \A l : Vouched(line, l) <=> Vouched(s, l)
    BY <1>3 DEF Vouched, Named
  <2>2. CASE open' = {} /\ torn' = ~Vouched(s, log)
    BY <1>1, <1>6, <2>1, <2>2 DEF WitnessInv
  <2>3. CASE torn' = ~Vouched(s, Seen) /\ open' = open
    <3>1. Seen' = Seen
      BY <1>1, <2>3 DEF Seen
    <3>2. open = {} => Seen = log
      BY DEF Seen
    <3> QED BY <1>1, <1>6, <2>1, <2>3, <3>1, <3>2 DEF WitnessInv
  <2> QED BY <1>1, <2>2, <2>3
<1>12. TamperInv' /\ AlarmHasCause'
  BY <1>1, <1>2 DEF TamperInv, AlarmHasCause, Early
<1> QED BY <1>8, <1>9, <1>10, <1>11, <1>12 DEF IInv

-----------------------------------------------------------------------------
\* The start.
LEMMA MainInv == ASSUME IInv, main PROVE IInv'
<1>1. /\ at = "off" /\ plugged \in Tokens /\ at' = "schema" /\ hwid' = plugged /\ reported' = FALSE
      /\ UNCHANGED <<log, open, fresh, files, plugged, day, base, tampered, torn>>
  BY DEF main, IInv, TypeOK
<1>2. TypeOK'
  BY <1>1 DEF IInv, TypeOK, files
<1>3. OpenInv' /\ HashInv' /\ WitnessInv'
  BY <1>1 DEF IInv, OpenInv, HashInv, WitnessInv, Newest, Seen, Early, files
<1>4. TamperInv' /\ AlarmHasCause'
  BY <1>1 DEF IInv, TamperInv, Newest, AlarmHasCause, Early, files
<1> QED BY <1>2, <1>3, <1>4 DEF IInv

LEMMA VerifyInv == ASSUME IInv, verify_against_anchor PROVE IInv'
<1>1. /\ at = "verify" /\ at' = IF Mismatch THEN "mismatch" ELSE "daily"
      /\ UNCHANGED <<log, open, fresh, files, plugged, hwid, day, base, reported, tampered, torn>>
  BY DEF verify_against_anchor
<1>2. open = {}
  BY <1>1 DEF IInv, OpenInv
<1>3. TypeOK'
  BY <1>1 DEF IInv, TypeOK, files
<1>4. OpenInv' /\ HashInv' /\ WitnessInv'
  BY <1>1, <1>2 DEF IInv, OpenInv, HashInv, WitnessInv, Newest, Seen, Early, files
<1>5. TamperInv'
  BY <1>1 DEF IInv, TamperInv, Newest, Mismatch, Vouched, Early, files
<1>6. AlarmHasCause'
  <2> SUFFICES ASSUME Mismatch, tampered = "none", ~torn PROVE FALSE
    BY <1>1 DEF AlarmHasCause
  <2>1. local # <<>> /\ ~Vouched(Newest, log)
    BY DEF Mismatch, Newest
  <2> QED BY <1>2, <2>1 DEF IInv, WitnessInv
<1> QED BY <1>3, <1>4, <1>5, <1>6 DEF IInv

\* A hand in the file: what the newest anchor named is still there, or it is known
\* to be gone.
LEMMA HandInv == ASSUME Bounds, IInv, Tamper PROVE IInv'
<1>1. PICK k \in 0..Len(log) - 1 :
        /\ at = "off" /\ tampered = "none" /\ ~torn
        /\ \/ log' = SubSeq(log, 1, k) /\ UNCHANGED fresh
           \/ log' = [i \in 1..Len(log) |-> IF i <= k THEN log[i] ELSE 0] /\ UNCHANGED fresh
           \/ /\ fresh + Len(log) - k <= MaxRows
              /\ log' = [i \in 1..Len(log) |-> IF i <= k THEN log[i] ELSE fresh + i - k]
              /\ fresh' = fresh + Len(log) - k
        /\ tampered' = CASE local = <<>> -> "none"
                         [] local # <<>> /\ Vouched(local[Len(local)], log') -> "none"
                         [] local # <<>> /\ ~Named(local[Len(local)], log') -> "named"
                         [] OTHER -> "counted"
        /\ UNCHANGED <<open, files, plugged, hwid, day, at, base, reported, torn>>
  BY DEF Tamper
<1>2. /\ log \in Seq(0..MaxRows) /\ Len(log) \in Nat /\ Len(log) <= MaxRows /\ DOMAIN log = 1..Len(log)
      /\ fresh \in 0..MaxRows /\ MaxRows \in Nat /\ k \in Nat /\ k < Len(log)
      /\ \A i \in 1..Len(log) : log[i] \in 0..MaxRows /\ log[i] <= fresh
  <2>1. log \in Seq(0..MaxRows) /\ Len(log) <= MaxRows /\ fresh \in 0..MaxRows /\ MaxRows \in Nat
    BY DEF IInv, TypeOK, Bounds
  <2>2. Len(log) \in Nat /\ DOMAIN log = 1..Len(log)
    BY <2>1, LenProperties
  <2>3. \A i \in 1..Len(log) : log[i] \in 0..MaxRows
    BY <2>1, ElementOfSeq
  <2>4. k \in Nat /\ k < Len(log)
    BY <2>2
  <2> QED BY <2>1, <2>2, <2>3, <2>4 DEF IInv, HashInv
<1>3. open = {}
  BY <1>1 DEF IInv, OpenInv
<1>4. /\ log' \in Seq(0..MaxRows) /\ Len(log') <= MaxRows /\ fresh' \in 0..MaxRows /\ fresh <= fresh'
      /\ \A i \in DOMAIN log' : log'[i] <= fresh'
  <2>1. CASE log' = SubSeq(log, 1, k) /\ UNCHANGED fresh
    <3>1. log' \in Seq(0..MaxRows) /\ Len(log') = k /\ \A i \in 1..k : log'[i] = log[i]
      BY <1>2, <2>1, SubSeqProperties
    <3>2. DOMAIN log' = 1..k
      BY <3>1, LenProperties
    <3> QED BY <1>2, <2>1, <3>1, <3>2
  <2>2. CASE log' = [i \in 1..Len(log) |-> IF i <= k THEN log[i] ELSE 0] /\ UNCHANGED fresh
    <3>1. \A i \in 1..Len(log) : (IF i <= k THEN log[i] ELSE 0) \in 0..MaxRows
      BY <1>2
    <3>2. log' \in Seq(0..MaxRows)
      BY <1>2, <2>2, <3>1, IsASeq
    <3>3. Len(log') = Len(log)
      BY <1>2, <2>2, <3>2, LenProperties
    <3> QED BY <1>2, <2>2, <3>2, <3>3
  <2>3. CASE /\ fresh + Len(log) - k <= MaxRows
             /\ log' = [i \in 1..Len(log) |-> IF i <= k THEN log[i] ELSE fresh + i - k]
             /\ fresh' = fresh + Len(log) - k
    <3>1. ASSUME NEW i \in 1..Len(log) PROVE (IF i <= k THEN log[i] ELSE fresh + i - k) \in 0..MaxRows
      <4>1. /\ fresh \in Nat /\ k \in Nat /\ Len(log) \in Nat /\ MaxRows \in Nat /\ i \in Nat /\ i <= Len(log)
            /\ fresh + Len(log) - k <= MaxRows
        BY <1>2, <2>3
      <4>2. ~(i <= k) => fresh + i - k \in 0..MaxRows
        BY <4>1
      <4> QED BY <1>2, <4>2
    <3>2. log' \in Seq(0..MaxRows)
      BY <1>2, <2>3, <3>1, IsASeq
    <3>3. Len(log') = Len(log)
      BY <1>2, <2>3, <3>2, LenProperties
    <3> QED BY <1>2, <2>3, <3>2, <3>3
  <2> QED BY <1>1, <2>1, <2>2, <2>3
<1>5. tampered' \in {"none", "counted", "named"}
  BY <1>1
<1>6. TypeOK'
  BY <1>1, <1>4, <1>5 DEF IInv, TypeOK, files
<1>7. OpenInv'
  BY <1>1, <1>3 DEF IInv, OpenInv
<1>8. HashInv'
  <2>1. \A i \in DOMAIN local : local[i].hash \in Nat
    <3>1. local \in Seq(Anchor)
      BY DEF IInv, TypeOK
    <3>2. \A i \in DOMAIN local : local[i] \in Anchor
      BY <3>1, ElementOfSeq, LenProperties
    <3> QED BY <3>2 DEF Anchor
  <2>2. \A th \in Strands : base[th] = {}
    BY <1>1 DEF IInv, OpenInv, Early
  <2>3. \A i \in DOMAIN local' : local'[i].hash <= fresh'
    <3>1. \A i \in DOMAIN local : local[i].hash <= fresh /\ local[i].hash \in Nat
      BY <2>1 DEF IInv, HashInv
    <3>2. fresh \in Nat /\ fresh' \in Nat /\ fresh <= fresh' /\ local' = local
      BY <1>1, <1>2, <1>4 DEF files
    <3> QED BY <3>1, <3>2
  <2>4. open' = {} /\ \A th \in Strands : base'[th] = {}
    BY <1>1, <1>3, <2>2
  <2> QED BY <1>4, <2>3, <2>4 DEF HashInv
<1>9. WitnessInv'
  BY <1>1 DEF WitnessInv, Newest, files
<1>10. TamperInv' /\ AlarmHasCause'
  BY <1>1, <1>3 DEF TamperInv, Newest, AlarmHasCause, Early, files
<1> QED BY <1>6, <1>7, <1>8, <1>9, <1>10 DEF IInv

\* What a thread does with an anchor it has not written yet.
LEMMA TakeUpInv ==
    ASSUME Bounds, IInv, Daily \/ _anchor_audit_chain \/ _anchor_on_quit \/ _kaydet_ve_cipaya_kazi
    PROVE  IInv'
<1>1. CASE at = "daily" /\ at' = "replicas" /\ UNCHANGED <<log, open, fresh, files, plugged, hwid, day, base, reported, tampered, torn>>
  BY <1>1, FrameInv DEF IInv, TypeOK, Early
<1>2. CASE at = "daily" /\ ReadTip("main") /\ UNCHANGED at
  BY <1>2, ReadTipInv DEF Strands, Early
<1>3. CASE _anchor_audit_chain \/ _anchor_on_quit \/ _kaydet_ve_cipaya_kazi
  BY <1>3, ReadTipInv DEF _anchor_audit_chain, _anchor_on_quit, _kaydet_ve_cipaya_kazi, Strands, Early
<1> QED BY <1>1, <1>2, <1>3 DEF Daily, maybe_write_daily_anchor

LEMMA NextInv == ASSUME Bounds, IInv, [Next]_vars PROVE IInv'
<1>1. CASE append_entry \/ Commit
  BY <1>1, AppendInv, CommitInv
<1>2. CASE Rollback \/ Crash
  BY <1>2, LostInv DEF Rollback, Crash, Early
<1>3. CASE \E th \in Strands : ReadCount(th) \/ write_anchor(th)
  BY <1>3, ReadCountInv, WriteInv
<1>4. CASE Daily \/ _anchor_audit_chain \/ _anchor_on_quit \/ _kaydet_ve_cipaya_kazi
  BY <1>4, TakeUpInv
<1>5. CASE main \/ verify_against_anchor \/ Tamper
  BY <1>5, MainInv, VerifyInv, HandInv
<1>6. CASE Compared \/ Plug \/ Tomorrow \/ UNCHANGED vars
  <2>1. /\ plugged \in Tokens \cup {NoToken} /\ hwid \in Tokens /\ day \in 0..MaxDays /\ MaxDays \in Nat
    BY DEF IInv, TypeOK, Bounds
  <2>2. /\ plugged' \in Tokens \cup {NoToken} /\ hwid' \in Tokens /\ day' \in 0..MaxDays
        /\ at' = at \/ (at \notin Early /\ at' = "run")
        /\ UNCHANGED <<log, open, fresh, files, base, reported, tampered, torn>>
    BY <1>6, <2>1 DEF Compared, Plug, Tomorrow, vars, Early, files
  <2> QED BY <2>2, FrameInv
<1> QED BY <1>1, <1>2, <1>3, <1>4, <1>5, <1>6 DEF Next

-----------------------------------------------------------------------------
\* TypeOK, with what it takes to keep it.
THEOREM Invariance == ASSUME Bounds PROVE Spec => []IInv
<1>1. Init => IInv
  BY InitInv
<1>2. IInv /\ [Next]_vars => IInv'
  BY NextInv
<1> QED BY <1>1, <1>2, PTL DEF Spec

\* For any number of tokens, rows, anchors and days: a start reports no mismatch
\* without a hand in the file or an anchor over a row that was rolled back
\* (audit_chain.py: verify_against_anchor).
THEOREM CausedAlarm == ASSUME Bounds PROVE Spec => []AlarmHasCause
<1>1. IInv => AlarmHasCause
  BY DEF IInv
<1> QED BY <1>1, Invariance, PTL

\* And when the row the newest anchor names is gone, no further anchor is written
\* before a start has reported it (main.py, audit_chain.py: write_anchor).
THEOREM ReportedFirst == ASSUME Bounds PROVE Spec => TamperReported
<1> DEFINE Reports == Len(local') > Len(local) /\ tampered = "named" => reported
<1>1. ASSUME IInv, [Next]_vars PROVE Reports
  <2> SUFFICES ASSUME Len(local') > Len(local), tampered = "named" PROVE reported
    OBVIOUS
  <2>1. Len(local) \in Nat
    BY <1>1, LenProperties DEF IInv, TypeOK
  <2>2. local' # local
    BY <2>1
  <2>3. \E th \in Strands : write_anchor(th)
    BY <1>1, <2>2 DEF Next, vars, files, append_entry, Commit, Rollback, ReadCount, ReadTip, Daily,
       maybe_write_daily_anchor, _anchor_audit_chain, _anchor_on_quit, _kaydet_ve_cipaya_kazi, main,
       verify_against_anchor, Compared, Plug, Tomorrow, Crash, Tamper
  <2>4. \E th \in Strands : base[th] # {}
    BY <2>3 DEF write_anchor
  <2>5. at \notin Early
    BY <1>1, <2>4 DEF IInv, OpenInv
  <2> QED BY <1>1, <2>5 DEF IInv, TamperInv
<1>2. IInv /\ [Next]_vars => [Reports]_vars
  BY <1>1
<1> QED BY <1>2, Invariance, PTL DEF Spec, TamperReported

-----------------------------------------------------------------------------
(* Documents dropped on the table                                          *)

InHand == {d \in Docs : Import!Busy(d)}
Shaped(w) == \E h, k, s : w = [at |-> w.at, hwid |-> h, key |-> k, seen |-> s]
WorkShape == work = [d \in Docs |-> work[d]] /\ \A d \in Docs : Shaped(work[d])

\* What is outstanding on the banner is at least what is in hand (more, where a
\* worker ended without a result); nobody works on a document that is asked about.
ImportInv ==
    /\ total \in Nat /\ done \in Nat /\ WorkShape
    /\ source \subseteq Docs /\ asked \subseteq Docs \ InHand
    /\ Cardinality(InHand) + done <= total
    /\ told => done = total /\ InHand = {}

LEMMA Finite == \A S \in SUBSET Docs : IsFiniteSet(S) /\ Cardinality(S) \in Nat
  BY DocsAssumption, FS_Subset, FS_CardinalityType

LEMMA SameCardinality == \A S : Import!Cardinality(S) = Cardinality(S)
  BY DEF Import!Cardinality, Cardinality

LEMMA ImportInit == Import!Init => ImportInv
<1> SUFFICES ASSUME Import!Init PROVE ImportInv
  OBVIOUS
<1>1. WorkShape /\ InHand = {}
  BY DEF Import!Init, WorkShape, Shaped, InHand, Import!Busy
<1>2. Cardinality(InHand) = 0
  BY <1>1, FS_EmptySet
<1> QED BY <1>1, <1>2 DEF ImportInv, Import!Init

LEMMA ShapedField ==
    ASSUME NEW w, Shaped(w), NEW y
    PROVE  Shaped([w EXCEPT !.key = y]) /\ Shaped([w EXCEPT !.seen = y])
<1>1. PICK h, k, s : w = [at |-> w.at, hwid |-> h, key |-> k, seen |-> s]
  BY DEF Shaped
<1>2. /\ [w EXCEPT !.key = y] = [at |-> w.at, hwid |-> h, key |-> y, seen |-> s]
      /\ [w EXCEPT !.seen = y] = [at |-> w.at, hwid |-> h, key |-> k, seen |-> y]
  BY <1>1
<1> QED BY <1>2 DEF Shaped

\* A worker that goes one step on stays in hand until it has ended.
LEMMA StepMade ==
    ASSUME WorkShape, NEW d \in Docs, NEW r, Shaped(r), Import!Busy(d),
           work' = [work EXCEPT ![d] = r]
    PROVE  /\ WorkShape'
           /\ r.at # "idle" => InHand' = InHand
           /\ r.at = "idle" => InHand' = InHand \ {d}
<1>1. work' = [e \in Docs |-> IF e = d THEN r ELSE work[e]]
  BY DEF WorkShape
<1>2. WorkShape'
  BY <1>1 DEF WorkShape
<1>3. \A e \in Docs : Import!Busy(e)' <=> IF e = d THEN r.at # "idle" ELSE Import!Busy(e)
  BY <1>1 DEF Import!Busy
<1> QED BY <1>2, <1>3 DEF InHand

LEMMA StepShaped ==
    ASSUME NEW w, Shaped(w), NEW stage
    PROVE  Shaped([w EXCEPT !.at = stage]) /\ [w EXCEPT !.at = stage].at = stage
<1>1. PICK h, k, s : w = [at |-> w.at, hwid |-> h, key |-> k, seen |-> s]
  BY DEF Shaped
<1>2. [w EXCEPT !.at = stage] = [at |-> stage, hwid |-> h, key |-> k, seen |-> s]
  BY <1>1
<1> QED BY <1>2 DEF Shaped
LEMMA StepRecord ==
    ASSUME WorkShape, NEW d \in Docs, NEW stage, Import!Step(d, stage)
    PROVE  \E r : Shaped(r) /\ r.at = stage /\ work' = [work EXCEPT ![d] = r]
<1>1. Shaped(work[d])
  BY DEF WorkShape
<1>2. CASE stage \in {"idle", "emitted"}
  <2> DEFINE r == [at |-> stage, hwid |-> holder, key |-> Zero, seen |-> {}]
  <2>1. Shaped(r) /\ r.at = stage
    BY DEF Shaped
  <2>2. work' = [work EXCEPT ![d] = r]
    BY <1>2 DEF Import!Step
  <2> HIDE DEF r
  <2> QED BY <2>1, <2>2
<1>3. CASE stage \notin {"idle", "emitted"}
  <2> DEFINE r == [work[d] EXCEPT !.at = stage]
  <2>1. Shaped(r) /\ r.at = stage
    BY <1>1, StepShaped
  <2>2. work' = [work EXCEPT ![d] = r]
    BY <1>3 DEF Import!Step
  <2> HIDE DEF r
  <2> QED BY <2>1, <2>2
<1> QED BY <1>2, <1>3

\* Whatever a thread of the pool does, it works on a document in hand, and neither
\* counts nor asks.
Thread(d) ==
    /\ Import!Busy(d)
    /\ \E r : Shaped(r) /\ work' = [work EXCEPT ![d] = r]
    /\ UNCHANGED <<source, asked, total, done, told>>

LEMMA ThreadStep ==
    ASSUME ImportInv, NEW d \in Docs, Import!Worker(d)
    PROVE  Thread(d)
<1>1. WorkShape /\ Shaped(work[d])
  BY DEF ImportInv, WorkShape
<1>2. ASSUME NEW stage, Import!Step(d, stage) PROVE \E r : Shaped(r) /\ work' = [work EXCEPT ![d] = r]
  BY <1>1, <1>2, StepRecord
<1>3. CASE Import!run(d)
  <2>1. \E stage : Import!Step(d, stage)
    BY <1>3 DEF Import!run
  <2> QED BY <1>2, <1>3, <2>1 DEF Import!run, Import!At, Import!Busy, Import!World, Import!Batch, Thread
<1>4. CASE Import!_derive_file_key(d)
  <2> DEFINE w == [work[d] EXCEPT !.at = "encrypt"]
             r == [w EXCEPT !.key = key]
  <2>1. Shaped(w)
    BY <1>1, StepShaped
  <2>2. Shaped(r)
    <3> HIDE DEF w
    <3> QED BY <2>1, ShapedField
  <2>3. work' = [work EXCEPT ![d] = r]
    BY <1>1, <1>4 DEF Import!_derive_file_key, WorkShape
  <2> HIDE DEF r
  <2> QED BY <1>4, <2>2, <2>3 DEF Import!_derive_file_key, Import!At, Import!Busy, Import!World, Import!Batch, Thread
<1>5. CASE Import!encrypt_file(d)
  BY <1>2, <1>5 DEF Import!encrypt_file, Import!At, Import!Busy, Import!World, Import!Batch, Thread
<1>6. CASE Import!EncryptFails(d)
  <2>1. Import!Busy(d)
    BY <1>6 DEF Import!EncryptFails, Import!Busy
  <2> QED BY <1>2, <1>6, <2>1 DEF Import!EncryptFails, Import!EndReported, Import!World, Import!Batch, Thread
<1>7. CASE Import!stat(d)
  <2>1. \E stage : Import!Step(d, stage)
    BY <1>7 DEF Import!stat
  <2> QED BY <1>2, <1>7, <2>1 DEF Import!stat, Import!At, Import!Busy, Import!World, Import!Batch, Thread
<1>8. CASE Import!record_encrypted_file(d)
  BY <1>2, <1>8 DEF Import!record_encrypted_file, Import!At, Import!Busy, Import!World, Import!Batch, Thread
<1>9. CASE Import!RecordFails(d)
  <2>1. Import!Busy(d)
    BY <1>9 DEF Import!RecordFails, Import!Busy
  <2> QED BY <1>2, <1>9, <2>1 DEF Import!RecordFails, Import!World, Import!Batch, Thread
<1>10. CASE Import!scan_file(d)
  <2> DEFINE w == [work[d] EXCEPT !.at = "save"]
             r == [w EXCEPT !.seen = {f.doc : f \in disk[Path[d]]}]
  <2>1. Shaped(w)
    BY <1>1, StepShaped
  <2>2. Shaped(r)
    <3> HIDE DEF w
    <3> QED BY <2>1, ShapedField
  <2>3. work' = [work EXCEPT ![d] = r]
    BY <1>1, <1>10 DEF Import!scan_file, WorkShape
  <2> HIDE DEF r
  <2> QED BY <1>10, <2>2, <2>3 DEF Import!scan_file, Import!At, Import!Busy, Import!World, Import!Batch, Thread
<1>11. CASE Import!_save_to_db(d)
  BY <1>2, <1>11 DEF Import!_save_to_db, Import!At, Import!Busy, Import!World, Import!Batch, Thread
<1> QED BY <1>3, <1>4, <1>5, <1>6, <1>7, <1>8, <1>9, <1>10, <1>11 DEF Import!Worker
LEMMA ThreadKeeps ==
    ASSUME ImportInv, NEW d \in Docs, Thread(d)
    PROVE  ImportInv'
<1>1. PICK r : Shaped(r) /\ work' = [work EXCEPT ![d] = r]
  BY DEF Thread
<1>2. /\ WorkShape'
      /\ r.at # "idle" => InHand' = InHand
      /\ r.at = "idle" => InHand' = InHand \ {d}
  BY <1>1, StepMade DEF Thread, ImportInv
<1>3. InHand' \subseteq InHand /\ InHand \in SUBSET Docs
  BY <1>2 DEF InHand
<1>4. Cardinality(InHand') <= Cardinality(InHand) /\ Cardinality(InHand') \in Nat /\ Cardinality(InHand) \in Nat
  BY <1>3, Finite, FS_Subset
<1>5. UNCHANGED <<source, asked, total, done, told>>
  BY DEF Thread
<1>6. Cardinality(InHand') + done <= total
  BY <1>4 DEF ImportInv
<1> QED BY <1>2, <1>3, <1>5, <1>6 DEF ImportInv

\* The last result brings up the message, and only the last one.
LEMMA DoneKeeps ==
    ASSUME ImportInv, NEW d \in Docs, Import!_on_file_done(d)
    PROVE  ImportInv'
<1>1. Import!Busy(d) /\ d \in InHand
  BY DEF Import!_on_file_done, Import!At, Import!Busy, InHand
<1>2. PICK r : Shaped(r) /\ r.at = "idle" /\ work' = [work EXCEPT ![d] = r]
  BY StepRecord DEF Import!_on_file_done, ImportInv
<1>3. WorkShape' /\ InHand' = InHand \ {d}
  BY <1>1, <1>2, StepMade DEF ImportInv
<1>4. InHand \in SUBSET Docs /\ IsFiniteSet(InHand) /\ IsFiniteSet(InHand') /\ Cardinality(InHand) \in Nat /\ Cardinality(InHand') \in Nat
  BY <1>3, Finite DEF InHand
<1>5. Cardinality(InHand') = Cardinality(InHand) - 1
  BY <1>1, <1>3, <1>4, FS_RemoveElement
<1>6. /\ done' = done + 1 /\ total' = total /\ told' = (done' >= total)
      /\ source' = source /\ asked' = asked
  BY DEF Import!_on_file_done
<1>7. total \in Nat /\ done \in Nat /\ Cardinality(InHand) + done <= total
  BY DEF ImportInv
<1>8. done' \in Nat /\ total' \in Nat /\ Cardinality(InHand') + done' <= total'
  BY <1>4, <1>5, <1>6, <1>7
<1>9. ASSUME told' PROVE done' = total' /\ InHand' = {}
  <2>1. done' >= total'
    BY <1>6, <1>9
  <2>2. Cardinality(InHand') = 0 /\ done' = total'
    BY <1>4, <1>8, <2>1
  <2> QED BY <1>4, <2>2, FS_EmptySet
<1>10. source' \subseteq Docs /\ asked' \subseteq Docs \ InHand'
  BY <1>3, <1>6 DEF ImportInv
<1> QED BY <1>3, <1>8, <1>9, <1>10 DEF ImportInv

\* A batch begins: on counters at rest, or on top of what is outstanding.
LEMMA BatchKeeps ==
    ASSUME ImportInv, ~told, NEW batch \in SUBSET Docs, batch \cap InHand = {},
           Import!_start_batch(batch), source' = source, told' = told, asked' = {} 
    PROVE  ImportInv'
<1>1. work' = [d \in Docs |-> IF d \in batch
                              THEN [at |-> "queued", hwid |-> holder, key |-> Zero, seen |-> {}]
                              ELSE work[d]]
  BY DEF Import!_start_batch
<1>2. WorkShape'
  BY <1>1 DEF ImportInv, WorkShape, Shaped
<1>3. InHand' = InHand \cup batch
  BY <1>1 DEF InHand, Import!Busy
<1>4. /\ IsFiniteSet(InHand) /\ IsFiniteSet(batch) /\ IsFiniteSet(InHand')
      /\ Cardinality(InHand) \in Nat /\ Cardinality(batch) \in Nat /\ Cardinality(InHand') \in Nat
  BY <1>3, Finite DEF InHand
<1>5. Cardinality(InHand') = Cardinality(InHand) + Cardinality(batch)
  <2>1. Cardinality(InHand \cap batch) = 0
    <3>1. InHand \cap batch = {}
      OBVIOUS
    <3> QED BY <3>1, FS_EmptySet
  <2>2. Cardinality(InHand \cup batch) = Cardinality(InHand) + Cardinality(batch) - Cardinality(InHand \cap batch)
    BY <1>4, FS_Union
  <2> QED BY <1>3, <1>4, <2>1, <2>2
<1>6. total \in Nat /\ done \in Nat /\ Cardinality(InHand) + done <= total
  BY DEF ImportInv
<1>7. CASE done >= total
  <2>1. Cardinality(InHand) = 0
    BY <1>4, <1>6, <1>7
  <2>2. total' = Cardinality(batch) /\ done' = 0
    BY <1>7, SameCardinality DEF Import!_start_batch, Import!ResetCounters
  <2>3. Cardinality(InHand') + done' <= total' /\ total' \in Nat /\ done' \in Nat
    BY <1>4, <1>5, <2>1, <2>2
  <2> QED BY <1>2, <2>3 DEF ImportInv
<1>8. CASE ~(done >= total)
  <2>1. total' = total + Cardinality(batch) /\ done' = done
    BY <1>8, SameCardinality DEF Import!_start_batch, Import!ResetCounters
  <2>2. Cardinality(InHand') + done' <= total' /\ total' \in Nat /\ done' \in Nat
    BY <1>4, <1>5, <1>6, <2>1
  <2> QED BY <1>2, <2>2 DEF ImportInv
<1> QED BY <1>7, <1>8

LEMMA WindowKeeps ==
    ASSUME ImportInv, source' \subseteq source, asked' \subseteq Docs \ InHand,
           UNCHANGED <<work, total, done>>, told' => told
    PROVE  ImportInv'
<1>1. InHand' = InHand
  BY DEF InHand, Import!Busy
<1> QED BY <1>1 DEF ImportInv, WorkShape

LEMMA ImportStep == ImportInv /\ [Import!Next]_importVars => ImportInv'
<1> SUFFICES ASSUME ImportInv, [Import!Next]_importVars PROVE ImportInv'
  OBVIOUS
<1>0. source \subseteq Docs /\ asked \subseteq Docs \ InHand
  BY DEF ImportInv
<1>1. CASE Import!_lock \/ (\E t \in Tokens : Import!_refill_session_key(t)) \/ Import!Plug \/ Import!_on_batch_complete
           \/ Import!SourceGone \/ UNCHANGED importVars
  <2>1. source' \subseteq source /\ asked' = asked /\ UNCHANGED <<work, total, done>> /\ (told' => told)
    BY <1>1 DEF Import!_lock, Import!_refill_session_key, Import!Plug, Import!_on_batch_complete, Import!SourceGone,
       Import!Batch, Import!Window, Import!Vault, importVars
  <2> QED BY <1>0, <2>1, WindowKeeps
<1>2. CASE Import!dropEvent
  <2>1. ~told /\ asked = {} /\ source' = source /\ told' = told
    BY <1>2 DEF Import!dropEvent, Import!Modal
  <2>2. PICK batch \in SUBSET source \ {{}} :
          /\ \A d \in batch : ~Import!Busy(d)
          /\ \/ asked' = batch /\ UNCHANGED <<work, total, done>>
             \/ Import!_start_batch(batch) /\ UNCHANGED asked
    BY <1>2 DEF Import!dropEvent
  <2>3. batch \in SUBSET Docs /\ batch \cap InHand = {} /\ batch \subseteq Docs \ InHand
    BY <1>0, <2>2 DEF InHand
  <2> QED BY <2>1, <2>2, <2>3, WindowKeeps, BatchKeeps
<1>3. CASE Import!_check_duplicates
  <2>1. ~told /\ asked' = {} /\ source' = source /\ told' = told
    BY <1>3 DEF Import!_check_duplicates
  <2>2. PICK batch : /\ batch \in SUBSET asked
                     /\ UNCHANGED <<work, total, done>> \/ Import!_start_batch(batch)
    BY <1>3 DEF Import!_check_duplicates
  <2>3. batch \in SUBSET Docs /\ batch \cap InHand = {}
    BY <1>0, <2>2
  <2> QED BY <2>1, <2>2, <2>3, WindowKeeps, BatchKeeps
<1>4. ASSUME NEW d \in Docs, Import!Worker(d) \/ Import!_on_file_done(d) PROVE ImportInv'
  BY <1>4, ThreadStep, ThreadKeeps, DoneKeeps
<1> QED BY <1>1, <1>2, <1>3, <1>4 DEF Import!Next

LEMMA ImportInvariance == MCSpec => []ImportInv
<1>1. MCInit => ImportInv
  BY ImportInit DEF MCInit
<1>2. ImportInv /\ [MCNext]_all => ImportInv'
  <2> SUFFICES ASSUME ImportInv, [MCNext]_all PROVE ImportInv'
    OBVIOUS
  <2>1. [Import!Next]_importVars
    BY DEF MCNext, InAnchor, InIntake, InSweep, all
  <2> QED BY <2>1, ImportStep
<1> QED BY <1>1, <1>2, PTL DEF MCSpec

\* For any number of documents and threads, whatever fails and whenever more are
\* dropped: the message that the batch is done comes when all are worked on and
\* counted (main_window_table.py: _start_batch, _on_file_done).
THEOREM MessageComesLast == MCSpec => []ToldAtTheEnd
<1>1. ImportInv => ToldAtTheEnd
  BY DEF ImportInv, ToldAtTheEnd, Import!ToldAtTheEnd, InHand
<1> QED BY <1>1, ImportInvariance, PTL
-----------------------------------------------------------------------------
(* The integrity sweep                                                     *)

Looked == {v[1] : v \in found}

\* One verdict for each file that was looked at.
OneEach(every) ==
    /\ \A v \in every : v = <<v[1], v[2]>> /\ v[1] \in Files
    /\ \A v, w \in every : v[1] = w[1] => v = w

\* What is not in the lot is in the rows.
Entered(every, lot) == \A v \in every : v[1] \notin lot => status[v[1]] \in {v[2], "absent"}

\* Every row with a verdict waits for its turn or was looked at; what was looked at is in
\* the rows or in the lot, and once all were, in the rows, or the key is suspected.
SweepInv ==
    /\ status = [f \in Files |-> status[f]]
    /\ OneEach(found) /\ todo \subseteq Files /\ todo \cap Looked = {} /\ pending \subseteq Looked
    /\ sweeping = "off" => found = {} /\ todo = {}
    /\ sweeping # "off" => \A f \in Files : status[f] \in Sweep!Statuses => f \in todo \cup Looked
    /\ sweeping # "sweep" => pending = {}
    /\ sweeping = "sweep" \/ ~Sweep!suspected_wrong_key => Entered(found, pending)

LEMMA FlushMade ==
    ASSUME status = [f \in Files |-> status[f]], NEW every, OneEach(every), NEW lot, Entered(every, lot),
           lot \subseteq {v[1] : v \in every}, Sweep!_flush_statuses(lot, every)
    PROVE  /\ status' = [f \in Files |-> status'[f]]
           /\ \A v \in every : status'[v[1]] \in {v[2], "absent"}
           /\ \A f \in Files : f \in lot \/ status'[f] = status[f]
<1>1. status' = [f \in Files |-> IF f \in lot /\ status[f] # "absent" THEN Sweep!Verdict(f, every) ELSE status[f]]
  BY DEF Sweep!_flush_statuses
<1>2. ASSUME NEW v \in every PROVE Sweep!Verdict(v[1], every) = v[2]
  BY DEF Sweep!Verdict, OneEach
<1>3. ASSUME NEW v \in every PROVE status'[v[1]] \in {v[2], "absent"}
  <2>1. v[1] \in Files
    BY DEF OneEach
  <2>2. status'[v[1]] = IF v[1] \in lot /\ status[v[1]] # "absent" THEN v[2] ELSE status[v[1]]
    BY <1>1, <1>2, <2>1
  <2> QED BY <2>2 DEF Entered
<1>4. \A f \in Files : f \in lot \/ status'[f] = status[f]
  BY <1>1
<1> QED BY <1>1, <1>3, <1>4

\* The verdict on one more file joins the lot, or a full lot is written.
LEMMA LookedAt == ASSUME SweepInv, Sweep!sweep_integrity PROVE SweepInv'
<1>1. PICK f \in todo : \E every, lot :
        /\ every = found \cup {<<f, Sweep!_classify(f)>>}
        /\ lot = pending \cup {f}
        /\ todo' = todo \ {f}
        /\ found' = every
        /\ \/ Sweep!_flush_statuses(lot, every) /\ pending' = {}
           \/ UNCHANGED status /\ pending' = lot
  BY DEF Sweep!sweep_integrity
<1>2. PICK every, lot :
        /\ every = found \cup {<<f, Sweep!_classify(f)>>}
        /\ lot = pending \cup {f}
        /\ todo' = todo \ {f}
        /\ found' = every
        /\ \/ Sweep!_flush_statuses(lot, every) /\ pending' = {}
           \/ UNCHANGED status /\ pending' = lot
  BY <1>1
<1>3. sweeping = "sweep" /\ sweeping' = "sweep"
  BY DEF Sweep!sweep_integrity
<1>4. /\ status = [g \in Files |-> status[g]]
      /\ OneEach(found) /\ todo \subseteq Files /\ todo \cap Looked = {} /\ pending \subseteq Looked
      /\ \A g \in Files : status[g] \in Sweep!Statuses => g \in todo \cup Looked
      /\ Entered(found, pending)
  BY <1>3 DEF SweepInv
<1>5. f \in Files /\ f \notin Looked
  BY <1>4
<1>6. PICK y : y = <<f, Sweep!_classify(f)>>
  OBVIOUS
<1>7. y = <<y[1], y[2]>> /\ y[1] = f /\ every = found \cup {y}
  BY <1>2, <1>6
<1>8. OneEach(every)
  BY <1>4, <1>5, <1>7 DEF OneEach, Looked
<1>9. Entered(every, lot)
  BY <1>2, <1>4, <1>7 DEF Entered
<1>10. Looked' = Looked \cup {f} /\ lot \subseteq {v[1] : v \in every}
  BY <1>2, <1>4, <1>7 DEF Looked
<1>11. todo' \subseteq Files /\ todo' \cap Looked' = {} /\ todo' \cup Looked' = todo \cup Looked
  BY <1>2, <1>4, <1>5, <1>10
<1>12. CASE Sweep!_flush_statuses(lot, every) /\ pending' = {}
  <2>1. /\ status' = [g \in Files |-> status'[g]]
        /\ \A v \in every : status'[v[1]] \in {v[2], "absent"}
        /\ \A g \in Files : g \in lot \/ status'[g] = status[g]
    BY <1>4, <1>8, <1>9, <1>10, <1>12, FlushMade
  <2>2. \A g \in Files : status'[g] \in Sweep!Statuses => g \in todo' \cup Looked'
    <3>1. lot \subseteq Looked'
      BY <1>2, <1>10 DEF Looked
    <3> QED BY <1>4, <1>11, <2>1, <3>1
  <2> QED BY <1>2, <1>3, <1>8, <1>11, <1>12, <2>1, <2>2 DEF SweepInv, Entered, OneEach
<1>13. CASE UNCHANGED status /\ pending' = lot
  <2>1. Entered(every, lot)' /\ OneEach(every)'
    BY <1>8, <1>9, <1>13 DEF Entered, OneEach
  <2>2. pending' \subseteq Looked'
    BY <1>2, <1>4, <1>10, <1>13
  <2> QED BY <1>2, <1>3, <1>4, <1>8, <1>9, <1>11, <1>13, <2>2 DEF SweepInv, Entered, OneEach
<1> QED BY <1>2, <1>12, <1>13

\* The last lot is written, unless the key is suspected.
LEMMA Reported == ASSUME SweepInv, Sweep!report PROVE SweepInv'
<1>1. sweeping = "sweep" /\ sweeping' = "mark" /\ pending' = {} /\ todo' = todo /\ found' = found
  BY DEF Sweep!report
<1>2. /\ status = [g \in Files |-> status[g]]
      /\ OneEach(found) /\ todo \subseteq Files /\ todo \cap Looked = {} /\ pending \subseteq Looked
      /\ \A g \in Files : status[g] \in Sweep!Statuses => g \in todo \cup Looked
      /\ Entered(found, pending)
  BY <1>1 DEF SweepInv
<1>3. Looked' = Looked /\ (Sweep!suspected_wrong_key' <=> Sweep!suspected_wrong_key) /\ OneEach(found)'
  BY <1>1, <1>2 DEF Looked, Sweep!suspected_wrong_key, OneEach
<1>4. CASE Sweep!suspected_wrong_key
  <2>1. status' = status
    BY <1>4 DEF Sweep!report, Sweep!LotWritten
  <2> QED BY <1>1, <1>2, <1>3, <1>4, <2>1 DEF SweepInv
<1>5. CASE ~Sweep!suspected_wrong_key
  <2>1. Sweep!_flush_statuses(pending, found)
    BY <1>5 DEF Sweep!report, Sweep!LotWritten
  <2>2. /\ status' = [g \in Files |-> status'[g]]
        /\ \A v \in found : status'[v[1]] \in {v[2], "absent"}
        /\ \A g \in Files : g \in pending \/ status'[g] = status[g]
    BY <1>2, <2>1, FlushMade DEF Looked
  <2>3. \A g \in Files : status'[g] \in Sweep!Statuses => g \in todo \cup Looked
    BY <1>2, <2>2
  <2> QED BY <1>1, <1>2, <1>3, <2>2, <2>3 DEF SweepInv, Entered
<1> QED BY <1>4, <1>5
\* Between two sweeps no verdict is kept.
LEMMA Cleared ==
    ASSUME SweepInv, todo' = {}, found' = {}, pending' = {}, sweeping' = "off", UNCHANGED status
    PROVE  SweepInv'
  BY DEF SweepInv, OneEach, Entered, Looked

LEMMA SweepBegins == ASSUME SweepInv, Sweep!_integrity_sweep PROVE SweepInv'
<1>1. /\ todo' = {f \in Files : status[f] # "absent"} /\ found' = {} /\ pending' = {}
      /\ sweeping' = "sweep" /\ status' = status
  BY DEF Sweep!_integrity_sweep, Sweep!maybe_run_weekly_sweep, Sweep!Rows
<1>2. \A f \in Files : status'[f] \in Sweep!Statuses => f \in todo'
  BY <1>1 DEF Sweep!Statuses, Sweep!CORRUPT_STATUSES, Sweep!OK
<1> QED BY <1>1, <1>2 DEF SweepInv, OneEach, Entered, Looked

\* Around a sweep a row may go, and one that it has not fetched may come.
LEMMA RowsMove ==
    ASSUME SweepInv, UNCHANGED <<todo, found, pending, sweeping>>, status' = [f \in Files |-> status'[f]],
           \A f \in Files : \/ status'[f] \in {status[f], "absent"}
                            \/ status'[f] = "none" /\ f \notin Looked
    PROVE  SweepInv'
<1>1. Looked' = Looked /\ (Sweep!suspected_wrong_key' <=> Sweep!suspected_wrong_key)
  BY DEF Looked, Sweep!suspected_wrong_key
<1>2. OneEach(found)'
  BY DEF SweepInv, OneEach
<1>3. ASSUME sweeping' # "off", NEW f \in Files, status'[f] \in Sweep!Statuses PROVE f \in todo' \cup Looked'
  <2>1. status'[f] \notin {"none", "absent"}
    BY <1>3 DEF Sweep!Statuses, Sweep!CORRUPT_STATUSES, Sweep!OK
  <2>2. status[f] \in Sweep!Statuses /\ sweeping # "off"
    BY <1>3, <2>1
  <2>3. f \in todo \cup Looked
    BY <2>2 DEF SweepInv
  <2> QED BY <1>1, <2>3
<1>4. ASSUME sweeping' = "sweep" \/ ~Sweep!suspected_wrong_key' PROVE Entered(found, pending)'
  <2>1. Entered(found, pending) /\ \A v \in found : v[1] \in Files /\ v[1] \in Looked
    BY <1>1, <1>4 DEF SweepInv, OneEach, Looked
  <2> QED BY <2>1 DEF Entered
<1> QED BY <1>1, <1>2, <1>3, <1>4 DEF SweepInv

LEMMA SweepStep == SweepInv /\ [Sweep!Next]_sweepVars => SweepInv'
<1> SUFFICES ASSUME SweepInv, [Sweep!Next]_sweepVars PROVE SweepInv'
  OBVIOUS
<1>0. status = [f \in Files |-> status[f]]
  BY DEF SweepInv
<1>1. CASE Sweep!_integrity_sweep
  BY <1>1, SweepBegins
<1>2. CASE Sweep!sweep_integrity \/ Sweep!report
  BY <1>2, LookedAt, Reported
<1>3. CASE Sweep!isaretle \/ Sweep!start_scheduler
  <2>1. todo' = {} /\ found' = {} /\ pending' = {} /\ sweeping' = "off" /\ status' = status
    BY <1>3 DEF Sweep!isaretle, Sweep!start_scheduler, SweepInv
  <2> QED BY <2>1, Cleared
<1>4. CASE Sweep!Day \/ Sweep!ClockSet \/ Sweep!stop_scheduler \/ (\E f \in Files : Sweep!Damage(f) \/ Sweep!Unlink(f))
           \/ UNCHANGED sweepVars
  <2>1. UNCHANGED <<status, todo, found, pending, sweeping>>
    BY <1>4 DEF Sweep!Day, Sweep!ClockSet, Sweep!stop_scheduler, Sweep!Damage, Sweep!Unlink, Sweep!Job, sweepVars
  <2>2. status' = [f \in Files |-> status'[f]] /\ \A f \in Files : status'[f] = status[f]
    BY <1>0, <2>1
  <2> QED BY <2>1, <2>2, RowsMove
<1>5. ASSUME NEW f \in Files, Sweep!Add(f) PROVE SweepInv'
  <2>1. UNCHANGED <<todo, found, pending, sweeping>>
    BY <1>5 DEF Sweep!Add, Sweep!Job
  <2>2. status' = [status EXCEPT ![f] = IF status[f] = "absent" THEN "none" ELSE status[f]]
    BY <1>5 DEF Sweep!Add
  <2>3. status' = [g \in Files |-> IF g = f /\ status[f] = "absent" THEN "none" ELSE status[g]]
    BY <1>0, <2>2
  <2>4. status[f] = "absent" => f \notin Looked
    BY <1>5 DEF Sweep!Add, Sweep!Fetched, Looked
  <2>5. status' = [g \in Files |-> status'[g]]
    BY <2>3
  <2>6. \A g \in Files : status'[g] \in {status[g], "absent"} \/ (status'[g] = "none" /\ g \notin Looked)
    BY <2>3, <2>4
  <2> QED BY <2>1, <2>5, <2>6, RowsMove
<1>6. ASSUME NEW f \in Files, Sweep!DropRow(f) PROVE SweepInv'
  <2>1. UNCHANGED <<todo, found, pending, sweeping>> /\ status' = [status EXCEPT ![f] = "absent"]
    BY <1>6 DEF Sweep!DropRow, Sweep!Job
  <2>2. status' = [g \in Files |-> IF g = f THEN "absent" ELSE status[g]]
    BY <1>0, <2>1
  <2>3. status' = [g \in Files |-> status'[g]] /\ \A g \in Files : status'[g] \in {status[g], "absent"}
    BY <2>2
  <2> QED BY <2>1, <2>3, RowsMove
<1> QED BY <1>1, <1>2, <1>3, <1>4, <1>5, <1>6 DEF Sweep!Next

LEMMA SweepInvariance == MCSpec => []SweepInv
<1>1. MCInit => SweepInv
  BY DEF MCInit, Sweep!Init, SweepInv, OneEach, Entered, Looked
<1>2. SweepInv /\ [MCNext]_all => SweepInv'
  <2> SUFFICES ASSUME SweepInv, [MCNext]_all PROVE SweepInv'
    OBVIOUS
  <2>1. [Sweep!Next]_sweepVars
    BY DEF MCNext, InAnchor, InIntake, InSweep, all
  <2> QED BY <2>1, SweepStep
<1> QED BY <1>1, <1>2, PTL DEF MCSpec

\* For any number of files and lots of any size: the gate closes on a sweep that has
\* looked at all it fetched, and with its verdict in every row that still is there
\* (integrity.py: sweep_integrity, _flush_statuses; scheduled_checks.py:
\* maybe_run_weekly_sweep).
THEOREM GateIsHonest == MCSpec => GateClosesOnVerdicts
<1> DEFINE Closes == sweeping = "mark" /\ sweeping' = "off" /\ age # 0 /\ age' = 0
           Judged == /\ todo = {}
                     /\ \A v \in found : status[v[1]] \in {v[2], "absent"}
                     /\ \A f \in Files : status[f] \in Sweep!Statuses => Sweep!Fetched(f)
<1>1. ASSUME SweepInv, [MCNext]_all, Closes PROVE Judged
  <2>1. Sweep!Next
    BY <1>1 DEF MCNext, InAnchor, InIntake, InSweep, all, importVars, sweepVars
  <2>2. Sweep!isaretle
    BY <1>1, <2>1 DEF Sweep!Next, Sweep!_integrity_sweep, Sweep!sweep_integrity, Sweep!report, Sweep!Day, Sweep!ClockSet,
       Sweep!stop_scheduler, Sweep!start_scheduler, Sweep!Damage, Sweep!Add, Sweep!Unlink, Sweep!DropRow, Sweep!Job, Sweep!World
  <2>3. todo = {} /\ ~Sweep!suspected_wrong_key
    BY <1>1, <2>2 DEF Sweep!isaretle, Sweep!MarkEnds, Sweep!aborted
  <2>4. \A v \in found : status[v[1]] \in {v[2], "absent"}
    BY <1>1, <2>3 DEF SweepInv, Entered
  <2>5. \A f \in Files : status[f] \in Sweep!Statuses => Sweep!Fetched(f)
    BY <1>1 DEF SweepInv, Looked, Sweep!Fetched
  <2> QED BY <2>3, <2>4, <2>5
<1>2. SweepInv /\ [MCNext]_all => [Closes => Judged]_(Sweep!vars)
  BY <1>1
<1> QED BY <1>2, SweepInvariance, PTL DEF MCSpec, GateClosesOnVerdicts, Sweep!GateClosesOnVerdicts
=============================================================================
