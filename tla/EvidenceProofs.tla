--------------------------- MODULE EvidenceProofs ---------------------------
(***************************************************************************)
(* What MCEvidence's runs check of the threads of one process and of the   *)
(* time stamps, for every number of threads, connections, rows, files,     *)
(* calls and texts.                                                        *)
(***************************************************************************)
EXTENDS MCEvidence, SequenceTheorems, WellFoundedInduction, TLAPS

-----------------------------------------------------------------------------
(* The threads of one process: AuditChainProofs, of the chain App is        *)

AP == INSTANCE AuditChainProofs WITH
    Procs <- AppProcs, Conns <- AppConns, Threads <- AppThreads,
    ProcOf <- AppProcOf, ConnOf <- AppConnOf, MainOf <- AppMainOf,
    Chained <- FALSE, Faults <- {},
    durable <- threads_durable, live <- threads_live, writer <- threads_writer, mutex <- threads_mutex,
    pc <- threads_pc, mine <- threads_mine, link <- threads_link, proc <- threads_proc

\* What the theorems of AuditChainProofs assume holds of the application.
LEMMA AppQuiet == AP!OneProcess /\ AP!Quiet
BY AppAssumption DEF AP!OneProcess, AP!Quiet, AP!May

LEMMA AppTopology == AP!TopologyAssumption /\ AP!FaultAssumption /\ AP!ValueAssumption
<1>1. AP!TopologyAssumption
  BY AppAssumption DEF AP!TopologyAssumption
<1>2. AP!FaultAssumption
  BY DEF AP!FaultAssumption
<1>3. AP!ValueAssumption
  BY AppAssumption, ValueAssumption DEF AP!ValueAssumption
<1> QED BY <1>1, <1>2, <1>3

LEMMA AppSound == AP!Spec => [](AP!ChainSoundAtRest /\ AP!NoFork)
<1>1. AP!Spec => []AP!ChainSoundAtRest
  BY AppQuiet, AppTopology, AP!OneProcessSoundAtRest
<1>2. AP!Spec => []AP!NoFork
  BY AppQuiet, AppTopology, AP!OneProcessNoFork
<1> QED BY <1>1, <1>2, PTL

\* The same module, instantiated twice.
LEMMA SameInit == App!Init <=> AP!Init
BY DEF App!Init, AP!Init, App!Row, AP!Row
LEMMA SameNext == App!Next => AP!Next
BY DEF App!Next, AP!Next, App!Step, AP!Step, App!View, AP!View, App!MayWrite, AP!MayWrite,
       App!LockFree, AP!LockFree, App!Goto, AP!Goto, App!May, AP!May, App!Commit, AP!Commit,
       App!Rollback, AP!Rollback, App!Enter, AP!Enter, App!Begin, AP!Begin, App!Insert, AP!Insert,
       App!Link, AP!Link, App!Update, AP!Update, App!Finish, AP!Finish, App!Fail, AP!Fail,
       App!FoundChain, AP!FoundChain, App!Mark, AP!Mark, App!Marked, AP!Marked,
       App!Execute, AP!Execute, App!ExecuteCommit, AP!ExecuteCommit, App!StartProc, AP!StartProc,
       App!Crash, AP!Crash, App!Row, AP!Row, App!Hashed, AP!Hashed, App!Latest, AP!Latest,
       App!PreviousHash, AP!PreviousHash, App!ChainStart, AP!ChainStart, App!OwnId, AP!OwnId
LEMMA SameSound == AP!ChainSoundAtRest /\ AP!NoFork => App!ChainSoundAtRest /\ App!NoFork
BY DEF App!ChainSoundAtRest, AP!ChainSoundAtRest, App!ChainSound, AP!ChainSound, App!NoFork, AP!NoFork,
       App!ChainStart, AP!ChainStart, App!Breaks, AP!Breaks, App!Hashed, AP!Hashed,
       App!PreviousHash, AP!PreviousHash, App!Latest, AP!Latest

\* The threads of one process on two connections, one of them in the middle of an
\* append that another overtakes: the chain verifies whenever nobody is appending, and
\* no two entries are chained to one (CORE/audit_chain.py, DB/db_manager.py).
THEOREM AppendsInThreads == MCSpec => []ThreadsSound
<1>1. MCInit => AP!Init
  BY SameInit DEF MCInit
<1>2. [MCNext]_all => [AP!Next]_(AP!vars)
  <2>1. ASSUME MCNext PROVE AP!Next \/ UNCHANGED appVars
    BY <2>1, SameNext DEF MCNext
  <2>2. ASSUME UNCHANGED all PROVE UNCHANGED appVars
    BY <2>2 DEF all
  <2> QED BY <2>1, <2>2 DEF appVars, AP!vars
<1>3. MCSpec => AP!Spec
  BY <1>1, <1>2, PTL DEF MCSpec, AP!Spec
<1>4. AP!ChainSoundAtRest /\ AP!NoFork => ThreadsSound
  BY SameSound DEF ThreadsSound
<1> QED BY <1>3, <1>4, AppSound, PTL
-----------------------------------------------------------------------------
\* Induction over the numbers, said of the set of numbers for which a fact holds.
LEMMA Induction ==
    ASSUME NEW T \in SUBSET Nat, 0 \in T, \A n \in T : n + 1 \in T
    PROVE  \A n \in Nat : n \in T
<1> SUFFICES ASSUME Nat \ T # {} PROVE FALSE
  OBVIOUS
<1>1. \E y \in Nat \ T : \A z \in Nat \ T : ~(<<z, y>> \in OpToRel(<, Nat))
  BY NatLessThanWellFounded, WFMin, Nat \ T \subseteq Nat
<1>2. PICK y \in Nat \ T : \A z \in Nat \ T : ~(z < y)
  BY <1>1 DEF OpToRel
<1>3. y # 0 /\ y - 1 \in Nat /\ y - 1 < y
  OBVIOUS
<1>4. y - 1 \in T /\ (y - 1) + 1 = y
  BY <1>2, <1>3
<1> QED BY <1>4

LEMMA Smallest == \A T \in SUBSET Nat : T # {} => \E y \in T : \A z \in T : y <= z
<1> SUFFICES ASSUME NEW T \in SUBSET Nat, T # {} PROVE \E y \in T : \A z \in T : y <= z
  OBVIOUS
<1>1. \E y \in T : \A z \in T : ~(<<z, y>> \in OpToRel(<, Nat))
  BY NatLessThanWellFounded, WFMin
<1>2. PICK y \in T : \A z \in T : ~(z < y)
  BY <1>1 DEF OpToRel
<1> QED BY <1>2


-----------------------------------------------------------------------------
(* The three loops of merkle.py.  A recursive function is chosen by its    *)
(* equation; each proof shows one that has it.                             *)

\* The nodes on a path.
Walked(h, leaf, path) ==
    /\ h[0] = leaf
    /\ \A k \in 1..Len(path) : h[k] = Stamp!Walk(h[k - 1], path[k])
    /\ Stamp!compute_root(leaf, path) = h[Len(path)]

LEMMA WalkSteps == ASSUME NEW leaf, NEW path, Len(path) \in Nat PROVE \E h : Walked(h, leaf, path)
<1> DEFINE n == Len(path)
           F(g, m) == [k \in 0..m |-> IF k = 0 THEN leaf ELSE Stamp!Walk(g[k - 1], path[k])]
           T == {m \in Nat : \E g : g = F(g, m)}
           h == CHOOSE g : g = F(g, n)
<1>1. 0 \in T
  <2>1. [k \in 0..0 |-> leaf] = F([k \in 0..0 |-> leaf], 0)
    OBVIOUS
  <2> HIDE DEF F
  <2> QED BY <2>1
<1>2. ASSUME NEW m \in T PROVE m + 1 \in T
  <2>1. PICK g : g = F(g, m)
    BY <1>2
  <2> DEFINE e == [k \in 0..(m + 1) |-> IF k <= m THEN g[k] ELSE Stamp!Walk(g[m], path[m + 1])]
  <2>2. e = F(e, m + 1)
    <3>1. m \in Nat
      OBVIOUS
    <3> HIDE DEF T
    <3>2. ASSUME NEW k \in 0..(m + 1), k # 0 PROVE e[k] = Stamp!Walk(e[k - 1], path[k])
      <4>1. k - 1 \in 0..m /\ k - 1 \in 0..(m + 1) /\ e[k - 1] = g[k - 1]
        BY <3>1, <3>2
      <4>2. CASE k <= m
        <5>1. k \in 0..m /\ e[k] = g[k]
          BY <3>1, <4>2
        <5>2. g[k] = Stamp!Walk(g[k - 1], path[k])
          BY <2>1, <3>2, <5>1
        <5> HIDE DEF e
        <5> QED BY <4>1, <5>1, <5>2
      <4>3. CASE ~(k <= m)
        <5>1. k = m + 1 /\ k - 1 = m
          BY <3>1, <4>3
        <5>2. e[k] = Stamp!Walk(g[m], path[m + 1])
          BY <4>3
        <5> HIDE DEF e
        <5> QED BY <4>1, <5>1, <5>2
      <4> QED BY <4>2, <4>3
    <3>3. e[0] = leaf
      BY <2>1, <3>1
    <3> QED BY <3>2, <3>3, <3>1
  <2> HIDE DEF F, e
  <2> QED BY <2>2
<1>3. n \in T
  <2> HIDE DEF T
  <2> QED BY <1>1, <1>2, Induction, T \subseteq Nat DEF T
<1>4. h = F(h, n)
  <2> HIDE DEF F
  <2>1. \E g : g = F(g, n)
    BY <1>3
  <2> QED BY <2>1, Zenon
<1>5. Stamp!compute_root(leaf, path) = h[n]
  BY Zenon DEF Stamp!compute_root
<1> HIDE DEF h
<1>6. h[0] = leaf /\ \A k \in 1..n : h[k] = Stamp!Walk(h[k - 1], path[k])
  BY <1>4
<1> QED BY <1>5, <1>6 DEF Walked

LEMMA ClimbSteps ==
    ASSUME NEW tree, NEW index, Len(tree) \in Nat \ {0}
    PROVE  \E h : /\ h[0] = [at |-> index, path |-> <<>>]
                  /\ \A k \in 1..Len(tree) - 1 : h[k] = Stamp!Climb(h[k - 1], tree[k])
                  /\ Stamp!proof(tree, index) = h[Len(tree) - 1].path
<1> DEFINE start == [at |-> index, path |-> <<>>]
           n == Len(tree) - 1
           F(g, m) == [k \in 0..m |-> IF k = 0 THEN start ELSE Stamp!Climb(g[k - 1], tree[k])]
           T == {m \in Nat : \E g : g = F(g, m)}
           h == CHOOSE g : g = F(g, n)
<1>1. 0 \in T
  <2>1. [k \in 0..0 |-> start] = F([k \in 0..0 |-> start], 0)
    OBVIOUS
  <2> HIDE DEF F
  <2> QED BY <2>1
<1>2. ASSUME NEW m \in T PROVE m + 1 \in T
  <2>1. PICK g : g = F(g, m)
    BY <1>2
  <2> DEFINE e == [k \in 0..(m + 1) |-> IF k <= m THEN g[k] ELSE Stamp!Climb(g[m], tree[m + 1])]
  <2>2. e = F(e, m + 1)
    <3>1. m \in Nat
      OBVIOUS
    <3> HIDE DEF T
    <3>2. ASSUME NEW k \in 0..(m + 1), k # 0 PROVE e[k] = Stamp!Climb(e[k - 1], tree[k])
      <4>1. k - 1 \in 0..m /\ k - 1 \in 0..(m + 1) /\ e[k - 1] = g[k - 1]
        BY <3>1, <3>2
      <4>2. CASE k <= m
        <5>1. k \in 0..m /\ e[k] = g[k]
          BY <3>1, <4>2
        <5>2. g[k] = Stamp!Climb(g[k - 1], tree[k])
          BY <2>1, <3>2, <5>1
        <5> HIDE DEF e
        <5> QED BY <4>1, <5>1, <5>2
      <4>3. CASE ~(k <= m)
        <5>1. k = m + 1 /\ k - 1 = m
          BY <3>1, <4>3
        <5>2. e[k] = Stamp!Climb(g[m], tree[m + 1])
          BY <4>3
        <5> HIDE DEF e
        <5> QED BY <4>1, <5>1, <5>2
      <4> QED BY <4>2, <4>3
    <3>3. e[0] = start
      BY <2>1, <3>1
    <3> QED BY <3>2, <3>3, <3>1
  <2> HIDE DEF F, e
  <2> QED BY <2>2
<1>3. n \in T
  <2>1. n \in Nat
    OBVIOUS
  <2> HIDE DEF T, n
  <2> QED BY <1>1, <1>2, <2>1, Induction, T \subseteq Nat DEF T
<1>4. h = F(h, n)
  <2> HIDE DEF F
  <2>1. \E g : g = F(g, n)
    BY <1>3
  <2> QED BY <2>1, Zenon
<1>5. Stamp!proof(tree, index) = h[n].path
  BY Zenon DEF Stamp!proof
<1> HIDE DEF h
<1>6. h[0] = [at |-> index, path |-> <<>>] /\ \A k \in 1..n : h[k] = Stamp!Climb(h[k - 1], tree[k])
  BY <1>4
<1> QED BY <1>5, <1>6

LEMMA LenUp ==
    ASSUME NEW level, Len(level) \in Nat \ {0}
    PROVE  /\ Len(Stamp!Up(level)) = (Len(level) + 1) \div 2
           /\ Len(Stamp!Up(level)) \in Nat \ {0}
           /\ Len(level) > 1 => Len(Stamp!Up(level)) < Len(level)
<1>1. Len(Stamp!Up(level)) = (Len(level) + 1) \div 2
  BY DEF Stamp!Up
<1> QED BY <1>1

LEMMA NotOne == \A m \in Nat \ {0} : m # 1 => m > 1
OBVIOUS

\* The levels of the tree over some leaves, up to the one of the root.
Levels(leaves, lv, top) ==
    /\ lv[0] = leaves
    /\ \A k \in 1..top : lv[k] = Stamp!Up(lv[k - 1])
    /\ \A k \in 0..top : Len(lv[k]) \in Nat \ {0}
    /\ \A k \in 0..top - 1 : Len(lv[k]) > 1
    /\ Len(lv[top]) = 1
    /\ Stamp!build_tree(leaves) = [k \in 1..top + 1 |-> lv[k - 1]]

LEMMA LevelSteps ==
    ASSUME NEW leaves, Len(leaves) \in Nat \ {0}
    PROVE  \E lv : \E top \in Nat : Levels(leaves, lv, top)
<1> DEFINE n == Len(leaves)
           F(g, m) == [k \in 0..m |-> IF k = 0 THEN leaves ELSE Stamp!Up(g[k - 1])]
           T == {m \in Nat : \E g : g = F(g, m)}
<1>1. 0 \in T
  <2>1. [k \in 0..0 |-> leaves] = F([k \in 0..0 |-> leaves], 0)
    OBVIOUS
  <2> HIDE DEF F
  <2> QED BY <2>1
<1>2. ASSUME NEW m \in T PROVE m + 1 \in T
  <2>1. PICK g : g = F(g, m)
    BY <1>2
  <2> DEFINE e == [k \in 0..(m + 1) |-> IF k <= m THEN g[k] ELSE Stamp!Up(g[m])]
  <2>2. e = F(e, m + 1)
    <3>1. m \in Nat
      OBVIOUS
    <3> HIDE DEF T
    <3>2. ASSUME NEW k \in 0..(m + 1), k # 0 PROVE e[k] = Stamp!Up(e[k - 1])
      <4>1. k - 1 \in 0..m /\ k - 1 \in 0..(m + 1) /\ e[k - 1] = g[k - 1]
        BY <3>1, <3>2
      <4>2. CASE k <= m
        <5>1. k \in 0..m /\ e[k] = g[k]
          BY <3>1, <4>2
        <5>2. g[k] = Stamp!Up(g[k - 1])
          BY <2>1, <3>2, <5>1
        <5> HIDE DEF e
        <5> QED BY <4>1, <5>1, <5>2
      <4>3. CASE ~(k <= m)
        <5>1. k = m + 1 /\ k - 1 = m
          BY <3>1, <4>3
        <5>2. e[k] = Stamp!Up(g[m])
          BY <4>3
        <5> HIDE DEF e
        <5> QED BY <4>1, <5>1, <5>2
      <4> QED BY <4>2, <4>3
    <3>3. e[0] = leaves
      BY <2>1, <3>1
    <3> QED BY <3>2, <3>3, <3>1
  <2> HIDE DEF F, e
  <2> QED BY <2>2
<1>3. n \in T
  <2> HIDE DEF T
  <2> QED BY <1>1, <1>2, Induction, T \subseteq Nat DEF T
<1> DEFINE h == CHOOSE g : g = F(g, n)
           Single(k) == Len(h[k]) = 1 /\ \A j \in 0..k - 1 : Len(h[j]) > 1
           top == CHOOSE k \in 0..n : Single(k)
<1>10. Stamp!build_tree(leaves) = [k \in 1..top + 1 |-> h[k - 1]]
  BY Zenon DEF Stamp!build_tree
<1> HIDE DEF top, Single
<1>4. h = F(h, n)
  <2> HIDE DEF F
  <2>1. \E g : g = F(g, n)
    BY <1>3
  <2> QED BY <2>1, Zenon
<1> HIDE DEF h
<1>5. h[0] = leaves /\ \A k \in 1..n : h[k] = Stamp!Up(h[k - 1])
  BY <1>4
<1>6. \A k \in 0..n : Len(h[k]) \in Nat \ {0}
  <2> DEFINE W == {k \in Nat : k <= n => Len(h[k]) \in Nat \ {0}}
  <2>1. 0 \in W
    BY <1>5
  <2>2. ASSUME NEW k \in W PROVE k + 1 \in W
    <3> SUFFICES ASSUME k + 1 <= n PROVE Len(h[k + 1]) \in Nat \ {0}
      OBVIOUS
    <3>1. Len(h[k]) \in Nat \ {0} /\ h[k + 1] = Stamp!Up(h[k])
      BY <1>5
    <3> QED BY <3>1, LenUp
  <2> HIDE DEF W
  <2>3. \A k \in Nat : k \in W
    BY <2>1, <2>2, Induction, W \subseteq Nat DEF W
  <2> QED BY <2>3 DEF W
<1> HIDE DEF T, F
\* Every level but the last is shorter than the one below.
<1>7. \E k \in 0..n : Len(h[k]) = 1
  <2> SUFFICES ASSUME \A k \in 0..n : Len(h[k]) # 1 PROVE FALSE
    OBVIOUS
  <2> DEFINE W == {k \in Nat : k <= n => Len(h[k]) + k <= n}
  <2>1. 0 \in W
    BY <1>5
  <2>2. ASSUME NEW k \in W PROVE k + 1 \in W
    <3>0. k \in Nat /\ (k <= n => Len(h[k]) + k <= n)
      OBVIOUS
    <3>a. SUFFICES ASSUME k + 1 <= n PROVE Len(h[k + 1]) + (k + 1) <= n
      <4>1. k + 1 \in Nat
        BY <3>0
      <4> QED BY <4>1
    <3>1. k \in 0..n /\ k + 1 \in 1..n /\ k + 1 \in 0..n /\ (k + 1) - 1 = k
      BY <3>0, <3>a
    <3>2. Len(h[k]) \in Nat \ {0} /\ Len(h[k]) > 1 /\ h[k + 1] = Stamp!Up(h[k])
      BY <1>5, <1>6, <3>1, NotOne
    <3>3. Len(h[k + 1]) < Len(h[k]) /\ Len(h[k + 1]) \in Nat
      BY <3>2, LenUp
    <3>4. Len(h[k]) + k <= n /\ k \in Nat
      BY <3>0, <3>a
    <3> HIDE DEF W
    <3> QED BY <3>2, <3>3, <3>4
  <2>3. n \in W
    <3> HIDE DEF W
    <3> QED BY <2>1, <2>2, Induction, W \subseteq Nat DEF W
  <2> QED BY <1>6, <2>3
<1>8. \E k \in 0..n : Single(k)
  <2> DEFINE W == {k \in 0..n : Len(h[k]) = 1}
  <2>1. PICK k \in W : \A j \in W : k <= j
    BY <1>7, Smallest, W \subseteq Nat
  <2>2. ASSUME NEW j \in 0..k - 1 PROVE Len(h[j]) > 1
    <3>1. j \in 0..n /\ j \notin W
      BY <2>1
    <3>2. Len(h[j]) \in Nat \ {0} /\ Len(h[j]) # 1
      BY <1>6, <3>1
    <3> QED BY <3>2, NotOne
  <2> QED BY <2>1, <2>2 DEF Single
<1>9. top \in 0..n /\ Single(top)
  BY <1>8, Zenon DEF top
<1>11. n \in Nat
  OBVIOUS
<1> HIDE DEF n
<1>12. /\ \A k \in 1..top : h[k] = Stamp!Up(h[k - 1])
       /\ \A k \in 0..top : Len(h[k]) \in Nat \ {0}
  <2>1. \A k \in 1..top : k \in 1..n
    BY <1>9, <1>11
  <2>2. \A k \in 0..top : k \in 0..n
    BY <1>9, <1>11
  <2> QED BY <1>5, <1>6, <2>1, <2>2
<1>13. Levels(leaves, h, top)
  BY <1>5, <1>9, <1>10, <1>12 DEF Single, Levels
<1> QED BY <1>9, <1>11, <1>13

-----------------------------------------------------------------------------
(* The proof of a leaf                                                     *)

LEMMA NodeOne == \A a, b, k, l : Stamp!node_hash(a, b) = Stamp!node_hash(k, l) => a = k /\ b = l
BY DEF Stamp!node_hash

LEMMA WalkNone == \A leaf : Stamp!compute_root(leaf, <<>>) = leaf
<1> SUFFICES ASSUME NEW leaf PROVE Stamp!compute_root(leaf, <<>>) = leaf
  OBVIOUS
<1>1. Len(<<>>) = 0 /\ 0 \in Nat
  OBVIOUS
<1> QED BY <1>1, WalkSteps DEF Walked

LEMMA WalkAppend ==
    ASSUME NEW S, NEW leaf, NEW path \in Seq(S), NEW st \in S
    PROVE  Stamp!compute_root(leaf, Append(path, st)) = Stamp!Walk(Stamp!compute_root(leaf, path), st)
<1> DEFINE n == Len(path)
           long == Append(path, st)
<1>1. n \in Nat /\ Len(long) = n + 1 /\ long[n + 1] = st /\ \A k \in 1..n : long[k] = path[k]
  OBVIOUS
<1>2. PICK h : Walked(h, leaf, path)
  <2>1. Len(path) \in Nat
    BY <1>1
  <2> HIDE DEF long, n
  <2> QED BY <2>1, WalkSteps
<1>3. /\ h[0] = leaf
      /\ \A k \in 1..n : h[k] = Stamp!Walk(h[k - 1], path[k])
      /\ Stamp!compute_root(leaf, path) = h[n]
  BY <1>2 DEF Walked
<1> HIDE DEF long
<1>4. PICK e : Walked(e, leaf, long)
  <2>1. Len(long) \in Nat
    BY <1>1
  <2> QED BY <2>1, WalkSteps
<1>5. /\ e[0] = leaf
      /\ \A k \in 1..Len(long) : e[k] = Stamp!Walk(e[k - 1], long[k])
      /\ Stamp!compute_root(leaf, long) = e[Len(long)]
  BY <1>4 DEF Walked
<1> HIDE DEF n
<1> DEFINE W == {k \in Nat : k <= n => e[k] = h[k]}
<1>6. 0 \in W
  BY <1>3, <1>5
<1>7. ASSUME NEW k \in W PROVE k + 1 \in W
  <2>1. SUFFICES ASSUME k + 1 <= n PROVE e[k + 1] = h[k + 1]
    OBVIOUS
  <2>2. k + 1 \in 1..n /\ k + 1 \in 1..Len(long) /\ (k + 1) - 1 = k
    BY <1>1, <2>1
  <2>3. e[k] = h[k] /\ long[k + 1] = path[k + 1]
    BY <1>1, <2>1, <2>2
  <2> QED BY <1>3, <1>5, <2>2, <2>3
<1>8. e[n] = h[n]
  <2> HIDE DEF W
  <2>1. n \in W
    BY <1>1, <1>6, <1>7, Induction, W \subseteq Nat DEF W
  <2> QED BY <1>1, <2>1 DEF W
<1>9. e[n + 1] = Stamp!Walk(e[n], st)
  <2>1. n + 1 \in 1..Len(long) /\ (n + 1) - 1 = n
    BY <1>1
  <2> QED BY <1>1, <1>5, <2>1
<1> QED BY <1>1, <1>3, <1>5, <1>8, <1>9 DEF long

\* One level: what the path leads to is the node above, and only one node leads to it.
Leads(q, level, a) ==
    /\ q.at \in 0..Len(level) - 1
    /\ Stamp!compute_root(a, q.path) = level[q.at + 1]
    /\ \A l, m : Stamp!compute_root(l, q.path) = Stamp!compute_root(m, q.path) => l = m

LEMMA Places ==
    ASSUME NEW n \in Nat, NEW at \in 0..n - 1
    PROVE  /\ at \div 2 \in Nat /\ at \div 2 + 1 \in 1..(n + 1) \div 2 /\ at \div 2 \in 0..(n + 1) \div 2 - 1
           /\ Stamp!Sibling(at) < n => Stamp!Sibling(at) + 1 \in 1..n /\ 2 * (at \div 2 + 1) <= n
           /\ ~(Stamp!Sibling(at) < n) => at + 1 = n /\ ~(2 * (at \div 2 + 1) <= n)
           /\ at % 2 = 0 => /\ Stamp!Sibling(at) + 1 = at + 2
                            /\ 2 * (at \div 2 + 1) = at + 2 /\ 2 * (at \div 2 + 1) - 1 = at + 1
           /\ at % 2 # 0 => /\ Stamp!Sibling(at) + 1 = at
                            /\ 2 * (at \div 2 + 1) = at + 1 /\ 2 * (at \div 2 + 1) - 1 = at
<1>1. PICK half \in Nat : at = 2 * half \/ at = 2 * half + 1
  <2>1. at \div 2 \in Nat /\ (at = 2 * (at \div 2) \/ at = 2 * (at \div 2) + 1)
    OBVIOUS
  <2> QED BY <2>1
<1>2. CASE at = 2 * half
  <2>1. at % 2 = 0 /\ at \div 2 = half
    BY <1>2
  <2> QED BY <1>2, <2>1 DEF Stamp!Sibling
<1>3. CASE at = 2 * half + 1
  <2>1. at % 2 # 0 /\ at \div 2 = half
    BY <1>3
  <2> QED BY <1>3, <2>1 DEF Stamp!Sibling
<1> QED BY <1>1, <1>2, <1>3

LEMMA ClimbOne ==
    ASSUME NEW S, NEW level, Len(level) \in Nat \ {0},
           \A i \in 1..Len(level), b \in BOOLEAN : [sibling |-> level[i], right |-> b] \in S,
           NEW q, q.path \in Seq(S), NEW a, Leads(q, level, a)
    PROVE  Stamp!Climb(q, level).path \in Seq(S) /\ Leads(Stamp!Climb(q, level), Stamp!Up(level), a)
<1>1. PICK n \in Nat : n = Len(level) /\ n # 0
  OBVIOUS
<1>2. PICK at \in 0..n - 1 : at = q.at
  BY <1>1 DEF Leads
<1>3. PICK up : up = Stamp!Climb(q, level)
  OBVIOUS
<1>4. PICK i \in 1..(n + 1) \div 2 : i = at \div 2 + 1
  BY Places
<1>5. up.at = at \div 2 /\ up.at \in 0..Len(Stamp!Up(level)) - 1 /\ up.at + 1 = i
  <2>1. up.at = at \div 2
    BY <1>2, <1>3 DEF Stamp!Climb
  <2>2. Len(Stamp!Up(level)) = (n + 1) \div 2
    BY <1>1, LenUp
  <2>3. at \div 2 \in 0..(n + 1) \div 2 - 1
    BY Places
  <2> QED BY <1>4, <2>1, <2>2, <2>3
<1>6. Stamp!Up(level)[i] = IF 2 * i <= n THEN Stamp!node_hash(level[2 * i - 1], level[2 * i]) ELSE level[n]
  BY <1>1 DEF Stamp!Up
<1>7. /\ Stamp!compute_root(a, q.path) = level[at + 1]
      /\ \A l, m : Stamp!compute_root(l, q.path) = Stamp!compute_root(m, q.path) => l = m
  BY <1>2 DEF Leads
<1>8. CASE Stamp!Sibling(at) < n
  <2>1. PICK st : st = [sibling |-> level[Stamp!Sibling(at) + 1], right |-> at % 2 = 0]
    OBVIOUS
  <2>2. up.path = Append(q.path, st)
    BY <1>1, <1>2, <1>3, <1>8, <2>1 DEF Stamp!Climb
  <2>3. st \in S
    <3>1. Stamp!Sibling(at) + 1 \in 1..n /\ (at % 2 = 0) \in BOOLEAN
      BY <1>8, Places
    <3> QED BY <1>1, <2>1, <3>1
  <2>4. \A l : Stamp!compute_root(l, up.path) = Stamp!Walk(Stamp!compute_root(l, q.path), st)
    BY <2>2, <2>3, WalkAppend
  <2>5. Stamp!compute_root(a, up.path) = Stamp!Up(level)[i]
    <3>1. 2 * i <= n /\ i = at \div 2 + 1
      BY <1>4, <1>8, Places
    <3>2. CASE at % 2 = 0
      <4>1. 2 * i = at + 2 /\ 2 * i - 1 = at + 1 /\ Stamp!Sibling(at) + 1 = at + 2
        BY <3>1, <3>2, Places
      <4>2. Stamp!Walk(level[at + 1], st) = Stamp!node_hash(level[at + 1], level[at + 2])
        BY <2>1, <3>2, <4>1 DEF Stamp!Walk
      <4> QED BY <1>6, <1>7, <2>4, <3>1, <4>1, <4>2
    <3>3. CASE at % 2 # 0
      <4>1. 2 * i = at + 1 /\ 2 * i - 1 = at /\ Stamp!Sibling(at) + 1 = at
        BY <3>1, <3>3, Places
      <4>2. Stamp!Walk(level[at + 1], st) = Stamp!node_hash(level[at], level[at + 1])
        BY <2>1, <3>3, <4>1 DEF Stamp!Walk
      <4> QED BY <1>6, <1>7, <2>4, <3>1, <4>1, <4>2
    <3> QED BY <3>2, <3>3
  <2>6. ASSUME NEW l, NEW m, Stamp!compute_root(l, up.path) = Stamp!compute_root(m, up.path) PROVE l = m
    <3>1. Stamp!Walk(Stamp!compute_root(l, q.path), st) = Stamp!Walk(Stamp!compute_root(m, q.path), st)
      BY <2>4, <2>6
    <3>2. Stamp!compute_root(l, q.path) = Stamp!compute_root(m, q.path)
      BY <3>1, NodeOne DEF Stamp!Walk
    <3> QED BY <1>7, <3>2
  <2>7. up.path \in Seq(S)
    BY <2>2, <2>3
  <2>8. Leads(up, Stamp!Up(level), a)
    BY <1>5, <2>5, <2>6 DEF Leads
  <2> QED BY <1>3, <2>7, <2>8
<1>9. CASE ~(Stamp!Sibling(at) < n)
  <2>1. up.path = q.path
    BY <1>1, <1>2, <1>3, <1>9 DEF Stamp!Climb
  <2>2. at + 1 = n /\ ~(2 * i <= n)
    BY <1>4, <1>9, Places
  <2>3. Leads(up, Stamp!Up(level), a)
    BY <1>5, <1>6, <1>7, <2>1, <2>2 DEF Leads
  <2> QED BY <1>3, <2>1, <2>3
<1> QED BY <1>8, <1>9

\* The proof of a leaf leads to the root for that leaf, and for nothing else.
LEMMA ProofExact ==
    ASSUME NEW leaves, Len(leaves) \in Nat \ {0}, NEW index \in 0..Len(leaves) - 1, NEW l
    PROVE  Stamp!verify_proof(l, Stamp!proof(Stamp!build_tree(leaves), index), Stamp!root(Stamp!build_tree(leaves))) <=> l = leaves[index + 1]
<1>0. PICK lv : \E top \in Nat : Levels(leaves, lv, top)
  BY LevelSteps
<1>1. PICK top \in Nat : Levels(leaves, lv, top)
  BY <1>0
<1>a. /\ lv[0] = leaves
      /\ \A k \in 1..top : lv[k] = Stamp!Up(lv[k - 1])
      /\ \A k \in 0..top : Len(lv[k]) \in Nat \ {0}
      /\ Len(lv[top]) = 1
      /\ Stamp!build_tree(leaves) = [k \in 1..top + 1 |-> lv[k - 1]]
  BY <1>1 DEF Levels
<1>2. PICK tree : tree = Stamp!build_tree(leaves)
  OBVIOUS
<1>3. Len(tree) = top + 1 /\ \A k \in 1..top + 1 : tree[k] = lv[k - 1]
  BY <1>a, <1>2
<1>4. Stamp!root(tree) = lv[top][1]
  BY <1>3 DEF Stamp!root
<1>5. PICK p : /\ p[0] = [at |-> index, path |-> <<>>]
               /\ \A k \in 1..Len(tree) - 1 : p[k] = Stamp!Climb(p[k - 1], tree[k])
               /\ Stamp!proof(tree, index) = p[Len(tree) - 1].path
  <2>1. Len(tree) \in Nat \ {0}
    BY <1>3
  <2> QED BY <2>1, ClimbSteps
<1>6. \A k \in 1..top : p[k] = Stamp!Climb(p[k - 1], lv[k - 1])
  BY <1>3, <1>5
<1> DEFINE V == {lv[k][i] : k \in 0..top, i \in Nat}
           S == {[sibling |-> h, right |-> b] : h \in V, b \in BOOLEAN}
           a == leaves[index + 1]
           Good(k) == p[k].path \in Seq(S) /\ Leads(p[k], lv[k], a)
           W == {k \in Nat : k <= top => Good(k)}
<1>7. \A k \in 0..top : \A i \in 1..Len(lv[k]), b \in BOOLEAN : [sibling |-> lv[k][i], right |-> b] \in S
  <2> HIDE DEF S
  <2> SUFFICES ASSUME NEW k \in 0..top, NEW i \in 1..Len(lv[k]), NEW b \in BOOLEAN
               PROVE  [sibling |-> lv[k][i], right |-> b] \in S
    OBVIOUS
  <2>1. i \in Nat
    BY <1>a
  <2>2. lv[k][i] \in V
    BY <2>1
  <2> HIDE DEF V
  <2> QED BY <2>2 DEF S
<1> HIDE DEF S
<1>8. 0 \in W
  <2>1. p[0].path = <<>> /\ p[0].at = index
    BY <1>5
  <2>2. Leads(p[0], lv[0], a)
    BY <1>a, <2>1, WalkNone DEF Leads
  <2>3. <<>> \in Seq(S)
    OBVIOUS
  <2> QED BY <2>1, <2>2, <2>3
<1>9. ASSUME NEW k \in W PROVE k + 1 \in W
  <2>1. SUFFICES ASSUME k + 1 <= top PROVE Good(k + 1)
    OBVIOUS
  <2>2. k \in 0..top /\ k + 1 \in 1..top /\ (k + 1) - 1 = k
    BY <2>1
  <2>3. p[k + 1] = Stamp!Climb(p[k], lv[k]) /\ lv[k + 1] = Stamp!Up(lv[k])
    BY <1>a, <1>6, <2>2
  <2>4. Good(k)
    BY <2>2
  <2>5. Len(lv[k]) \in Nat \ {0} /\ \A i \in 1..Len(lv[k]), b \in BOOLEAN : [sibling |-> lv[k][i], right |-> b] \in S
    BY <1>a, <1>7, <2>2
  <2> HIDE DEF a, W
  <2>6. Stamp!Climb(p[k], lv[k]).path \in Seq(S) /\ Leads(Stamp!Climb(p[k], lv[k]), Stamp!Up(lv[k]), a)
    BY <2>4, <2>5, ClimbOne
  <2> QED BY <2>3, <2>6
<1>10. Good(top)
  <2> HIDE DEF W
  <2>1. top \in W
    BY <1>8, <1>9, Induction, W \subseteq Nat DEF W
  <2> HIDE DEF Good
  <2> QED BY <2>1 DEF W
<1>11. p[top].at = 0 /\ Stamp!proof(tree, index) = p[top].path
  BY <1>a, <1>3, <1>5, <1>10 DEF Leads
<1>12. Stamp!compute_root(a, Stamp!proof(tree, index)) = Stamp!root(tree)
  BY <1>4, <1>10, <1>11 DEF Leads
<1>13. Stamp!compute_root(l, Stamp!proof(tree, index)) = Stamp!compute_root(a, Stamp!proof(tree, index)) => l = a
  BY <1>10, <1>11 DEF Leads
<1> QED BY <1>2, <1>12, <1>13 DEF Stamp!verify_proof
-----------------------------------------------------------------------------
(* The root tells the leaves                                               *)

\* The node that has k nodes below it on the left, down to a leaf.
Deep(h, k) ==
    \E s : /\ \E y : s[0] = Stamp!leaf_hash(y)
           /\ \A j \in 1..k : \E b : s[j] = Stamp!node_hash(s[j - 1], b)
           /\ s[k] = h

LEMMA DeepLeaf == \A h : Deep(h, 0) <=> \E y : h = Stamp!leaf_hash(y)
<1>1. ASSUME NEW h, NEW y, h = Stamp!leaf_hash(y) PROVE Deep(h, 0)
  <2> DEFINE s == [j \in {0} |-> h]
  <2>1. s[0] = Stamp!leaf_hash(y) /\ s[0] = h /\ 1..0 = {}
    BY <1>1
  <2> HIDE DEF s
  <2> QED BY <2>1 DEF Deep
<1> QED BY <1>1 DEF Deep

LEMMA DeepNode == \A a, b : \A k \in Nat : Deep(Stamp!node_hash(a, b), k + 1) <=> Deep(a, k)
<1> SUFFICES ASSUME NEW a, NEW b, NEW k \in Nat PROVE Deep(Stamp!node_hash(a, b), k + 1) <=> Deep(a, k)
  OBVIOUS
<1>1. ASSUME Deep(Stamp!node_hash(a, b), k + 1) PROVE Deep(a, k)
  <2>1. PICK s : /\ \E y : s[0] = Stamp!leaf_hash(y)
                 /\ \A j \in 1..k + 1 : \E c : s[j] = Stamp!node_hash(s[j - 1], c)
                 /\ s[k + 1] = Stamp!node_hash(a, b)
    BY <1>1 DEF Deep
  <2>2. PICK c : s[k + 1] = Stamp!node_hash(s[k], c)
    <3>1. k + 1 \in 1..k + 1 /\ (k + 1) - 1 = k
      OBVIOUS
    <3> QED BY <2>1, <3>1
  <2>3. s[k] = a
    BY <2>1, <2>2, NodeOne
  <2>4. \A j \in 1..k : j \in 1..k + 1
    OBVIOUS
  <2> QED BY <2>1, <2>3, <2>4 DEF Deep
<1>2. ASSUME Deep(a, k) PROVE Deep(Stamp!node_hash(a, b), k + 1)
  <2>1. PICK s : /\ \E y : s[0] = Stamp!leaf_hash(y)
                 /\ \A j \in 1..k : \E c : s[j] = Stamp!node_hash(s[j - 1], c)
                 /\ s[k] = a
    BY <1>2 DEF Deep
  <2>2. PICK e : e = [j \in 0..k + 1 |-> IF j <= k THEN s[j] ELSE Stamp!node_hash(a, b)]
    OBVIOUS
  <2>3. e[0] = s[0] /\ e[k + 1] = Stamp!node_hash(a, b) /\ e[k] = a /\ \A j \in 0..k : e[j] = s[j]
    BY <2>1, <2>2
  <2>4. ASSUME NEW j \in 1..k + 1 PROVE \E c : e[j] = Stamp!node_hash(e[j - 1], c)
    <3>1. CASE j \in 1..k
      <4>1. e[j] = s[j] /\ e[j - 1] = s[j - 1]
        BY <2>3, <3>1
      <4> QED BY <2>1, <3>1, <4>1
    <3>2. CASE j = k + 1
      <4>1. j - 1 = k
        BY <3>2
      <4> QED BY <2>3, <3>2, <4>1
    <3> QED BY <3>1, <3>2
  <2> QED BY <2>1, <2>3, <2>4 DEF Deep
<1> QED BY <1>1, <1>2

LEMMA DeepUp == \A h : \A k \in Nat : Deep(h, k + 1) => \E a, b : h = Stamp!node_hash(a, b) /\ Deep(a, k)
<1> SUFFICES ASSUME NEW h, NEW k \in Nat, Deep(h, k + 1) PROVE \E a, b : h = Stamp!node_hash(a, b) /\ Deep(a, k)
  OBVIOUS
<1>1. PICK s : s[k + 1] = h /\ \A j \in 1..k + 1 : \E b : s[j] = Stamp!node_hash(s[j - 1], b)
  BY DEF Deep
<1>2. k + 1 \in 1..k + 1 /\ (k + 1) - 1 = k
  OBVIOUS
<1>3. PICK b : h = Stamp!node_hash(s[k], b)
  BY <1>1, <1>2
<1>4. Deep(s[k], k)
  BY <1>3, DeepNode
<1> QED BY <1>3, <1>4

LEMMA LeafNoNode == \A y, a, b : Stamp!leaf_hash(y) # Stamp!node_hash(a, b)
BY DEF Stamp!leaf_hash, Stamp!node_hash, Stamp!LEAF_PREFIX, Stamp!NODE_PREFIX

\* A node has one depth: a leaf is no node, whatever its payload.
LEMMA DeepOnce == \A k, j \in Nat : \A h : Deep(h, k) /\ Deep(h, j) => k = j
<1> DEFINE W == {k \in Nat : \A j \in Nat : \A h : Deep(h, k) /\ Deep(h, j) => k = j}
<1>1. 0 \in W
  <2> SUFFICES ASSUME NEW j \in Nat, NEW h, Deep(h, 0), Deep(h, j), j # 0 PROVE FALSE
    OBVIOUS
  <2>1. j - 1 \in Nat /\ j = (j - 1) + 1
    OBVIOUS
  <2>2. \E a, b : h = Stamp!node_hash(a, b)
    BY <2>1, DeepUp
  <2> QED BY <2>2, DeepLeaf, LeafNoNode
<1>2. ASSUME NEW k \in W PROVE k + 1 \in W
  <2>0. k \in Nat /\ \A j \in Nat : \A h : Deep(h, k) /\ Deep(h, j) => k = j
    OBVIOUS
  <2>1. ASSUME NEW j \in Nat, NEW h, Deep(h, k + 1), Deep(h, j) PROVE k + 1 = j
    <3>1. PICK a, b : h = Stamp!node_hash(a, b) /\ Deep(a, k)
      BY <2>0, <2>1, DeepUp
    <3>2. j # 0
      BY <2>1, <3>1, DeepLeaf, LeafNoNode
    <3>3. j - 1 \in Nat /\ j = (j - 1) + 1
      BY <3>2
    <3>4. Deep(a, j - 1)
      BY <2>1, <3>1, <3>3, DeepNode
    <3>5. k = j - 1
      BY <2>0, <3>1, <3>3, <3>4
    <3> QED BY <3>3, <3>5
  <2>2. k + 1 \in Nat
    BY <2>0
  <2> QED BY <2>1, <2>2
<1>3. \A k \in Nat : k \in W
  <2> HIDE DEF W
  <2> QED BY <1>1, <1>2, Induction, W \subseteq Nat DEF W
<1> QED BY <1>3

\* Level k: every node but the last stands over a full subtree, the last over no more.
Shape(level, k) ==
    /\ Len(level) \in Nat \ {0}
    /\ level = [i \in 1..Len(level) |-> level[i]]
    /\ \A i \in 1..Len(level) - 1 : Deep(level[i], k)
    /\ \E j \in 0..k : Deep(level[Len(level)], j)

LEMMA Halves ==
    ASSUME NEW n \in Nat \ {0}
    PROVE  \E m \in Nat \ {0} : /\ (n + 1) \div 2 = m
                                /\ n = 2 * m \/ n = 2 * m - 1
<1>1. (n + 1) \div 2 \in Nat \ {0} /\ (n = 2 * ((n + 1) \div 2) \/ n = 2 * ((n + 1) \div 2) - 1)
  OBVIOUS
<1> QED BY <1>1

\* The level of m nodes over one of n.
Over(up, level, n, m) ==
    /\ Len(up) = m
    /\ up = [i \in 1..m |-> up[i]]
    /\ \A i \in 1..m : 2 * i <= n => up[i] = Stamp!node_hash(level[2 * i - 1], level[2 * i])
    /\ \A i \in 1..m : ~(2 * i <= n) => up[i] = level[n]

LEMMA UpIs ==
    ASSUME NEW level, Len(level) \in Nat \ {0}
    PROVE  \E m \in Nat \ {0} : /\ Over(Stamp!Up(level), level, Len(level), m)
                                /\ Len(level) = 2 * m \/ Len(level) = 2 * m - 1
<1>1. PICK n \in Nat \ {0} : n = Len(level)
  OBVIOUS
<1>2. PICK m \in Nat \ {0} : (n + 1) \div 2 = m /\ (n = 2 * m \/ n = 2 * m - 1)
  BY Halves
<1>3. Stamp!Up(level) = [i \in 1..m |-> IF 2 * i <= n THEN Stamp!node_hash(level[2 * i - 1], level[2 * i]) ELSE level[n]]
  BY <1>1, <1>2 DEF Stamp!Up
<1>4. Over(Stamp!Up(level), level, n, m)
  BY <1>3 DEF Over
<1> QED BY <1>1, <1>2, <1>4

LEMMA ShapeUp ==
    ASSUME NEW level, NEW k \in Nat, Shape(level, k)
    PROVE  Shape(Stamp!Up(level), k + 1)
<1>1. PICK n \in Nat \ {0} : n = Len(level)
  BY DEF Shape
<1>2. PICK up : up = Stamp!Up(level)
  OBVIOUS
<1>3. PICK m \in Nat \ {0} : Over(up, level, n, m) /\ (n = 2 * m \/ n = 2 * m - 1)
  BY <1>1, <1>2, UpIs
<1>4. \A i \in 1..n - 1 : Deep(level[i], k)
  BY <1>1 DEF Shape
<1>5. ASSUME NEW i \in 1..m, 2 * i <= n PROVE Deep(up[i], k + 1)
  <2>1. 2 * i - 1 \in 1..n - 1
    BY <1>5
  <2>2. up[i] = Stamp!node_hash(level[2 * i - 1], level[2 * i])
    BY <1>3, <1>5 DEF Over
  <2> QED BY <1>4, <2>1, <2>2, DeepNode
<1>6. \A i \in 1..m - 1 : i \in 1..m /\ 2 * i <= n
  BY <1>3
<1>7. \E j \in 0..k + 1 : Deep(up[m], j)
  <2>1. CASE n = 2 * m
    <3>1. m \in 1..m /\ 2 * m <= n /\ k + 1 \in 0..k + 1
      BY <2>1
    <3> QED BY <1>5, <3>1
  <2>2. CASE n = 2 * m - 1
    <3>1. m \in 1..m /\ ~(2 * m <= n)
      BY <2>2
    <3>2. up[m] = level[n]
      BY <1>3, <3>1 DEF Over
    <3>3. PICK j \in 0..k : Deep(level[n], j)
      BY <1>1 DEF Shape
    <3>4. j \in 0..k + 1
      OBVIOUS
    <3> QED BY <3>2, <3>3, <3>4
  <2> QED BY <1>3, <2>1, <2>2
<1>8. Len(up) = m /\ up = [i \in 1..m |-> up[i]]
  BY <1>3 DEF Over
<1> QED BY <1>2, <1>5, <1>6, <1>7, <1>8 DEF Shape

\* A pair that stands for an odd one out would be deeper than it.
LEMMA UpLength ==
    ASSUME NEW k \in Nat, NEW l, Shape(l, k), NEW r, Shape(r, k), NEW up, NEW m \in Nat \ {0},
           Over(up, l, 2 * m, m), Len(l) = 2 * m, Over(up, r, 2 * m - 1, m), Len(r) = 2 * m - 1
    PROVE  FALSE
<1>1. PICK n \in Nat \ {0} : n = Len(l) /\ n = 2 * m /\ 2 * m <= n /\ n - 1 \in 1..n - 1
  OBVIOUS
<1>2. PICK o \in Nat \ {0} : o = Len(r) /\ o = 2 * m - 1 /\ ~(2 * m <= o) /\ o = n - 1
  BY <1>1
<1>3. up[m] = Stamp!node_hash(l[o], l[n])
  <2>1. m \in 1..m
    OBVIOUS
  <2> QED BY <1>1, <1>2, <2>1 DEF Over
<1>4. up[m] = r[o]
  <2>1. m \in 1..m
    OBVIOUS
  <2> QED BY <1>2, <2>1 DEF Over
<1>5. Deep(l[o], k)
  BY <1>1, <1>2 DEF Shape
<1>6. PICK j \in 0..k : Deep(r[o], j)
  BY <1>2 DEF Shape
<1>7. Deep(r[o], k + 1)
  <2>1. Deep(Stamp!node_hash(l[o], l[n]), k + 1)
    BY <1>5, DeepNode
  <2>2. Stamp!node_hash(l[o], l[n]) = r[o]
    BY <1>3, <1>4, Zenon
  <2> QED BY <2>1, <2>2, Zenon
<1>8. k + 1 = j
  <2>1. j \in Nat /\ k + 1 \in Nat
    OBVIOUS
  <2> QED BY <1>6, <1>7, <2>1, DeepOnce
<1> QED BY <1>8

LEMMA UpOnce ==
    ASSUME NEW k \in Nat, NEW l, Shape(l, k), NEW r, Shape(r, k), Stamp!Up(l) = Stamp!Up(r)
    PROVE  l = r
<1>1. PICK n \in Nat \ {0} : n = Len(l)
  BY DEF Shape
<1>2. PICK o \in Nat \ {0} : o = Len(r)
  BY DEF Shape
<1>3. PICK up : up = Stamp!Up(l) /\ up = Stamp!Up(r)
  OBVIOUS
<1>4. PICK m \in Nat \ {0} : Over(up, l, n, m) /\ (n = 2 * m \/ n = 2 * m - 1)
  BY <1>1, <1>3, UpIs
<1>5. PICK q \in Nat \ {0} : Over(up, r, o, q) /\ (o = 2 * q \/ o = 2 * q - 1)
  BY <1>2, <1>3, UpIs
<1>6. q = m
  BY <1>4, <1>5 DEF Over
<1>7. n = o
  <2>1. ~(n = 2 * m /\ o = 2 * m - 1)
    BY <1>1, <1>2, <1>4, <1>5, <1>6, UpLength
  <2>2. ~(o = 2 * m /\ n = 2 * m - 1)
    BY <1>1, <1>2, <1>4, <1>5, <1>6, UpLength
  <2> QED BY <1>4, <1>5, <1>6, <2>1, <2>2
<1>8. Over(up, r, n, m)
  BY <1>5, <1>6, <1>7
<1>9. ASSUME NEW i \in 1..n PROVE l[i] = r[i]
  <2>1. PICK p \in 1..m : 2 * p - 1 = i \/ 2 * p = i
    <3>1. (i + 1) \div 2 \in 1..m /\ (2 * ((i + 1) \div 2) - 1 = i \/ 2 * ((i + 1) \div 2) = i)
      BY <1>4
    <3> QED BY <3>1
  <2>2. CASE 2 * p <= n
    <3>1. Stamp!node_hash(l[2 * p - 1], l[2 * p]) = Stamp!node_hash(r[2 * p - 1], r[2 * p])
      BY <1>4, <1>8, <2>2 DEF Over
    <3> QED BY <2>1, <3>1, NodeOne
  <2>3. CASE ~(2 * p <= n)
    <3>1. i = n
      BY <2>1, <2>3
    <3>2. l[n] = r[n]
      BY <1>4, <1>8, <2>3 DEF Over
    <3> QED BY <3>1, <3>2
  <2> QED BY <2>2, <2>3
<1>10. l = [i \in 1..n |-> l[i]] /\ r = [i \in 1..n |-> r[i]]
  BY <1>1, <1>2, <1>7 DEF Shape
<1> QED BY <1>9, <1>10

LEMMA LevelShapes ==
    ASSUME NEW leaves, Shape(leaves, 0), NEW lv, NEW top \in Nat, Levels(leaves, lv, top)
    PROVE  \A k \in 0..top : Shape(lv[k], k)
<1> DEFINE W == {k \in Nat : k <= top => Shape(lv[k], k)}
<1>1. 0 \in W
  BY DEF Levels
<1>2. ASSUME NEW k \in W PROVE k + 1 \in W
  <2>1. k \in Nat /\ k + 1 \in Nat /\ (k <= top => Shape(lv[k], k))
    OBVIOUS
  <2>2. ASSUME k + 1 <= top PROVE Shape(lv[k + 1], k + 1)
    <3>1. k <= top /\ k + 1 \in 1..top /\ (k + 1) - 1 = k
      BY <2>1, <2>2
    <3>2. lv[k + 1] = Stamp!Up(lv[k])
      BY <3>1 DEF Levels
    <3> HIDE DEF W
    <3> QED BY <2>1, <3>1, <3>2, ShapeUp
  <2> QED BY <2>1, <2>2
<1>3. \A k \in Nat : k \in W
  <2> HIDE DEF W
  <2> QED BY <1>1, <1>2, Induction, W \subseteq Nat DEF W
<1> QED BY <1>3

\* The root is as deep as the tree is high.
LEMMA RootDeep ==
    ASSUME NEW leaves, Shape(leaves, 0), NEW lv, NEW top \in Nat, Levels(leaves, lv, top)
    PROVE  /\ Stamp!root(Stamp!build_tree(leaves)) = lv[top][1]
           /\ lv[top] = [i \in 1..1 |-> lv[top][1]]
           /\ Deep(lv[top][1], top)
<1>1. \A k \in 0..top : Shape(lv[k], k)
  BY LevelShapes
<1>2. /\ \A k \in 1..top : lv[k] = Stamp!Up(lv[k - 1])
      /\ \A k \in 0..top - 1 : Len(lv[k]) > 1
      /\ Len(lv[top]) = 1
      /\ Stamp!build_tree(leaves) = [k \in 1..top + 1 |-> lv[k - 1]]
  BY DEF Levels
<1>3. Stamp!root(Stamp!build_tree(leaves)) = lv[top][1]
  BY <1>2 DEF Stamp!root
<1>4. Shape(lv[top], top)
  BY <1>1
<1>5. lv[top] = [i \in 1..1 |-> lv[top][1]]
  BY <1>2, <1>4 DEF Shape
<1>6. CASE top = 0
  <2>1. PICK j \in 0..top : Deep(lv[top][1], j)
    BY <1>2, <1>4 DEF Shape
  <2> QED BY <1>3, <1>5, <1>6, <2>1
<1>7. CASE top # 0
  <2>1. PICK k \in 0..top - 1 : top = k + 1 /\ k \in Nat /\ k \in 0..top
    BY <1>7
  <2>2. PICK n \in Nat \ {0} : n = Len(lv[k])
    BY <1>1, <2>1 DEF Shape
  <2>3. n > 1
    BY <1>2, <2>2
  <2>4. lv[top] = Stamp!Up(lv[k])
    <3>1. top \in 1..top /\ top - 1 = k
      BY <2>1
    <3> QED BY <1>2, <3>1
  <2>5. PICK m \in Nat \ {0} : Over(lv[top], lv[k], n, m) /\ (n = 2 * m \/ n = 2 * m - 1)
    BY <2>2, <2>4, UpIs
  <2>6. m = 1 /\ n = 2 /\ 1 \in 1..n - 1
    BY <1>2, <2>3, <2>5 DEF Over
  <2>7. lv[top][1] = Stamp!node_hash(lv[k][1], lv[k][2])
    BY <2>5, <2>6 DEF Over
  <2>8. Deep(lv[k][1], k)
    BY <1>1, <2>1, <2>2, <2>6 DEF Shape
  <2>9. Deep(lv[top][1], k + 1)
    BY <2>1, <2>7, <2>8, DeepNode
  <2> QED BY <1>3, <1>5, <2>1, <2>9
<1> QED BY <1>3, <1>5, <1>6, <1>7

\* Two lists of leaves with one root are one list, whatever their lengths.
LEMMA RootOnce ==
    ASSUME NEW l, Shape(l, 0), NEW r, Shape(r, 0), Stamp!root(Stamp!build_tree(l)) = Stamp!root(Stamp!build_tree(r))
    PROVE  l = r
<1>1. Len(l) \in Nat \ {0} /\ Len(r) \in Nat \ {0}
  BY DEF Shape
<1>2. PICK lv : \E top \in Nat : Levels(l, lv, top)
  BY <1>1, LevelSteps
<1>3. PICK top \in Nat : Levels(l, lv, top)
  BY <1>2
<1>4. PICK rv : \E t \in Nat : Levels(r, rv, t)
  BY <1>1, LevelSteps
<1>5. PICK t \in Nat : Levels(r, rv, t)
  BY <1>4
<1>6. /\ Stamp!root(Stamp!build_tree(l)) = lv[top][1]
      /\ lv[top] = [i \in 1..1 |-> lv[top][1]]
      /\ Deep(lv[top][1], top)
  BY <1>3, RootDeep
<1>7. /\ Stamp!root(Stamp!build_tree(r)) = rv[t][1]
      /\ rv[t] = [i \in 1..1 |-> rv[t][1]]
      /\ Deep(rv[t][1], t)
  BY <1>5, RootDeep
<1>8. top = t
  BY <1>6, <1>7, DeepOnce
<1>9. lv[top] = rv[top]
  <2>1. lv[top][1] = rv[top][1]
    BY <1>6, <1>7, <1>8
  <2> QED BY <1>6, <1>7, <1>8, <2>1, Zenon
<1>10. \A k \in 0..top : Shape(lv[k], k) /\ Shape(rv[k], k)
  BY <1>3, <1>5, <1>8, LevelShapes
<1>11. /\ \A k \in 1..top : lv[k] = Stamp!Up(lv[k - 1]) /\ rv[k] = Stamp!Up(rv[k - 1])
       /\ lv[0] = l /\ rv[0] = r
  BY <1>3, <1>5, <1>8 DEF Levels
<1> DEFINE W == {k \in Nat : k <= top => lv[top - k] = rv[top - k]}
<1>12. 0 \in W
  BY <1>9
<1>13. ASSUME NEW k \in W PROVE k + 1 \in W
  <2>1. k \in Nat /\ k + 1 \in Nat /\ (k <= top => lv[top - k] = rv[top - k])
    OBVIOUS
  <2>2. ASSUME k + 1 <= top PROVE lv[top - (k + 1)] = rv[top - (k + 1)]
    <3>1. PICK j \in Nat : j = top - (k + 1)
      BY <2>1, <2>2
    <3>2. j + 1 \in 1..top /\ (j + 1) - 1 = j /\ j \in 0..top /\ top - k = j + 1 /\ k <= top
      BY <2>1, <2>2, <3>1
    <3>3. Stamp!Up(lv[j]) = Stamp!Up(rv[j])
      BY <1>11, <2>1, <3>2
    <3> HIDE DEF W
    <3> QED BY <1>10, <3>1, <3>2, <3>3, UpOnce
  <2> QED BY <2>1, <2>2
<1>14. top \in W
  <2> HIDE DEF W
  <2> QED BY <1>12, <1>13, Induction, W \subseteq Nat DEF W
<1>15. lv[0] = rv[0]
  BY <1>14
<1> QED BY <1>11, <1>15
-----------------------------------------------------------------------------
(* What holds of the stamps                                                *)

\* Values of the digests, of what an authority signs, and of its tokens.
Digests == {Stamp!Digest(y) : y \in Nat}
Leafs == Digests \cup {Stamp!anchor_leaf_payload}
RootOf(h) == Stamp!root(Stamp!build_tree(Stamp!build_leaves(h)))
Imprints == Digests \cup {<<>>} \cup {RootOf(h) : h \in Seq(Leafs)}
Tokens == [imprint : Imprints, sound : BOOLEAN, anchor : Anchors \cup {CHOOSE a \in Anchors : TRUE}, before : Nat]

\* The path to leaf i of some.
PathOf(h, i) == [top |-> RootOf(h), proof |-> Stamp!proof(Stamp!build_tree(Stamp!build_leaves(h)), i - 1)]
Paths == {{}} \cup {{PathOf(h, i)} : h \in Seq(Leafs), i \in Nat}

\* A trailer that can only verify for a text its token is later than, whatever its
\* field of the digest says.
Earlier(t) ==
    /\ t.path = {} => \A y \in Nat : t.token.imprint = Stamp!Digest(y) => y <= t.token.before
    /\ \A p \in t.path, y \in Nat : Stamp!verify_proof(Stamp!leaf_hash(Stamp!Digest(y)), p.proof, p.top) => y <= t.token.before
Stamps == {t \in [hashed : Digests, token : Tokens, path : Paths] : Earlier(t)}
Stored == [text : Nat, trailers : Seq(Stamps), torn : {FALSE}]

CallType == [at : {"off", "digest", "request", "copy", "replace"}, kind : Kinds \cup {"file"}, list : Seq(Files),
             hashed : Seq(Digests), token : Tokens, next : Nat]

\* Types; no file is torn, and no text is from the future.
StampTypes ==
    /\ file \in [Files -> Stored] /\ tmp \in [Files -> SUBSET Stored]
    /\ written \in Nat
    /\ call \in [Calls -> CallType]
    /\ \A f \in Files : file[f].text <= written /\ \A t \in tmp[f] : t.text <= written

\* A call as far as it is.
Working(k) ==
    /\ Len(k.list) \in Nat \ {0} /\ (k.kind = "file" => Len(k.list) = 1)
    /\ \A i, j \in DOMAIN k.list : i # j => k.list[i] # k.list[j]
    /\ k.next \in 1..Len(k.list)
    /\ k.at \in {"digest", "request"} => k.next = 1
    /\ IF k.at = "digest" THEN Len(k.hashed) < Len(k.list) ELSE Len(k.hashed) = Len(k.list)
\* What it read was written by now, and before the authority signed.
Read(k, now) ==
    /\ k.at \in {"digest", "request"} => \A i \in DOMAIN k.hashed : \E y \in Nat : y <= now /\ k.hashed[i] = Stamp!Digest(y)
    /\ k.at \in {"copy", "replace"} =>
        /\ \A i \in DOMAIN k.hashed : \E y \in Nat : y <= k.token.before /\ k.hashed[i] = Stamp!Digest(y)
        /\ k.kind = "file" => k.token.imprint = k.hashed[1]
CallsInv ==
    \A c \in Calls : IF call[c].at = "off" THEN call[c].list = <<>> ELSE Working(call[c]) /\ Read(call[c], written)

\* A file that no two calls have in hand.
Alone(f) ==
    /\ \A c, d \in Calls : f \in Stamp!Hand(c) /\ f \in Stamp!Hand(d) => c = d
    /\ \A c \in Calls : \A i \in DOMAIN call[c].list :
        call[c].list[i] = f /\ i >= call[c].next => file[f].trailers = <<>>
    /\ Len(file[f].trailers) <= 1
    /\ \A t \in tmp[f] : Len(t.trailers) <= 1
AloneInv == \A f \in Files \ twice : Alone(f)

StampInv == StampTypes /\ CallsInv /\ AloneInv

-----------------------------------------------------------------------------
LEMMA DigestOne == \A y, z : Stamp!Digest(y) = Stamp!Digest(z) => y = z
BY DEF Stamp!Digest
LEMMA LeafOne == \A y, z : Stamp!leaf_hash(y) = Stamp!leaf_hash(z) => y = z
BY DEF Stamp!leaf_hash

LEMMA BuildLeaves ==
    ASSUME NEW S, NEW h \in Seq(S), h # <<>>
    PROVE  /\ Len(Stamp!build_leaves(h)) = Len(h) /\ Len(h) \in Nat \ {0}
           /\ \A i \in 1..Len(h) : Stamp!build_leaves(h)[i] = Stamp!leaf_hash(h[i])
           /\ Shape(Stamp!build_leaves(h), 0)
<1>1. PICK n \in Nat \ {0} : n = Len(h) /\ DOMAIN h = 1..n
  OBVIOUS
<1>2. PICK l : l = Stamp!build_leaves(h)
  OBVIOUS
<1>3. l = [i \in 1..n |-> Stamp!leaf_hash(h[i])]
  BY <1>1, <1>2 DEF Stamp!build_leaves
<1>4. Len(l) = n /\ l = [i \in 1..n |-> l[i]] /\ \A i \in 1..n : l[i] = Stamp!leaf_hash(h[i])
  BY <1>3
<1>5. \A i \in 1..n : Deep(l[i], 0)
  BY <1>4, DeepLeaf
<1>6. n \in 1..n /\ 0 \in 0..0 /\ \A i \in 1..n - 1 : i \in 1..n
  OBVIOUS
<1>7. Shape(l, 0)
  BY <1>4, <1>5, <1>6 DEF Shape
<1> QED BY <1>1, <1>2, <1>4, <1>7

\* The leaves of a call: the digests of its files, and perhaps the end of the audit log.
LEMMA PayloadsMade ==
    ASSUME NEW c, call[c].hashed \in Seq(Digests), call[c].hashed # <<>>
    PROVE  /\ Stamp!Payloads(c) \in Seq(Leafs) /\ Stamp!Payloads(c) # <<>>
           /\ \A i \in DOMAIN call[c].hashed : i \in 1..Len(Stamp!Payloads(c)) /\ Stamp!Payloads(c)[i] = call[c].hashed[i]
<1> DEFINE h == call[c].hashed
           e == IF call[c].kind = "anchored" THEN <<Stamp!anchor_leaf_payload>> ELSE <<>>
<1>1. Stamp!Payloads(c) = h \o e
  BY DEF Stamp!Payloads
<1>2. h \in Seq(Leafs)
  BY DEF Leafs
<1>3. e \in Seq(Leafs) /\ Len(e) \in Nat
  <2>1. Stamp!anchor_leaf_payload \in Leafs
    BY DEF Leafs
  <2>2. <<Stamp!anchor_leaf_payload>> \in Seq(Leafs) /\ <<>> \in Seq(Leafs)
    BY <2>1
  <2>3. CASE call[c].kind = "anchored"
    BY <2>2, <2>3
  <2>4. CASE call[c].kind # "anchored"
    BY <2>2, <2>4
  <2> QED BY <2>3, <2>4
<1>4. Len(h) \in Nat \ {0} /\ DOMAIN h = 1..Len(h)
  OBVIOUS
<1> HIDE DEF e, h
<1>5. h \o e \in Seq(Leafs) /\ Len(h \o e) = Len(h) + Len(e) /\ \A i \in 1..Len(h) : (h \o e)[i] = h[i]
  BY <1>2, <1>3
<1>6. \A i \in 1..Len(h) : i \in 1..Len(h) + Len(e)
  BY <1>3, <1>4
<1>7. h \o e # <<>>
  BY <1>3, <1>4, <1>5
<1> QED BY <1>1, <1>4, <1>5, <1>6, <1>7 DEF h

\* The path of a leaf leads to the root for that leaf only.
LEMMA PathExact ==
    ASSUME NEW h \in Seq(Leafs), h # <<>>, NEW i \in 1..Len(h), NEW l
    PROVE  Stamp!verify_proof(Stamp!leaf_hash(l), PathOf(h, i).proof, PathOf(h, i).top) <=> l = h[i]
<1>1. PICK leaves : leaves = Stamp!build_leaves(h)
  OBVIOUS
<1>2. Len(leaves) \in Nat \ {0} /\ Len(leaves) = Len(h) /\ leaves[i] = Stamp!leaf_hash(h[i])
  BY <1>1, BuildLeaves
<1>3. PICK index \in 0..Len(leaves) - 1 : index = i - 1 /\ index + 1 = i
  BY <1>2
<1>4. /\ PathOf(h, i).proof = Stamp!proof(Stamp!build_tree(leaves), index)
      /\ PathOf(h, i).top = Stamp!root(Stamp!build_tree(leaves))
  BY <1>1, <1>3 DEF PathOf, RootOf
<1>5. Stamp!verify_proof(Stamp!leaf_hash(l), Stamp!proof(Stamp!build_tree(leaves), index), Stamp!root(Stamp!build_tree(leaves)))
        <=> Stamp!leaf_hash(l) = leaves[index + 1]
  BY <1>2, ProofExact
<1> QED BY <1>2, <1>3, <1>4, <1>5, LeafOne

\* The trailer a call writes, of one file and of some.
LEMMA TrailerMade ==
    ASSUME StampTypes, NEW c \in Calls, Working(call[c]), Read(call[c], written), call[c].at = "copy"
    PROVE  Stamp!Trailer(c) \in Stamps
<1> DEFINE k == call[c]
           i == k.next
<1>1. k \in CallType
  BY DEF StampTypes, CallType
<1>2. i \in DOMAIN k.hashed /\ i <= Len(k.hashed) /\ k.hashed \in Seq(Digests) /\ k.hashed # <<>>
  BY <1>1 DEF Working, CallType
<1>3. k.hashed[i] \in Digests
  BY <1>1, <1>2 DEF CallType
<1>4. \A j \in DOMAIN k.hashed : \E y \in Nat : y <= k.token.before /\ k.hashed[j] = Stamp!Digest(y)
  BY DEF Read
<1>5. CASE k.kind = "file"
  <2>1. Stamp!Trailer(c) = [hashed |-> k.hashed[i], token |-> k.token, path |-> {}]
    BY <1>5 DEF Stamp!Trailer
  <2>2. k.token.imprint = k.hashed[1] /\ Len(k.hashed) = 1
    BY <1>1, <1>2, <1>5 DEF Read, Working
  <2>3. PICK z \in Nat : z <= k.token.before /\ k.hashed[1] = Stamp!Digest(z)
    BY <1>1, <1>2, <1>4, <2>2
  <2>4. Stamp!Trailer(c) \in [hashed : Digests, token : Tokens, path : Paths]
    BY <1>1, <1>3, <2>1 DEF Paths, CallType
  <2>5. \A y \in Nat : k.token.imprint = Stamp!Digest(y) => y <= k.token.before
    BY <2>2, <2>3, DigestOne
  <2>6. Earlier(Stamp!Trailer(c))
    BY <2>1, <2>5 DEF Earlier
  <2> QED BY <2>4, <2>6 DEF Stamps
<1>6. CASE k.kind # "file"
  <2>1. PICK h \in Seq(Leafs) : h = Stamp!Payloads(c) /\ h # <<>> /\ i \in 1..Len(h) /\ h[i] = k.hashed[i]
    BY <1>2, PayloadsMade
  <2>2. Stamp!Trailer(c) = [hashed |-> k.hashed[i], token |-> k.token, path |-> {PathOf(h, i)}]
    BY <1>6, <2>1 DEF Stamp!Trailer, Stamp!Tree, PathOf, RootOf
  <2>3. {PathOf(h, i)} \in Paths
    <3>1. i \in Nat
      BY <2>1
    <3> QED BY <3>1 DEF Paths
  <2>4. Stamp!Trailer(c) \in [hashed : Digests, token : Tokens, path : Paths]
    BY <1>1, <1>3, <2>2, <2>3 DEF CallType
  <2>5. ASSUME NEW y \in Nat, Stamp!verify_proof(Stamp!leaf_hash(Stamp!Digest(y)), PathOf(h, i).proof, PathOf(h, i).top)
         PROVE  y <= k.token.before
    <3>1. Stamp!Digest(y) = h[i]
      <4> HIDE DEF i
      <4> QED BY <2>1, <2>5, PathExact
    <3>2. PICK z \in Nat : z <= k.token.before /\ k.hashed[i] = Stamp!Digest(z)
      BY <1>2, <1>4
    <3> QED BY <2>1, <3>1, <3>2, DigestOne
  <2>6. Earlier(Stamp!Trailer(c))
    BY <2>2, <2>5 DEF Earlier
  <2> QED BY <2>4, <2>6 DEF Stamps
<1> QED BY <1>5, <1>6


LEMMA TokenlessTyped == Stamp!Tokenless \in Tokens
BY DEF Stamp!Tokenless, Tokens, Imprints

LEMMA IdleTyped == Stamp!Idle \in CallType /\ Stamp!Idle.at = "off" /\ Stamp!Idle.list = <<>> /\ Stamp!Idle.next = 1 /\ Stamp!Idle.hashed = <<>>
<1> QED BY TokenlessTyped DEF Stamp!Idle, CallType

LEMMA PlainTyped == \A y \in Nat : Stamp!Plain(y) \in Stored /\ Stamp!Plain(y).trailers = <<>> /\ Stamp!Plain(y).text = y
BY DEF Stamp!Plain, Stored

LEMMA StampInit == Stamp!Init => StampInv
<1> SUFFICES ASSUME Stamp!Init PROVE StampInv
  OBVIOUS
<1>1. StampTypes
  <2>1. file \in [Files -> Stored] /\ \A f \in Files : file[f].text = 1
    BY PlainTyped DEF Stamp!Init
  <2>2. call \in [Calls -> CallType]
    BY IdleTyped DEF Stamp!Init
  <2> QED BY <2>1, <2>2 DEF Stamp!Init, StampTypes, CallType
<1>2. CallsInv
  BY IdleTyped DEF Stamp!Init, CallsInv
<1>3. AloneInv
  <2> SUFFICES ASSUME NEW f \in Files PROVE Alone(f)
    BY DEF AloneInv
  <2>1. file[f].trailers = <<>> /\ tmp[f] = {}
    BY PlainTyped DEF Stamp!Init
  <2>2. \A c \in Calls : call[c].list = <<>> /\ Stamp!Hand(c) = {}
    BY IdleTyped DEF Stamp!Init, Stamp!Hand
  <2> QED BY <2>1, <2>2 DEF Alone
<1> QED BY <1>1, <1>2, <1>3 DEF StampInv

-----------------------------------------------------------------------------
\* A call that ends, or that stays as it is, keeps what holds of the files it leaves.
LEMMA ListTyped == \A list \in Stamp!Batches : list \in Seq(Files) /\ Len(list) \in Nat \ {0}
<1> SUFFICES ASSUME NEW n \in 1..MaxBatch, NEW list \in [1..n -> Files]
             PROVE  list \in Seq(Files) /\ Len(list) \in Nat \ {0}
  BY Zenon DEF Stamp!Batches
<1>0. n \in Nat \ {0}
  OBVIOUS
<1>1. list \in Seq(Files)
  BY <1>0, SeqDef
<1>2. Len(list) = n
  BY <1>0, <1>1
<1> QED BY <1>0, <1>1, <1>2

LEMMA BatchStep ==
    ASSUME StampInv, NEW c \in Calls, NEW kind \in Kinds, NEW list \in Stamp!Batches, Stamp!timestamp_batch(c, kind, list)
    PROVE  StampInv'
<1> DEFINE k == [Stamp!Idle EXCEPT !.at = "digest", !.kind = kind, !.list = list]
<1>1. /\ \A i, j \in DOMAIN list : i # j => list[i] # list[j]
      /\ \A i \in DOMAIN list : Stamp!read_trailer(list[i]) = {}
      /\ call' = [call EXCEPT ![c] = k]
      /\ twice' = twice \cup {list[i] : i \in {j \in DOMAIN list : \E d \in Calls \ {c} : list[j] \in Stamp!Hand(d)}}
  BY DEF Stamp!timestamp_batch
<1>2. UNCHANGED <<file, written, tmp>>
  BY DEF Stamp!timestamp_batch
<1>3. list \in Seq(Files) /\ Len(list) \in Nat \ {0} /\ (kind = "file" => Len(list) = 1)
  BY ListTyped DEF Stamp!timestamp_batch
<1>4. k \in CallType /\ k.at = "digest" /\ k.kind = kind /\ k.list = list /\ k.next = 1 /\ k.hashed = <<>>
  BY <1>3, IdleTyped DEF CallType
<1>5. call \in [Calls -> CallType]
  BY DEF StampInv, StampTypes, CallType
<1>6. call' = [call EXCEPT ![c] = k] /\ call' \in [Calls -> CallType] /\ call'[c] = k
  <2> HIDE DEF k
  <2> QED BY <1>1, <1>4, <1>5
<1> HIDE DEF k
<1>7. StampTypes'
  BY <1>2, <1>6 DEF StampInv, StampTypes, CallType
<1>8. CallsInv'
  <2> SUFFICES ASSUME NEW d \in Calls
               PROVE  IF call'[d].at = "off" THEN call'[d].list = <<>> ELSE Working(call'[d]) /\ Read(call'[d], written')
    BY DEF CallsInv, Working
  <2>1. CASE d = c
    <3>1. Working(k)
      <4> HIDE DEF k
      <4>1. Len(k.hashed) = 0
        BY <1>4
      <4>2. Len(k.hashed) < Len(list) /\ 1 \in 1..Len(list)
        BY <1>3, <4>1
      <4> QED BY <1>1, <1>3, <1>4, <4>2 DEF Working
    <3>2. Read(call'[d], written')
      BY <1>4, <1>6, <2>1 DEF Read
    <3> QED BY <1>4, <1>6, <2>1, <3>1, <3>2
  <2>2. CASE d # c
    BY <1>2, <1>5, <1>6, <2>2 DEF StampInv, CallsInv, Read
  <2> QED BY <2>1, <2>2
<1>9. AloneInv'
  <2> SUFFICES ASSUME NEW f \in Files \ twice' PROVE Alone(f)'
    BY DEF AloneInv
  <2>1. Alone(f) /\ f \in Files /\ f \notin twice
    BY <1>1 DEF StampInv, AloneInv
  <2>2. ASSUME NEW d \in Calls, d # c PROVE Stamp!Hand(d)' = Stamp!Hand(d) /\ call'[d] = call[d]
    BY <1>5, <1>6, <2>2 DEF Stamp!Hand
  <2>3. Stamp!Hand(c)' = {list[i] : i \in DOMAIN list}
    BY <1>4, <1>6 DEF Stamp!Hand
  <2>4. ASSUME f \in Stamp!Hand(c)', NEW d \in Calls, d # c PROVE f \notin Stamp!Hand(d)
    BY <1>1, <2>3, <2>4
  <2>5. ASSUME NEW i \in DOMAIN list, list[i] = f PROVE file[f].trailers = <<>>
    <3>1. Stamp!read_trailer(f) = {}
      BY <1>1, <2>5
    <3>2. file[f].torn = FALSE
      BY DEF StampInv, StampTypes, Stored
    <3> QED BY <3>1, <3>2 DEF Stamp!read_trailer
  <2>6. \A d, e \in Calls : f \in Stamp!Hand(d)' /\ f \in Stamp!Hand(e)' => d = e
    BY <2>1, <2>2, <2>4 DEF Alone
  <2>7. \A d \in Calls : \A i \in DOMAIN call'[d].list :
            call'[d].list[i] = f /\ i >= call'[d].next => file[f].trailers = <<>>
    BY <1>4, <1>6, <2>1, <2>2, <2>5 DEF Alone
  <2> QED BY <1>2, <2>1, <2>6, <2>7 DEF Alone
<1> QED BY <1>7, <1>8, <1>9 DEF StampInv

LEMMA CallsKept ==
    ASSUME StampInv, NEW c \in Calls, NEW k \in CallType, call' = [call EXCEPT ![c] = k], written' = written,
           \/ k.at = "off" /\ k.list = <<>>
           \/ k.at # "off" /\ Working(k) /\ Read(k, written)
    PROVE  CallsInv' /\ call' \in [Calls -> CallType]
<1>1. call \in [Calls -> CallType]
  BY DEF StampInv, StampTypes, CallType
<1>2. \A d \in Calls : call'[d] = IF d = c THEN k ELSE call[d]
  BY <1>1
<1>3. call' \in [Calls -> CallType]
  BY <1>1
<1> QED BY <1>2, <1>3 DEF StampInv, CallsInv

LEMMA AloneMoved ==
    ASSUME StampInv, NEW c \in Calls, NEW k \in CallType, call' = [call EXCEPT ![c] = k],
           twice' = twice,
           \A f \in Files \ twice : Len(file'[f].trailers) <= 1 /\ \A t \in tmp'[f] : Len(t.trailers) <= 1,
           \A f \in Files \ twice :
                \/ file'[f].trailers = file[f].trailers
                \/ \A d \in Calls : \A i \in DOMAIN call'[d].list : call'[d].list[i] = f => ~(i >= call'[d].next),
           \/ k.list = <<>>
           \/ k.list = call[c].list /\ k.next >= call[c].next
    PROVE  AloneInv'
<1>1. call \in [Calls -> CallType]
  BY DEF StampInv, StampTypes, CallType
<1>2. \A d \in Calls : call'[d] = IF d = c THEN k ELSE call[d]
  BY <1>1
<1> SUFFICES ASSUME NEW f \in Files \ twice PROVE Alone(f)'
  BY DEF AloneInv
<1>3. Alone(f)
  BY DEF StampInv, AloneInv
<1>4. \A d \in Calls : f \in Stamp!Hand(d)' => f \in Stamp!Hand(d)
  BY <1>2 DEF Stamp!Hand
<1>5. ASSUME NEW d \in Calls, NEW i \in DOMAIN call'[d].list, call'[d].list[i] = f, i >= call'[d].next
      PROVE  file'[f].trailers = <<>>
  <2>1. call[d].next \in Nat /\ k.next \in Nat
    BY <1>1 DEF CallType
  <2>2. i \in DOMAIN call[d].list /\ call[d].list[i] = f /\ i \in Nat /\ call'[d].next >= call[d].next
    <3>1. DOMAIN call'[d].list \subseteq Nat
      <4>1. call'[d].list \in Seq(Files)
        BY <1>1, <1>2 DEF CallType
      <4> QED BY <4>1
    <3>2. CASE d = c
      BY <1>2, <1>5, <3>1, <3>2
    <3>3. CASE d # c
      BY <1>2, <1>5, <2>1, <3>1, <3>3
    <3> QED BY <3>2, <3>3
  <2>3. i >= call[d].next
    BY <1>2, <1>5, <2>1, <2>2
  <2>4. file[f].trailers = <<>>
    BY <1>3, <2>2, <2>3 DEF Alone
  <2> QED BY <1>5, <2>4
<1> QED BY <1>3, <1>4, <1>5 DEF Alone

LEMMA AloneKept ==
    ASSUME StampInv, NEW c \in Calls, NEW k \in CallType, call' = [call EXCEPT ![c] = k],
           UNCHANGED <<file, tmp, twice>>,
           \/ k.list = <<>>
           \/ k.list = call[c].list /\ k.next >= call[c].next
    PROVE  AloneInv'
<1>1. \A f \in Files \ twice : Len(file[f].trailers) <= 1 /\ \A t \in tmp[f] : Len(t.trailers) <= 1
  BY DEF StampInv, AloneInv, Alone
<1> QED BY <1>1, AloneMoved

LEMMA DigestStep ==
    ASSUME StampInv, NEW c \in Calls, Stamp!file_digest(c)
    PROVE  StampInv'
<1> DEFINE k == call[c]
           f == k.list[Len(k.hashed) + 1]
           hashed == Append(k.hashed, Stamp!Digest(file[f].text))
           place == IF Len(hashed) = Len(k.list) THEN "request" ELSE "digest"
           m == [k EXCEPT !.hashed = hashed, !.at = place]
<1>1. call \in [Calls -> CallType] /\ k \in CallType
  BY DEF StampInv, StampTypes, CallType
<1>2. UNCHANGED <<file, written, tmp, twice>> /\ k.at = "digest"
  BY DEF Stamp!file_digest
<1>3. Working(k) /\ Read(k, written)
  BY <1>2 DEF StampInv, CallsInv
<1>4. k.list \in Seq(Files) /\ k.hashed \in Seq(Digests) /\ Len(k.hashed) < Len(k.list) /\ f \in Files
  BY <1>1, <1>2, <1>3 DEF CallType, Working
<1>5. file[f].text \in Nat /\ file[f].text <= written
  BY <1>4 DEF StampInv, StampTypes, Stored
<1>6. CASE Stamp!verify_file(f)
  <2>1. call' = [call EXCEPT ![c] = m]
    BY <1>6, <1>1 DEF Stamp!file_digest
  <2>2. Stamp!Digest(file[f].text) \in Digests
    BY <1>5 DEF Digests
  <2>3. hashed \in Seq(Digests) /\ Len(hashed) = Len(k.hashed) + 1
    BY <1>4, <2>2
  <2>4. /\ m \in CallType /\ m.at = place /\ m.kind = k.kind /\ m.list = k.list /\ m.next = k.next
        /\ m.hashed = hashed
    BY <1>1, <2>3 DEF CallType
  <2> HIDE DEF m
  <2>5. Working(m)
    BY <1>1, <1>2, <1>3, <1>4, <2>3, <2>4 DEF Working, CallType
  <2>6. Read(m, written)
    <3> SUFFICES ASSUME NEW i \in DOMAIN hashed
                 PROVE  \E y \in Nat : y <= written /\ hashed[i] = Stamp!Digest(y)
      BY <2>4 DEF Read
    <3>1. CASE i = Len(hashed)
      <4>1. hashed[i] = Stamp!Digest(file[f].text)
        BY <1>4, <2>2, <2>3, <3>1
      <4> QED BY <1>5, <4>1
    <3>2. CASE i # Len(hashed)
      <4>1. i \in DOMAIN k.hashed /\ hashed[i] = k.hashed[i]
        BY <1>4, <2>2, <2>3, <3>2
      <4> QED BY <1>2, <1>3, <4>1 DEF Read
    <3> QED BY <3>1, <3>2
  <2>7. CallsInv' /\ call' \in [Calls -> CallType]
    BY <1>2, <2>1, <2>4, <2>5, <2>6, CallsKept
  <2>8. AloneInv'
    <3>1. m.next >= k.next
      BY <1>1, <2>4 DEF CallType
    <3> QED BY <1>2, <2>1, <2>4, <3>1, AloneKept
  <2> QED BY <1>2, <2>7, <2>8 DEF StampInv, StampTypes, CallType
<1>7. CASE ~Stamp!verify_file(f)
  <2>1. call' = [call EXCEPT ![c] = Stamp!Idle]
    BY <1>7 DEF Stamp!file_digest, Stamp!End
  <2>2. CallsInv' /\ call' \in [Calls -> CallType]
    BY <1>2, <2>1, IdleTyped, CallsKept
  <2>3. AloneInv'
    BY <1>2, <2>1, IdleTyped, AloneKept
  <2> QED BY <1>2, <2>2, <2>3 DEF StampInv, StampTypes, CallType
<1> QED BY <1>6, <1>7

LEMMA RefusedStep ==
    ASSUME StampInv, NEW c \in Calls, Stamp!parse_response(c)
    PROVE  StampInv'
<1>1. call' = [call EXCEPT ![c] = Stamp!Idle] /\ UNCHANGED <<file, written, tmp, twice>>
  BY DEF Stamp!parse_response, Stamp!End
<1>2. CallsInv' /\ call' \in [Calls -> CallType]
  BY <1>1, IdleTyped, CallsKept
<1>3. AloneInv'
  BY <1>1, IdleTyped, AloneKept
<1> QED BY <1>1, <1>2, <1>3 DEF StampInv, StampTypes, CallType

LEMMA TokenStep ==
    ASSUME StampInv, NEW c \in Calls, Stamp!request_token(c)
    PROVE  StampInv'
<1> DEFINE k == call[c]
           token(s, a) == [imprint |-> Stamp!build_request(c), sound |-> s, anchor |-> a, before |-> written]
<1>1. call \in [Calls -> CallType] /\ k \in CallType /\ written \in Nat
  BY DEF StampInv, StampTypes, CallType
<1>2. UNCHANGED <<file, written, tmp, twice>> /\ k.at = "request"
  BY DEF Stamp!request_token
<1>3. Working(k) /\ Read(k, written)
  BY <1>2 DEF StampInv, CallsInv
<1>4. PICK s \in BOOLEAN, a \in Anchors : call' = [call EXCEPT ![c].at = "copy", ![c].token = token(s, a)]
  BY DEF Stamp!request_token
<1>5. k.hashed \in Seq(Digests) /\ Len(k.hashed) = Len(k.list) /\ k.hashed # <<>>
  BY <1>1, <1>2, <1>3 DEF CallType, Working
<1>6. Stamp!build_request(c) \in Imprints
  <2>1. CASE k.kind # "file"
    <3>1. Stamp!Payloads(c) \in Seq(Leafs)
      BY <1>5, PayloadsMade
    <3> QED BY <2>1, <3>1 DEF Stamp!build_request, Stamp!Tree, RootOf, Imprints
  <2>2. CASE k.kind = "file"
    BY <1>5, <2>2 DEF Stamp!build_request, Imprints
  <2> QED BY <2>1, <2>2
<1>7. token(s, a) \in Tokens /\ token(s, a).before = written /\ token(s, a).imprint = Stamp!build_request(c)
  BY <1>1, <1>6 DEF Tokens
<1> DEFINE m == [k EXCEPT !.at = "copy", !.token = token(s, a)]
<1> HIDE DEF token
<1>8. call' = [call EXCEPT ![c] = m]
  BY <1>1, <1>4
<1>9. /\ m \in CallType /\ m.at = "copy" /\ m.kind = k.kind /\ m.list = k.list /\ m.next = k.next
      /\ m.hashed = k.hashed /\ m.token = token(s, a)
  BY <1>1, <1>7 DEF CallType
<1> HIDE DEF m
<1>10. Working(m)
  BY <1>2, <1>3, <1>5, <1>9 DEF Working
<1>11. Read(m, written)
  <2>1. ASSUME m.kind = "file" PROVE m.token.imprint = m.hashed[1]
    BY <1>7, <1>9, <2>1 DEF Stamp!build_request
  <2> QED BY <1>2, <1>3, <1>7, <1>9, <2>1 DEF Read
<1>12. CallsInv' /\ call' \in [Calls -> CallType]
  BY <1>2, <1>8, <1>9, <1>10, <1>11, CallsKept
<1>13. AloneInv'
  <2>1. m.next >= k.next
    BY <1>1, <1>9 DEF CallType
  <2> QED BY <1>2, <1>8, <1>9, <2>1, AloneKept
<1> QED BY <1>2, <1>12, <1>13 DEF StampInv, StampTypes, CallType

\* A copy or a failure later: the next file, or the end.
LEMMA AdvanceMade ==
    ASSUME StampInv, NEW c \in Calls, call[c].at \in {"copy", "replace"}, Stamp!Advance(c), written' = written
    PROVE  /\ CallsInv' /\ call' \in [Calls -> CallType]
           /\ \E m \in CallType : /\ call' = [call EXCEPT ![c] = m]
                                 /\ (m.list = <<>> \/ (m.list = call[c].list /\ m.next = call[c].next + 1))
<1> DEFINE k == call[c]
           m == [k EXCEPT !.at = "copy", !.next = k.next + 1]
<1>1. call \in [Calls -> CallType] /\ k \in CallType
  BY DEF StampInv, StampTypes, CallType
<1>2. Working(k) /\ Read(k, written)
  BY DEF StampInv, CallsInv
<1>3. CASE k.next = Len(k.list)
  <2>1. call' = [call EXCEPT ![c] = Stamp!Idle]
    BY <1>3 DEF Stamp!Advance, Stamp!End
  <2> QED BY <2>1, IdleTyped, CallsKept
<1>4. CASE k.next # Len(k.list)
  <2>1. call' = [call EXCEPT ![c] = m]
    BY <1>1, <1>4 DEF Stamp!Advance
  <2>2. /\ m \in CallType /\ m.at = "copy" /\ m.kind = k.kind /\ m.list = k.list /\ m.next = k.next + 1
        /\ m.hashed = k.hashed /\ m.token = k.token
    <3>1. k.next + 1 \in Nat
      BY <1>1 DEF CallType
    <3> QED BY <1>1, <3>1 DEF CallType
  <2> HIDE DEF m
  <2>3. m.next \in 1..Len(m.list)
    BY <1>1, <1>2, <1>4, <2>2 DEF Working, CallType
  <2>4. Working(m)
    BY <1>2, <2>2, <2>3 DEF Working
  <2>5. Read(m, written)
    BY <1>2, <2>2 DEF Read
  <2>6. CallsInv' /\ call' \in [Calls -> CallType]
    BY <2>1, <2>2, <2>4, <2>5, CallsKept
  <2> QED BY <2>1, <2>2, <2>6
<1> QED BY <1>3, <1>4

LEMMA AttachStep ==
    ASSUME StampInv, NEW c \in Calls, Stamp!attach_trailer(c)
    PROVE  StampInv'
<1> DEFINE k == call[c]
           f == k.list[k.next]
           t == [file[f] EXCEPT !.trailers = Append(file[f].trailers, Stamp!Trailer(c))]
           m == [k EXCEPT !.at = "replace"]
<1>1. call \in [Calls -> CallType] /\ k \in CallType
  BY DEF StampInv, StampTypes, CallType
<1>2. UNCHANGED <<file, written, twice>> /\ k.at = "copy" /\ tmp' = [tmp EXCEPT ![f] = {t}]
  BY DEF Stamp!attach_trailer
<1>3. Working(k) /\ Read(k, written)
  BY <1>2 DEF StampInv, CallsInv
<1>4. f \in Files /\ k.next \in DOMAIN k.list /\ k.next \in Nat
  BY <1>1, <1>3 DEF CallType, Working
<1>5. Stamp!Trailer(c) \in Stamps
  BY <1>2, <1>3, TrailerMade DEF StampInv
<1>6. /\ file[f] \in Stored /\ file[f].text <= written /\ tmp \in [Files -> SUBSET Stored]
      /\ \A g \in Files : \A u \in tmp[g] : u.text <= written
  BY <1>4 DEF StampInv, StampTypes
<1>7. /\ t \in Stored /\ t.text = file[f].text /\ t.trailers = Append(file[f].trailers, Stamp!Trailer(c))
  <2>1. Append(file[f].trailers, Stamp!Trailer(c)) \in Seq(Stamps)
    <3>1. file[f].trailers \in Seq(Stamps)
      BY <1>6 DEF Stored
    <3> QED BY <1>5, <3>1
  <2> QED BY <1>6, <2>1 DEF Stored
<1> HIDE DEF t
<1>8. \A g \in Files : tmp'[g] = IF g = f THEN {t} ELSE tmp[g]
  BY <1>2, <1>6
<1>9. tmp' \in [Files -> SUBSET Stored] /\ \A g \in Files : \A u \in tmp'[g] : u.text <= written
  BY <1>2, <1>6, <1>7, <1>8
<1>10. call' = [call EXCEPT ![c] = m]
  BY <1>1 DEF Stamp!attach_trailer, Stamp!Goto
<1>11. /\ m \in CallType /\ m.at = "replace" /\ m.kind = k.kind /\ m.list = k.list /\ m.next = k.next
       /\ m.hashed = k.hashed /\ m.token = k.token
  BY <1>1 DEF CallType
<1> HIDE DEF m
<1>12. Working(m) /\ Read(m, written)
  BY <1>2, <1>3, <1>11 DEF Working, Read
<1>13. CallsInv' /\ call' \in [Calls -> CallType]
  BY <1>2, <1>10, <1>11, <1>12, CallsKept
<1>14. ASSUME NEW g \in Files \ twice
       PROVE  Len(file'[g].trailers) <= 1 /\ \A u \in tmp'[g] : Len(u.trailers) <= 1
  <2>1. Alone(g)
    BY DEF StampInv, AloneInv
  <2>2. CASE g = f
    <3>1. file[f].trailers = <<>>
      BY <1>4, <2>1, <2>2 DEF Alone
    <3>2. Len(t.trailers) = 1
      BY <1>5, <1>7, <3>1
    <3>3. tmp'[g] = {t}
      BY <1>4, <1>8, <2>2
    <3>4. Len(file'[g].trailers) <= 1
      BY <1>2, <2>1 DEF Alone
    <3>5. \A u \in {t} : Len(u.trailers) <= 1
      <4>1. Len(t.trailers) <= 1
        BY <3>2
      <4> QED BY <4>1, Zenon
    <3> QED BY <3>3, <3>4, <3>5, Zenon
  <2>3. CASE g # f
    BY <1>2, <1>8, <2>1, <2>3 DEF Alone
  <2> QED BY <2>2, <2>3
<1>15. AloneInv'
  <2>1. m.next >= k.next
    BY <1>4, <1>11
  <2> QED BY <1>2, <1>10, <1>11, <1>14, <2>1, AloneMoved
<1>16. \A g \in Files : file'[g].text <= written'
  BY <1>2 DEF StampInv, StampTypes
<1> QED BY <1>2, <1>9, <1>13, <1>15, <1>16 DEF StampInv, StampTypes, CallType

LEMMA FailsStep ==
    ASSUME StampInv, NEW c \in Calls, Stamp!AttachFails(c)
    PROVE  StampInv'
<1> DEFINE f == call[c].list[call[c].next]
<1>1. /\ call[c].at \in {"copy", "replace"} /\ Stamp!Advance(c)
      /\ tmp' = [tmp EXCEPT ![f] = {}] /\ UNCHANGED <<file, written, twice>>
  BY DEF Stamp!AttachFails
<1>2. CallsInv' /\ call' \in [Calls -> CallType]
  BY <1>1, AdvanceMade
<1>3. tmp \in [Files -> SUBSET Stored] /\ \A g \in Files : \A u \in tmp[g] : u.text <= written
  BY DEF StampInv, StampTypes
<1>4. tmp' \in [Files -> SUBSET Stored] /\ \A g \in Files : tmp'[g] \subseteq tmp[g]
  BY <1>1, <1>3
<1>5. AloneInv'
  <2>1. PICK m \in CallType : /\ call' = [call EXCEPT ![c] = m]
                             /\ (m.list = <<>> \/ (m.list = call[c].list /\ m.next = call[c].next + 1))
    BY <1>1, AdvanceMade
  <2>2. call[c].next \in Nat
    BY DEF StampInv, StampTypes, CallType
  <2>3. \A g \in Files \ twice : Len(file'[g].trailers) <= 1 /\ \A u \in tmp'[g] : Len(u.trailers) <= 1
    BY <1>1, <1>4 DEF StampInv, AloneInv, Alone
  <2>4. (m.list = <<>> \/ (m.list = call[c].list /\ m.next >= call[c].next))
    BY <2>1, <2>2
  <2> QED BY <1>1, <2>1, <2>3, <2>4, AloneMoved
<1>6. \A g \in Files : file'[g].text <= written' /\ \A u \in tmp'[g] : u.text <= written'
  BY <1>1, <1>3, <1>4 DEF StampInv, StampTypes
<1>7. file' \in [Files -> Stored] /\ written' \in Nat
  BY <1>1 DEF StampInv, StampTypes
<1> QED BY <1>2, <1>4, <1>5, <1>6, <1>7 DEF StampInv, StampTypes, CallType

LEMMA ReplaceStep ==
    ASSUME StampInv, NEW c \in Calls, Stamp!Replace(c)
    PROVE  StampInv'
<1> DEFINE k == call[c]
           f == k.list[k.next]
<1>1. /\ k.at = "replace" /\ Stamp!Advance(c)
      /\ tmp' = [tmp EXCEPT ![f] = {}] /\ UNCHANGED <<written, twice>>
      /\ \E t \in tmp[f] : file' = [file EXCEPT ![f] = t]
  BY DEF Stamp!Replace
<1>2. CallsInv' /\ call' \in [Calls -> CallType]
  BY <1>1, AdvanceMade
<1>3. /\ call \in [Calls -> CallType] /\ k \in CallType /\ written \in Nat
      /\ file \in [Files -> Stored] /\ tmp \in [Files -> SUBSET Stored]
      /\ \A g \in Files : file[g].text <= written /\ \A u \in tmp[g] : u.text <= written
  BY DEF StampInv, StampTypes, CallType
<1>4. Working(k)
  BY <1>1 DEF StampInv, CallsInv
<1>5. f \in Files /\ k.next \in DOMAIN k.list /\ k.next \in Nat
  BY <1>3, <1>4 DEF CallType, Working
<1>6. PICK t \in tmp[f] : file' = [file EXCEPT ![f] = t]
  BY <1>1
<1>7. t \in Stored /\ t.text <= written
  BY <1>3, <1>5
<1>8. \A g \in Files : file'[g] = IF g = f THEN t ELSE file[g]
  BY <1>3, <1>6
<1>9. file' \in [Files -> Stored] /\ \A g \in Files : file'[g].text <= written
  BY <1>3, <1>6, <1>7, <1>8
<1>10. tmp' \in [Files -> SUBSET Stored] /\ \A g \in Files : tmp'[g] \subseteq tmp[g]
  BY <1>1, <1>3
<1>11. PICK m \in CallType : /\ call' = [call EXCEPT ![c] = m]
                            /\ (m.list = <<>> \/ (m.list = k.list /\ m.next = k.next + 1))
  BY <1>1, AdvanceMade
<1>12. \A d \in Calls : call'[d] = IF d = c THEN m ELSE call[d]
  BY <1>3, <1>11
<1>13. \A g \in Files \ twice : Len(file'[g].trailers) <= 1 /\ \A u \in tmp'[g] : Len(u.trailers) <= 1
  <2> SUFFICES ASSUME NEW g \in Files \ twice
               PROVE  Len(file'[g].trailers) <= 1 /\ \A u \in tmp'[g] : Len(u.trailers) <= 1
    OBVIOUS
  <2>1. Alone(g)
    BY DEF StampInv, AloneInv
  <2> QED BY <1>6, <1>8, <1>10, <2>1 DEF Alone
<1>14. ASSUME f \notin twice, NEW d \in Calls, NEW i \in DOMAIN call'[d].list, call'[d].list[i] = f
       PROVE  ~(i >= call'[d].next)
  <2>1. Alone(f)
    BY <1>5, <1>14 DEF StampInv, AloneInv
  <2>2. f \in Stamp!Hand(c)
    BY <1>5 DEF Stamp!Hand
  <2>3. d = c
    <3>1. ASSUME d # c PROVE f \in Stamp!Hand(d)
      BY <1>12, <1>14, <3>1 DEF Stamp!Hand
    <3> QED BY <2>1, <2>2, <3>1 DEF Alone
  <2>4. m.list = k.list /\ m.next = k.next + 1 /\ i \in DOMAIN k.list /\ k.list[i] = f
    BY <1>11, <1>12, <1>14, <2>3
  <2>5. i = k.next
    BY <1>4, <1>5, <2>4 DEF Working
  <2> QED BY <1>5, <1>12, <2>3, <2>4, <2>5
<1>15. AloneInv'
  <2>1. (m.list = <<>> \/ (m.list = k.list /\ m.next >= k.next))
    BY <1>5, <1>11
  <2>2. \A g \in Files \ twice :
                \/ file'[g].trailers = file[g].trailers
                \/ \A d \in Calls : \A i \in DOMAIN call'[d].list : call'[d].list[i] = g => ~(i >= call'[d].next)
    BY <1>8, <1>14
  <2> QED BY <1>1, <1>11, <1>13, <2>1, <2>2, AloneMoved
<1>16. \A g \in Files : \A u \in tmp'[g] : u.text <= written'
  BY <1>1, <1>3, <1>10
<1>17. written' \in Nat /\ written' = written
  BY <1>1, <1>3
<1> QED BY <1>2, <1>9, <1>10, <1>15, <1>16, <1>17 DEF StampInv, StampTypes, CallType

LEMMA CheckInStep ==
    ASSUME StampInv, NEW f \in Files, Stamp!CheckIn(f)
    PROVE  StampInv'
<1>1. /\ written' = written + 1 /\ file' = [file EXCEPT ![f] = Stamp!Plain(written + 1)]
      /\ UNCHANGED <<call, tmp, twice>>
  BY DEF Stamp!CheckIn
<1>2. /\ call \in [Calls -> CallType] /\ written \in Nat
      /\ file \in [Files -> Stored] /\ tmp \in [Files -> SUBSET Stored]
      /\ \A g \in Files : file[g].text <= written /\ \A u \in tmp[g] : u.text <= written
  BY DEF StampInv, StampTypes, CallType
<1>3. Stamp!Plain(written + 1) \in Stored /\ Stamp!Plain(written + 1).trailers = <<>> /\ Stamp!Plain(written + 1).text = written + 1
  BY <1>2, PlainTyped
<1>4. \A g \in Files : file'[g] = IF g = f THEN Stamp!Plain(written + 1) ELSE file[g]
  BY <1>1, <1>2
<1>5. StampTypes'
  <2>1. file' \in [Files -> Stored]
    BY <1>1, <1>2, <1>3
  <2>2. \A g \in Files : file'[g].text \in Nat /\ file[g].text \in Nat
    BY <1>2, <2>1 DEF Stored
  <2>3. \A g \in Files : file'[g].text <= written'
    BY <1>1, <1>2, <1>3, <1>4, <2>2
  <2>4. \A g \in Files : \A u \in tmp'[g] : u.text <= written'
    <3> SUFFICES ASSUME NEW g \in Files, NEW u \in tmp[g] PROVE u.text <= written + 1
      BY <1>1
    <3>1. u \in Stored /\ u.text <= written
      BY <1>2
    <3>2. u.text \in Nat
      BY <3>1 DEF Stored
    <3> QED BY <1>2, <3>1, <3>2
  <2>5. written' \in Nat /\ tmp' = tmp /\ call' = call
    BY <1>1, <1>2
  <2> QED BY <1>2, <2>1, <2>3, <2>4, <2>5 DEF StampTypes, CallType
<1>6. CallsInv'
  <2> SUFFICES ASSUME NEW c \in Calls, call[c].at # "off" PROVE Working(call[c]) /\ Read(call[c], written')
    BY <1>1 DEF StampInv, CallsInv
  <2>1. Working(call[c]) /\ Read(call[c], written)
    BY DEF StampInv, CallsInv
  <2>2. \A y \in Nat : y <= written => y <= written'
    BY <1>1, <1>2
  <2> QED BY <2>1, <2>2 DEF Read
<1>7. AloneInv'
  <2> SUFFICES ASSUME NEW g \in Files \ twice PROVE Alone(g)'
    BY <1>1 DEF AloneInv
  <2>1. Alone(g)
    BY DEF StampInv, AloneInv
  <2>2. \A c \in Calls : Stamp!Hand(c)' = Stamp!Hand(c)
    BY <1>1 DEF Stamp!Hand
  <2>3. file'[g].trailers = file[g].trailers \/ file'[g].trailers = <<>>
    BY <1>3, <1>4
  <2>4. Len(file'[g].trailers) <= 1
    BY <2>1, <2>3 DEF Alone
  <2> QED BY <1>1, <2>1, <2>2, <2>3, <2>4 DEF Alone
<1> QED BY <1>5, <1>6, <1>7 DEF StampInv

LEMMA GraftStep ==
    ASSUME StampInv, NEW f \in Files, NEW g \in Files, Stamp!Graft(f, g)
    PROVE  StampInv'
<1>1. PICK t \in Stamp!read_trailer(g), h \in {Stamp!Digest(file[f].text), Stamp!Digest(file[g].text)} :
        file' = [file EXCEPT ![f].trailers = <<[t EXCEPT !.hashed = h]>>]
  BY DEF Stamp!Graft
<1>2. /\ UNCHANGED <<written, call, tmp>>
      /\ twice' = twice \cup {k \in {f} : \E c \in Calls : k \in Stamp!Hand(c)}
  BY DEF Stamp!Graft
<1>3. /\ call \in [Calls -> CallType] /\ written \in Nat
      /\ file \in [Files -> Stored] /\ tmp \in [Files -> SUBSET Stored]
      /\ \A k \in Files : file[k].text <= written /\ \A u \in tmp[k] : u.text <= written
  BY DEF StampInv, StampTypes, CallType
<1> DEFINE s == [t EXCEPT !.hashed = h]
           m == [file[f] EXCEPT !.trailers = <<s>>]
<1>4. t \in Stamps
  <2>1. file[g].trailers # <<>> /\ t = Stamp!Last(file[g].trailers) /\ file[g].trailers \in Seq(Stamps)
    BY <1>3 DEF Stamp!read_trailer, Stored
  <2> QED BY <2>1 DEF Stamp!Last
<1>5. h \in Digests
  BY <1>3 DEF Digests, Stored
<1>6. s \in Stamps
  <2>1. /\ s \in [hashed : Digests, token : Tokens, path : Paths] /\ s.token = t.token /\ s.path = t.path
    BY <1>4, <1>5 DEF Stamps
  <2>2. Earlier(s)
    BY <1>4, <2>1 DEF Stamps, Earlier
  <2> QED BY <2>1, <2>2 DEF Stamps
<1> HIDE DEF s
<1>7. file' = [file EXCEPT ![f] = m]
  BY <1>1, <1>3 DEF s
<1>8. m \in Stored /\ m.text = file[f].text /\ m.trailers = <<s>> /\ Len(m.trailers) = 1
  <2>1. <<s>> \in Seq(Stamps)
    BY <1>6
  <2> QED BY <1>3, <2>1 DEF Stored
<1> HIDE DEF m
<1>9. \A k \in Files : file'[k] = IF k = f THEN m ELSE file[k]
  BY <1>3, <1>7
<1>10. StampTypes'
  <2>1. file' \in [Files -> Stored] /\ \A k \in Files : file'[k].text <= written
    BY <1>3, <1>7, <1>8, <1>9
  <2> QED BY <1>2, <1>3, <2>1 DEF StampTypes, CallType
<1>11. CallsInv'
  BY <1>2 DEF StampInv, CallsInv
<1>12. AloneInv'
  <2> SUFFICES ASSUME NEW k \in Files \ twice' PROVE Alone(k)'
    BY DEF AloneInv
  <2>1. Alone(k)
    BY <1>2 DEF StampInv, AloneInv
  <2>2. \A c \in Calls : Stamp!Hand(c)' = Stamp!Hand(c)
    BY <1>2 DEF Stamp!Hand
  <2>3. CASE k = f
    <3>1. \A c \in Calls : f \notin Stamp!Hand(c)
      BY <1>2, <2>3
    <3>2. \A c \in Calls : \A i \in DOMAIN call[c].list : call[c].list[i] # f
      BY <3>1 DEF Stamp!Hand
    <3>3. Len(file'[k].trailers) = 1
      BY <1>8, <1>9, <2>3
    <3> QED BY <1>2, <2>1, <2>2, <2>3, <3>2, <3>3 DEF Alone
  <2>4. CASE k # f
    BY <1>2, <1>9, <2>1, <2>2, <2>4 DEF Alone
  <2> QED BY <2>3, <2>4
<1> QED BY <1>10, <1>11, <1>12 DEF StampInv

LEMMA CrashStep == ASSUME StampInv, Stamp!Crash PROVE StampInv'
<1>1. /\ call' = [c \in Calls |-> Stamp!Idle] /\ tmp' = [f \in Files |-> {}]
      /\ UNCHANGED <<file, written, twice>>
  BY DEF Stamp!Crash
<1>2. StampTypes'
  <2>1. call' \in [Calls -> CallType]
    BY <1>1, IdleTyped
  <2> QED BY <1>1, <2>1 DEF StampInv, StampTypes, CallType
<1>3. CallsInv'
  BY <1>1, IdleTyped DEF CallsInv
<1>4. AloneInv'
  <2> SUFFICES ASSUME NEW f \in Files \ twice PROVE Alone(f)'
    BY <1>1 DEF AloneInv
  <2>1. Alone(f)
    BY DEF StampInv, AloneInv
  <2>2. \A c \in Calls : call'[c].list = <<>> /\ Stamp!Hand(c)' = {}
    BY <1>1, IdleTyped DEF Stamp!Hand
  <2> QED BY <1>1, <2>1, <2>2 DEF Alone
<1> QED BY <1>2, <1>3, <1>4 DEF StampInv

LEMMA StampStep == StampInv /\ [Stamp!Next]_(Stamp!vars) => StampInv'
<1> SUFFICES ASSUME StampInv, [Stamp!Next]_(Stamp!vars) PROVE StampInv'
  OBVIOUS
<1>1. ASSUME NEW c \in Calls, NEW kind \in Kinds, NEW list \in Stamp!Batches, Stamp!timestamp_batch(c, kind, list) PROVE StampInv'
  BY <1>1, BatchStep
<1>2. ASSUME NEW c \in Calls, Stamp!file_digest(c) PROVE StampInv'
  BY <1>2, DigestStep
<1>3. ASSUME NEW c \in Calls, Stamp!request_token(c) PROVE StampInv'
  BY <1>3, TokenStep
<1>4. ASSUME NEW c \in Calls, Stamp!parse_response(c) PROVE StampInv'
  BY <1>4, RefusedStep
<1>5. ASSUME NEW c \in Calls, Stamp!attach_trailer(c) PROVE StampInv'
  BY <1>5, AttachStep
<1>6. ASSUME NEW c \in Calls, Stamp!Replace(c) PROVE StampInv'
  BY <1>6, ReplaceStep
<1>7. ASSUME NEW c \in Calls, Stamp!AttachFails(c) PROVE StampInv'
  BY <1>7, FailsStep
<1>8. ASSUME NEW f \in Files, Stamp!CheckIn(f) PROVE StampInv'
  BY <1>8, CheckInStep
<1>9. ASSUME NEW f \in Files, NEW g \in Files, Stamp!Graft(f, g) PROVE StampInv'
  BY <1>9, GraftStep
<1>10. ASSUME Stamp!Crash PROVE StampInv'
  BY <1>10, CrashStep
<1>11. ASSUME UNCHANGED Stamp!vars PROVE StampInv'
  <2>1. UNCHANGED <<file, written, call, tmp, twice>>
    BY <1>11 DEF Stamp!vars
  <2>2. StampTypes' /\ CallsInv'
    BY <2>1 DEF StampInv, StampTypes, CallsInv
  <2>3. AloneInv'
    BY <2>1 DEF StampInv, AloneInv, Alone, Stamp!Hand
  <2> QED BY <2>2, <2>3 DEF StampInv
<1> QED BY <1>1, <1>2, <1>3, <1>4, <1>5, <1>6, <1>7, <1>8, <1>9, <1>10, <1>11 DEF Stamp!Next

LEMMA OpensFollows == StampInv => Stamp!StampedFileOpens
BY DEF StampInv, StampTypes, AloneInv, Alone, Stamp!StampedFileOpens, Stamp!verify_file, Stored

LEMMA EarlierFollows == StampInv => Stamp!ValidMeansEarlier
<1> SUFFICES ASSUME StampInv, NEW f \in Files, NEW setting \in Stamp!Settings, Stamp!_on_ctx_verify_timestamp(f, setting),
                    NEW t \in Stamp!read_trailer(f)
             PROVE  /\ Stamp!Sound(t) /\ file[f].text <= t.token.before
                    /\ setting \in (SUBSET Anchors) \ {{}} => t.token.anchor \in setting
  BY DEF Stamp!ValidMeansEarlier
<1>1. /\ t.hashed = Stamp!Digest(file[f].text) /\ Stamp!verify_merkle_path(t)
      /\ Stamp!verify_token(t, Stamp!Expected(t), Stamp!der_listesi(setting))
  BY DEF Stamp!_on_ctx_verify_timestamp, Stamp!verify_timestamp, Stamp!read_trailer
<1>2. t \in Stamps
  <2>1. file[f].trailers # <<>> /\ t = Stamp!Last(file[f].trailers) /\ file[f].trailers \in Seq(Stamps)
    BY DEF Stamp!read_trailer, StampInv, StampTypes, Stored
  <2> QED BY <2>1 DEF Stamp!Last
<1>3. file[f].text \in Nat
  BY DEF StampInv, StampTypes, Stored
<1>4. file[f].text <= t.token.before
  <2>1. CASE t.path = {}
    BY <1>1, <1>2, <1>3, <2>1 DEF Stamps, Earlier, Stamp!verify_token, Stamp!Expected
  <2>2. CASE t.path # {}
    BY <1>1, <1>2, <1>3, <2>2 DEF Stamps, Earlier, Stamp!verify_merkle_path
  <2> QED BY <2>1, <2>2
<1>5. Stamp!Sound(t)
  BY <1>1 DEF Stamp!verify_token
<1>6. ASSUME setting \in (SUBSET Anchors) \ {{}} PROVE t.token.anchor \in setting
  BY <1>1, <1>6 DEF Stamp!verify_token, Stamp!der_listesi
<1> QED BY <1>4, <1>5, <1>6

-----------------------------------------------------------------------------
\* Whichever part runs, the stamps take their own steps only.
LEMMA StampInvariance == MCSpec => []StampInv
<1>1. MCInit => StampInv
  BY StampInit DEF MCInit
<1>2. [MCNext]_all => [Stamp!Next]_(Stamp!vars)
  BY DEF MCNext, all, stampVars, Stamp!vars
<1> QED BY <1>1, <1>2, StampStep, PTL DEF MCSpec

\* Wherever a call is cut short, a file that one call at a time had in hand opens and
\* has one trailer at most (timestamp.py: attach_trailer).
THEOREM FileStaysWhole == MCSpec => []StampedFileOpens
<1>1. StampInv => StampedFileOpens
  BY OpensFollows DEF StampedFileOpens
<1> QED BY <1>1, StampInvariance, PTL

\* A stamp that verifies is later than the text of the file, although files change
\* while the authority is asked and trailers change hands: of one file, and of a batch
\* of any size, the entry of the log among its leaves or not (timestamp.py:
\* verify_timestamp, merkle.py: verify_proof).
THEOREM StampIsTrue == MCSpec => []ValidMeansEarlier
<1>1. StampInv => ValidMeansEarlier
  BY EarlierFollows DEF ValidMeansEarlier
<1> QED BY <1>1, StampInvariance, PTL

\* The list grows by one payload at a time.
ListInv == payloads \in Seq(Payloads)

LEMMA ListsTyped == \A n : \A list \in Lists(n) : list \in Seq(Payloads) /\ list # <<>>
<1> SUFFICES ASSUME NEW n, NEW k \in 1..n, NEW list \in [1..k -> Payloads]
             PROVE  list \in Seq(Payloads) /\ list # <<>>
  BY Zenon DEF Lists
<1>1. k \in Nat /\ k # 0
  OBVIOUS
<1>2. list \in Seq(Payloads)
  BY <1>1, SeqDef
<1>3. Len(list) = k
  BY <1>1, <1>2
<1> QED BY <1>1, <1>2, <1>3

LEMMA SameLeaves ==
    ASSUME NEW S, NEW h \in Seq(S), NEW g \in Seq(S), h # <<>>, g # <<>>, Stamp!build_leaves(h) = Stamp!build_leaves(g)
    PROVE  h = g
<1>1. /\ Len(h) \in Nat \ {0} /\ Len(g) = Len(h)
      /\ \A i \in 1..Len(h) : Stamp!build_leaves(h)[i] = Stamp!leaf_hash(h[i])
      /\ \A i \in 1..Len(g) : Stamp!build_leaves(g)[i] = Stamp!leaf_hash(g[i])
  BY BuildLeaves
<1>2. \A i \in 1..Len(h) : h[i] = g[i]
  BY <1>1, LeafOne
<1> QED BY <1>1, <1>2

LEMMA ExactFollows == ListInv => ProofsExact
<1> SUFFICES ASSUME payloads \in Seq(Payloads), payloads # <<>>
             PROVE  /\ \A i \in DOMAIN payloads, t \in Payloads :
                         Stamp!verify_proof(Stamp!leaf_hash(t),
                             Stamp!proof(Stamp!build_tree(Stamp!build_leaves(payloads)), i - 1), Top(payloads)) <=> t = payloads[i]
                    /\ \A list \in Lists(MaxLeaves) : Top(list) = Top(payloads) => list = payloads
  BY Zenon DEF ListInv, ProofsExact
<1>1. PICK leaves : leaves = Stamp!build_leaves(payloads)
  OBVIOUS
<1>2. /\ Len(leaves) = Len(payloads) /\ Len(leaves) \in Nat \ {0} /\ Shape(leaves, 0)
      /\ \A i \in 1..Len(payloads) : leaves[i] = Stamp!leaf_hash(payloads[i])
  BY <1>1, BuildLeaves
<1>3. ASSUME NEW i \in DOMAIN payloads, NEW t \in Payloads
      PROVE  Stamp!verify_proof(Stamp!leaf_hash(t), Stamp!proof(Stamp!build_tree(leaves), i - 1), Top(payloads)) <=> t = payloads[i]
  <2>1. PICK index \in 0..Len(leaves) - 1 : index = i - 1 /\ index + 1 = i /\ i \in 1..Len(payloads)
    BY <1>2
  <2>2. Stamp!verify_proof(Stamp!leaf_hash(t), Stamp!proof(Stamp!build_tree(leaves), index), Stamp!root(Stamp!build_tree(leaves)))
          <=> Stamp!leaf_hash(t) = leaves[index + 1]
    BY <1>2, ProofExact
  <2>3. leaves[index + 1] = Stamp!leaf_hash(payloads[i])
    BY <1>2, <2>1
  <2>4. Top(payloads) = Stamp!root(Stamp!build_tree(leaves))
    BY <1>1 DEF Top
  <2> QED BY <2>1, <2>2, <2>3, <2>4, LeafOne
<1>4. ASSUME NEW list \in Lists(MaxLeaves), Top(list) = Top(payloads) PROVE list = payloads
  <2>1. list \in Seq(Payloads) /\ list # <<>>
    BY ListsTyped
  <2>2. Shape(Stamp!build_leaves(list), 0)
    BY <2>1, BuildLeaves
  <2>3. Stamp!root(Stamp!build_tree(Stamp!build_leaves(list))) = Stamp!root(Stamp!build_tree(leaves))
    BY <1>1, <1>4 DEF Top
  <2>4. Stamp!build_leaves(list) = leaves
    BY <1>2, <2>2, <2>3, RootOnce
  <2> QED BY <1>1, <2>1, <2>4, SameLeaves
<1> QED BY <1>1, <1>3, <1>4

\* Of a tree of any number of leaves, the proof of a leaf leads to the root for the
\* payload that is there and for no other; and two lists with one root are one list
\* (merkle.py: build_tree, proof, compute_root).
THEOREM ProofsAreExact == MCSpec => []ProofsExact
<1>1. MCInit => ListInv
  BY DEF MCInit, ListInv
<1>2. ListInv /\ [MCNext]_all => ListInv'
  BY DEF ListInv, MCNext, all
<1> QED BY <1>1, <1>2, ExactFollows, PTL DEF MCSpec
=============================================================================
