----------------------------- MODULE MCEvidence -----------------------------
(***************************************************************************)
(* What the application can show of the past, side by side: the chain of   *)
(* two processes, the chain of the three threads of one, the time stamps,  *)
(* and the trees of batches.  Each behaviour is one of them; they touch no *)
(* state of each other.                                                    *)
(***************************************************************************)
EXTENDS AuditChain, TLC

CONSTANTS
    p1, p2, m1, m2, w, x, c1, c2, cx,               \* processes, threads, connections
    AppProcs, AppConns, AppThreads, AppProcOf, AppConnOf, AppMainOf,
    Files, Calls, Anchors, Kinds, MaxBatch, MaxText, MaxTokens, MaxAltered,
    Mixes,                                          \* kinds of call one behaviour has
    Texts, MaxLeaves                                \* payloads of a tree, and their number

VARIABLES
    part, mix,
    threads_durable, threads_live, threads_writer, threads_mutex, threads_pc, threads_mine, threads_link, threads_proc,
    file, written, call, tmp, issued, altered, twice,
    payloads

\* Two processes of one thread each.
SoloThreads == {m1, m2}
SoloProcOf == m1 :> p1 @@ m2 :> p2
SoloConnOf == m1 :> c1 @@ m2 :> c2
SoloMainOf == p1 :> m1 @@ p2 :> m2

\* One process, three threads, two connections; its database has no chain yet.
OneProcOf == m1 :> p1 @@ w :> p1 @@ x :> p1
OneConnOf == m1 :> c1 @@ w :> c1 @@ x :> cx
OneMainOf == p1 :> m1
ASSUME AppAssumption ==
    /\ \A p, q \in AppProcs : p = q
    /\ AppProcOf \in [AppThreads -> AppProcs]
    /\ AppConnOf \in [AppThreads -> AppConns]
    /\ AppMainOf \in [AppProcs -> AppThreads]
    /\ None \notin AppThreads \cup AppConns

App == INSTANCE AuditChain WITH
    Procs <- AppProcs, Conns <- AppConns, Threads <- AppThreads,
    ProcOf <- AppProcOf, ConnOf <- AppConnOf, MainOf <- AppMainOf,
    Chained <- FALSE, Faults <- {},
    durable <- threads_durable, live <- threads_live, writer <- threads_writer, mutex <- threads_mutex,
    pc <- threads_pc, mine <- threads_mine, link <- threads_link, proc <- threads_proc
Stamp == INSTANCE Timestamp

\* A payload may be the digests of two others, one after the other.
Payloads == Texts \cup {<<Stamp!leaf_hash(t), Stamp!leaf_hash(u)>> : t, u \in Texts}
Lists(n) == UNION {[1..k -> Payloads] : k \in 1..n}
Top(list) == Stamp!root(Stamp!build_tree(Stamp!build_leaves(list)))

appVars == <<threads_durable, threads_live, threads_writer, threads_mutex, threads_pc, threads_mine, threads_link, threads_proc>>
stampVars == <<file, written, call, tmp, issued, altered, twice>>
all == <<part, mix, vars, appVars, stampVars, payloads>>

MCInit ==
    /\ part \in {"processes", "threads", "stamp", "tree"}
    /\ Init /\ (part # "processes" => Len(durable.rows) = 1)
    /\ App!Init /\ (part # "threads" => Len(threads_durable.rows) = 0)
    /\ Stamp!Init /\ mix \in Mixes
    /\ payloads = <<>>

MCNext ==
    \/ /\ part = "processes" /\ Next
       /\ UNCHANGED <<part, mix, appVars, stampVars, payloads>>
    \/ /\ part = "threads" /\ App!Next
       /\ UNCHANGED <<part, mix, vars, stampVars, payloads>>
    \/ /\ part = "stamp" /\ Stamp!Next
       /\ \A c \in Calls : call'[c].kind \in mix \/ call'[c].at = "off"
       /\ UNCHANGED <<part, mix, vars, appVars, payloads>>
    \/ /\ part = "tree" /\ Len(payloads) < MaxLeaves
       /\ \E t \in Payloads : payloads' = Append(payloads, t)
       /\ UNCHANGED <<part, mix, vars, appVars, stampVars>>

MCSpec == MCInit /\ [][MCNext]_all

Symmetry == Permutations(Files) \cup Permutations(Calls)
-----------------------------------------------------------------------------
\* Three threads of one process on two connections: the chain verifies when no
\* append is pending, and two entries are never chained to the same one.
ThreadsSound == part = "threads" => App!ChainSoundAtRest /\ App!NoFork

ValidMeansEarlier == part = "stamp" => Stamp!ValidMeansEarlier
StampedFileOpens == part = "stamp" => Stamp!StampedFileOpens

\* The proof of a leaf leads to the root for the payload that is there and for no
\* other, the joined digests of two leaves included; and two lists with one root
\* are one list, whatever their lengths.
ProofsExact == part = "tree" /\ payloads # <<>> =>
    LET tree == Stamp!build_tree(Stamp!build_leaves(payloads)) IN
    /\ \A i \in DOMAIN payloads, t \in Payloads :
        Stamp!verify_proof(Stamp!leaf_hash(t), Stamp!proof(tree, i - 1), Top(payloads)) <=> t = payloads[i]
    /\ \A list \in Lists(MaxLeaves) : Top(list) = Top(payloads) => list = payloads
=============================================================================
