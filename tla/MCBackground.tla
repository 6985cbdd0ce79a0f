---------------------------- MODULE MCBackground ----------------------------
(***************************************************************************)
(* The work that goes on behind the window, side by side: the anchors of   *)
(* the audit log, the documents dropped on the table (two of one name),    *)
(* and the weekly sweep of a session whose token has the key of the token  *)
(* that encrypted the files.  Each behaviour is one of them; they touch no *)
(* state of each other.                                                    *)
(***************************************************************************)
EXTENDS AuditAnchor, TLC

CONSTANTS
    d1, d2, x,                                              \* documents, a path
    Docs, Paths, Path, Zero, Threads, Faults, MaxTotal,
    Files, Sticks, Session, SameKey, Owners,                \* the sweep
    FlushEvery, MinFiles, Spared, Week, MaxQuits

VARIABLES
    part,
    source, holder, key, present, asked, work, disk, row, verdict, total, done, told,
    stored, owner, status, age, todo, found, pending, sweeping, up, quits

ASSUME DocsAssumption == IsFiniteSet(Docs)

\* Both documents have the same name.
OneName == d1 :> x @@ d2 :> x

Import == INSTANCE Intake WITH hwid <- holder, plugged <- present

Sweep == INSTANCE IntegritySweep WITH
    Tokens <- Sticks, disk <- stored, row <- status, at <- sweeping

importVars == <<source, holder, key, present, asked, work, disk, row, verdict, total, done, told>>
sweepVars == <<stored, owner, status, age, todo, found, pending, sweeping, up, quits>>
all == <<part, vars, importVars, sweepVars>>

MCInit == part \in {"anchor", "intake", "sweep"} /\ Init /\ Import!Init /\ Sweep!Init

InAnchor(A) == part = "anchor" /\ A /\ UNCHANGED <<part, importVars, sweepVars>>
InIntake(A) == part = "intake" /\ A /\ UNCHANGED <<part, vars, sweepVars>>
InSweep(A) == part = "sweep" /\ A /\ UNCHANGED <<part, vars, importVars>>

MCNext == InAnchor(Next) \/ InIntake(Import!Next) \/ InSweep(Sweep!Next)

\* The fairness of each part, while it is the one that runs.
MCSpec ==
    /\ MCInit /\ [][MCNext]_all
    /\ \A d \in Docs : WF_all(InIntake(Import!Worker(d))) /\ WF_all(InIntake(Import!_on_file_done(d)))
    /\ WF_all(InIntake(Import!_on_batch_complete))
    /\ WF_all(InSweep(Sweep!_integrity_sweep)) /\ WF_all(InSweep(Sweep!sweep_integrity))
    /\ WF_all(InSweep(Sweep!report)) /\ WF_all(InSweep(Sweep!isaretle))
    /\ WF_all(InSweep(Sweep!Day)) /\ WF_all(InSweep(Sweep!start_scheduler))
-----------------------------------------------------------------------------
\* The banner of a batch comes to its end (main_window_table.py).
BatchEnds == part = "intake" => Import!BatchEnds
\* What a row says of a file catches up with the file (integrity.py).
VerdictCatchesUp == part = "sweep" => Sweep!VerdictCatchesUp
\* The message that a batch is done comes at its end (main_window_table.py).
ToldAtTheEnd == part = "intake" => Import!ToldAtTheEnd
\* The gate of the sweep closes on a finished one alone (scheduled_checks.py).
GateClosesOnVerdicts == Sweep!GateClosesOnVerdicts
=============================================================================
