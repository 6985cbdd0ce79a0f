--------------------------- MODULE MCInstallation ---------------------------
(***************************************************************************)
(* What an installation keeps, side by side: what a start migrates, the    *)
(* records of the key store, and the backups.  Each behaviour is one of    *)
(* them; they touch no state of each other.                                *)
(***************************************************************************)
EXTENDS Startup, FiniteSets

CONSTANTS
    a, b,                                                       \* tokens, and users of the key store
    Procs, Users, Probe, Values, Canary, Nothing, MaxClears,    \* the key store
    Files, Holders, Zero, MaxBackups, MaxVersion, Esik          \* the backups; Holders: the tokens that take them

\* _PROBE_USERNAME is the name of no secret; a buffer of zero bytes is no token's key.
ASSUME StoreAssumption == Probe \notin Users /\ MaxClears \in Nat
ASSUME BackupAssumption ==
    /\ Zero \notin Holders
    /\ MaxBackups \in Nat /\ MaxVersion \in Nat \ {0} /\ Esik \in Nat

VARIABLES
    part,
    windows, bare, comp, tpm, key, clears, life, durum, op, soiled,
    vault, rows, hwid, buffer, job, dirs, last, snoozed, restore

Secret == INSTANCE SecretStore
Back == INSTANCE Backup WITH Tokens <- Holders, key <- buffer

secretVars == <<windows, bare, comp, tpm, key, clears, life, durum, op, soiled>>
backupVars == <<vault, rows, hwid, buffer, job, dirs, last, snoozed, restore>>
all == <<part, vars, secretVars, backupVars>>

\* One of the states the parts that do not run may be in.
AtRest(p) ==
    /\ p # "start" => heir = a /\ built = MIGRATIONS /\ stamped = built /\ ~clash /\ version = 0
                      /\ (\A h \in Tokens : mac[h] = "share" /\ column[h] = "cleared") /\ file = "absent"
    /\ p # "secrets" => windows /\ tpm
    /\ p # "backup" => rows = Files

MCInit ==
    /\ part \in {"start", "secrets", "backup"}
    /\ Init /\ Secret!Init /\ Back!Init
    /\ AtRest(part)

MCNext ==
    \/ part = "start" /\ Next /\ UNCHANGED <<part, secretVars, backupVars>>
    \/ part = "secrets" /\ Secret!Next /\ UNCHANGED <<part, vars, backupVars>>
    \/ part = "backup" /\ Back!Next /\ UNCHANGED <<part, vars, secretVars>>

MCSpec == MCInit /\ [][MCNext]_all
-----------------------------------------------------------------------------
\* Every step of the key store is one its specification allows, or none of its
\* business: a call takes effect in one step or not at all (Secret!KeepsPromise,
\* asked of the part it is about).
KeepsPromise == Secret!KS!Init /\ [][part = "secrets" => [Secret!KS!Next]_(Secret!KS!vars)]_all
\* No copy is left of a record that was written again.
NoStaleCopy == part = "secrets" => Secret!NoStaleCopy
\* A backup that counts as taken has its manifest and its sealed metadata.
QuietMeansBackup == part = "backup" => Back!QuietMeansBackup
\* A restore brings back exactly the list that was sealed.
RestoredAsSealed == part = "backup" => Back!RestoredAsSealed
=============================================================================
