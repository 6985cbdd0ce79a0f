---------------------------- MODULE SecretStore -----------------------------
(***************************************************************************)
(* The secrets of the application in the key store of the operating        *)
(* system (CORE/secret_store.py), sealed to the TPM where there is one     *)
(* (CORE/tpm_sealing.py).                                                  *)
(*                                                                         *)
(* On Windows the keyring library has one bare target for the service and  *)
(* one compound target per user name: a write goes to the bare target and  *)
(* moves whoever was there to his compound target, a read looks at the     *)
(* bare target first.  A name that is written again leaves its old copy    *)
(* behind.  Every call of the operating system is a step, and a process    *)
(* may die between two of them.  Other key stores keep one record a name.  *)
(***************************************************************************)
EXTENDS Naturals

CONSTANTS
    Procs,      \* processes that use the key store
    Users,      \* user names: share_2:<hwid>, totp_secret:<hwid>
    Probe,      \* _PROBE_USERNAME
    Values,     \* secrets
    Canary,     \* what the probe writes
    Nothing,    \* no record
    MaxClears   \* bound: how often the TPM is cleared

VARIABLES
    windows,    \* backend_name() = "WinVaultKeyring"
    bare,       \* the records of the bare target: none or one (not windows: none)
    comp,       \* the record of each compound target (not windows: of each name)
    tpm,        \* the TPM answers
    key,        \* the sealing key in the TPM: 0 before one is made
    clears,     \* how often the TPM was cleared
    life,       \* each process: "off", inside ensure_available(), or "on"
    durum,      \* TpmDurum.kullanilabilir, asked once per process
    op,         \* the call each process is in the middle of
    soiled      \* in this session a write ended before its clean-up was done

vars == <<windows, bare, comp, tpm, key, clears, life, durum, op, soiled>>
Store == <<windows, bare, comp>>
Chip == <<tpm, key, clears>>
Session == <<life, durum, soiled>>

Names == Users \cup {Probe}
Seals == 0..MaxClears + 1

\* A record: its owner, the secret, and the TPM key it is sealed with (0: unsealed).
Record == [user : Names, value : Values \cup {Canary}, seal : Seals]

Kinds == {"probe", "store", "reseal", "erase"}
Places == {"evict", "write", "verify", "shadow", "compound", "bare", "unprobe", "refuse"}
Op == [kind : Kinds, at : Places, new : Record]

TypeOK ==
    /\ windows \in BOOLEAN /\ tpm \in BOOLEAN
    /\ bare \subseteq Record /\ \A r, s \in bare : r = s
    /\ comp \in [Names -> SUBSET Record]
    /\ \A u \in Names : \A r, s \in comp[u] : r = s /\ r.user = u
    /\ key \in Seals /\ clears \in 0..MaxClears
    /\ life \in [Procs -> {"off", "start", "on"}]
    /\ durum \in [Procs -> BOOLEAN]
    /\ op \in [Procs -> SUBSET Op] /\ \A p \in Procs : \A c, d \in op[p] : c = d
    /\ soiled \in [Procs -> BOOLEAN]

Init ==
    /\ windows \in BOOLEAN
    /\ tpm \in BOOLEAN /\ (tpm => windows)
    /\ bare = {} /\ comp = [u \in Names |-> {}]
    /\ key = 0 /\ clears = 0
    /\ life = [p \in Procs |-> "off"]
    /\ durum = [p \in Procs |-> FALSE]
    /\ op = [p \in Procs |-> {}]
    /\ soiled = [p \in Procs |-> FALSE]

\* get_password(): the bare target if it is the user's, else the compound one.
BareOf(u) == {r \in bare : r.user = u}
get_password(u) == IF BareOf(u) # {} THEN BareOf(u) ELSE comp[u]

At(p, kinds, at) == {c \in op[p] : c.kind \in kinds /\ c.at = at}
Goto(p, c, at) == op' = [op EXCEPT ![p] = {[c EXCEPT !.at = at]}]
End(p) == op' = [op EXCEPT ![p] = {}]
Begin(p, kind, at, new) == op' = [op EXCEPT ![p] = {[kind |-> kind, at |-> at, new |-> new]}]
Free(p) == life[p] = "on" /\ op[p] = {}

(***************************************************************************)
(* tpm_sealing.py.                                                         *)
(***************************************************************************)
\* The key is opened, and made if there is none.
_anahtar_ac == IF key = 0 THEN clears + 1 ELSE key

\* muhurle(): the seals it can give; an error gives none.
muhurle == IF tpm THEN {_anahtar_ac} ELSE {}

\* belki_muhurle(): unsealed only where the process has found no TPM.
belki_muhurle(p) == IF durum[p] THEN muhurle ELSE {0}

\* belki_coz(): a sealed record opens with the key that sealed it, or raises.
belki_coz(p, r) == r.seal = 0 \/ (durum[p] /\ tpm /\ r.seal = _anahtar_ac)

\* Sealing, and the attempt to unseal, both make the key.
UseChip(p) == key' = IF durum[p] /\ tpm THEN _anahtar_ac ELSE key

(***************************************************************************)
(* The calls of the application.                                           *)
(***************************************************************************)
ensure_available(p) ==
    /\ life[p] = "off"
    /\ life' = [life EXCEPT ![p] = "start"]
    /\ Begin(p, "probe", "evict", [user |-> Probe, value |-> Canary, seal |-> 0])
    /\ UNCHANGED <<Store, Chip, durum, soiled>>

\* Sealed first: if that raises, nothing is written.
store(p) ==
    /\ Free(p)
    /\ \E u \in Users, v \in Values, s \in belki_muhurle(p) :
        Begin(p, "store", "evict", [user |-> u, value |-> v, seal |-> s])
    /\ UseChip(p)
    /\ UNCHANGED <<Store, tpm, clears, Session>>

\* A sealed record is opened, or raises; an unsealed one is sealed on the spot if
\* the TPM lets it.
load(p) ==
    /\ Free(p)
    /\ \E u \in Users : \E r \in get_password(u) :
        IF r.seal = 0 /\ durum[p] /\ tpm
        THEN \E s \in belki_muhurle(p) : Begin(p, "reseal", "evict", [r EXCEPT !.seal = s])
        ELSE UNCHANGED op
    /\ UseChip(p)
    /\ UNCHANGED <<Store, tpm, clears, Session>>

erase(p) ==
    /\ Free(p)
    /\ \E u \in Users :
        Begin(p, "erase", IF windows THEN "compound" ELSE "bare", [user |-> u, value |-> Canary, seal |-> 0])
    /\ UNCHANGED <<Store, Chip, Session>>

(***************************************************************************)
(* set_password().                                                         *)
(***************************************************************************)
Writes == {"probe", "store", "reseal"}

Evict(p) == \E c \in At(p, Writes, "evict") :
    /\ comp' = [u \in Names |-> IF u # c.new.user /\ BareOf(u) # {} THEN BareOf(u) ELSE comp[u]]
    /\ Goto(p, c, "write")
    /\ UNCHANGED <<windows, bare, Chip, Session>>

Write(p) == \E c \in At(p, Writes, "write") :
    /\ IF windows THEN bare' = {c.new} /\ UNCHANGED comp
       ELSE comp' = [comp EXCEPT ![c.new.user] = {c.new}] /\ UNCHANGED bare
    /\ Goto(p, c, IF c.kind = "probe" THEN "unprobe" ELSE "verify")
    /\ UNCHANGED <<windows, Chip, Session>>

\* A call of the operating system raises, or reads back something else.
WriteFails(p) == \E c \in op[p] :
    /\ c.at \in {"evict", "write", "verify"} \/ (c.kind = "probe" /\ c.at = "unprobe")
    /\ IF c.kind = "probe" THEN Goto(p, c, "refuse") ELSE End(p)
    /\ soiled' = [soiled EXCEPT ![p] = @ \/ c.at = "verify"]
    /\ UNCHANGED <<Store, Chip, life, durum>>

\* store() opens what it reads back, _reseal_firsatci() compares the record.
Verify(p) == \E c \in At(p, {"store", "reseal"}, "verify") :
    /\ get_password(c.new.user) = {c.new}
    /\ c.kind = "store" => belki_coz(p, c.new)
    /\ Goto(p, c, "shadow")
    /\ UNCHANGED <<Store, Chip, Session>>

\* Mutant: the old copy stays behind.
LeaveShadow(p) == \E c \in At(p, {"store", "reseal"}, "shadow") :
    /\ End(p)
    /\ UNCHANGED <<Store, Chip, Session>>
\* The compound copy of the name just written is an old one; a failure is logged.
_windows_golge_sil(p) == \E c \in At(p, {"store", "reseal"}, "shadow") :
    /\ \/ comp' = (IF windows THEN [comp EXCEPT ![c.new.user] = {}] ELSE comp) /\ UNCHANGED soiled
       \/ windows /\ UNCHANGED comp /\ soiled' = [soiled EXCEPT ![p] = TRUE]
    /\ End(p)
    /\ UNCHANGED <<windows, bare, Chip, life, durum>>

\* The probe is deleted whether the round trip held or not, and a failure of that
\* is passed over; then the process goes on, and asks for the TPM, or refuses.
DeleteProbe(p) == \E c \in At(p, {"probe"}, "unprobe") \cup At(p, {"probe"}, "refuse") :
    /\ \/ bare' = bare \ BareOf(Probe) /\ comp' = [comp EXCEPT ![Probe] = {}]
       \/ UNCHANGED <<bare, comp>>
    /\ life' = [life EXCEPT ![p] = IF c.at = "unprobe" THEN "on" ELSE "off"]
    /\ durum' = [durum EXCEPT ![p] = c.at = "unprobe" /\ tpm]
    /\ End(p)
    /\ UNCHANGED <<windows, Chip, soiled>>

(***************************************************************************)
(* _windows_erase(): each target is read, deleted and read again.          *)
(***************************************************************************)
\* Mutant: the order of the library, the bare target first.
LibraryOrder(p) == \E c \in At(p, {"erase"}, "compound") :
    /\ bare' = bare \ BareOf(c.new.user)
    /\ Goto(p, c, "bare")
    /\ UNCHANGED <<windows, comp, Chip, Session>>
EraseCompound(p) == \E c \in At(p, {"erase"}, "compound") :
    /\ comp' = [comp EXCEPT ![c.new.user] = {}]
    /\ Goto(p, c, "bare")
    /\ UNCHANGED <<windows, bare, Chip, Session>>

EraseBare(p) == \E c \in At(p, {"erase"}, "bare") :
    /\ IF windows THEN bare' = bare \ BareOf(c.new.user) /\ UNCHANGED comp
       ELSE comp' = [comp EXCEPT ![c.new.user] = {}] /\ UNCHANGED bare
    /\ End(p)
    /\ UNCHANGED <<windows, Chip, Session>>

\* Three attempts were not enough, or a target could not be read.
EraseFails(p) == \E c \in At(p, {"erase"}, "compound") \cup At(p, {"erase"}, "bare") :
    /\ End(p)
    /\ UNCHANGED <<Store, Chip, Session>>

(***************************************************************************)
(* The machine.                                                            *)
(***************************************************************************)
\* The process ends, between two calls or in the middle of one.
Stop(p) ==
    /\ life[p] # "off"
    /\ life' = [life EXCEPT ![p] = "off"]
    /\ durum' = [durum EXCEPT ![p] = FALSE]
    /\ soiled' = [soiled EXCEPT ![p] = FALSE]
    /\ End(p)
    /\ UNCHANGED <<Store, Chip>>

TpmChanges ==
    /\ windows /\ tpm' = ~tpm
    /\ UNCHANGED <<Store, key, clears, Session, op>>

\* "Clear TPM", or another mainboard.
TpmCleared ==
    /\ key # 0 /\ clears < MaxClears
    /\ clears' = clears + 1 /\ key' = 0
    /\ UNCHANGED <<Store, tpm, Session, op>>

Next ==
    \/ \E p \in Procs :
        \/ ensure_available(p) \/ store(p) \/ load(p) \/ erase(p)
        \/ Evict(p) \/ Write(p) \/ WriteFails(p) \/ Verify(p) \/ _windows_golge_sil(p) \/ DeleteProbe(p)
        \/ EraseCompound(p) \/ EraseBare(p) \/ EraseFails(p) \/ Stop(p)
    \/ TpmChanges \/ TpmCleared

Spec == Init /\ [][Next]_vars

(***************************************************************************)
(* Properties.                                                             *)
(***************************************************************************)
Value(u) == IF get_password(u) = {} THEN Nothing ELSE (CHOOSE r \in get_password(u) : TRUE).value
Pending(p) ==
    {[kind |-> "store", user |-> c.new.user, value |-> c.new.value] : c \in {d \in op[p] : d.kind = "store"}}
    \cup {[kind |-> "erase", user |-> c.new.user] : c \in {d \in op[p] : d.kind = "erase"}}

\* Each call takes effect in one step, or not at all, and only on its own record:
\* a reseal, the probe and an erase that is cut short never bring an older value
\* back and never lose one (secret_store.py, BACKLOG B-070).
KS == INSTANCE KeyStore WITH val <- [u \in Users |-> Value(u)], todo <- [p \in Procs |-> Pending(p)]
KeepsPromise == KS!Spec

\* Between two calls of a session no copy is left of a record that was written
\* again, such as the unsealed copy of a secret now sealed: the writes clean up
\* after themselves and the probe of each start after a write that was cut short.
NoStaleCopy == \A p \in Procs : Free(p) /\ ~soiled[p] => \A u \in Users : BareOf(u) # {} => comp[u] \in {{}, BareOf(u)}
=============================================================================
