------------------------- MODULE InstallationProofs -------------------------
(***************************************************************************)
(* Proofs about the parts of MCInstallation, and so about the composition. *)
(*                                                                         *)
(* Startup: for any number of tokens, any installation it finds and any    *)
(* number of starts cut short, no secret is lost and a login finds every   *)
(* migration finished.                                                     *)
(*                                                                         *)
(* SecretStore: each call on the key store takes effect in one step or not *)
(* at all (KeyStore), and no stale copy of a record is left behind.        *)
(*                                                                         *)
(* Backup: what counts as a backup has its manifest and its sealed list,   *)
(* and a restore brings back exactly that list.                            *)
(***************************************************************************)
EXTENDS MCInstallation, TLAPS

(***************************************************************************)
(* The start.                                                              *)
(***************************************************************************)
\* Where main() is once the schema is up to date.
Past == {"tidy", "version"} \cup Moving \cup {"login", "session"}

\* What is stamped was built; the row that waits for its stamp is the first one due.
SchemaInv ==
    /\ stamped \subseteq built
    /\ 23 \in built => ~clash
    /\ at = "temel" => TEMEL_SURUM \in built
    /\ at = "damga" => \A n \in MIGRATIONS : Due(n) => n \in built
    /\ at \in Past => bekleyenler = {}

\* Each step of the move runs at the version the step before it has set.
VersionInv ==
    /\ at \in {"share", "blot", "blank", "purge", "stamp1"} => version = 0
    /\ at \in {"totp", "adopt", "scramble", "empty", "unlink", "stamp2"} => version = 1
    /\ at \in {"inherit", "drop", "stamp3"} => version = 2
    /\ at = "sign" => version = 3
    /\ at \in {"login", "session"} => version = 4

\* The key store has the share, or nothing, and then the column has it; a column is
\* overwritten when the key store has it, and what is not blank is still to do.
ShareInv ==
    /\ \A h \in Tokens : ring[h] = "right" \/ (ring[h] = "none" /\ column[h] = "right")
    /\ at \in {"blot", "blank"} => row \in todo /\ ring[row] = "right"
    /\ at \in {"share", "blot", "blank"} => \A h \in Tokens : column[h] # "cleared" => h \in todo
    /\ at \in {"purge", "stamp1"} \/ version >= 1 => \A h \in Tokens : column[h] = "cleared"

\* The old file is shredded when the key store has the code; the shared name is
\* erased when the heir has it.
CodeInv ==
    /\ at \in {"scramble", "empty", "unlink"} => global = "code"
    /\ at = "drop" /\ heir # NoToken => codes[heir] = "code"
    /\ at = "stamp2" \/ version >= 2 => file = "absent"
    /\ at = "stamp3" \/ version >= 3 => global = "none"

\* A vault under the old key is still to do.
SignInv ==
    /\ at = "sign" => \A h \in Tokens : mac[h] = "legacy" => h \in todo
    /\ version >= 4 => \A h \in Tokens : mac[h] # "legacy"

\* Old pages are there only while a start is on its way to the VACUUM.
PageInv ==
    crashes = 0 /\ pages # {} => at \in {"blot", "blank", "purge"} \/ (at = "share" /\ todo # {})

\* The inductive invariant.
IInv == TypeOK /\ SchemaInv /\ VersionInv /\ ShareInv /\ CodeInv /\ SignInv /\ PageInv

\* The steps before and after the move.
Early ==
    \/ main \/ connect \/ _apply_schema \/ _temeli_damgala \/ senkronize \/ _damgala \/ Migrated
    \/ Tidy \/ Login \/ GatesFail \/ Quit \/ Crash \/ ResolveClash

\* A step belongs to the start, asks for the version, or is part of the move.
LEMMA NextCases == Next <=> Early \/ run_migrations \/ Move
  BY DEF Next, Start, Early

\* A step keeps the types.
LEMMA TypeStep == ASSUME TypeOK, ShareInv, Next PROVE TypeOK'
<1> USE StartAssumption DEF TypeOK, Step, schema, shares, totp, MIGRATIONS, TEMEL_SURUM, CURRENT_SCHEMA_VERSION, Places, Moving
<1>1. CASE main
  BY <1>1 DEF main
<1>2. CASE GatesFail
  BY <1>2 DEF GatesFail
<1>3. CASE connect
  BY <1>3 DEF connect
<1>4. CASE _apply_schema
  BY <1>4 DEF _apply_schema
<1>5. CASE _temeli_damgala
  BY <1>5 DEF _temeli_damgala
<1>6. CASE senkronize
  BY <1>6 DEF senkronize, Migration
<1>7. CASE _damgala
  BY <1>7 DEF _damgala
<1>8. CASE Migrated
  BY <1>8 DEF Migrated
<1>9. CASE Tidy
  BY <1>9 DEF Tidy
<1>10. CASE Login
  BY <1>10 DEF Login
<1>11. CASE Quit
  BY <1>11 DEF Quit
<1>12. CASE Crash
  BY <1>12 DEF Crash
<1>13. CASE ResolveClash
  BY <1>13 DEF ResolveClash
<1>14. CASE run_migrations
  BY <1>14 DEF run_migrations
<1>15. CASE overwrite_text_column
  BY <1>15 DEF overwrite_text_column, ShareInv
<1>16. CASE BlankColumn
  BY <1>16 DEF BlankColumn
<1>17. CASE purge_sqlite_residue
  BY <1>17 DEF purge_sqlite_residue
<1>18. CASE NoRows
  BY <1>18 DEF NoRows
<1>19. CASE migrate_totp_secret
  BY <1>19 DEF migrate_totp_secret
<1>20. CASE AdoptCode
  BY <1>20 DEF AdoptCode
<1>21. CASE shred_file
  BY <1>21 DEF shred_file, Shred
<1>22. CASE migrate_totp_to_per_hwid
  BY <1>22 DEF migrate_totp_to_per_hwid
<1>23. CASE EraseGlobal
  BY <1>23 DEF EraseGlobal
<1>24. ASSUME NEW h \in Tokens, migrate_share_2(h) PROVE TypeOK'
  BY <1>24 DEF migrate_share_2, ShareInv
<1>25. ASSUME NEW h \in Tokens, migrate_vault_hmac(h) PROVE TypeOK'
  BY <1>25 DEF migrate_vault_hmac, migrate_vault_hmac_to_share2
<1>26. CASE set_schema_version(1, "stamp1", "totp")
  BY <1>26 DEF set_schema_version
<1>27. CASE set_schema_version(2, "stamp2", "inherit")
  BY <1>27 DEF set_schema_version
<1>28. CASE set_schema_version(3, "stamp3", "sign")
  BY <1>28 DEF set_schema_version
<1>29. CASE todo = {} /\ set_schema_version(4, "sign", "login")
  BY <1>29 DEF set_schema_version
<1> QED BY <1>1, <1>2, <1>3, <1>4, <1>5, <1>6, <1>7, <1>8, <1>9, <1>10, <1>11, <1>12, <1>13, <1>14, <1>15, <1>16, <1>17, <1>18, <1>19, <1>20, <1>21, <1>22, <1>23, <1>24, <1>25, <1>26, <1>27, <1>28, <1>29 DEF Next, Start, Move

\* Outside of the move a step touches no secret, and does not come to a login from elsewhere.
LEMMA EarlyFrame == ASSUME TypeOK, Early
  PROVE  /\ UNCHANGED <<version, shares, totp, mac, heir>>
         /\ at' \notin Moving
         /\ at' \in {"login", "session"} => at \in {"login", "session"}
         /\ crashes' = 0 => crashes = 0 /\ at \notin Moving
<1> USE StartAssumption DEF TypeOK, Step, shares, totp, Moving
<1>1. CASE main
  BY <1>1 DEF main
<1>2. CASE GatesFail
  BY <1>2 DEF GatesFail
<1>3. CASE connect
  BY <1>3 DEF connect
<1>4. CASE _apply_schema
  BY <1>4 DEF _apply_schema
<1>5. CASE _temeli_damgala
  BY <1>5 DEF _temeli_damgala
<1>6. CASE senkronize
  BY <1>6 DEF senkronize, Migration
<1>7. CASE _damgala
  BY <1>7 DEF _damgala
<1>8. CASE Migrated
  BY <1>8 DEF Migrated
<1>9. CASE Tidy
  BY <1>9 DEF Tidy
<1>10. CASE Login
  BY <1>10 DEF Login
<1>11. CASE Quit
  BY <1>11 DEF Quit
<1>12. CASE Crash
  BY <1>12 DEF Crash
<1>13. CASE ResolveClash
  BY <1>13 DEF ResolveClash
<1> QED BY <1>1, <1>2, <1>3, <1>4, <1>5, <1>6, <1>7, <1>8, <1>9, <1>10, <1>11, <1>12, <1>13 DEF Early

\* A step of the move touches no schema, and ends in the move, at the login or refused.
LEMMA MoveFrame == ASSUME TypeOK, Move
  PROVE  /\ UNCHANGED <<schema, clash, crashes, heir>>
         /\ at \in Moving /\ at' \in Moving \cup {"login", "refused"}
<1> USE DEF TypeOK, Step, shares, totp, Moving
<1>1. CASE overwrite_text_column
  BY <1>1 DEF overwrite_text_column
<1>2. CASE BlankColumn
  BY <1>2 DEF BlankColumn
<1>3. CASE purge_sqlite_residue
  BY <1>3 DEF purge_sqlite_residue
<1>4. CASE NoRows
  BY <1>4 DEF NoRows
<1>5. CASE migrate_totp_secret
  BY <1>5 DEF migrate_totp_secret
<1>6. CASE AdoptCode
  BY <1>6 DEF AdoptCode
<1>7. CASE shred_file
  BY <1>7 DEF shred_file, Shred
<1>8. CASE migrate_totp_to_per_hwid
  BY <1>8 DEF migrate_totp_to_per_hwid
<1>9. CASE EraseGlobal
  BY <1>9 DEF EraseGlobal
<1>10. ASSUME NEW h \in Tokens, migrate_share_2(h) PROVE /\ UNCHANGED <<schema, clash, crashes, heir>> /\ at \in Moving /\ at' \in Moving \cup {"login", "refused"}
  BY <1>10 DEF migrate_share_2
<1>11. ASSUME NEW h \in Tokens, migrate_vault_hmac(h) PROVE /\ UNCHANGED <<schema, clash, crashes, heir>> /\ at \in Moving /\ at' \in Moving \cup {"login", "refused"}
  BY <1>11 DEF migrate_vault_hmac, migrate_vault_hmac_to_share2
<1>12. CASE set_schema_version(1, "stamp1", "totp")
  BY <1>12 DEF set_schema_version
<1>13. CASE set_schema_version(2, "stamp2", "inherit")
  BY <1>13 DEF set_schema_version
<1>14. CASE set_schema_version(3, "stamp3", "sign")
  BY <1>14 DEF set_schema_version
<1>15. CASE todo = {} /\ set_schema_version(4, "sign", "login")
  BY <1>15 DEF set_schema_version
<1> QED BY <1>1, <1>2, <1>3, <1>4, <1>5, <1>6, <1>7, <1>8, <1>9, <1>10, <1>11, <1>12, <1>13, <1>14, <1>15 DEF Move

\* One lemma for each part of the invariant: a step keeps it.
LEMMA VersionStep == ASSUME TypeOK, VersionInv, Next PROVE VersionInv'
<1> USE DEF VersionInv, Step, TypeOK, CURRENT_SCHEMA_VERSION, Moving
<1>1. CASE Early
  BY <1>1, EarlyFrame
<1>2. CASE run_migrations
  BY <1>2 DEF run_migrations
<1>3. CASE Move
  <2>1. CASE overwrite_text_column
    BY <2>1 DEF overwrite_text_column
  <2>2. CASE BlankColumn
    BY <2>2 DEF BlankColumn
  <2>3. CASE purge_sqlite_residue
    BY <2>3 DEF purge_sqlite_residue
  <2>4. CASE NoRows
    BY <2>4 DEF NoRows
  <2>5. CASE migrate_totp_secret
    BY <2>5 DEF migrate_totp_secret
  <2>6. CASE AdoptCode
    BY <2>6 DEF AdoptCode
  <2>7. CASE shred_file
    BY <2>7 DEF shred_file, Shred
  <2>8. CASE migrate_totp_to_per_hwid
    BY <2>8 DEF migrate_totp_to_per_hwid
  <2>9. CASE EraseGlobal
    BY <2>9 DEF EraseGlobal
  <2>10. ASSUME NEW h \in Tokens, migrate_share_2(h) PROVE VersionInv'
    BY <2>10 DEF migrate_share_2
  <2>11. ASSUME NEW h \in Tokens, migrate_vault_hmac(h) PROVE VersionInv'
    BY <2>11 DEF migrate_vault_hmac, migrate_vault_hmac_to_share2
  <2>12. CASE set_schema_version(1, "stamp1", "totp")
    BY <2>12 DEF set_schema_version
  <2>13. CASE set_schema_version(2, "stamp2", "inherit")
    BY <2>13 DEF set_schema_version
  <2>14. CASE set_schema_version(3, "stamp3", "sign")
    BY <2>14 DEF set_schema_version
  <2>15. CASE todo = {} /\ set_schema_version(4, "sign", "login")
    BY <2>15 DEF set_schema_version
  <2> QED BY <1>3, <2>1, <2>2, <2>3, <2>4, <2>5, <2>6, <2>7, <2>8, <2>9, <2>10, <2>11, <2>12, <2>13, <2>14, <2>15 DEF Move
<1> QED BY <1>1, <1>2, <1>3, NextCases

\* The share is in the key store before its column is overwritten.
LEMMA ShareStep == ASSUME TypeOK, VersionInv, ShareInv, Next PROVE ShareInv'
<1> USE DEF ShareInv, VersionInv, Step, TypeOK, shares, Moving, CURRENT_SCHEMA_VERSION
<1>1. CASE Early
  BY <1>1, EarlyFrame
<1>2. CASE run_migrations
  BY <1>2 DEF run_migrations
<1>3. CASE Move
  <2>1. CASE overwrite_text_column
    BY <2>1 DEF overwrite_text_column
  <2>2. CASE BlankColumn
    BY <2>2 DEF BlankColumn
  <2>3. CASE purge_sqlite_residue
    BY <2>3 DEF purge_sqlite_residue
  <2>4. CASE NoRows
    BY <2>4 DEF NoRows
  <2>5. CASE migrate_totp_secret
    BY <2>5 DEF migrate_totp_secret
  <2>6. CASE AdoptCode
    BY <2>6 DEF AdoptCode
  <2>7. CASE shred_file
    BY <2>7 DEF shred_file, Shred
  <2>8. CASE migrate_totp_to_per_hwid
    BY <2>8 DEF migrate_totp_to_per_hwid
  <2>9. CASE EraseGlobal
    BY <2>9 DEF EraseGlobal
  <2>10. ASSUME NEW h \in Tokens, migrate_share_2(h) PROVE ShareInv'
    BY <2>10 DEF migrate_share_2
  <2>11. ASSUME NEW h \in Tokens, migrate_vault_hmac(h) PROVE ShareInv'
    BY <2>11 DEF migrate_vault_hmac, migrate_vault_hmac_to_share2
  <2>12. CASE set_schema_version(1, "stamp1", "totp")
    BY <2>12 DEF set_schema_version
  <2>13. CASE set_schema_version(2, "stamp2", "inherit")
    BY <2>13 DEF set_schema_version
  <2>14. CASE set_schema_version(3, "stamp3", "sign")
    BY <2>14 DEF set_schema_version
  <2>15. CASE todo = {} /\ set_schema_version(4, "sign", "login")
    BY <2>15 DEF set_schema_version
  <2> QED BY <1>3, <2>1, <2>2, <2>3, <2>4, <2>5, <2>6, <2>7, <2>8, <2>9, <2>10, <2>11, <2>12, <2>13, <2>14, <2>15 DEF Move
<1> QED BY <1>1, <1>2, <1>3, NextCases

\* The one-time secret is in the key store before its file, or its shared name, goes.
LEMMA CodeStep == ASSUME TypeOK, VersionInv, CodeInv, Next PROVE CodeInv'
<1> USE DEF CodeInv, VersionInv, Step, TypeOK, totp, Moving, CURRENT_SCHEMA_VERSION
<1>1. CASE Early
  BY <1>1, EarlyFrame
<1>2. CASE run_migrations
  BY <1>2 DEF run_migrations
<1>3. CASE Move
  <2>1. CASE overwrite_text_column
    BY <2>1 DEF overwrite_text_column
  <2>2. CASE BlankColumn
    BY <2>2 DEF BlankColumn
  <2>3. CASE purge_sqlite_residue
    BY <2>3 DEF purge_sqlite_residue
  <2>4. CASE NoRows
    BY <2>4 DEF NoRows
  <2>5. CASE migrate_totp_secret
    BY <2>5 DEF migrate_totp_secret
  <2>6. CASE AdoptCode
    BY <2>6 DEF AdoptCode
  <2>7. CASE shred_file
    BY <2>7 DEF shred_file, Shred
  <2>8. CASE migrate_totp_to_per_hwid
    BY <2>8 DEF migrate_totp_to_per_hwid
  <2>9. CASE EraseGlobal
    BY <2>9 DEF EraseGlobal
  <2>10. ASSUME NEW h \in Tokens, migrate_share_2(h) PROVE CodeInv'
    BY <2>10 DEF migrate_share_2
  <2>11. ASSUME NEW h \in Tokens, migrate_vault_hmac(h) PROVE CodeInv'
    BY <2>11 DEF migrate_vault_hmac, migrate_vault_hmac_to_share2
  <2>12. CASE set_schema_version(1, "stamp1", "totp")
    BY <2>12 DEF set_schema_version
  <2>13. CASE set_schema_version(2, "stamp2", "inherit")
    BY <2>13 DEF set_schema_version
  <2>14. CASE set_schema_version(3, "stamp3", "sign")
    BY <2>14 DEF set_schema_version
  <2>15. CASE todo = {} /\ set_schema_version(4, "sign", "login")
    BY <2>15 DEF set_schema_version
  <2> QED BY <1>3, <2>1, <2>2, <2>3, <2>4, <2>5, <2>6, <2>7, <2>8, <2>9, <2>10, <2>11, <2>12, <2>13, <2>14, <2>15 DEF Move
<1> QED BY <1>1, <1>2, <1>3, NextCases

\* A vault is signed again, or still to do.
LEMMA SignStep == ASSUME TypeOK, VersionInv, ShareInv, SignInv, Next PROVE SignInv'
<1> USE DEF SignInv, ShareInv, VersionInv, Step, TypeOK, shares, Moving, CURRENT_SCHEMA_VERSION
<1>1. CASE Early
  BY <1>1, EarlyFrame
<1>2. CASE run_migrations
  BY <1>2 DEF run_migrations
<1>3. CASE Move
  <2>1. CASE overwrite_text_column
    BY <2>1 DEF overwrite_text_column
  <2>2. CASE BlankColumn
    BY <2>2 DEF BlankColumn
  <2>3. CASE purge_sqlite_residue
    BY <2>3 DEF purge_sqlite_residue
  <2>4. CASE NoRows
    BY <2>4 DEF NoRows
  <2>5. CASE migrate_totp_secret
    BY <2>5 DEF migrate_totp_secret
  <2>6. CASE AdoptCode
    BY <2>6 DEF AdoptCode
  <2>7. CASE shred_file
    BY <2>7 DEF shred_file, Shred
  <2>8. CASE migrate_totp_to_per_hwid
    BY <2>8 DEF migrate_totp_to_per_hwid
  <2>9. CASE EraseGlobal
    BY <2>9 DEF EraseGlobal
  <2>10. ASSUME NEW h \in Tokens, migrate_share_2(h) PROVE SignInv'
    BY <2>10 DEF migrate_share_2
  <2>11. ASSUME NEW h \in Tokens, migrate_vault_hmac(h) PROVE SignInv'
    BY <2>11 DEF migrate_vault_hmac, migrate_vault_hmac_to_share2
  <2>12. CASE set_schema_version(1, "stamp1", "totp")
    BY <2>12 DEF set_schema_version
  <2>13. CASE set_schema_version(2, "stamp2", "inherit")
    BY <2>13 DEF set_schema_version
  <2>14. CASE set_schema_version(3, "stamp3", "sign")
    BY <2>14 DEF set_schema_version
  <2>15. CASE todo = {} /\ set_schema_version(4, "sign", "login")
    BY <2>15 DEF set_schema_version
  <2> QED BY <1>3, <2>1, <2>2, <2>3, <2>4, <2>5, <2>6, <2>7, <2>8, <2>9, <2>10, <2>11, <2>12, <2>13, <2>14, <2>15 DEF Move
<1> QED BY <1>1, <1>2, <1>3, NextCases

\* The VACUUM comes before the stamp.
LEMMA PageStep == ASSUME TypeOK, PageInv, Next PROVE PageInv'
<1> USE DEF PageInv, Step, TypeOK, shares, Moving
<1>1. CASE Early
  BY <1>1, EarlyFrame
<1>2. CASE run_migrations
  BY <1>2 DEF run_migrations
<1>3. CASE Move
  <2>1. CASE overwrite_text_column
    BY <2>1 DEF overwrite_text_column
  <2>2. CASE BlankColumn
    BY <2>2 DEF BlankColumn
  <2>3. CASE purge_sqlite_residue
    BY <2>3 DEF purge_sqlite_residue
  <2>4. CASE NoRows
    BY <2>4 DEF NoRows
  <2>5. CASE migrate_totp_secret
    BY <2>5 DEF migrate_totp_secret
  <2>6. CASE AdoptCode
    BY <2>6 DEF AdoptCode
  <2>7. CASE shred_file
    BY <2>7 DEF shred_file, Shred
  <2>8. CASE migrate_totp_to_per_hwid
    BY <2>8 DEF migrate_totp_to_per_hwid
  <2>9. CASE EraseGlobal
    BY <2>9 DEF EraseGlobal
  <2>10. ASSUME NEW h \in Tokens, migrate_share_2(h) PROVE PageInv'
    BY <2>10 DEF migrate_share_2
  <2>11. ASSUME NEW h \in Tokens, migrate_vault_hmac(h) PROVE PageInv'
    BY <2>11 DEF migrate_vault_hmac, migrate_vault_hmac_to_share2
  <2>12. CASE set_schema_version(1, "stamp1", "totp")
    BY <2>12 DEF set_schema_version
  <2>13. CASE set_schema_version(2, "stamp2", "inherit")
    BY <2>13 DEF set_schema_version
  <2>14. CASE set_schema_version(3, "stamp3", "sign")
    BY <2>14 DEF set_schema_version
  <2>15. CASE todo = {} /\ set_schema_version(4, "sign", "login")
    BY <2>15 DEF set_schema_version
  <2> QED BY <1>3, <2>1, <2>2, <2>3, <2>4, <2>5, <2>6, <2>7, <2>8, <2>9, <2>10, <2>11, <2>12, <2>13, <2>14, <2>15 DEF Move
<1> QED BY <1>1, <1>2, <1>3, NextCases

\* What is stamped was built.
LEMMA SchemaStep == ASSUME TypeOK, SchemaInv, Next PROVE SchemaInv'
<1> USE DEF SchemaInv, Step, TypeOK, schema, Past, Moving, bekleyenler, Due
<1>1. CASE Early
  <2>1. CASE main
    BY <2>1 DEF main
  <2>2. CASE GatesFail
    BY <2>2 DEF GatesFail
  <2>3. CASE connect
    BY <2>3 DEF connect
  <2>4. CASE _apply_schema
    BY <2>4 DEF _apply_schema, MIGRATIONS, TEMEL_SURUM
  <2>5. CASE _temeli_damgala
    BY <2>5 DEF _temeli_damgala
  <2>6. CASE senkronize
    BY <2>6 DEF senkronize, Migration, MIGRATIONS, TEMEL_SURUM
  <2>7. CASE _damgala
    BY <2>7 DEF _damgala
  <2>8. CASE Migrated
    BY <2>8 DEF Migrated
  <2>9. CASE Tidy
    BY <2>9 DEF Tidy
  <2>10. CASE Login
    BY <2>10 DEF Login
  <2>11. CASE Quit
    BY <2>11 DEF Quit
  <2>12. CASE Crash
    BY <2>12 DEF Crash
  <2>13. CASE ResolveClash
    BY <2>13 DEF ResolveClash
  <2> QED BY <1>1, <2>1, <2>2, <2>3, <2>4, <2>5, <2>6, <2>7, <2>8, <2>9, <2>10, <2>11, <2>12, <2>13 DEF Early
<1>2. CASE run_migrations
  BY <1>2 DEF run_migrations
<1>3. CASE Move
  BY <1>3, MoveFrame
<1> QED BY <1>1, <1>2, <1>3, NextCases

\* The invariant is inductive.
LEMMA Inductive == IInv /\ [Next]_vars => IInv'
<1> SUFFICES ASSUME IInv, [Next]_vars PROVE IInv'
  OBVIOUS
<1>1. CASE Next
  BY <1>1, TypeStep, SchemaStep, VersionStep, ShareStep, CodeStep, SignStep, PageStep DEF IInv
<1>2. CASE UNCHANGED vars
  BY <1>2 DEF vars, schema, shares, totp, IInv, TypeOK, SchemaInv, VersionInv, ShareInv, CodeInv, SignInv, PageInv, Due, bekleyenler
<1> QED BY <1>1, <1>2

\* Whatever installation a start finds, the invariant holds.
LEMMA Initially == Init => IInv
<1> SUFFICES ASSUME Init PROVE IInv
  OBVIOUS
<1>1. built \subseteq MIGRATIONS /\ stamped \subseteq built /\ (23 \in built => ~clash)
  BY DEF Init, MIGRATIONS, TEMEL_SURUM
<1>2. at = "off" /\ version \in 0..4 /\ crashes = 0 /\ pages = {} /\ todo = {} /\ row = NoToken
  BY DEF Init, CURRENT_SCHEMA_VERSION
<1>3. ShareInv
  BY <1>2 DEF Init, ShareInv
<1>4. CodeInv
  BY <1>2 DEF Init, CodeInv
<1>5. SignInv
  BY <1>2 DEF Init, SignInv
<1>6. TypeOK
  <2>1. column \in [Tokens -> {"cleared", "right", "stale", "noise"}] /\ ring \in [Tokens -> {"none", "right", "stale"}]
    BY DEF Init
  <2>2. file \in {"absent", "code", "broken", "noise", "empty"} /\ global \in {"none", "code"}
    BY DEF Init
  <2>3. codes \in [Tokens -> {"none", "code"}] /\ mac \in [Tokens -> {"legacy", "share", "unverifiable"}]
    BY DEF Init
  <2>4. clash \in BOOLEAN /\ heir \in Tokens \cup {NoToken}
    BY DEF Init
  <2> QED BY <1>1, <1>2, <2>1, <2>2, <2>3, <2>4, StartAssumption DEF TypeOK, Places, CURRENT_SCHEMA_VERSION
<1> QED BY <1>1, <1>2, <1>3, <1>4, <1>5, <1>6 DEF IInv, SchemaInv, VersionInv, PageInv, Past, Moving

\* The strengthening of what follows: where a start stands fixes the version, and with
\* it which of the old places are empty.
THEOREM Invariance == Spec => []IInv
<1> QED BY Initially, Inductive, PTL DEF Spec

\* The variables of a start keep their types.
THEOREM TypeCorrect == Spec => []TypeOK
<1>1. IInv => TypeOK
  BY DEF IInv
<1> QED BY <1>1, Invariance, PTL

\* However often a move is cut short, the share of every token and the one-time
\* secret of the first user stay somewhere.
THEOREM NothingLost == Spec => SecretsSurvive
<1>1. IInv /\ [Next]_vars => (\A h \in Tokens : Share(h) => Share(h)')
  <2> SUFFICES ASSUME IInv, [Next]_vars, NEW h \in Tokens PROVE Share(h)'
    OBVIOUS
  <2>1. ShareInv'
    BY Inductive DEF IInv
  <2> QED BY <2>1 DEF ShareInv, Share
<1>2. IInv /\ [Next]_vars => (heir # NoToken /\ Code => Code')
  <2> SUFFICES ASSUME IInv, [Next]_vars, heir # NoToken, Code PROVE Code'
    OBVIOUS
  <2>1. heir \in Tokens /\ codes \in [Tokens -> {"none", "code"}] /\ global \in {"none", "code"}
    BY DEF IInv, TypeOK
  <2>2. CASE Early \/ run_migrations \/ UNCHANGED vars
    <3>1. Early => UNCHANGED totp /\ UNCHANGED heir
      BY EarlyFrame DEF IInv
    <3> QED BY <2>2, <3>1 DEF run_migrations, vars, totp, Code
  <2>3. CASE Move
    <3>1. UNCHANGED heir
      BY <2>3, MoveFrame DEF IInv
    <3>2. CASE UNCHANGED totp
      BY <3>1, <3>2 DEF totp, Code
    <3>3. CASE AdoptCode
      BY <3>1, <3>3 DEF AdoptCode, Code
    <3>4. CASE shred_file
      BY <3>1, <3>4 DEF shred_file, Shred, Step, Code, IInv, CodeInv
    <3>5. CASE migrate_totp_to_per_hwid
      BY <2>1, <3>1, <3>5 DEF migrate_totp_to_per_hwid, Code
    <3>6. CASE EraseGlobal
      BY <3>1, <3>6 DEF EraseGlobal, Step, Code, IInv, CodeInv
    <3>7. Move => UNCHANGED totp \/ AdoptCode \/ shred_file \/ migrate_totp_to_per_hwid \/ EraseGlobal
      BY DEF Move, totp, migrate_share_2, migrate_vault_hmac, overwrite_text_column, BlankColumn,
             purge_sqlite_residue, NoRows, migrate_totp_secret, set_schema_version
    <3> QED BY <2>3, <3>2, <3>3, <3>4, <3>5, <3>6, <3>7
  <2> QED BY <2>2, <2>3, NextCases
<1>3. IInv /\ [Next]_vars
      => [(\A h \in Tokens : Share(h) => Share(h)') /\ (heir # NoToken /\ Code => Code')]_vars
  BY <1>1, <1>2
<1> QED BY <1>3, Invariance, PTL DEF Spec, SecretsSurvive

\* A start that comes as far as the login has finished what all earlier ones left.
THEOREM LoginReady == Spec => []ReadyAtLogin
<1>1. IInv => ReadyAtLogin
  <2> SUFFICES ASSUME IInv, at \in {"login", "session"} PROVE ReadyAtLogin
    BY DEF ReadyAtLogin
  <2>1. built = MIGRATIONS /\ stamped = MIGRATIONS /\ ~clash
    <3>1. built \subseteq MIGRATIONS /\ stamped \subseteq built /\ MIGRATIONS \ stamped = {} /\ (23 \in built => ~clash)
      BY DEF IInv, TypeOK, SchemaInv, Past, bekleyenler
    <3>2. 23 \in MIGRATIONS
      BY DEF MIGRATIONS, TEMEL_SURUM
    <3> QED BY <3>1, <3>2
  <2>2. version = 4
    BY DEF IInv, VersionInv
  <2>3. \A h \in Tokens : column[h] = "cleared" /\ ring[h] # "none" /\ mac[h] # "legacy"
    <3>1. version >= 1 /\ version >= 4
      BY <2>2
    <3>2. \A h \in Tokens : column[h] = "cleared"
      BY <3>1 DEF IInv, ShareInv
    <3>3. \A h \in Tokens : ring[h] # "none"
      BY <3>2 DEF IInv, ShareInv
    <3>4. \A h \in Tokens : mac[h] # "legacy"
      BY <3>1 DEF IInv, SignInv
    <3> QED BY <3>2, <3>3, <3>4
  <2>4. file = "absent" /\ global = "none"
    BY <2>2 DEF IInv, CodeInv
  <2>5. crashes = 0 => pages = {}
    BY DEF IInv, PageInv
  <2> QED BY <2>1, <2>2, <2>3, <2>4, <2>5 DEF ReadyAtLogin, CURRENT_SCHEMA_VERSION
<1> QED BY <1>1, Invariance, PTL

-----------------------------------------------------------------------------
(*****************************************************************************)
(* The key store.                                                            *)
(*****************************************************************************)
OneProcess == \A p, q \in Procs : p = q

\* The places of each kind of call, and whose record it is about.
Placed(p, c) ==
    /\ c.kind = "probe" => c.new.user = Probe /\ c.at \in {"evict", "write", "unprobe", "refuse"}
    /\ c.kind \in {"store", "reseal"} => c.new.user \in Users /\ c.at \in {"evict", "write", "verify", "shadow"}
    /\ c.kind = "erase" => c.new.user \in Users /\ c.at \in {"compound", "bare"} /\ (c.at = "compound" => windows)
    /\ c.kind = "store" => c.new.value \in Values
    /\ c.kind = "probe" <=> life[p] = "start"
    /\ life[p] # "off"

\* What a call has done so far.
Done(c) ==
    /\ c.at = "write" => \A u \in Secret!Names \ {c.new.user} : Secret!BareOf(u) # {} => comp[u] = Secret!BareOf(u)
    /\ c.kind = "reseal" /\ c.at \in {"evict", "write"} =>
        \E r \in Secret!get_password(c.new.user) : r.value = c.new.value
    /\ c.at \in {"verify", "shadow", "unprobe"} =>
        IF windows THEN bare = {c.new} ELSE comp[c.new.user] = {c.new}
    /\ c.kind = "erase" /\ c.at = "bare" /\ windows => comp[c.new.user] = {}

\* Outside set_password() and its clean-up no user has two records that differ.
Clean == \A u \in Users : Secret!BareOf(u) # {} => comp[u] \in {{}, Secret!BareOf(u)}
Settled(p) == life[p] = "on" /\ ~soiled[p] /\ \A c \in op[p] : c.at \notin {"verify", "shadow"}

StoreTypes ==
    /\ windows \in BOOLEAN /\ tpm \in BOOLEAN
    /\ bare \in SUBSET Secret!Record /\ \A r, s \in bare : r = s
    /\ comp \in [Secret!Names -> SUBSET Secret!Record]
    /\ \A u \in Secret!Names : \A r, s \in comp[u] : r = s /\ r.user = u
    /\ ~windows => bare = {}
ChipTypes == key \in Secret!Seals /\ clears \in 0..MaxClears
SessionTypes ==
    /\ life \in [Procs -> {"off", "start", "on"}]
    /\ durum \in [Procs -> BOOLEAN]
    /\ soiled \in [Procs -> BOOLEAN]
OpTypes == op \in [Procs -> SUBSET Secret!Op] /\ \A p \in Procs : \A c, d \in op[p] : c = d

StoreInv ==
    /\ StoreTypes /\ ChipTypes /\ SessionTypes /\ OpTypes
    /\ \A p \in Procs : \A c \in op[p] : Placed(p, c) /\ Done(c)
    /\ \A p \in Procs : Settled(p) => Clean

-----------------------------------------------------------------------------
\* The call a process is in, and the next place of it.
LEMMA CallFacts ==
    ASSUME StoreInv, NEW p \in Procs, NEW c \in op[p]
    PROVE  c \in Secret!Op /\ c.new \in Secret!Record /\ op[p] = {c} /\ Placed(p, c) /\ Done(c)
<1>1. c \in Secret!Op /\ op[p] = {c}
  BY DEF StoreInv, OpTypes
<1>2. Placed(p, c) /\ Done(c)
  BY DEF StoreInv
<1> QED BY <1>1, <1>2 DEF Secret!Op

LEMMA NextPlace ==
    ASSUME NEW c \in Secret!Op, NEW next \in Secret!Places
    PROVE  /\ [c EXCEPT !.at = next] \in Secret!Op
           /\ [c EXCEPT !.at = next].kind = c.kind /\ [c EXCEPT !.at = next].new = c.new
           /\ [c EXCEPT !.at = next].at = next
BY DEF Secret!Op

\* What has to be shown of a step that leaves the one process in a call, and of one
\* that leaves it in none.
LEMMA InCall ==
    ASSUME OneProcess, StoreInv, NEW p \in Procs, NEW x \in Secret!Op, op' = [op EXCEPT ![p] = {x}],
           StoreTypes', ChipTypes', SessionTypes', Placed(p, x)', Done(x)',
           life'[p] = "on" /\ ~soiled'[p] /\ x.at \notin {"verify", "shadow"} => Clean'
    PROVE  StoreInv'
<1>1. \A q \in Procs : q = p
  BY DEF OneProcess
<1>2. op' \in [Procs -> SUBSET Secret!Op] /\ op'[p] = {x}
  BY DEF StoreInv, OpTypes
<1>3. OpTypes'
  BY <1>1, <1>2 DEF OpTypes
<1>4. Settled(p)' => Clean'
  BY <1>2 DEF Settled
<1>5. \A q \in Procs : \A c \in op'[q] : Placed(q, c)' /\ Done(c)'
  <2>1. \A q \in Procs : op'[q] = {x}
    BY <1>1, <1>2
  <2> SUFFICES ASSUME NEW q \in Procs, NEW c \in op'[q] PROVE Placed(q, c)' /\ Done(c)'
    OBVIOUS
  <2>2. c = x /\ q = p
    BY <1>1, <2>1
  <2> QED BY <2>2
<1>6. \A q \in Procs : Settled(q)' => Clean'
  BY <1>1, <1>4
<1> QED BY <1>3, <1>5, <1>6 DEF StoreInv

LEMMA NoCall ==
    ASSUME OneProcess, StoreInv, NEW p \in Procs, op' = [op EXCEPT ![p] = {}],
           StoreTypes', ChipTypes', SessionTypes',
           life'[p] = "on" /\ ~soiled'[p] => Clean'
    PROVE  StoreInv'
<1>1. \A q \in Procs : q = p
  BY DEF OneProcess
<1>2. op' \in [Procs -> SUBSET Secret!Op] /\ op'[p] = {}
  BY DEF StoreInv, OpTypes
<1>3. \A q \in Procs : op'[q] = {}
  BY <1>1, <1>2
<1>4. OpTypes'
  BY <1>2, <1>3 DEF OpTypes
<1>5. \A q \in Procs : Settled(q)' => Clean'
  BY <1>1 DEF Settled
<1> QED BY <1>3, <1>4, <1>5 DEF StoreInv

\* Sealing uses a seal there is.
LEMMA SealTypes ==
    ASSUME StoreInv
    PROVE  Secret!_anahtar_ac \in Secret!Seals /\ Secret!muhurle \in SUBSET Secret!Seals /\ 0 \in Secret!Seals
<1>1. clears + 1 \in Secret!Seals /\ 0 \in Secret!Seals
  BY StoreAssumption DEF StoreInv, ChipTypes, Secret!Seals
<1>2. Secret!_anahtar_ac \in Secret!Seals
  BY <1>1 DEF Secret!_anahtar_ac, StoreInv, ChipTypes
<1> QED BY <1>1, <1>2 DEF Secret!muhurle

LEMMA InitStore == Secret!Init => StoreInv
<1> SUFFICES ASSUME Secret!Init PROVE StoreInv
  OBVIOUS
<1>1. 0 \in Secret!Seals /\ 0 \in 0..MaxClears
  BY StoreAssumption DEF Secret!Seals
<1> QED BY <1>1 DEF Secret!Init, StoreInv, StoreTypes, ChipTypes, SessionTypes, OpTypes, Settled

-----------------------------------------------------------------------------
\* The calls of the application begin.
LEMMA BeginKeeps ==
    ASSUME OneProcess, StoreInv, NEW p \in Procs, Secret!ensure_available(p) \/ Secret!store(p) \/ Secret!erase(p)
    PROVE  StoreInv'
<1>1. StoreTypes' /\ UNCHANGED <<windows, bare, comp, soiled>>
  BY DEF Secret!ensure_available, Secret!store, Secret!erase, Secret!Store, Secret!Session, StoreInv, StoreTypes, Secret!Chip
<1>2. ChipTypes'
  BY SealTypes DEF Secret!ensure_available, Secret!store, Secret!erase, Secret!Chip, Secret!UseChip, StoreInv, ChipTypes
<1>3. SessionTypes'
  BY DEF Secret!ensure_available, Secret!store, Secret!erase, Secret!Session, StoreInv, SessionTypes
<1>4. CASE Secret!ensure_available(p)
  <2> DEFINE r == [user |-> Probe, value |-> Canary, seal |-> 0]
             x == [kind |-> "probe", at |-> "evict", new |-> r]
  <2>1. r \in Secret!Record /\ r.user = Probe
    BY SealTypes DEF Secret!Record, Secret!Names
  <2>2. op' = [op EXCEPT ![p] = {x}] /\ life'[p] = "start"
    BY <1>4 DEF Secret!ensure_available, Secret!Begin, StoreInv, SessionTypes
  <2> HIDE DEF r
  <2>3. x \in Secret!Op
    BY <2>1 DEF Secret!Op, Secret!Kinds, Secret!Places
  <2>4. Placed(p, x)' /\ Done(x)'
    BY <2>1, <2>2 DEF Placed, Done
  <2> QED BY <1>1, <1>2, <1>3, <2>2, <2>3, <2>4, InCall
<1>5. CASE Secret!store(p)
  <2>1. PICK u \in Users, v \in Values, s \in Secret!belki_muhurle(p) :
          Secret!Begin(p, "store", "evict", [user |-> u, value |-> v, seal |-> s])
    BY <1>5 DEF Secret!store
  <2> DEFINE r == [user |-> u, value |-> v, seal |-> s]
             x == [kind |-> "store", at |-> "evict", new |-> r]
  <2>2. s \in Secret!Seals
    BY SealTypes DEF Secret!belki_muhurle
  <2>3. r \in Secret!Record /\ r.user = u /\ r.value = v
    BY <2>2 DEF Secret!Record, Secret!Names
  <2>4. op' = [op EXCEPT ![p] = {x}]
    BY <2>1 DEF Secret!Begin
  <2>5. life' = life /\ life[p] = "on" /\ op[p] = {}
    BY <1>5 DEF Secret!store, Secret!Session, Secret!Free
  <2> HIDE DEF r
  <2>6. x \in Secret!Op
    BY <2>3 DEF Secret!Op, Secret!Kinds, Secret!Places
  <2>7. Placed(p, x)' /\ Done(x)'
    BY <2>3, <2>5 DEF Placed, Done
  <2>8. ~soiled'[p] => Clean'
    BY <1>1, <2>5 DEF StoreInv, Settled, Clean, Secret!BareOf
  <2> QED BY <1>1, <1>2, <1>3, <2>4, <2>6, <2>7, <2>8, InCall
<1>6. CASE Secret!erase(p)
  <2>1. PICK u \in Users, next \in {"compound", "bare"} :
          /\ next = "compound" <=> windows
          /\ Secret!Begin(p, "erase", next, [user |-> u, value |-> Canary, seal |-> 0])
    BY <1>6 DEF Secret!erase
  <2> DEFINE r == [user |-> u, value |-> Canary, seal |-> 0]
             x == [kind |-> "erase", at |-> next, new |-> r]
  <2>2. r \in Secret!Record /\ r.user = u
    BY SealTypes DEF Secret!Record, Secret!Names
  <2>3. op' = [op EXCEPT ![p] = {x}]
    BY <2>1 DEF Secret!Begin
  <2>4. life' = life /\ life[p] = "on" /\ op[p] = {}
    BY <1>6 DEF Secret!erase, Secret!Session, Secret!Free
  <2> HIDE DEF r
  <2>5. x \in Secret!Op
    BY <2>2 DEF Secret!Op, Secret!Kinds, Secret!Places
  <2>6. Placed(p, x)' /\ Done(x)'
    BY <1>1, <2>1, <2>2, <2>4 DEF Placed, Done
  <2>7. ~soiled'[p] => Clean'
    BY <1>1, <2>4 DEF StoreInv, Settled, Clean, Secret!BareOf
  <2> QED BY <1>1, <1>2, <1>3, <2>3, <2>5, <2>6, <2>7, InCall
<1> QED BY <1>4, <1>5, <1>6

LEMMA LoadKeeps ==
    ASSUME OneProcess, StoreInv, NEW p \in Procs, Secret!load(p)
    PROVE  StoreInv'
<1>1. StoreTypes' /\ SessionTypes' /\ UNCHANGED <<windows, bare, comp, life, durum, soiled>>
  BY DEF Secret!load, Secret!Store, Secret!Session, StoreInv, StoreTypes, SessionTypes
<1>2. ChipTypes'
  BY SealTypes DEF Secret!load, Secret!UseChip, StoreInv, ChipTypes
<1>3. life[p] = "on" /\ op[p] = {} /\ (~soiled[p] => Clean)
  BY DEF Secret!load, Secret!Free, StoreInv, Settled
<1>4. CASE UNCHANGED op
  BY <1>1, <1>2, <1>4 DEF StoreInv, OpTypes, Placed, Done, Settled, Clean, Secret!BareOf, Secret!get_password
<1>5. ASSUME NEW u \in Users, NEW r \in Secret!get_password(u), NEW s \in Secret!belki_muhurle(p),
             Secret!Begin(p, "reseal", "evict", [r EXCEPT !.seal = s])
      PROVE  StoreInv'
  <2> DEFINE y == [r EXCEPT !.seal = s]
             x == [kind |-> "reseal", at |-> "evict", new |-> y]
  <2>1. r \in Secret!Record /\ r.user = u
    BY <1>5 DEF Secret!get_password, Secret!BareOf, StoreInv, StoreTypes, Secret!Names
  <2>2. s \in Secret!Seals
    BY SealTypes DEF Secret!belki_muhurle
  <2>3. y \in Secret!Record /\ y.user = u /\ y.value = r.value
    BY <2>1, <2>2 DEF Secret!Record
  <2>4. op' = [op EXCEPT ![p] = {x}]
    BY <1>5 DEF Secret!Begin
  <2> HIDE DEF y
  <2>5. x \in Secret!Op
    BY <2>3 DEF Secret!Op, Secret!Kinds, Secret!Places
  <2>6. Placed(p, x)'
    BY <1>1, <1>3, <2>3 DEF Placed
  <2>7. \E z \in Secret!get_password(u)' : z.value = y.value
    BY <1>1, <2>3 DEF Secret!get_password, Secret!BareOf
  <2>8. Done(x)'
    BY <2>3, <2>7 DEF Done
  <2>9. ~soiled'[p] => Clean'
    BY <1>1, <1>3 DEF Clean, Secret!BareOf
  <2> QED BY <1>1, <1>2, <2>4, <2>5, <2>6, <2>8, <2>9, InCall
<1> QED BY <1>4, <1>5 DEF Secret!load

-----------------------------------------------------------------------------
\* set_password().
LEMMA EvictKeeps ==
    ASSUME OneProcess, StoreInv, NEW p \in Procs, Secret!Evict(p)
    PROVE  /\ StoreInv'
           /\ \A u \in Users : Secret!get_password(u)' = Secret!get_password(u)
<1>1. PICK c \in op[p] :
        /\ c.kind \in Secret!Writes /\ c.at = "evict"
        /\ comp' = [u \in Secret!Names |-> IF u # c.new.user /\ Secret!BareOf(u) # {} THEN Secret!BareOf(u) ELSE comp[u]]
        /\ Secret!Goto(p, c, "write")
  BY DEF Secret!Evict, Secret!At
<1>2. UNCHANGED <<windows, bare, tpm, key, clears, life, durum, soiled>>
  BY DEF Secret!Evict, Secret!Chip, Secret!Session
<1>3. c \in Secret!Op /\ c.new \in Secret!Record /\ Placed(p, c) /\ Done(c) /\ op[p] = {c}
  BY CallFacts
<1> DEFINE x == [c EXCEPT !.at = "write"]
<1>4. x \in Secret!Op /\ x.kind = c.kind /\ x.new = c.new /\ x.at = "write" /\ op' = [op EXCEPT ![p] = {x}]
  BY <1>1, <1>3, NextPlace DEF Secret!Goto, Secret!Places
<1> HIDE DEF x
<1>5. \A u \in Secret!Names : comp'[u] = IF u # c.new.user /\ Secret!BareOf(u) # {} THEN Secret!BareOf(u) ELSE comp[u]
  BY <1>1
<1>6. \A u \in Secret!Names : Secret!BareOf(u)' = Secret!BareOf(u) /\ Secret!get_password(u)' = Secret!get_password(u)
  BY <1>2, <1>5 DEF Secret!BareOf, Secret!get_password
<1>7. StoreTypes'
  <2>1. \A u \in Secret!Names : comp'[u] \in SUBSET Secret!Record /\ \A r, s \in comp'[u] : r = s /\ r.user = u
    <3>1. \A u \in Secret!Names : Secret!BareOf(u) \in SUBSET Secret!Record /\ \A r, s \in Secret!BareOf(u) : r = s /\ r.user = u
      BY DEF StoreInv, StoreTypes, Secret!BareOf
    <3>2. \A u \in Secret!Names : comp[u] \in SUBSET Secret!Record /\ \A r, s \in comp[u] : r = s /\ r.user = u
      BY DEF StoreInv, StoreTypes
    <3> QED BY <1>5, <3>1, <3>2
  <2>2. comp' \in [Secret!Names -> SUBSET Secret!Record]
    BY <1>1, <2>1
  <2> QED BY <1>2, <2>1, <2>2 DEF StoreInv, StoreTypes
<1>8. ChipTypes' /\ SessionTypes'
  BY <1>2 DEF StoreInv, ChipTypes, SessionTypes
<1>9. Placed(p, x)'
  BY <1>1, <1>2, <1>3, <1>4 DEF Placed, Secret!Writes
<1>10. c.new.user \in Secret!Names
  BY <1>3 DEF Secret!Record
<1>11. Done(x)'
  BY <1>1, <1>3, <1>4, <1>5, <1>6, <1>10 DEF Done, Secret!Writes
<1>12. life'[p] = "on" /\ ~soiled'[p] => Clean'
  <2>1. \A u \in Users : u \in Secret!Names
    BY DEF Secret!Names
  <2>2. life[p] = "on" /\ ~soiled[p] => Clean
    BY <1>1, <1>3 DEF StoreInv, Settled
  <2>3. Clean => Clean'
    BY <1>5, <1>6, <2>1 DEF Clean
  <2> QED BY <1>2, <2>2, <2>3
<1> QED BY <1>4, <1>6, <1>7, <1>8, <1>9, <1>11, <1>12, InCall DEF Secret!Names

LEMMA WriteKeeps ==
    ASSUME OneProcess, StoreInv, NEW p \in Procs, NEW c \in op[p], c.kind \in Secret!Writes, c.at = "write", Secret!Write(p)
    PROVE  /\ StoreInv'
           /\ Secret!get_password(c.new.user)' = {c.new}
           /\ \A u \in Users \ {c.new.user} : Secret!get_password(u)' = Secret!get_password(u)
           /\ \E x \in Secret!Op : x.kind = c.kind /\ x.new = c.new /\ op' = [op EXCEPT ![p] = {x}]
<1>1. c \in Secret!Op /\ c.new \in Secret!Record /\ Placed(p, c) /\ Done(c) /\ op[p] = {c}
  BY CallFacts
<1>2. /\ IF windows THEN bare' = {c.new} /\ UNCHANGED comp
         ELSE comp' = [comp EXCEPT ![c.new.user] = {c.new}] /\ UNCHANGED bare
      /\ Secret!Goto(p, c, IF c.kind = "probe" THEN "unprobe" ELSE "verify")
  BY <1>1 DEF Secret!Write, Secret!At
<1>3. UNCHANGED <<windows, tpm, key, clears, life, durum, soiled>>
  BY DEF Secret!Write, Secret!Chip, Secret!Session
<1> DEFINE next == IF c.kind = "probe" THEN "unprobe" ELSE "verify"
           x == [c EXCEPT !.at = next]
<1>4. next \in Secret!Places /\ (next = "unprobe" <=> c.kind = "probe") /\ next \in {"unprobe", "verify"}
  BY DEF Secret!Places
<1>5. op' = [op EXCEPT ![p] = {x}]
  BY <1>2 DEF Secret!Goto
<1> HIDE DEF next
<1>6. x \in Secret!Op /\ x.kind = c.kind /\ x.new = c.new /\ x.at = next
  BY <1>1, <1>4, NextPlace
<1> HIDE DEF x
<1>7. c.new.user \in Secret!Names
  BY <1>1 DEF Secret!Record
<1>8. StoreTypes'
  <2>1. CASE windows
    BY <1>1, <1>2, <1>3, <2>1 DEF StoreInv, StoreTypes
  <2>2. CASE ~windows
    BY <1>1, <1>2, <1>3, <1>7, <2>2 DEF StoreInv, StoreTypes
  <2> QED BY <2>1, <2>2
<1>9. ChipTypes' /\ SessionTypes'
  BY <1>3 DEF StoreInv, ChipTypes, SessionTypes
<1>10. Placed(p, x)'
  BY <1>1, <1>3, <1>4, <1>6 DEF Placed, Secret!Writes
<1>11. /\ Secret!get_password(c.new.user)' = {c.new}
       /\ IF windows THEN bare' = {c.new} ELSE comp'[c.new.user] = {c.new}
  <2>1. CASE windows
    BY <1>1, <1>2, <2>1 DEF Secret!get_password, Secret!BareOf
  <2>2. CASE ~windows
    BY <1>1, <1>2, <1>7, <2>2 DEF StoreInv, StoreTypes, Secret!get_password, Secret!BareOf
  <2> QED BY <2>1, <2>2
<1>12. \A u \in Secret!Names \ {c.new.user} : Secret!get_password(u)' = Secret!get_password(u)
  <2>1. CASE windows
    <3>1. \A u \in Secret!Names \ {c.new.user} : Secret!BareOf(u)' = {} /\ comp'[u] = comp[u]
      BY <1>2, <2>1 DEF Secret!BareOf
    <3>2. \A u \in Secret!Names \ {c.new.user} : Secret!BareOf(u) # {} => comp[u] = Secret!BareOf(u)
      BY <1>1 DEF Done
    <3> QED BY <3>1, <3>2 DEF Secret!get_password
  <2>2. CASE ~windows
    <3>1. \A u \in Secret!Names \ {c.new.user} : Secret!BareOf(u)' = Secret!BareOf(u) /\ comp'[u] = comp[u]
      BY <1>2, <2>2 DEF Secret!BareOf, StoreInv, StoreTypes
    <3> QED BY <3>1 DEF Secret!get_password
  <2> QED BY <2>1, <2>2
<1>13. Done(x)'
  BY <1>1, <1>3, <1>4, <1>6, <1>11 DEF Done, Placed, Secret!Writes
<1>14. life'[p] = "on" /\ ~soiled'[p] /\ x.at \notin {"verify", "shadow"} => Clean'
  BY <1>1, <1>3, <1>4, <1>6 DEF Placed
<1>15. StoreInv'
  BY <1>5, <1>6, <1>8, <1>9, <1>10, <1>13, <1>14, InCall
<1> QED BY <1>5, <1>6, <1>11, <1>12, <1>15 DEF Secret!Names

LEMMA WriteFailsKeeps ==
    ASSUME OneProcess, StoreInv, NEW p \in Procs, Secret!WriteFails(p)
    PROVE  StoreInv'
<1>1. PICK c \in op[p] :
        /\ c.at \in {"evict", "write", "verify"} \/ (c.kind = "probe" /\ c.at = "unprobe")
        /\ IF c.kind = "probe" THEN Secret!Goto(p, c, "refuse") ELSE Secret!End(p)
        /\ soiled' = [soiled EXCEPT ![p] = @ \/ c.at = "verify"]
  BY DEF Secret!WriteFails
<1>2. c \in Secret!Op /\ c.new \in Secret!Record /\ Placed(p, c) /\ Done(c) /\ op[p] = {c}
  BY CallFacts
<1>3. UNCHANGED <<windows, bare, comp, tpm, key, clears, life, durum>>
  BY DEF Secret!WriteFails, Secret!Store, Secret!Chip
<1>4. StoreTypes' /\ ChipTypes'
  BY <1>3 DEF StoreInv, StoreTypes, ChipTypes
<1>5. soiled' \in [Procs -> BOOLEAN] /\ soiled'[p] = (soiled[p] \/ c.at = "verify")
  BY <1>1 DEF StoreInv, SessionTypes
<1>6. SessionTypes'
  BY <1>3, <1>5 DEF StoreInv, SessionTypes
<1>7. CASE c.kind = "probe"
  <2> DEFINE x == [c EXCEPT !.at = "refuse"]
  <2>1. x \in Secret!Op /\ x.kind = c.kind /\ x.new = c.new /\ x.at = "refuse" /\ op' = [op EXCEPT ![p] = {x}]
    BY <1>1, <1>2, <1>7, NextPlace DEF Secret!Goto, Secret!Places
  <2> HIDE DEF x
  <2>2. Placed(p, x)' /\ Done(x)' /\ life'[p] = "start"
    BY <1>2, <1>3, <1>7, <2>1 DEF Placed, Done
  <2> QED BY <1>4, <1>6, <2>1, <2>2, InCall
<1>8. CASE c.kind # "probe"
  <2>1. op' = [op EXCEPT ![p] = {}]
    BY <1>1, <1>8 DEF Secret!End
  <2>2. life'[p] = "on" /\ ~soiled'[p] => Clean
    BY <1>1, <1>2, <1>3, <1>5, <1>8 DEF StoreInv, Settled
  <2>3. Clean' <=> Clean
    BY <1>3 DEF Clean, Secret!BareOf
  <2> QED BY <1>4, <1>6, <2>1, <2>2, <2>3, NoCall
<1> QED BY <1>7, <1>8

LEMMA VerifyKeeps ==
    ASSUME OneProcess, StoreInv, NEW p \in Procs, Secret!Verify(p)
    PROVE  StoreInv'
<1>1. PICK c \in op[p] : c.kind \in {"store", "reseal"} /\ c.at = "verify" /\ Secret!Goto(p, c, "shadow")
  BY DEF Secret!Verify, Secret!At
<1>2. c \in Secret!Op /\ c.new \in Secret!Record /\ Placed(p, c) /\ Done(c)
  BY CallFacts
<1>3. UNCHANGED <<windows, bare, comp, tpm, key, clears, life, durum, soiled>>
  BY DEF Secret!Verify, Secret!Store, Secret!Chip, Secret!Session
<1> DEFINE x == [c EXCEPT !.at = "shadow"]
<1>4. x \in Secret!Op /\ x.kind = c.kind /\ x.new = c.new /\ x.at = "shadow" /\ op' = [op EXCEPT ![p] = {x}]
  BY <1>1, <1>2, NextPlace DEF Secret!Goto, Secret!Places
<1> HIDE DEF x
<1>5. StoreTypes' /\ ChipTypes' /\ SessionTypes'
  BY <1>3 DEF StoreInv, StoreTypes, ChipTypes, SessionTypes
<1>6. Placed(p, x)' /\ Done(x)'
  BY <1>1, <1>2, <1>3, <1>4 DEF Placed, Done
<1> QED BY <1>4, <1>5, <1>6, InCall

LEMMA ShadowKeeps ==
    ASSUME OneProcess, StoreInv, NEW p \in Procs, Secret!_windows_golge_sil(p)
    PROVE  /\ StoreInv'
           /\ \A u \in Users : Secret!get_password(u)' = Secret!get_password(u)
           /\ op' = [op EXCEPT ![p] = {}]
<1>1. PICK c \in op[p] :
        /\ c.kind \in {"store", "reseal"} /\ c.at = "shadow"
        /\ \/ comp' = (IF windows THEN [comp EXCEPT ![c.new.user] = {}] ELSE comp) /\ UNCHANGED soiled
           \/ windows /\ UNCHANGED comp /\ soiled' = [soiled EXCEPT ![p] = TRUE]
  BY DEF Secret!_windows_golge_sil, Secret!At
<1>2. c \in Secret!Op /\ c.new \in Secret!Record /\ Placed(p, c) /\ Done(c)
  BY CallFacts
<1>3. UNCHANGED <<windows, bare, tpm, key, clears, life, durum>> /\ op' = [op EXCEPT ![p] = {}]
  BY DEF Secret!_windows_golge_sil, Secret!Chip, Secret!End
<1>4. c.new.user \in Secret!Names
  BY <1>2 DEF Secret!Record
<1>5. StoreTypes'
  BY <1>1, <1>3, <1>4 DEF StoreInv, StoreTypes
<1>6. ChipTypes' /\ SessionTypes'
  BY <1>1, <1>3 DEF StoreInv, ChipTypes, SessionTypes
<1>7. windows => bare = {c.new}
  BY <1>1, <1>2 DEF Done
<1>8. \A u \in Secret!Names : Secret!get_password(u)' = Secret!get_password(u)
  BY <1>1, <1>3, <1>4, <1>7 DEF Secret!get_password, Secret!BareOf, StoreInv, StoreTypes
<1>9. ~soiled'[p] => Clean'
  <2>1. CASE ~windows
    BY <1>3, <2>1 DEF StoreInv, StoreTypes, Clean, Secret!BareOf
  <2>2. CASE windows /\ comp' = [comp EXCEPT ![c.new.user] = {}]
    <3>1. \A u \in Users : Secret!BareOf(u)' # {} => u = c.new.user
      BY <1>3, <1>7, <2>2 DEF Secret!BareOf
    <3>2. comp'[c.new.user] = {}
      BY <1>4, <2>2 DEF StoreInv, StoreTypes
    <3> QED BY <3>1, <3>2 DEF Clean
  <2>3. CASE soiled' = [soiled EXCEPT ![p] = TRUE]
    BY <2>3 DEF StoreInv, SessionTypes
  <2> QED BY <1>1, <2>1, <2>2, <2>3
<1> QED BY <1>3, <1>5, <1>6, <1>8, <1>9, NoCall DEF Secret!Names

LEMMA DeleteProbeKeeps ==
    ASSUME OneProcess, StoreInv, NEW p \in Procs, Secret!DeleteProbe(p)
    PROVE  /\ StoreInv'
           /\ \A u \in Users : Secret!get_password(u)' = Secret!get_password(u)
           /\ op' = [op EXCEPT ![p] = {}] /\ \A c \in op[p] : c.kind = "probe"
<1>1. PICK c \in op[p] :
        /\ c.kind = "probe" /\ c.at \in {"unprobe", "refuse"}
        /\ life' = [life EXCEPT ![p] = IF c.at = "unprobe" THEN "on" ELSE "off"]
        /\ durum' = [durum EXCEPT ![p] = c.at = "unprobe" /\ tpm]
  BY DEF Secret!DeleteProbe, Secret!At
<1>2. c \in Secret!Op /\ c.new \in Secret!Record /\ Placed(p, c) /\ Done(c) /\ op[p] = {c}
  BY CallFacts
<1>3. /\ UNCHANGED <<windows, tpm, key, clears, soiled>> /\ op' = [op EXCEPT ![p] = {}]
      /\ \/ bare' = bare \ Secret!BareOf(Probe) /\ comp' = [comp EXCEPT ![Probe] = {}]
         \/ UNCHANGED <<bare, comp>>
  BY DEF Secret!DeleteProbe, Secret!Chip, Secret!End
<1>4. StoreTypes'
  BY <1>3 DEF StoreInv, StoreTypes, Secret!Names
<1>5. ChipTypes'
  BY <1>3 DEF StoreInv, ChipTypes
<1>6. SessionTypes'
  <2>1. (c.at = "unprobe" /\ tpm) \in BOOLEAN
    OBVIOUS
  <2>2. (IF c.at = "unprobe" THEN "on" ELSE "off") \in {"off", "start", "on"}
    OBVIOUS
  <2> QED BY <1>1, <1>3, <2>1, <2>2 DEF StoreInv, SessionTypes
<1>7. \A u \in Users : Secret!BareOf(u)' = Secret!BareOf(u) /\ comp'[u] = comp[u]
  BY <1>3, StoreAssumption DEF Secret!BareOf, StoreInv, StoreTypes, Secret!Names
<1>8. life'[p] = "on" => Clean'
  <2> SUFFICES ASSUME life'[p] = "on" PROVE Clean'
    OBVIOUS
  <2>1. c.at = "unprobe"
    BY <1>1 DEF StoreInv, SessionTypes
  <2>2. IF windows THEN bare = {c.new} ELSE bare = {}
    BY <1>2, <2>1 DEF Done, StoreInv, StoreTypes
  <2>3. \A u \in Users : Secret!BareOf(u) = {}
    BY <1>1, <1>2, <2>2, StoreAssumption DEF Secret!BareOf, Placed
  <2> QED BY <1>7, <2>3 DEF Clean
<1>9. \A u \in Users : Secret!get_password(u)' = Secret!get_password(u)
  BY <1>7 DEF Secret!get_password
<1> QED BY <1>1, <1>2, <1>3, <1>4, <1>5, <1>6, <1>8, <1>9, NoCall

-----------------------------------------------------------------------------
\* _windows_erase().
LEMMA EraseCompoundKeeps ==
    ASSUME OneProcess, StoreInv, NEW p \in Procs, NEW c \in op[p], Secret!EraseCompound(p)
    PROVE  /\ StoreInv'
           /\ c.kind = "erase" /\ c.new.user \in Users
           /\ Secret!get_password(c.new.user)' \in {{}, Secret!get_password(c.new.user)}
           /\ \A u \in Users \ {c.new.user} : Secret!get_password(u)' = Secret!get_password(u)
           /\ \E x \in Secret!Op : x.kind = c.kind /\ x.new = c.new /\ op' = [op EXCEPT ![p] = {x}]
<1>1. c \in Secret!Op /\ c.new \in Secret!Record /\ Placed(p, c) /\ Done(c) /\ op[p] = {c}
  BY CallFacts
<1>2. /\ c.kind = "erase" /\ c.at = "compound"
      /\ comp' = [comp EXCEPT ![c.new.user] = {}]
      /\ Secret!Goto(p, c, "bare")
      /\ UNCHANGED <<windows, bare, tpm, key, clears, life, durum, soiled>>
  BY <1>1 DEF Secret!EraseCompound, Secret!At, Secret!Chip, Secret!Session
<1> DEFINE x == [c EXCEPT !.at = "bare"]
<1>3. x \in Secret!Op /\ x.kind = c.kind /\ x.new = c.new /\ x.at = "bare" /\ op' = [op EXCEPT ![p] = {x}]
  BY <1>1, <1>2, NextPlace DEF Secret!Goto, Secret!Places
<1> HIDE DEF x
<1>4. c.new.user \in Users /\ c.new.user \in Secret!Names /\ life[p] = "on"
  BY <1>1, <1>2 DEF Placed, Secret!Names, StoreInv, SessionTypes
<1>5. comp'[c.new.user] = {} /\ \A u \in Secret!Names \ {c.new.user} : comp'[u] = comp[u]
  BY <1>2, <1>4 DEF StoreInv, StoreTypes
<1>6. StoreTypes' /\ ChipTypes' /\ SessionTypes'
  BY <1>2, <1>4 DEF StoreInv, StoreTypes, ChipTypes, SessionTypes
<1>7. \A u : Secret!BareOf(u)' = Secret!BareOf(u)
  BY <1>2 DEF Secret!BareOf
<1>8. Placed(p, x)' /\ Done(x)'
  BY <1>1, <1>2, <1>3, <1>5 DEF Placed, Done
<1>9. ~soiled'[p] => Clean'
  <2>1. ~soiled[p] => Clean
    BY <1>1, <1>2, <1>4 DEF StoreInv, Settled
  <2>2. Clean => Clean'
    BY <1>5, <1>7 DEF Clean, Secret!Names
  <2> QED BY <1>2, <2>1, <2>2
<1>10. /\ Secret!get_password(c.new.user)' \in {{}, Secret!get_password(c.new.user)}
       /\ \A u \in Users \ {c.new.user} : Secret!get_password(u)' = Secret!get_password(u)
  BY <1>5, <1>7 DEF Secret!get_password, Secret!Names
<1> QED BY <1>2, <1>3, <1>4, <1>6, <1>8, <1>9, <1>10, InCall

LEMMA EraseBareKeeps ==
    ASSUME OneProcess, StoreInv, NEW p \in Procs, NEW c \in op[p], Secret!EraseBare(p)
    PROVE  /\ StoreInv'
           /\ c.kind = "erase" /\ c.new.user \in Users
           /\ Secret!get_password(c.new.user)' = {}
           /\ \A u \in Users \ {c.new.user} : Secret!get_password(u)' = Secret!get_password(u)
           /\ op' = [op EXCEPT ![p] = {}]
<1>1. c \in Secret!Op /\ c.new \in Secret!Record /\ Placed(p, c) /\ Done(c) /\ op[p] = {c}
  BY CallFacts
<1>2. /\ c.kind = "erase" /\ c.at = "bare"
      /\ IF windows THEN bare' = bare \ Secret!BareOf(c.new.user) /\ UNCHANGED comp
         ELSE comp' = [comp EXCEPT ![c.new.user] = {}] /\ UNCHANGED bare
      /\ op' = [op EXCEPT ![p] = {}]
      /\ UNCHANGED <<windows, tpm, key, clears, life, durum, soiled>>
  BY <1>1 DEF Secret!EraseBare, Secret!At, Secret!Chip, Secret!Session, Secret!End
<1>3. c.new.user \in Users /\ c.new.user \in Secret!Names /\ life[p] = "on"
  BY <1>1, <1>2 DEF Placed, Secret!Names, StoreInv, SessionTypes
<1>4. \A u \in Secret!Names \ {c.new.user} : Secret!BareOf(u)' = Secret!BareOf(u) /\ comp'[u] = comp[u]
  BY <1>2, <1>3 DEF Secret!BareOf, StoreInv, StoreTypes
<1>5. Secret!BareOf(c.new.user)' = {} /\ comp'[c.new.user] = {}
  <2>1. CASE windows
    BY <1>1, <1>2, <2>1 DEF Secret!BareOf, Done
  <2>2. CASE ~windows
    BY <1>2, <1>3, <2>2 DEF Secret!BareOf, StoreInv, StoreTypes
  <2> QED BY <2>1, <2>2
<1>6. StoreTypes'
  <2>1. CASE windows
    BY <1>2, <2>1 DEF StoreInv, StoreTypes
  <2>2. CASE ~windows
    BY <1>2, <1>3, <2>2 DEF StoreInv, StoreTypes
  <2> QED BY <2>1, <2>2
<1>7. ChipTypes' /\ SessionTypes'
  BY <1>2 DEF StoreInv, ChipTypes, SessionTypes
<1>8. ~soiled'[p] => Clean'
  <2>1. ~soiled[p] => Clean
    BY <1>1, <1>2, <1>3 DEF StoreInv, Settled
  <2>2. Clean => Clean'
    BY <1>4, <1>5 DEF Clean, Secret!Names
  <2> QED BY <1>2, <2>1, <2>2
<1>9. Secret!get_password(c.new.user)' = {} /\ \A u \in Users \ {c.new.user} : Secret!get_password(u)' = Secret!get_password(u)
  BY <1>4, <1>5 DEF Secret!get_password, Secret!Names
<1> QED BY <1>2, <1>3, <1>6, <1>7, <1>8, <1>9, NoCall

LEMMA EraseFailsKeeps ==
    ASSUME OneProcess, StoreInv, NEW p \in Procs, Secret!EraseFails(p)
    PROVE  StoreInv'
<1>1. PICK c \in op[p] : c.kind = "erase" /\ c.at \in {"compound", "bare"}
  BY DEF Secret!EraseFails, Secret!At
<1>2. Placed(p, c) /\ op[p] = {c}
  BY CallFacts
<1>3. UNCHANGED <<windows, bare, comp, tpm, key, clears, life, durum, soiled>> /\ op' = [op EXCEPT ![p] = {}]
  BY DEF Secret!EraseFails, Secret!Store, Secret!Chip, Secret!Session, Secret!End
<1>4. StoreTypes' /\ ChipTypes' /\ SessionTypes'
  BY <1>3 DEF StoreInv, StoreTypes, ChipTypes, SessionTypes
<1>5. life[p] = "on" /\ ~soiled[p] => Clean
  BY <1>1, <1>2 DEF StoreInv, Settled
<1>6. Clean => Clean'
  BY <1>3 DEF Clean, Secret!BareOf
<1> QED BY <1>3, <1>4, <1>5, <1>6, NoCall

\* The machine.
LEMMA StopKeeps ==
    ASSUME OneProcess, StoreInv, NEW p \in Procs, Secret!Stop(p)
    PROVE  StoreInv'
<1>1. UNCHANGED <<windows, bare, comp, tpm, key, clears>> /\ op' = [op EXCEPT ![p] = {}]
  BY DEF Secret!Stop, Secret!Store, Secret!Chip, Secret!End
<1>2. StoreTypes' /\ ChipTypes' /\ SessionTypes' /\ life'[p] = "off"
  BY <1>1 DEF Secret!Stop, StoreInv, StoreTypes, ChipTypes, SessionTypes
<1> QED BY <1>1, <1>2, NoCall

LEMMA TpmKeeps ==
    ASSUME StoreInv, Secret!TpmChanges \/ Secret!TpmCleared
    PROVE  StoreInv'
<1>1. UNCHANGED <<windows, bare, comp, life, durum, soiled, op>>
  BY DEF Secret!TpmChanges, Secret!TpmCleared, Secret!Store, Secret!Session
<1>2. tpm' \in BOOLEAN
  BY DEF Secret!TpmChanges, Secret!TpmCleared, StoreInv, StoreTypes
<1>6. ChipTypes'
  <2>1. CASE Secret!TpmChanges
    BY <2>1 DEF Secret!TpmChanges, StoreInv, ChipTypes
  <2>2. CASE Secret!TpmCleared
    BY <2>2, StoreAssumption DEF Secret!TpmCleared, StoreInv, ChipTypes, Secret!Seals
  <2> QED BY <2>1, <2>2
<1>3. StoreTypes' /\ SessionTypes' /\ OpTypes'
  BY <1>1, <1>2 DEF StoreInv, StoreTypes, SessionTypes, OpTypes
<1>4. \A p \in Procs : \A c \in op'[p] : Placed(p, c)' /\ Done(c)'
  BY <1>1 DEF StoreInv, Placed, Done, Secret!get_password, Secret!BareOf
<1>5. \A p \in Procs : Settled(p)' => Clean'
  BY <1>1 DEF StoreInv, Settled, Clean, Secret!BareOf
<1> QED BY <1>3, <1>4, <1>5, <1>6 DEF StoreInv

LEMMA NextStore ==
    ASSUME OneProcess, StoreInv, [Secret!Next]_(Secret!vars)
    PROVE  StoreInv'
<1>1. CASE UNCHANGED Secret!vars
  <2>1. UNCHANGED <<windows, bare, comp, tpm, key, clears, life, durum, op, soiled>>
    BY <1>1 DEF Secret!vars
  <2>2. StoreTypes' /\ ChipTypes' /\ SessionTypes' /\ OpTypes'
    BY <2>1 DEF StoreInv, StoreTypes, ChipTypes, SessionTypes, OpTypes
  <2>3. \A p \in Procs : \A c \in op'[p] : Placed(p, c)' /\ Done(c)'
    BY <2>1 DEF StoreInv, Placed, Done, Secret!get_password, Secret!BareOf
  <2>4. \A p \in Procs : Settled(p)' => Clean'
    BY <2>1 DEF StoreInv, Settled, Clean, Secret!BareOf
  <2> QED BY <2>2, <2>3, <2>4 DEF StoreInv
<1>2. CASE Secret!TpmChanges \/ Secret!TpmCleared
  BY <1>2, TpmKeeps
<1>3. ASSUME NEW p \in Procs, Secret!ensure_available(p) \/ Secret!store(p) \/ Secret!erase(p) PROVE StoreInv'
  BY <1>3, BeginKeeps
<1>4. ASSUME NEW p \in Procs, Secret!load(p) PROVE StoreInv'
  BY <1>4, LoadKeeps
<1>5. ASSUME NEW p \in Procs, Secret!Evict(p) PROVE StoreInv'
  BY <1>5, EvictKeeps
<1>6. ASSUME NEW p \in Procs, Secret!Write(p) PROVE StoreInv'
  <2>1. PICK c \in op[p] : c.kind \in Secret!Writes /\ c.at = "write"
    BY <1>6 DEF Secret!Write, Secret!At
  <2> QED BY <1>6, <2>1, WriteKeeps
<1>7. ASSUME NEW p \in Procs, Secret!WriteFails(p) PROVE StoreInv'
  BY <1>7, WriteFailsKeeps
<1>8. ASSUME NEW p \in Procs, Secret!Verify(p) PROVE StoreInv'
  BY <1>8, VerifyKeeps
<1>9. ASSUME NEW p \in Procs, Secret!_windows_golge_sil(p) PROVE StoreInv'
  BY <1>9, ShadowKeeps
<1>10. ASSUME NEW p \in Procs, Secret!DeleteProbe(p) PROVE StoreInv'
  BY <1>10, DeleteProbeKeeps
<1>11. ASSUME NEW p \in Procs, Secret!EraseCompound(p) PROVE StoreInv'
  <2>1. PICK c \in op[p] : TRUE
    BY <1>11 DEF Secret!EraseCompound, Secret!At
  <2> QED BY <1>11, <2>1, EraseCompoundKeeps
<1>12. ASSUME NEW p \in Procs, Secret!EraseBare(p) PROVE StoreInv'
  <2>1. PICK c \in op[p] : TRUE
    BY <1>12 DEF Secret!EraseBare, Secret!At
  <2> QED BY <1>12, <2>1, EraseBareKeeps
<1>13. ASSUME NEW p \in Procs, Secret!EraseFails(p) PROVE StoreInv'
  BY <1>13, EraseFailsKeeps
<1>14. ASSUME NEW p \in Procs, Secret!Stop(p) PROVE StoreInv'
  BY <1>14, StopKeeps
<1> QED BY <1>1, <1>2, <1>3, <1>4, <1>5, <1>6, <1>7, <1>8, <1>9, <1>10, <1>11, <1>12, <1>13, <1>14 DEF Secret!Next

LEMMA StoreClean == StoreInv => Secret!NoStaleCopy
BY DEF StoreInv, Secret!NoStaleCopy, Secret!Free, Settled, Clean

-----------------------------------------------------------------------------
(***************************************************************************)
(* The store keeps its promise.                                            *)
(***************************************************************************)
\* What the user gets for a set of records, and which calls a set of them are.
ValueIn(S) == IF S = {} THEN Nothing ELSE (CHOOSE r \in S : TRUE).value
Called(S) ==
    {[kind |-> "store", user |-> c.new.user, value |-> c.new.value] : c \in {d \in S : d.kind = "store"}}
    \cup {[kind |-> "erase", user |-> c.new.user] : c \in {d \in S : d.kind = "erase"}}

LEMMA Reading ==
    /\ \A u : Secret!Value(u) = ValueIn(Secret!get_password(u)) /\ Secret!Value(u)' = ValueIn(Secret!get_password(u)')
    /\ \A q : Secret!Pending(q) = Called(op[q]) /\ Secret!Pending(q)' = Called(op'[q])
BY DEF Secret!Value, ValueIn, Secret!Pending, Called

LEMMA CalledFacts ==
    /\ Called({}) = {}
    /\ \A x \in Secret!Op : x.kind = "store" => Called({x}) = {[kind |-> "store", user |-> x.new.user, value |-> x.new.value]}
    /\ \A x \in Secret!Op : x.kind = "erase" => Called({x}) = {[kind |-> "erase", user |-> x.new.user]}
    /\ \A x \in Secret!Op : x.kind \notin {"store", "erase"} => Called({x}) = {}
BY DEF Called, Secret!Op

LEMMA ValueFacts == ValueIn({}) = Nothing /\ \A r : ValueIn({r}) = r.value
BY DEF ValueIn

\* A step that no caller notices.
LEMMA Stutters ==
    ASSUME \A u \in Users : Secret!get_password(u)' = Secret!get_password(u), \A q \in Procs : Called(op'[q]) = Called(op[q])
    PROVE  UNCHANGED Secret!KS!vars
<1>1. \A u \in Users : Secret!Value(u)' = Secret!Value(u)
  BY Reading
<1>2. \A q \in Procs : Secret!Pending(q)' = Secret!Pending(q)
  BY Reading
<1> QED BY <1>1, <1>2 DEF Secret!KS!vars

LEMMA Begins ==
    ASSUME NEW p \in Procs, NEW x \in Secret!Op, op \in [Procs -> SUBSET Secret!Op], op[p] = {}, op' = [op EXCEPT ![p] = {x}],
           x.kind \in {"store", "erase"}, x.new.user \in Users, x.kind = "store" => x.new.value \in Values,
           \A u \in Users : Secret!get_password(u)' = Secret!get_password(u)
    PROVE  Secret!KS!Begin(p)
<1>1. \A u \in Users : Secret!Value(u)' = Secret!Value(u)
  BY Reading
<1>2. Secret!Pending(p) = {} /\ Secret!Pending(p)' = Called({x}) /\ \A q \in Procs \ {p} : Secret!Pending(q)' = Secret!Pending(q)
  BY Reading, CalledFacts
<1>3. PICK c \in Secret!KS!Call : Called({x}) = {c}
  BY CalledFacts DEF Secret!KS!Call
<1> QED BY <1>1, <1>2, <1>3 DEF Secret!KS!Begin

LEMMA Ends ==
    ASSUME NEW p \in Procs, op \in [Procs -> SUBSET Secret!Op], op' = [op EXCEPT ![p] = {}],
           \A u \in Users : Secret!get_password(u)' = Secret!get_password(u)
    PROVE  Secret!KS!End(p)
<1>1. \A u \in Users : Secret!Value(u)' = Secret!Value(u)
  BY Reading
<1>2. Secret!Pending(p)' = {} /\ \A q \in Procs \ {p} : Secret!Pending(q)' = Secret!Pending(q)
  BY Reading, CalledFacts
<1> QED BY <1>1, <1>2 DEF Secret!KS!End

LEMMA Effects ==
    ASSUME NEW p \in Procs, NEW c \in Secret!Op, op \in [Procs -> SUBSET Secret!Op], op[p] = {c},
           c.kind \in {"store", "erase"}, c.new.user \in Users,
           Secret!get_password(c.new.user)' = IF c.kind = "store" THEN {c.new} ELSE {},
           \A u \in Users \ {c.new.user} : Secret!get_password(u)' = Secret!get_password(u),
           \/ \E x \in Secret!Op : x.kind = c.kind /\ x.new = c.new /\ op' = [op EXCEPT ![p] = {x}]
           \/ op' = [op EXCEPT ![p] = {}]
    PROVE  Secret!KS!Effect(p)
<1>1. \A u \in Users : Secret!Value(u)' = IF u # c.new.user THEN Secret!Value(u) ELSE IF c.kind = "store" THEN c.new.value ELSE Nothing
  BY Reading, ValueFacts
<1>2. PICK d \in Called({c}) :
        /\ d.kind = c.kind /\ d.user = c.new.user /\ (c.kind = "store" => d.value = c.new.value)
        /\ Secret!Pending(p) = {d}
  BY Reading, CalledFacts
<1>3. \/ \A q \in Procs : Secret!Pending(q)' = Secret!Pending(q)
      \/ Secret!Pending(p)' = {} /\ \A q \in Procs \ {p} : Secret!Pending(q)' = Secret!Pending(q)
  <2>1. CASE op' = [op EXCEPT ![p] = {}]
    BY <2>1, Reading, CalledFacts
  <2>2. ASSUME NEW x \in Secret!Op, x.kind = c.kind, x.new = c.new, op' = [op EXCEPT ![p] = {x}]
        PROVE  \A q \in Procs : Secret!Pending(q)' = Secret!Pending(q)
    <3>1. CASE c.kind = "store"
      <4>1. Called({c}) = {[kind |-> "store", user |-> c.new.user, value |-> c.new.value]}
        BY <3>1, CalledFacts
      <4>2. Called({x}) = {[kind |-> "store", user |-> x.new.user, value |-> x.new.value]}
        BY <2>2, <3>1, CalledFacts
      <4>3. Called({x}) = Called({c})
        BY <2>2, <4>1, <4>2
      <4> QED BY <2>2, <4>3, Reading
    <3>2. CASE c.kind = "erase"
      <4>1. Called({c}) = {[kind |-> "erase", user |-> c.new.user]}
        BY <3>2, CalledFacts
      <4>2. Called({x}) = {[kind |-> "erase", user |-> x.new.user]}
        BY <2>2, <3>2, CalledFacts
      <4>3. Called({x}) = Called({c})
        BY <2>2, <4>1, <4>2
      <4> QED BY <2>2, <4>3, Reading
    <3> QED BY <3>1, <3>2
  <2> QED BY <2>1, <2>2
<1>4. [u \in Users |-> Secret!Value(u)'] =
        [[u \in Users |-> Secret!Value(u)] EXCEPT ![d.user] = IF d.kind = "store" THEN d.value ELSE Nothing]
  BY <1>1, <1>2
<1>5. \/ [q \in Procs |-> Secret!Pending(q)'] = [q \in Procs |-> Secret!Pending(q)]
      \/ [q \in Procs |-> Secret!Pending(q)'] = [[q \in Procs |-> Secret!Pending(q)] EXCEPT ![p] = {}]
  BY <1>3
<1>6. d \in [q \in Procs |-> Secret!Pending(q)][p]
  BY <1>2
<1> QED BY <1>4, <1>5, <1>6 DEF Secret!KS!Effect

\* A call of the library takes its effect in Write, an erase where the record the
\* caller would read is deleted; everything else is a beginning, an end or a stutter.
LEMMA InitPromise == Secret!Init => Secret!KS!Init
<1> SUFFICES ASSUME Secret!Init PROVE Secret!KS!Init
  OBVIOUS
<1>1. \A u \in Users : Secret!get_password(u) = {}
  BY DEF Secret!Init, Secret!get_password, Secret!BareOf, Secret!Names
<1>2. \A u \in Users : Secret!Value(u) = Nothing
  BY <1>1, Reading, ValueFacts
<1>3. \A q \in Procs : Secret!Pending(q) = {}
  BY Reading, CalledFacts DEF Secret!Init
<1> QED BY <1>2, <1>3 DEF Secret!KS!Init

LEMMA CallStarts ==
    ASSUME StoreInv, NEW p \in Procs, Secret!ensure_available(p) \/ Secret!store(p) \/ Secret!load(p) \/ Secret!erase(p)
    PROVE  [Secret!KS!Next]_(Secret!KS!vars)
<1>1. \A u \in Users : Secret!get_password(u)' = Secret!get_password(u)
  BY DEF Secret!ensure_available, Secret!store, Secret!load, Secret!erase, Secret!Store, Secret!get_password, Secret!BareOf
<1>2. op \in [Procs -> SUBSET Secret!Op] /\ (Secret!ensure_available(p) => op[p] = {} \/ life[p] = "off")
  BY DEF StoreInv, OpTypes, Secret!ensure_available
<1>3. op[p] = {}
  <2>1. CASE Secret!ensure_available(p)
    <3>1. life[p] = "off"
      BY <2>1 DEF Secret!ensure_available
    <3>2. \A c \in op[p] : FALSE
      BY <3>1 DEF StoreInv, Placed
    <3> QED BY <3>2
  <2>2. CASE Secret!store(p) \/ Secret!load(p) \/ Secret!erase(p)
    BY <2>2 DEF Secret!store, Secret!load, Secret!erase, Secret!Free
  <2> QED BY <2>1, <2>2
<1>4. CASE Secret!ensure_available(p)
  <2> DEFINE r == [user |-> Probe, value |-> Canary, seal |-> 0]
             x == [kind |-> "probe", at |-> "evict", new |-> r]
  <2>1. r \in Secret!Record
    BY SealTypes DEF Secret!Record, Secret!Names
  <2>2. op' = [op EXCEPT ![p] = {x}]
    BY <1>4 DEF Secret!ensure_available, Secret!Begin
  <2> HIDE DEF r
  <2>3. x \in Secret!Op /\ x.kind = "probe"
    BY <2>1 DEF Secret!Op, Secret!Kinds, Secret!Places
  <2> HIDE DEF x
  <2>4. \A q \in Procs : Called(op'[q]) = Called(op[q])
    BY <1>2, <1>3, <2>2, <2>3, CalledFacts
  <2> QED BY <1>1, <2>4, Stutters
<1>5. CASE Secret!store(p)
  <2>1. PICK u \in Users, v \in Values, s \in Secret!belki_muhurle(p) :
          Secret!Begin(p, "store", "evict", [user |-> u, value |-> v, seal |-> s])
    BY <1>5 DEF Secret!store
  <2> DEFINE r == [user |-> u, value |-> v, seal |-> s]
             x == [kind |-> "store", at |-> "evict", new |-> r]
  <2>2. r \in Secret!Record /\ r.user = u /\ r.value = v
    BY SealTypes DEF Secret!Record, Secret!Names, Secret!belki_muhurle
  <2>3. op' = [op EXCEPT ![p] = {x}]
    BY <2>1 DEF Secret!Begin
  <2> HIDE DEF r
  <2>4. x \in Secret!Op /\ x.kind = "store" /\ x.new = r
    BY <2>2 DEF Secret!Op, Secret!Kinds, Secret!Places
  <2> HIDE DEF x
  <2>5. Secret!KS!Begin(p)
    BY <1>1, <1>2, <1>3, <2>2, <2>3, <2>4, Begins
  <2> QED BY <2>5 DEF Secret!KS!Next
<1>6. CASE Secret!load(p)
  <2>1. CASE UNCHANGED op
    BY <1>1, <2>1, Stutters
  <2>2. ASSUME NEW u \in Users, NEW r \in Secret!get_password(u), NEW s \in Secret!belki_muhurle(p),
               Secret!Begin(p, "reseal", "evict", [r EXCEPT !.seal = s])
        PROVE  UNCHANGED Secret!KS!vars
    <3> DEFINE y == [r EXCEPT !.seal = s]
               x == [kind |-> "reseal", at |-> "evict", new |-> y]
    <3>1. r \in Secret!Record /\ s \in Secret!Seals
      BY <2>2, SealTypes DEF Secret!get_password, Secret!BareOf, StoreInv, StoreTypes, Secret!Names, Secret!belki_muhurle
    <3>2. y \in Secret!Record
      BY <3>1 DEF Secret!Record
    <3>3. op' = [op EXCEPT ![p] = {x}]
      BY <2>2 DEF Secret!Begin
    <3> HIDE DEF y
    <3>4. x \in Secret!Op /\ x.kind = "reseal"
      BY <3>2 DEF Secret!Op, Secret!Kinds, Secret!Places
    <3> HIDE DEF x
    <3>5. \A q \in Procs : Called(op'[q]) = Called(op[q])
      BY <1>2, <1>3, <3>3, <3>4, CalledFacts
    <3> QED BY <1>1, <3>5, Stutters
  <2> QED BY <1>6, <2>1, <2>2 DEF Secret!load
<1>7. CASE Secret!erase(p)
  <2>1. PICK u \in Users, next \in {"compound", "bare"} :
          Secret!Begin(p, "erase", next, [user |-> u, value |-> Canary, seal |-> 0])
    BY <1>7 DEF Secret!erase
  <2> DEFINE r == [user |-> u, value |-> Canary, seal |-> 0]
             x == [kind |-> "erase", at |-> next, new |-> r]
  <2>2. r \in Secret!Record /\ r.user = u
    BY SealTypes DEF Secret!Record, Secret!Names
  <2>3. op' = [op EXCEPT ![p] = {x}]
    BY <2>1 DEF Secret!Begin
  <2> HIDE DEF r
  <2>4. x \in Secret!Op /\ x.kind = "erase" /\ x.new = r
    BY <2>2 DEF Secret!Op, Secret!Kinds, Secret!Places
  <2> HIDE DEF x
  <2>5. Secret!KS!Begin(p)
    BY <1>1, <1>2, <1>3, <2>2, <2>3, <2>4, Begins
  <2> QED BY <2>5 DEF Secret!KS!Next
<1> QED BY <1>4, <1>5, <1>6, <1>7

\* A call that goes on to its next place, its record not yet touched.
LEMMA GoesOn ==
    ASSUME StoreInv, NEW p \in Procs, NEW c \in op[p], NEW x \in Secret!Op, x.kind = c.kind, x.new = c.new,
           op' = [op EXCEPT ![p] = {x}], \A u \in Users : Secret!get_password(u)' = Secret!get_password(u)
    PROVE  UNCHANGED Secret!KS!vars
<1>1. c \in Secret!Op /\ op[p] = {c} /\ op \in [Procs -> SUBSET Secret!Op]
  BY CallFacts DEF StoreInv, OpTypes
<1>2. Called({x}) = Called({c})
  BY <1>1, CalledFacts
<1>3. \A q \in Procs : Called(op'[q]) = Called(op[q])
  BY <1>1, <1>2
<1> QED BY <1>3, Stutters

LEMMA WriteCalls ==
    ASSUME OneProcess, StoreInv, NEW p \in Procs, Secret!Evict(p) \/ Secret!Write(p) \/ Secret!Verify(p)
    PROVE  [Secret!KS!Next]_(Secret!KS!vars)
<1>1. CASE Secret!Evict(p) \/ Secret!Verify(p)
  <2>1. \A u \in Users : Secret!get_password(u)' = Secret!get_password(u)
    BY <1>1, EvictKeeps DEF Secret!Verify, Secret!Store, Secret!get_password, Secret!BareOf
  <2>2. PICK c \in op[p], next \in Secret!Places : Secret!Goto(p, c, next)
    BY <1>1 DEF Secret!Evict, Secret!Verify, Secret!At, Secret!Places
  <2>3. c \in Secret!Op
    BY CallFacts
  <2> DEFINE x == [c EXCEPT !.at = next]
  <2>4. x \in Secret!Op /\ x.kind = c.kind /\ x.new = c.new
    BY <2>3, NextPlace
  <2>5. op' = [op EXCEPT ![p] = {x}]
    BY <2>2 DEF Secret!Goto
  <2> HIDE DEF x
  <2> QED BY <2>1, <2>4, <2>5, GoesOn
<1>2. CASE Secret!Write(p)
  <2>1. PICK c \in op[p] : c.kind \in Secret!Writes /\ c.at = "write"
    BY <1>2 DEF Secret!Write, Secret!At
  <2>2. c \in Secret!Op /\ op[p] = {c} /\ Placed(p, c) /\ Done(c) /\ op \in [Procs -> SUBSET Secret!Op]
    BY CallFacts DEF StoreInv, OpTypes
  <2>3. /\ Secret!get_password(c.new.user)' = {c.new}
        /\ \A u \in Users \ {c.new.user} : Secret!get_password(u)' = Secret!get_password(u)
    BY <1>2, <2>1, WriteKeeps
  <2>4. PICK x \in Secret!Op : x.kind = c.kind /\ x.new = c.new /\ op' = [op EXCEPT ![p] = {x}]
    BY <1>2, <2>1, WriteKeeps
  <2>5. CASE c.kind = "store"
    <3>1. c.new.user \in Users
      BY <2>2, <2>5 DEF Placed
    <3>2. Secret!KS!Effect(p)
      BY <2>2, <2>3, <2>4, <2>5, <3>1, Effects
    <3> QED BY <3>2 DEF Secret!KS!Next
  <2>6. CASE c.kind = "reseal"
    <3>1. PICK r \in Secret!get_password(c.new.user) : r.value = c.new.value
      BY <2>1, <2>2, <2>6 DEF Done
    <3>2. Secret!get_password(c.new.user) = {r}
      BY <2>2, <2>6, <3>1 DEF Secret!get_password, Secret!BareOf, StoreInv, StoreTypes, Placed, Secret!Names
    <3>3. \A u \in Users : Secret!Value(u)' = Secret!Value(u)
      BY <2>3, <3>1, <3>2, Reading, ValueFacts
    <3>4. Called({x}) = Called({c})
      BY <2>2, <2>4, CalledFacts, ZenonT(60)
    <3>5. \A q \in Procs : Secret!Pending(q)' = Secret!Pending(q)
      BY <2>2, <2>4, <3>4, Reading
    <3>6. UNCHANGED Secret!KS!vars
      BY <3>3, <3>5 DEF Secret!KS!vars
    <3> QED BY <3>6
  <2>7. CASE c.kind = "probe"
    <3>1. c.new.user \notin Users
      BY <2>2, <2>7, StoreAssumption DEF Placed
    <3> QED BY <2>3, <2>4, <3>1, GoesOn
  <2> QED BY <2>1, <2>5, <2>6, <2>7 DEF Secret!Writes
<1> QED BY <1>1, <1>2

LEMMA EraseCalls ==
    ASSUME OneProcess, StoreInv, NEW p \in Procs, Secret!EraseCompound(p) \/ Secret!EraseBare(p)
    PROVE  [Secret!KS!Next]_(Secret!KS!vars)
<1>1. PICK c \in op[p] : TRUE
  BY DEF Secret!EraseCompound, Secret!EraseBare, Secret!At
<1>2. c \in Secret!Op /\ op[p] = {c} /\ op \in [Procs -> SUBSET Secret!Op]
  BY CallFacts DEF StoreInv, OpTypes
<1>3. c.kind = "erase" /\ c.new.user \in Users /\ \A u \in Users \ {c.new.user} : Secret!get_password(u)' = Secret!get_password(u)
  BY EraseCompoundKeeps, EraseBareKeeps
<1>4. \/ \E x \in Secret!Op : x.kind = c.kind /\ x.new = c.new /\ op' = [op EXCEPT ![p] = {x}]
      \/ op' = [op EXCEPT ![p] = {}]
  BY EraseCompoundKeeps, EraseBareKeeps
<1>5. CASE Secret!get_password(c.new.user)' = {}
  <2>1. Secret!KS!Effect(p)
    BY <1>2, <1>3, <1>4, <1>5, Effects
  <2> QED BY <2>1 DEF Secret!KS!Next
<1>6. CASE Secret!EraseCompound(p) /\ Secret!get_password(c.new.user)' = Secret!get_password(c.new.user)
  <2>1. \A u \in Users : Secret!get_password(u)' = Secret!get_password(u)
    BY <1>3, <1>6
  <2>2. PICK x \in Secret!Op : x.kind = c.kind /\ x.new = c.new /\ op' = [op EXCEPT ![p] = {x}]
    BY <1>6, EraseCompoundKeeps
  <2> QED BY <2>1, <2>2, GoesOn
<1>7. Secret!EraseBare(p) => Secret!get_password(c.new.user)' = {}
  BY EraseBareKeeps
<1>8. Secret!EraseCompound(p) => Secret!get_password(c.new.user)' \in {{}, Secret!get_password(c.new.user)}
  BY EraseCompoundKeeps
<1> QED BY <1>5, <1>6, <1>7, <1>8

LEMMA CallEnds ==
    ASSUME OneProcess, StoreInv, NEW p \in Procs,
           Secret!WriteFails(p) \/ Secret!_windows_golge_sil(p) \/ Secret!DeleteProbe(p) \/ Secret!EraseFails(p) \/ Secret!Stop(p)
    PROVE  [Secret!KS!Next]_(Secret!KS!vars)
<1>1. \A u \in Users : Secret!get_password(u)' = Secret!get_password(u)
  <2>1. Secret!WriteFails(p) \/ Secret!EraseFails(p) \/ Secret!Stop(p) => UNCHANGED <<bare, comp>>
    BY DEF Secret!WriteFails, Secret!EraseFails, Secret!Stop, Secret!Store
  <2>2. UNCHANGED <<bare, comp>> => \A u \in Users : Secret!get_password(u)' = Secret!get_password(u)
    BY DEF Secret!get_password, Secret!BareOf
  <2> QED BY <2>1, <2>2, ShadowKeeps, DeleteProbeKeeps
<1>2. CASE op' = [op EXCEPT ![p] = {}]
  <2>1. Secret!KS!End(p)
    BY <1>1, <1>2, Ends DEF StoreInv, OpTypes
  <2> QED BY <2>1 DEF Secret!KS!Next
<1>3. CASE op' # [op EXCEPT ![p] = {}]
  <2>1. Secret!WriteFails(p)
    BY <1>3, ShadowKeeps, DeleteProbeKeeps DEF Secret!EraseFails, Secret!Stop, Secret!End
  <2>2. PICK c \in op[p] : Secret!Goto(p, c, "refuse")
    BY <1>3, <2>1 DEF Secret!WriteFails, Secret!End
  <2>3. c \in Secret!Op
    BY CallFacts
  <2> DEFINE x == [c EXCEPT !.at = "refuse"]
  <2>4. x \in Secret!Op /\ x.kind = c.kind /\ x.new = c.new
    BY <2>3, NextPlace DEF Secret!Places
  <2>5. op' = [op EXCEPT ![p] = {x}]
    BY <2>2 DEF Secret!Goto
  <2> HIDE DEF x
  <2> QED BY <1>1, <2>4, <2>5, GoesOn
<1> QED BY <1>2, <1>3

LEMMA NextPromise ==
    ASSUME OneProcess, StoreInv, [Secret!Next]_(Secret!vars)
    PROVE  [Secret!KS!Next]_(Secret!KS!vars)
<1>1. CASE Secret!TpmChanges \/ Secret!TpmCleared \/ UNCHANGED Secret!vars
  <2>1. UNCHANGED <<bare, comp, op>>
    BY <1>1 DEF Secret!TpmChanges, Secret!TpmCleared, Secret!vars, Secret!Store
  <2>2. \A u \in Users : Secret!get_password(u)' = Secret!get_password(u)
    BY <2>1 DEF Secret!get_password, Secret!BareOf
  <2> QED BY <2>1, <2>2, Stutters
<1>2. ASSUME NEW p \in Procs, Secret!ensure_available(p) \/ Secret!store(p) \/ Secret!load(p) \/ Secret!erase(p) PROVE [Secret!KS!Next]_(Secret!KS!vars)
  BY <1>2, CallStarts
<1>3. ASSUME NEW p \in Procs, Secret!Evict(p) \/ Secret!Write(p) \/ Secret!Verify(p) PROVE [Secret!KS!Next]_(Secret!KS!vars)
  BY <1>3, WriteCalls
<1>4. ASSUME NEW p \in Procs, Secret!EraseCompound(p) \/ Secret!EraseBare(p) PROVE [Secret!KS!Next]_(Secret!KS!vars)
  BY <1>4, EraseCalls
<1>5. ASSUME NEW p \in Procs, Secret!WriteFails(p) \/ Secret!_windows_golge_sil(p) \/ Secret!DeleteProbe(p) \/ Secret!EraseFails(p) \/ Secret!Stop(p)
      PROVE  [Secret!KS!Next]_(Secret!KS!vars)
  BY <1>5, CallEnds
<1> QED BY <1>1, <1>2, <1>3, <1>4, <1>5 DEF Secret!Next

-----------------------------------------------------------------------------
(*****************************************************************************)
(* The backups.                                                              *)
(*****************************************************************************)
\* What each variable is, records by their fields.
BackupTypes ==
    /\ vault \in [Files -> SUBSET Back!Content] /\ \A f \in Files : \A c, d \in vault[f] : c = d
    /\ rows \in SUBSET Files
    /\ hwid \in Holders /\ buffer \in Holders \cup {Zero}
    /\ job \in [at : {"off", "copy", "seal", "manifest", "note"}, todo : SUBSET Files,
                n : 0..MaxBackups, hwid : Holders]
    /\ job.at # "off" => job.n # 0
    /\ dirs \in [1..MaxBackups -> Back!Dir]
    /\ restore \in [n : 0..MaxBackups, done : SUBSET Back!Entry, clean : BOOLEAN]

\* A directory that is not written to any more, and one that is.
Finished(d) == d.manifest # {} => d.sealed # {} /\ \A s \in d.sealed : s.key # Zero
OneOfAFile(d) ==
    /\ \A e, x \in d.copies : e[1] = x[1] => e = x
    /\ \A m, x \in d.manifest : m = x
DirInv ==
    /\ \A k \in 1..MaxBackups : Finished(dirs[k]) /\ OneOfAFile(dirs[k])
    /\ \A k \in 1..MaxBackups : k > job.n => dirs[k] = Back!Empty
    /\ job.at \in {"copy", "seal", "manifest"} => dirs[job.n].manifest = {}
    /\ job.at = "copy" => \A e \in dirs[job.n].copies : e[1] \notin job.todo
    /\ job.at = "manifest" => dirs[job.n].sealed # {} /\ \A s \in dirs[job.n].sealed : s.key # Zero
    /\ job.at = "seal" => dirs[job.n].sealed # {}
    /\ job.at = "note" => dirs[job.n].manifest # {}

\* A backup that counts as taken is there.
TakenInv == last # -1 => \E k \in 1..MaxBackups : dirs[k].manifest # {}

\* What the restore verified, and what it has brought back.
RestoreInv ==
    /\ restore.n # 0 => dirs[restore.n].manifest # {}
    /\ restore.n = 0 => restore.done = {}
    /\ restore.n # 0 /\ restore.clean =>
        \E m \in dirs[restore.n].manifest, s \in dirs[restore.n].sealed :
            /\ m.entries \subseteq dirs[restore.n].copies /\ s.entries = m.entries
            /\ restore.done # {} => restore.done = s.entries

BackupInv == BackupTypes /\ DirInv /\ TakenInv /\ RestoreInv

-----------------------------------------------------------------------------
LEMMA InitBackup == Back!Init => BackupInv
<1> SUFFICES ASSUME Back!Init PROVE BackupInv
  OBVIOUS
<1>1. 0 \in 0..MaxBackups /\ \A k \in 1..MaxBackups : k > 0
  BY BackupAssumption
<1>2. Back!Empty \in Back!Dir
  BY DEF Back!Empty, Back!Dir
<1>3. [ver |-> 1, owner |-> hwid, half |-> FALSE] \in Back!Content
  BY BackupAssumption DEF Back!Init, Back!Content, Back!Versions
<1>4. vault \in [Files -> SUBSET Back!Content] /\ \A f \in Files : \A c, d \in vault[f] : c = d
  <2> DEFINE new == [ver |-> 1, owner |-> hwid, half |-> FALSE]
  <2>1. vault \in [Files -> {{}, {new}}] /\ new \in Back!Content
    BY <1>3 DEF Back!Init
  <2> HIDE DEF new
  <2> QED BY <2>1
<1>5. BackupTypes
  BY <1>1, <1>2, <1>4 DEF Back!Init, BackupTypes
<1>6. DirInv
  BY <1>1 DEF Back!Init, DirInv, Finished, OneOfAFile, Back!Empty
<1> QED BY <1>5, <1>6 DEF Back!Init, BackupInv, TakenInv, RestoreInv

\* The other parts of the window, and the clock.
LEMMA AroundBackup ==
    ASSUME BackupInv, Back!Lock \/ (\E t \in Holders : Back!Unlock(t)) \/ Back!Day \/ Back!ertele
    PROVE  BackupInv'
<1>1. BackupTypes' /\ UNCHANGED <<job, dirs, restore>>
  BY DEF BackupInv, BackupTypes, Back!Lock, Back!Unlock, Back!Day, Back!ertele, Back!Window, Back!Live, Back!Reminder
<1>2. last' # -1 => last # -1
  BY DEF Back!Lock, Back!Unlock, Back!Day, Back!ertele, Back!Reminder, Back!Older
<1> QED BY <1>1, <1>2 DEF BackupInv, DirInv, TakenInv, RestoreInv

LEMMA FilesAround ==
    ASSUME BackupInv, NEW f \in Files, Back!AddBegins(f) \/ Back!AddEnds(f) \/ Back!CheckIn(f) \/ Back!Unlink(f) \/ Back!DropRow(f)
    PROVE  BackupInv'
<1>1. UNCHANGED <<hwid, buffer, job, dirs, last, snoozed, restore>>
  BY DEF Back!AddBegins, Back!AddEnds, Back!CheckIn, Back!Unlink, Back!DropRow, Back!Window, Back!Reminder
<1>2. vault \in [Files -> SUBSET Back!Content] /\ \A g \in Files : \A c, d \in vault[g] : c = d
  BY DEF BackupInv, BackupTypes
<1>3. \E S \in SUBSET Back!Content : (\A c, d \in S : c = d) /\ vault' = [vault EXCEPT ![f] = S]
  <2>1. CASE Back!AddBegins(f)
    <3> DEFINE new == [ver |-> 1, owner |-> hwid, half |-> TRUE]
    <3>1. new \in Back!Content
      BY BackupAssumption DEF BackupInv, BackupTypes, Back!Content, Back!Versions
    <3>2. vault' = [vault EXCEPT ![f] = {new}]
      BY <2>1 DEF Back!AddBegins
    <3> HIDE DEF new
    <3> QED BY <3>1, <3>2
  <2>2. CASE Back!AddEnds(f)
    <3>1. PICK c \in vault[f] : vault' = [vault EXCEPT ![f] = {[c EXCEPT !.half = FALSE]}]
      BY <2>2 DEF Back!AddEnds
    <3>2. c \in Back!Content
      BY <1>2, <3>1
    <3>3. [c EXCEPT !.half = FALSE] \in Back!Content
      BY <3>2 DEF Back!Content
    <3> QED BY <3>1, <3>3
  <2>3. CASE Back!CheckIn(f)
    <3>1. PICK c \in vault[f] : c.ver < MaxVersion /\ vault' = [vault EXCEPT ![f] = {[c EXCEPT !.ver = @ + 1, !.owner = buffer]}]
      BY <2>3 DEF Back!CheckIn
    <3>2. c \in Back!Content /\ buffer \in Holders
      BY <1>2, <2>3 DEF Back!CheckIn, BackupInv, BackupTypes
    <3>3. c.ver + 1 \in Back!Versions
      BY <3>1, <3>2, BackupAssumption DEF Back!Content, Back!Versions
    <3>4. [c EXCEPT !.ver = @ + 1, !.owner = buffer] \in Back!Content
      BY <3>2, <3>3 DEF Back!Content
    <3> QED BY <3>1, <3>4
  <2>4. CASE Back!Unlink(f)
    BY <2>4 DEF Back!Unlink
  <2>5. CASE Back!DropRow(f)
    <3>1. vault' = [vault EXCEPT ![f] = vault[f]]
      BY <1>2, <2>5 DEF Back!DropRow
    <3> QED BY <1>2, <3>1
  <2> QED BY <2>1, <2>2, <2>3, <2>4, <2>5
<1>4. vault' \in [Files -> SUBSET Back!Content] /\ \A g \in Files : \A c, d \in vault'[g] : c = d
  BY <1>2, <1>3
<1>5. rows' \in SUBSET Files
  <2>1. rows' = rows \/ rows' = rows \cup {f} \/ rows' = rows \ {f}
    BY DEF Back!AddBegins, Back!AddEnds, Back!CheckIn, Back!Unlink, Back!DropRow
  <2> QED BY <2>1 DEF BackupInv, BackupTypes
<1>6. BackupTypes'
  BY <1>1, <1>4, <1>5 DEF BackupInv, BackupTypes
<1> QED BY <1>1, <1>6 DEF BackupInv, DirInv, TakenInv, RestoreInv

\* A step that writes the directory of the job, and what is still true of the others.
LEMMA OwnDirectory ==
    ASSUME BackupInv, job.at # "off", NEW d \in Back!Dir, Back!SetDir(d)
    PROVE  /\ dirs' \in [1..MaxBackups -> Back!Dir] /\ job.n \in 1..MaxBackups
           /\ dirs'[job.n] = d
           /\ \A k \in 1..MaxBackups \ {job.n} : dirs'[k] = dirs[k]
<1>1. job.n \in 1..MaxBackups
  BY BackupAssumption DEF BackupInv, BackupTypes
<1> QED BY <1>1 DEF BackupInv, BackupTypes, Back!SetDir, Back!n

\* The directory of a restore is not the one being written.
LEMMA RestoreApart ==
    ASSUME BackupInv, job.at \in {"copy", "seal", "manifest"}, restore.n # 0
    PROVE  restore.n # job.n /\ restore.n \in 1..MaxBackups
<1>1. restore.n \in 1..MaxBackups
  BY BackupAssumption DEF BackupInv, BackupTypes
<1> QED BY <1>1 DEF BackupInv, RestoreInv, DirInv

\* Writing the directory of the job before it has a manifest.
LEMMA WritingKeeps ==
    ASSUME BackupInv, job.at \in {"copy", "seal", "manifest"}, NEW d \in Back!Dir, Back!SetDir(d),
           UNCHANGED <<Back!Reminder, restore>>
    PROVE  RestoreInv' /\ TakenInv'
<1>1. /\ job.n \in 1..MaxBackups
      /\ \A k \in 1..MaxBackups \ {job.n} : dirs'[k] = dirs[k]
  BY OwnDirectory
<1>2. TakenInv'
  <2>1. ASSUME last # -1
        PROVE  \E k \in 1..MaxBackups : dirs'[k].manifest # {}
    <3>1. PICK k \in 1..MaxBackups : dirs[k].manifest # {}
      BY <2>1 DEF BackupInv, TakenInv
    <3>2. k # job.n
      BY <3>1 DEF BackupInv, DirInv
    <3> QED BY <1>1, <3>1, <3>2
  <2> QED BY <2>1 DEF TakenInv, Back!Reminder
<1>3. RestoreInv'
  <2>1. CASE restore.n = 0
    BY <2>1 DEF BackupInv, RestoreInv
  <2>2. CASE restore.n # 0
    <3>1. dirs'[restore.n] = dirs[restore.n]
      BY <1>1, <2>2, RestoreApart
    <3> QED BY <2>2, <3>1 DEF BackupInv, RestoreInv
  <2> QED BY <2>1, <2>2
<1> QED BY <1>2, <1>3

LEMMA BeginBackup ==
    ASSUME BackupInv, Back!_on_create_backup
    PROVE  BackupInv'
<1>1. job.n + 1 \in 1..MaxBackups /\ job.n \in Nat
  BY BackupAssumption DEF BackupInv, BackupTypes, Back!_on_create_backup, Back!n
<1>2. /\ job' = [at |-> "copy", todo |-> {f \in Files : vault[f] # {}}, n |-> job.n + 1, hwid |-> hwid]
      /\ UNCHANGED <<vault, rows, hwid, buffer, dirs, last, restore>>
  BY DEF Back!_on_create_backup, Back!n, Back!Reminder, Back!Untouched, Back!Live, Back!Window
<1>3. dirs[job.n + 1] = Back!Empty
  BY <1>1 DEF BackupInv, DirInv
<1>4. BackupTypes'
  BY <1>1, <1>2 DEF BackupInv, BackupTypes
<1>5. DirInv'
  BY <1>1, <1>2, <1>3 DEF BackupInv, DirInv, Back!Empty, Finished, OneOfAFile
<1> QED BY <1>2, <1>4, <1>5 DEF BackupInv, TakenInv, RestoreInv

LEMMA CopyKeeps ==
    ASSUME BackupInv, Back!Copy
    PROVE  BackupInv'
<1>1. PICK f \in job.todo :
        /\ job' = [job EXCEPT !.todo = @ \ {f}]
        /\ dirs' = [dirs EXCEPT ![Back!n].copies = @ \cup {<<f, c>> : c \in vault[f]}]
  BY DEF Back!Copy
<1>2. job.at = "copy" /\ UNCHANGED <<vault, rows, hwid, buffer, last, restore>> /\ UNCHANGED <<Back!Reminder, restore>>
  BY DEF Back!Copy, Back!At, Back!Untouched, Back!Live, Back!Window, Back!Reminder
<1>3. job.n \in 1..MaxBackups /\ dirs[job.n] \in Back!Dir /\ f \in Files /\ vault[f] \subseteq Back!Content
  BY <1>1, <1>2, BackupAssumption DEF BackupInv, BackupTypes
<1> DEFINE New == {<<f, c>> : c \in vault[f]}
           d == [dirs[job.n] EXCEPT !.copies = @ \cup New]
<1>4. New \subseteq Back!Entry /\ \A e, x \in New : e = x
  BY <1>3 DEF BackupInv, BackupTypes, Back!Entry
<1>5. \A e \in New : e[1] = f
  OBVIOUS
<1>6. d \in Back!Dir /\ d.copies = dirs[job.n].copies \cup New /\ d.manifest = dirs[job.n].manifest /\ d.sealed = dirs[job.n].sealed
  BY <1>3, <1>4 DEF Back!Dir
<1>7. Back!SetDir(d)
  BY <1>1, <1>3 DEF Back!SetDir, Back!n, BackupInv, BackupTypes
<1> HIDE DEF d, New
<1>8. /\ dirs' \in [1..MaxBackups -> Back!Dir] /\ dirs'[job.n] = d
      /\ \A k \in 1..MaxBackups \ {job.n} : dirs'[k] = dirs[k]
  BY <1>2, <1>6, <1>7, OwnDirectory
<1>9. job'.at = "copy" /\ job'.n = job.n /\ job'.todo = job.todo \ {f}
  BY <1>1, <1>2 DEF BackupInv, BackupTypes
<1>10. BackupTypes'
  BY <1>1, <1>2, <1>8 DEF BackupInv, BackupTypes
<1>11. DirInv'
  <2>1. \A e \in dirs[job.n].copies : e[1] \notin job.todo
    BY <1>2 DEF BackupInv, DirInv
  <2>2. OneOfAFile(d) /\ Finished(d) /\ d.manifest = {}
    BY <1>1, <1>2, <1>3, <1>4, <1>5, <1>6, <2>1 DEF BackupInv, DirInv, OneOfAFile, Finished
  <2>3. \A e \in d.copies : e[1] \notin job.todo \ {f}
    BY <1>5, <1>6, <2>1
  <2>4. \A k \in 1..MaxBackups : k > job.n => k # job.n
    BY <1>3
  <2> QED BY <1>3, <1>8, <1>9, <2>2, <2>3, <2>4 DEF BackupInv, DirInv
<1> QED BY <1>2, <1>6, <1>7, <1>10, <1>11, WritingKeeps DEF BackupInv

LEMMA DumpKeeps ==
    ASSUME BackupInv, Back!_dump_tables
    PROVE  BackupInv'
<1>1. job.at = "copy" /\ UNCHANGED <<vault, rows, hwid, buffer, last, restore>> /\ UNCHANGED <<Back!Reminder, restore>>
  BY DEF Back!_dump_tables, Back!At, Back!Untouched, Back!Live, Back!Window, Back!Reminder
<1>2. job.n \in 1..MaxBackups /\ dirs[job.n] \in Back!Dir
  BY <1>1, BackupAssumption DEF BackupInv, BackupTypes
<1>3. CASE Back!Goto("off") /\ UNCHANGED dirs
  <2>1. job' = [job EXCEPT !.at = "off"]
    BY <1>3 DEF Back!Goto
  <2>2. job'.at = "off" /\ job'.n = job.n /\ BackupTypes'
    BY <1>1, <1>3, <2>1 DEF BackupInv, BackupTypes
  <2> QED BY <1>1, <1>3, <2>2 DEF BackupInv, DirInv, TakenInv, RestoreInv
<1>4. ASSUME Back!Goto("seal"), NEW R \in SUBSET Files,
             Back!SetDir([dirs[Back!n] EXCEPT !.plain = TRUE,
                        !.sealed = {[key |-> Zero, hwid |-> job.hwid, entries |-> dirs[Back!n].copies, rows |-> R]}])
      PROVE  BackupInv'
  <2> DEFINE s == [key |-> Zero, hwid |-> job.hwid, entries |-> dirs[job.n].copies, rows |-> R]
             d == [dirs[job.n] EXCEPT !.plain = TRUE, !.sealed = {s}]
  <2>1. s \in [key : Holders \cup {Zero}, hwid : Holders, entries : SUBSET Back!Entry, rows : SUBSET Files]
    BY <1>2 DEF BackupInv, BackupTypes, Back!Dir
  <2>2. Back!SetDir(d)
    BY <1>4 DEF Back!n
  <2> HIDE DEF s
  <2>3. d \in Back!Dir /\ d.copies = dirs[job.n].copies /\ d.manifest = dirs[job.n].manifest /\ d.sealed = {s}
    BY <1>2, <2>1 DEF Back!Dir
  <2> HIDE DEF d
  <2>4. /\ dirs' \in [1..MaxBackups -> Back!Dir] /\ dirs'[job.n] = d
        /\ \A k \in 1..MaxBackups \ {job.n} : dirs'[k] = dirs[k]
    BY <1>1, <2>2, <2>3, OwnDirectory
  <2>5. job'.at = "seal" /\ job'.n = job.n
    BY <1>4 DEF Back!Goto, BackupInv, BackupTypes
  <2>6. BackupTypes'
    BY <1>1, <1>4, <2>4 DEF Back!Goto, BackupInv, BackupTypes
  <2>7. OneOfAFile(d) /\ Finished(d) /\ d.manifest = {} /\ d.sealed # {}
    BY <1>1, <1>2, <2>3 DEF BackupInv, DirInv, OneOfAFile, Finished
  <2>8. \A k \in 1..MaxBackups : k > job.n => k # job.n
    BY <1>2
  <2>9. DirInv'
    BY <1>2, <2>4, <2>5, <2>7, <2>8 DEF BackupInv, DirInv
  <2> QED BY <1>1, <2>2, <2>3, <2>6, <2>9, WritingKeeps DEF BackupInv
<1> DEFINE R == {f \in Files : f \in rows}
<1>5. CASE Back!Goto("seal") /\ Back!SetDir([dirs[Back!n] EXCEPT !.plain = TRUE,
                        !.sealed = {[key |-> Zero, hwid |-> job.hwid, entries |-> dirs[Back!n].copies, rows |-> rows]}])
  <2>1. rows \subseteq Files
    BY DEF BackupInv, BackupTypes
  <2> QED BY <1>4, <1>5, <2>1
<1> QED BY <1>3, <1>5 DEF Back!_dump_tables

LEMMA SealKeeps ==
    ASSUME BackupInv, Back!Seal
    PROVE  BackupInv'
<1>1. job.at = "seal" /\ UNCHANGED <<vault, rows, hwid, buffer, last, restore>> /\ UNCHANGED <<Back!Reminder, restore>>
  BY DEF Back!Seal, Back!At, Back!Untouched, Back!Live, Back!Window, Back!Reminder
<1>2. job.n \in 1..MaxBackups /\ dirs[job.n] \in Back!Dir
  BY <1>1, BackupAssumption DEF BackupInv, BackupTypes
<1>3. PICK S \in SUBSET [key : Holders \cup {Zero}, hwid : Holders, entries : SUBSET Back!Entry, rows : SUBSET Files] :
        /\ Back!SetDir([dirs[job.n] EXCEPT !.plain = FALSE, !.sealed = S])
        /\ \/ Back!Goto("off")
           \/ Back!Goto("manifest") /\ S # {} /\ \A s \in S : s.key # Zero
  <2>1. CASE buffer = Zero
    BY <2>1 DEF Back!Seal, Back!n
  <2>2. CASE buffer # Zero
    <3> DEFINE S == {[s EXCEPT !.key = buffer] : s \in dirs[job.n].sealed}
    <3>1. Back!SetDir([dirs[job.n] EXCEPT !.plain = FALSE, !.sealed = S]) /\ Back!Goto("manifest")
      BY <1>2, <2>2 DEF Back!Seal, Back!n, Back!Dir
    <3>2. \A s \in dirs[job.n].sealed :
            /\ [s EXCEPT !.key = buffer] \in [key : Holders \cup {Zero}, hwid : Holders, entries : SUBSET Back!Entry, rows : SUBSET Files]
            /\ [s EXCEPT !.key = buffer].key # Zero
      BY <1>2, <2>2 DEF Back!Dir, BackupInv, BackupTypes
    <3>3. dirs[job.n].sealed # {}
      BY <1>1 DEF BackupInv, DirInv
    <3>4. /\ S \in SUBSET [key : Holders \cup {Zero}, hwid : Holders, entries : SUBSET Back!Entry, rows : SUBSET Files]
          /\ S # {} /\ \A s \in S : s.key # Zero
      BY <3>2, <3>3
    <3> HIDE DEF S
    <3> QED BY <3>1, <3>4
  <2> QED BY <2>1, <2>2
<1> DEFINE d == [dirs[job.n] EXCEPT !.plain = FALSE, !.sealed = S]
<1>4. d \in Back!Dir /\ d.copies = dirs[job.n].copies /\ d.manifest = dirs[job.n].manifest /\ d.sealed = S
  BY <1>2 DEF Back!Dir
<1>5. Back!SetDir(d)
  BY <1>3
<1> HIDE DEF d
<1>6. /\ dirs' \in [1..MaxBackups -> Back!Dir] /\ dirs'[job.n] = d
      /\ \A k \in 1..MaxBackups \ {job.n} : dirs'[k] = dirs[k]
  BY <1>1, <1>4, <1>5, OwnDirectory
<1>7. /\ job'.n = job.n /\ job' \in [at : {"off", "copy", "seal", "manifest", "note"}, todo : SUBSET Files, n : 0..MaxBackups, hwid : Holders]
      /\ job'.at = "off" \/ (job'.at = "manifest" /\ S # {} /\ \A s \in S : s.key # Zero)
  BY <1>3 DEF Back!Goto, BackupInv, BackupTypes
<1>8. BackupTypes'
  BY <1>1, <1>2, <1>6, <1>7 DEF BackupInv, BackupTypes
<1>9. OneOfAFile(d) /\ Finished(d) /\ d.manifest = {}
  BY <1>1, <1>2, <1>4 DEF BackupInv, DirInv, OneOfAFile, Finished
<1>10. \A k \in 1..MaxBackups : k > job.n => k # job.n
  BY <1>2
<1>11. DirInv'
  BY <1>2, <1>4, <1>6, <1>7, <1>9, <1>10 DEF BackupInv, DirInv
<1> QED BY <1>1, <1>4, <1>5, <1>8, <1>11, WritingKeeps DEF BackupInv

LEMMA ManifestKeeps ==
    ASSUME BackupInv, Back!WriteManifest
    PROVE  BackupInv'
<1>1. job.at = "manifest" /\ UNCHANGED <<vault, rows, hwid, buffer, last, restore>> /\ UNCHANGED <<Back!Reminder, restore>>
  BY DEF Back!WriteManifest, Back!ManifestLast, Back!Untouched, Back!Live, Back!Window, Back!Reminder
<1>2. job.n \in 1..MaxBackups /\ dirs[job.n] \in Back!Dir
  BY <1>1, BackupAssumption DEF BackupInv, BackupTypes
<1> DEFINE m == [entries |-> dirs[job.n].copies]
           d == [dirs[job.n] EXCEPT !.manifest = {m}]
<1>3. m \in [entries : SUBSET Back!Entry] /\ Back!SetDir(d)
  BY <1>2 DEF Back!WriteManifest, Back!n, Back!Dir
<1> HIDE DEF m
<1>4. d \in Back!Dir /\ d.copies = dirs[job.n].copies /\ d.manifest = {m} /\ d.sealed = dirs[job.n].sealed
  BY <1>2, <1>3 DEF Back!Dir
<1> HIDE DEF d
<1>5. /\ dirs' \in [1..MaxBackups -> Back!Dir] /\ dirs'[job.n] = d
      /\ \A k \in 1..MaxBackups \ {job.n} : dirs'[k] = dirs[k]
  BY <1>1, <1>3, <1>4, OwnDirectory
<1>6. job'.at = "note" /\ job'.n = job.n
  BY DEF Back!WriteManifest, Back!Goto, BackupInv, BackupTypes
<1>7. BackupTypes'
  BY <1>1, <1>5 DEF Back!WriteManifest, Back!Goto, BackupInv, BackupTypes
<1>8. OneOfAFile(d) /\ Finished(d) /\ d.manifest # {}
  BY <1>1, <1>2, <1>4 DEF BackupInv, DirInv, OneOfAFile, Finished
<1>9. \A k \in 1..MaxBackups : k > job.n => k # job.n
  BY <1>2
<1>10. DirInv'
  BY <1>2, <1>5, <1>6, <1>8, <1>9 DEF BackupInv, DirInv
<1> QED BY <1>1, <1>3, <1>4, <1>7, <1>10, WritingKeeps DEF BackupInv

\* The call ends: noted, forgotten, or with its process.
LEMMA EndKeeps ==
    ASSUME BackupInv, Back!yedek_alindi \/ Back!Crash
    PROVE  BackupInv'
<1>1. job' = [job EXCEPT !.at = "off"] /\ UNCHANGED <<vault, rows, dirs, restore>>
  BY DEF Back!yedek_alindi, Back!Crash, Back!Goto, Back!Untouched, Back!Live
<1>2. hwid' \in Holders /\ buffer' \in Holders \cup {Zero}
  BY DEF Back!yedek_alindi, Back!Crash, Back!Untouched, Back!Window, BackupInv, BackupTypes
<1>3. BackupTypes' /\ job'.at = "off" /\ job'.n = job.n
  BY <1>1, <1>2 DEF BackupInv, BackupTypes
<1>4. DirInv' /\ RestoreInv'
  BY <1>1, <1>3 DEF BackupInv, DirInv, RestoreInv
<1>5. TakenInv'
  <2>1. CASE Back!yedek_alindi
    <3>1. job.n \in 1..MaxBackups /\ dirs[job.n].manifest # {}
      BY <2>1, BackupAssumption DEF Back!yedek_alindi, Back!At, BackupInv, BackupTypes, DirInv
    <3> QED BY <1>1, <3>1 DEF TakenInv
  <2>2. CASE Back!Crash
    BY <1>1, <2>2 DEF Back!Crash, Back!Reminder, BackupInv, TakenInv
  <2> QED BY <2>1, <2>2
<1> QED BY <1>3, <1>4, <1>5 DEF BackupInv

LEMMA VerifiedKeeps ==
    ASSUME BackupInv, Back!Verified
    PROVE  BackupInv'
<1>1. UNCHANGED <<vault, rows, hwid, buffer, job, dirs, last>>
  BY DEF Back!Verified, Back!Live, Back!Window, Back!Reminder
<1>2. PICK k \in 1..MaxBackups, t \in Holders : Back!verify_backup(k, t) /\ restore' = [n |-> k, done |-> {}, clean |-> TRUE]
  BY DEF Back!Verified
<1>3. PICK m \in dirs[k].manifest, s \in dirs[k].sealed : m.entries \subseteq dirs[k].copies /\ s.entries = m.entries
  BY <1>2 DEF Back!verify_backup
<1>4. k \in 0..MaxBackups /\ k # 0
  BY BackupAssumption
<1>5. BackupTypes'
  BY <1>1, <1>2, <1>4 DEF BackupInv, BackupTypes
<1>6. RestoreInv'
  BY <1>1, <1>2, <1>3, <1>4 DEF RestoreInv
<1> QED BY <1>1, <1>5, <1>6 DEF BackupInv, DirInv, TakenInv

\* Of one copy for a path, those of the paths in the list are the list.
LEMMA CopiesOfList ==
    ASSUME NEW C, NEW L \in SUBSET C, \A e, x \in C : e[1] = x[1] => e = x
    PROVE  {e \in C : \E x \in L : x[1] = e[1]} = L
OBVIOUS

LEMMA RestoreKeeps ==
    ASSUME BackupInv, Back!restore_backup
    PROVE  BackupInv'
<1>1. UNCHANGED <<vault, rows, hwid, buffer, job, dirs, last>> /\ restore.n # 0
  BY DEF Back!restore_backup, Back!Live, Back!Window, Back!Reminder
<1>2. restore.n \in 1..MaxBackups /\ dirs[restore.n] \in Back!Dir /\ OneOfAFile(dirs[restore.n])
  BY <1>1, BackupAssumption DEF BackupInv, BackupTypes, DirInv
<1>3. PICK m \in dirs[restore.n].manifest :
        restore' = [restore EXCEPT !.done = {e \in dirs[restore.n].copies : \E x \in m.entries : x[1] = e[1]}]
  BY DEF Back!restore_backup
<1> DEFINE D == {e \in dirs[restore.n].copies : \E x \in m.entries : x[1] = e[1]}
<1>4. D \in SUBSET Back!Entry
  BY <1>2 DEF Back!Dir
<1>5. m.entries \subseteq dirs[restore.n].copies => D = m.entries
  BY <1>2, CopiesOfList DEF OneOfAFile
<1>6. restore' = [restore EXCEPT !.done = D]
  BY <1>3
<1> HIDE DEF D
<1>7. BackupTypes' /\ restore'.n = restore.n /\ restore'.clean = restore.clean /\ restore'.done = D
  BY <1>1, <1>4, <1>6 DEF BackupInv, BackupTypes
<1>8. ASSUME restore.clean
      PROVE  \E s \in dirs[restore.n].sealed :
                m.entries \subseteq dirs[restore.n].copies /\ s.entries = m.entries /\ D = s.entries
  BY <1>1, <1>2, <1>5, <1>8 DEF BackupInv, RestoreInv, OneOfAFile
<1>9. RestoreInv'
  BY <1>1, <1>7, <1>8 DEF BackupInv, RestoreInv
<1> QED BY <1>1, <1>7, <1>9 DEF BackupInv, DirInv, TakenInv

LEMMA DecayKeeps ==
    ASSUME BackupInv, Back!Decay
    PROVE  BackupInv'
<1>1. UNCHANGED <<vault, rows, hwid, buffer, job, last>> /\ restore.done = {} /\ restore' = [restore EXCEPT !.clean = (restore.n = 0)]
  BY DEF Back!Decay, Back!Live, Back!Window, Back!Reminder
<1>2. PICK k \in 1..MaxBackups :
        /\ ~(k = job.n /\ job.at # "off")
        /\ \/ \E e \in dirs[k].copies : dirs' = [dirs EXCEPT ![k].copies = @ \ {e}]
           \/ \E m \in dirs[k].manifest : \E e \in m.entries :
                dirs' = [dirs EXCEPT ![k].manifest = {[entries |-> m.entries \ {e}]}]
  BY DEF Back!Decay, Back!n, Back!At
<1>3. PICK d \in Back!Dir :
        /\ dirs' = [dirs EXCEPT ![k] = d]
        /\ d.sealed = dirs[k].sealed /\ (d.manifest # {} <=> dirs[k].manifest # {})
        /\ OneOfAFile(d) /\ dirs[k] # Back!Empty
  <2>1. dirs[k] \in Back!Dir /\ OneOfAFile(dirs[k])
    BY DEF BackupInv, BackupTypes, DirInv
  <2>2. ASSUME NEW e \in dirs[k].copies, dirs' = [dirs EXCEPT ![k].copies = @ \ {e}]
        PROVE  \E d \in Back!Dir :
                /\ dirs' = [dirs EXCEPT ![k] = d]
                /\ d.sealed = dirs[k].sealed /\ (d.manifest # {} <=> dirs[k].manifest # {})
                /\ OneOfAFile(d) /\ dirs[k] # Back!Empty
    <3> DEFINE d == [dirs[k] EXCEPT !.copies = @ \ {e}]
    <3>1. d \in Back!Dir /\ d.copies = dirs[k].copies \ {e} /\ d.sealed = dirs[k].sealed /\ d.manifest = dirs[k].manifest
      BY <2>1 DEF Back!Dir
    <3>2. dirs' = [dirs EXCEPT ![k] = d] /\ dirs[k] # Back!Empty
      BY <2>1, <2>2 DEF Back!Empty
    <3> HIDE DEF d
    <3>3. OneOfAFile(d)
      BY <2>1, <3>1 DEF OneOfAFile
    <3> QED BY <3>1, <3>2, <3>3
  <2>3. ASSUME NEW m \in dirs[k].manifest, NEW e \in m.entries,
               dirs' = [dirs EXCEPT ![k].manifest = {[entries |-> m.entries \ {e}]}]
        PROVE  \E d \in Back!Dir :
                /\ dirs' = [dirs EXCEPT ![k] = d]
                /\ d.sealed = dirs[k].sealed /\ (d.manifest # {} <=> dirs[k].manifest # {})
                /\ OneOfAFile(d) /\ dirs[k] # Back!Empty
    <3> DEFINE x == [entries |-> m.entries \ {e}]
               d == [dirs[k] EXCEPT !.manifest = {x}]
    <3>1. x \in [entries : SUBSET Back!Entry]
      BY <2>1 DEF Back!Dir
    <3>2. dirs' = [dirs EXCEPT ![k] = d] /\ dirs[k] # Back!Empty
      BY <2>1, <2>3 DEF Back!Empty
    <3> HIDE DEF x
    <3>3. d \in Back!Dir /\ d.copies = dirs[k].copies /\ d.sealed = dirs[k].sealed /\ d.manifest = {x}
      BY <2>1, <3>1 DEF Back!Dir
    <3> HIDE DEF d
    <3>4. OneOfAFile(d)
      BY <2>1, <3>3 DEF OneOfAFile
    <3> QED BY <3>2, <3>3, <3>4
  <2> QED BY <1>2, <2>2, <2>3
<1>4. /\ dirs' \in [1..MaxBackups -> Back!Dir] /\ dirs'[k] = d
      /\ \A c \in 1..MaxBackups \ {k} : dirs'[c] = dirs[c]
  BY <1>3 DEF BackupInv, BackupTypes
<1>5. /\ restore' \in [n : 0..MaxBackups, done : SUBSET Back!Entry, clean : BOOLEAN]
      /\ restore'.n = restore.n /\ restore'.done = restore.done /\ restore'.clean = (restore.n = 0)
  BY <1>1 DEF BackupInv, BackupTypes
<1>6. BackupTypes'
  BY <1>1, <1>4, <1>5 DEF BackupInv, BackupTypes
<1>7. DirInv'
  <2>1. \A c \in 1..MaxBackups : Finished(dirs'[c]) /\ OneOfAFile(dirs'[c])
    BY <1>3, <1>4 DEF BackupInv, DirInv, Finished
  <2>2. \A c \in 1..MaxBackups : c > job.n => c # k
    BY <1>3 DEF BackupInv, DirInv
  <2>3. job.at # "off" => job.n \in 1..MaxBackups /\ job.n # k
    BY <1>2, BackupAssumption DEF BackupInv, BackupTypes
  <2> QED BY <1>1, <1>4, <2>1, <2>2, <2>3 DEF BackupInv, DirInv
<1>8. \A c \in 1..MaxBackups : dirs[c].manifest # {} => dirs'[c].manifest # {}
  BY <1>3, <1>4
<1>9. TakenInv'
  BY <1>1, <1>8 DEF BackupInv, TakenInv
<1>10. RestoreInv'
  <2>1. restore.n # 0 => restore.n \in 1..MaxBackups
    BY BackupAssumption DEF BackupInv, BackupTypes
  <2> QED BY <1>1, <1>5, <1>8, <2>1 DEF BackupInv, RestoreInv
<1> QED BY <1>6, <1>7, <1>9, <1>10 DEF BackupInv

LEMMA NextBackup ==
    ASSUME BackupInv, [Back!Next]_(Back!vars)
    PROVE  BackupInv'
<1>1. CASE UNCHANGED Back!vars
  BY <1>1 DEF Back!vars, BackupInv, BackupTypes, DirInv, TakenInv, RestoreInv
<1> QED BY <1>1, AroundBackup, FilesAround, BeginBackup, CopyKeeps, DumpKeeps, SealKeeps, ManifestKeeps,
           EndKeeps, VerifiedKeeps, RestoreKeeps, DecayKeeps DEF Back!Next

LEMMA BackupSafe ==
    ASSUME BackupInv
    PROVE  Back!QuietMeansBackup /\ Back!RestoredAsSealed
BY DEF BackupInv, DirInv, Finished, TakenInv, RestoreInv, Back!QuietMeansBackup, Back!RestoredAsSealed

-----------------------------------------------------------------------------
(***************************************************************************)
(* The installation: each part takes its own steps only.                   *)
(***************************************************************************)
LEMMA OwnSteps ==
    ASSUME [MCNext]_all
    PROVE  /\ part' = part
           /\ part = "secrets" => [Secret!Next]_(Secret!vars)
           /\ part = "backup" => [Back!Next]_(Back!vars)
BY DEF MCNext, all, secretVars, backupVars, Secret!vars, Back!vars

\* In the part of the behaviours that is about them, the store and the backups keep
\* their invariants.
LEMMA BackupInvariance == MCSpec => [](part = "backup" => BackupInv)
<1>1. MCInit => (part = "backup" => BackupInv)
  BY InitBackup DEF MCInit
<1>2. (part = "backup" => BackupInv) /\ [MCNext]_all => (part = "backup" => BackupInv)'
  BY OwnSteps, NextBackup
<1> QED BY <1>1, <1>2, PTL DEF MCSpec

LEMMA StoreInvariance ==
    ASSUME OneProcess
    PROVE  MCSpec => [](part = "secrets" => StoreInv)
<1>1. MCInit => (part = "secrets" => StoreInv)
  BY InitStore DEF MCInit
<1>2. (part = "secrets" => StoreInv) /\ [MCNext]_all => (part = "secrets" => StoreInv)'
  BY OwnSteps, NextStore
<1> QED BY <1>1, <1>2, PTL DEF MCSpec

\* The reminder stays quiet only over a directory with its manifest and the metadata
\* that create_backup() sealed before it, however the window was locked, files were
\* added and deleted, and the program ended in the meantime.
THEOREM QuietIsTrue == MCSpec => []QuietMeansBackup
<1>1. (part = "backup" => BackupInv) => QuietMeansBackup
  BY BackupSafe DEF QuietMeansBackup
<1> QED BY <1>1, BackupInvariance, PTL

\* restore_backup() brings back the files of the list that was sealed, all or none.
THEOREM RestoreIsExact == MCSpec => []RestoredAsSealed
<1>1. (part = "backup" => BackupInv) => RestoredAsSealed
  BY BackupSafe DEF RestoredAsSealed
<1> QED BY <1>1, BackupInvariance, PTL

\* One process at a time: between two of its calls no user has two records that
\* differ, unless a write of this session ended before it had cleaned up.
THEOREM NoCopyLeft ==
    ASSUME OneProcess
    PROVE  MCSpec => []NoStaleCopy
<1>1. (part = "secrets" => StoreInv) => NoStaleCopy
  BY StoreClean DEF NoStaleCopy
<1> QED BY <1>1, StoreInvariance, PTL

\* One process at a time: secret_store.py implements KeyStore.  A record changes in
\* one step of a store() or erase() of that record, to the new value or to nothing.
THEOREM StorePromise ==
    ASSUME OneProcess
    PROVE  MCSpec => KeepsPromise
<1>1. MCInit => Secret!KS!Init
  BY InitPromise DEF MCInit
<1>2. (part = "secrets" => StoreInv) /\ [MCNext]_all
        => [part = "secrets" => [Secret!KS!Next]_(Secret!KS!vars)]_all
  BY OwnSteps, NextPromise
<1> QED BY <1>1, <1>2, StoreInvariance, PTL DEF MCSpec, KeepsPromise
=============================================================================
