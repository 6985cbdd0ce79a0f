------------------------------- MODULE Custody -------------------------------
(***************************************************************************)
(* What the two-of-three scheme of CORE/vault_manager.py promises to the   *)
(* owner of sealed documents.  A master key is shared on a line: share 1   *)
(* lies in the vault file, share 2 in the keyring of the machine, share 3  *)
(* on paper.  While documents are sealed under a key, two of its shares    *)
(* exist, whatever one loses, interrupts or restores, and no step takes    *)
(* two of them at once.                                                    *)
(***************************************************************************)
CONSTANT Keys

VARIABLES
    sealed,     \* the keys somebody still has documents under
    held        \* the shares that exist of each key

Shares == {1, 2, 3}

TypeOK ==
    /\ sealed \subseteq Keys
    /\ held \in [Keys -> SUBSET Shares]

Enough(S) == \E a, b \in S : a # b

Init ==
    /\ held \in [Keys -> SUBSET Shares]
    /\ sealed \in SUBSET {k \in Keys : Enough(held[k])}

\* A step takes at most one share of a key that stays in use, and leaves two.
Step ==
    /\ sealed' \in SUBSET Keys
    /\ held' \in [Keys -> SUBSET Shares]
    /\ \A k \in sealed' : Enough(held'[k])
    /\ \A k \in sealed \cap sealed' : \E a \in Shares : held[k] \ held'[k] \subseteq {a}

Spec == Init /\ [][Step]_<<sealed, held>>

Recoverable == \A k \in sealed : Enough(held[k])
=============================================================================
