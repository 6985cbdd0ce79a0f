------------------------------ MODULE KeyStore ------------------------------
(***************************************************************************)
(* What CORE/secret_store.py promises its callers: a record changes only   *)
(* while a store() or an erase() of that very record is under way, in one  *)
(* step, to the value being stored or to nothing.  A call that is cut      *)
(* short has taken effect or it has not; no older value comes back.        *)
(***************************************************************************)
CONSTANTS Procs, Users, Values, Nothing

VARIABLES val, todo

vars == <<val, todo>>

Call == [kind : {"store"}, user : Users, value : Values] \cup [kind : {"erase"}, user : Users]

Init == val \in [Users -> Values \cup {Nothing}] /\ todo = [p \in Procs |-> {}]

Begin(p) ==
    /\ todo[p] = {}
    /\ \E c \in Call : todo' = [todo EXCEPT ![p] = {c}]
    /\ UNCHANGED val

Effect(p) == \E c \in todo[p] :
    /\ val' = [val EXCEPT ![c.user] = IF c.kind = "store" THEN c.value ELSE Nothing]
    /\ UNCHANGED todo \/ todo' = [todo EXCEPT ![p] = {}]

\* The call returns, raises, or its process dies.
End(p) ==
    /\ todo' = [todo EXCEPT ![p] = {}]
    /\ UNCHANGED val

Next == \E p \in Procs : Begin(p) \/ Effect(p) \/ End(p)

Spec == Init /\ [][Next]_vars
=============================================================================
