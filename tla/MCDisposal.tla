----------------------------- MODULE MCDisposal -----------------------------
(* Instances of Disposal: the application, and a second window of it.       *)
EXTENDS Disposal, TLC

CONSTANTS p, q, f, g

Windows == Permutations({p, q})
=============================================================================
