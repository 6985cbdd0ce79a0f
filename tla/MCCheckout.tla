----------------------------- MODULE MCCheckout -----------------------------
(***************************************************************************)
(* Instances of Checkout for TLC.                                          *)
(***************************************************************************)
EXTENDS Checkout, TLC

CONSTANTS s1, s2, s3, h1, h2

\* Every run on one machine.
OneHost == [s \in Sessions |-> h1]

\* Edits are interchangeable, and so are the runs of one machine.
RunSymmetry == Permutations(Edits) \cup Permutations(Sessions)
=============================================================================
