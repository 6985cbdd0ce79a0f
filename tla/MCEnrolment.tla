---------------------------- MODULE MCEnrolment ----------------------------
(***************************************************************************)
(* Two tokens, of which none is special.                                   *)
(***************************************************************************)
EXTENDS Enrolment, TLC

Symmetry == Permutations(HWIDs)
=============================================================================
