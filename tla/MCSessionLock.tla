--------------------------- MODULE MCSessionLock ---------------------------
(* Instances of SessionLock: the token the session starts with and another.  *)
EXTENDS SessionLock, TLC

CONSTANTS a, b

MCTokens == {a, b}
=============================================================================
