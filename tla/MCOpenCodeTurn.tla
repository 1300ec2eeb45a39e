--------------------------- MODULE MCOpenCodeTurn ---------------------------
(* TLC instances of OpenCodeTurn: two models of the proxy around another.  *)
EXTENDS OpenCodeTurn

CONSTANTS m1, m2, m3

MCChain == <<m1, m2, m3>>
MCProxied == {m1, m3}
=============================================================================
