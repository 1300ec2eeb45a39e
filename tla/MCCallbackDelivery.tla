------------------------- MODULE MCCallbackDelivery -------------------------
(* TLC instances of CallbackDelivery.                                      *)
EXTENDS CallbackDelivery
=============================================================================
