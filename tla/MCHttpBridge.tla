--------------------------- MODULE MCHttpBridge ----------------------------
(* One bridged request and a few signals.                                  *)
EXTENDS HttpBridge
=============================================================================
