--------------------------- MODULE MCProxyExecute ---------------------------
(* One call, with a token or without, and its owner.                       *)
EXTENDS ProxyExecute
=============================================================================
