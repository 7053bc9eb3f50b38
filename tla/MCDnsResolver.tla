--------------------------- MODULE MCDnsResolver ---------------------------
(***************************************************************************)
(* Two workers, as in the code, or one, and more lookups than they and the *)
(* queue can take.  The operating system blocks one lookup for ever or two:*)
(* of two workers one is stuck and the other is left, or both are stuck and*)
(* the queue fills up; behind one worker that is stuck a lookup waits for  *)
(* room.  No lookup has to be asked for: runs in which fewer hang are among*)
(* these.                                                                  *)
(***************************************************************************)
EXTENDS DnsResolver

CONSTANTS l1, l2, l3

OneOrTwoHung == {{l1}, {l1, l3}}
=============================================================================
