--------------------------- MODULE MCPublication ---------------------------
(***************************************************************************)
(* Three writers, two of them threads of one process.  The identifiers "p" *)
(* and "q" are alike once sanitised, and "r" has the name their collision  *)
(* would get.  There a link leads out of the directory, to the document of *)
(* a module "s"; another one leads to a file in the directory.             *)
(***************************************************************************)
EXTENDS Publication

MCModules == {"p", "q", "r", "s"}
MCFiles == {"a", "a_1", "a_2", "a_1_1", "b"}
MCSafe == [p |-> "a", q |-> "a", r |-> "a_1", s |-> "b"]
MCNumbered ==
  [x \in MCFiles \X (1..3) |->
     CASE x = <<"a", 1>> -> "a_1" [] x = <<"a", 2>> -> "a_2"
       [] x = <<"a_1", 1>> -> "a_1_1" [] OTHER -> x[1]]
MCRank == [f \in MCFiles |-> CASE f = "a" -> 1 [] f = "a_1" -> 2 [] f = "a_1_1" -> 3
                                [] f = "a_2" -> 4 [] OTHER -> 5]
MCWriters == {"w", "v", "u"}
MCProcess == [w |-> 1, v |-> 1, u |-> 2]
MCBatch == [w |-> <<"p", "r", "q">>, v |-> <<"q">>, u |-> <<"p">>]
MCAccepted == {"p", "r"}
MCLinks == {"a_1", "b"}
MCTarget == [l \in MCLinks |-> IF l = "a_1" THEN "s" ELSE "a"]
MCResolvable == {"p", "q", "s"}
MCStreaming == {"p", "q"}
MCAsyncStream == {"p"}
=============================================================================
