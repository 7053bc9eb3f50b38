------------------------- MODULE MCFileTokenStore --------------------------
(* Two processes that serve two providers from one credentials file.       *)
EXTENDS FileTokenStore, TLC

Symmetry == Permutations(Processes) \cup Permutations(Keys) \cup Permutations(Tokens)
=============================================================================
