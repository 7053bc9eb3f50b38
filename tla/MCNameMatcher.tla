--------------------------- MODULE MCNameMatcher ---------------------------
(* Every pattern of up to four characters against every name of up to four.*)
EXTENDS NameMatcher

UpTo(S, n) == UNION {[1..k -> S] : k \in 0..n}

MCCharacters == {"a", "b", "*", "?"}
MCPatterns == UpTo(MCCharacters, 4)
MCFileNames == UpTo({"a", "b"}, 4)
=============================================================================
