--------------------------- MODULE MCScanPipeline ---------------------------
(* Documents of up to five operations named "a", "A", "a_2", "a_3" and     *)
(* "3d": duplicates, duplicates only after normalisation, and names that    *)
(* look like the result of a renaming.                                      *)
EXTENDS ScanPipeline

Id(w, s) == [word |-> w, suffix |-> s]

MCWords == {"a", "3d"}
MCLegalWords == {"a"}
MCNames == {"a", "A", "a_2", "a_3", "3d"}
MCNormal ==
  [n \in MCNames |->
    CASE n \in {"a", "A"} -> Id("a", <<>>)
      [] n = "a_2" -> Id("a", <<2>>)
      [] n = "a_3" -> Id("a", <<3>>)
      [] n = "3d" -> Id("3d", <<>>)]
MCIds == {MCNormal[n] : n \in MCNames}
MCFilters == {MCIds, MCIds \ {Id("a", <<2>>)}}
=============================================================================
