--------------------------- MODULE MCImportSource ---------------------------
(* Small instances of ImportSource: the documents are interchangeable.      *)
EXTENDS ImportSource, TLC

Symetrie == Permutations(Docs)
=============================================================================
