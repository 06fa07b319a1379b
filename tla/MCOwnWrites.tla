----------------------------- MODULE MCOwnWrites -----------------------------
(* OwnWrites on small instances: a root and two directories, one of them with *)
(* two spellings.                                                             *)
EXTENDS OwnWrites, TLC

CONSTANTS docs, DOCS, tmp, f1, f2

MCfolder == Root :> Root @@ docs :> f1 @@ DOCS :> f1 @@ tmp :> f2

Symmetry == Permutations(Threads) \cup Permutations({docs, DOCS})
            \cup Permutations(Attrs)
===============================================================================
