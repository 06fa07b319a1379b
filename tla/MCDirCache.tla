------------------------------ MODULE MCDirCache ------------------------------
(* DirCache on small instances.                                            *)
EXTENDS DirCache

\* Every path has a hash of its own, or all have one; all paths are spellings of
\* one directory, or each is a directory of its own.
OwnHash == [d \in Dirs |-> d]
OneHash == [d \in Dirs |-> 0]
OneDirectory == [d \in Dirs |-> 0]
OwnDirectory == [d \in Dirs |-> d]

Symmetry == Permutations(Threads) \cup Permutations(Dirs)
            \cup Permutations(Entries) \cup Permutations(Names)
===============================================================================
