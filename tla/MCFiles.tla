-------------------------------- MODULE MCFiles --------------------------------
(* The open file, the extended attributes, the path query and the buffer  *)
(* of a listing on small instances.  None reads what another writes, so it *)
(* is enough that each moves while the others rest in an initial state.    *)
EXTENDS OpenFile, ExtAttr, QueryPath, DirEntry

Renamings == Permutations(Files)

MCEaNames == << <<"A">>, <<"A", "B">>, <<"C">> >>

MCEas == [name : ToSet(MCEaNames), value : {0, 1, 3}]
MCSetLists == {<<e>> : e \in MCEas} \cup {<<e, f>> : e, f \in MCEas}
MCGetLists == { <<>>, << <<"A">> >>, << <<"A", "B">> >>, << <<"C">>, <<"A">> >> }

\* One initial state of the query, and one of the buffer's two builds, is
\* enough for the others to rest in.
QueryRests == QueryInit /\ deep /\ nt /\ node = "none" /\ parent = "none"
EntryRests == EntryInit /\ serialized

Init == /\ FileInit /\ EaInit
        /\ \/ QueryInit /\ EntryRests
           \/ QueryRests /\ EntryInit

Next == \/ /\ EaInit /\ QueryRests /\ EntryRests /\ FileNext
           /\ UNCHANGED <<eaVars, queryVars, entryVars>>
        \/ /\ FileInit /\ QueryRests /\ EntryRests /\ EaNext
           /\ UNCHANGED <<fileVars, queryVars, entryVars>>
        \/ /\ FileInit /\ EaInit /\ EntryRests /\ QueryNext
           /\ UNCHANGED <<fileVars, eaVars, entryVars>>
        \/ /\ FileInit /\ EaInit /\ QueryRests /\ EntryNext
           /\ UNCHANGED <<fileVars, eaVars, queryVars>>

Spec == Init /\ [][Next]_<<fileVars, eaVars, queryVars, entryVars>>
===============================================================================
