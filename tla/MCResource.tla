------------------------------ MODULE MCResource ------------------------------
(* Resources, paths and disks on small instances: shares "a", "A" and "ab"  *)
(* on one server.                                                           *)
EXTENDS Resource

a == <<"a">>
A == <<"A">>
b == <<"b">>
ab == <<"a", "b">>

MCLetters == {"a", "b", "A", "B"}
MCUpper == [c \in MCLetters |-> IF c = "a" THEN "A" ELSE IF c = "b" THEN "B" ELSE c]

MCNames == { << <<>>, <<>>, <<>> >>, << a, <<>>, <<>> >>, << <<>>, a, <<>> >>,
             << a, A, ab >> }

Usual == [names |-> << <<>>, a, ab >>, user |-> a, easupport |-> 1, cto |-> 10, cld |-> 32]

\* Every level, and every setting within and beyond its range.
MCAsked == {[Usual EXCEPT !.names = names] : names \in MCNames}
             \cup {[Usual EXCEPT !.easupport = 0, !.cto = 600, !.cld = 96],
                   [Usual EXCEPT !.easupport = 2, !.cto = 601],
                   [Usual EXCEPT !.easupport = Absent, !.cto = Absent],
                   [Usual EXCEPT !.cld = 97], [Usual EXCEPT !.cld = Absent]}

\* Up to three names of a share and one of a file.
MCPaths == { <<>>, <<ab>>, <<a, b>>, <<A, ab>>, <<a, A, b>>, <<a, a, ab>>,
             <<a, A, ab, b>>, <<a, a, a, b>> }

MCDisks == {[bsize |-> x, total |-> t, avail |-> Min({t, 30})] :
              x \in {2, 8, 9, 16}, t \in {7, 15, 16, 31, 45}}

MCPasswords == {<<>>, <<9>>, <<10, 255>>, <<160, 65, 154>>}

Renamings == Permutations(Slots)
===============================================================================
