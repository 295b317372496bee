----------------------------- MODULE MCFileTree -----------------------------
EXTENDS FileTree

CONSTANTS r1, r2

Dir(in, name) == [Unused EXCEPT !.kind = "dir", !.in = in, !.name = name]
Old(in, name) == [Unused EXCEPT !.kind = "file", !.in = in, !.name = name, !.data = "old"]
Link(in, name, target) ==
    [Unused EXCEPT !.kind = "link", !.in = in, !.name = name, !.target = target]

Start(nodes) ==
    [n \in Node |-> IF n = Top THEN Dir(Top, Nil)
                    ELSE IF n \in DOMAIN nodes THEN nodes[n] ELSE Unused]

(* A link to a directory, a link to a file in a directory, and a link to   *)
(* the root.                                                               *)
MCTrees ==
    {Start(<<Dir(Top, "a"), Old(1, "b"), Link(Top, "b", <<"a">>)>>),
     Start(<<Dir(Top, "a"), Link(1, "a", <<"b">>), Old(Top, "b")>>),
     Start(<<Dir(Top, "a"), Dir(1, "b"), Link(1, "a", <<>>)>>)}

MCPaths == {<<>>, <<"a">>, <<"b">>, <<"a", "b">>, <<"a", "a">>}
MCNames == {"a", "b", "c"}
MCSymmetry == Permutations(Requests)
MCUploads == {<<<<"b">>>>, <<<<"a", "c">>, <<"b", "c">>>>}

=============================================================================
