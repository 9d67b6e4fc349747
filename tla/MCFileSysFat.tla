----------------------------- MODULE MCFileSysFat -----------------------------
(* A volume for TLC: clusters of two sectors, sectors of two units.  The root *)
(* directory takes the clusters 2 and 5, the file "a" 4, 8 and 3, the        *)
(* directory "d" 7 and its file "f" 6.                                       *)
EXTENDS FileSysFat, TLC

CONSTANTS f1, f2, FullRoot

MCFat == (2 :> 5) @@ (4 :> 8) @@ (8 :> 3) @@ [c \in 0 .. 10 |-> 4095]

MCChain == (2 :> <<2, 5>>) @@ (4 :> <<4, 8, 3>>) @@ (6 :> <<6>>) @@ (7 :> <<7>>)

Item(kind, name, isdir, nonfile, cluster, size) ==
  [kind |-> kind, name |-> name, isdir |-> isdir, nonfile |-> nonfile,
   cluster |-> cluster, size |-> size]

Plain(name, cluster, size) == Item("entry", name, FALSE, FALSE, cluster, size)
Dir(name, cluster) == Item("entry", name, TRUE, TRUE, cluster, 0)
Label == Item("entry", "v", FALSE, TRUE, 0, 0)
Gone  == Item("gone", "ab", FALSE, FALSE, 6, 2)     \* deleted
End   == Item("end", "", FALSE, FALSE, 0, 0)

Cluster(c, i, j, k, l) ==
  LET a == ClusterToAddr(c)
  IN (a :> i) @@ (a + 1 :> j) @@ (a + 2 :> k) @@ (a + 3 :> l)

MCEntry ==
  Cluster(2, Label, Dir("d", 7), Gone, Gone)
    @@ Cluster(5, Plain("ab", 4, 9), Plain("e", 0, 0), Gone, IF FullRoot THEN Gone ELSE End)
    @@ Cluster(7, Dir(".", 7), Dir("..", 0), Plain("f", 6, 3), End)

Prefixes == {<<"a", "ab">>, <<".", ".">>, <<".", "..">>, <<"ab", "ab">>, <<"d", "d">>, <<"f", "f">>, <<"e", "e">>,
             <<"v", "v">>, <<"long", "longer">>}
Path(segments, directory) == [segments |-> segments, directory |-> directory]
FilePaths == {Path(<<"a">>, FALSE), Path(<<"d", ".", "f">>, FALSE), Path(<<"e">>, FALSE),
              Path(<<"a", "f">>, FALSE), Path(<<"d", "long">>, FALSE), Path(<<"x">>, FALSE)}
DirPaths == {Path(<<"">>, TRUE), Path(<<"a">>, TRUE)}
MCPaths == [f \in File |-> IF f = f1 THEN FilePaths ELSE DirPaths]
=============================================================================
