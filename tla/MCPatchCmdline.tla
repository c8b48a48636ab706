--------------------------- MODULE MCPatchCmdline ---------------------------
(* Values of the constants of PatchCmdline for TLC. *)
EXTENDS PatchCmdline

TheMarker == <<"m", "n">>

\* The bytes of an image with markers behind the given numbers of bytes.
Image(at) ==
    [k \in 1 .. 14 |-> IF k - 1 \in at THEN "m" ELSE IF k - 2 \in at THEN "n" ELSE "x"]

\* A marker at the beginning; at the last place of the search; two; one that is
\* not aligned before one that is; one that is not aligned; one too far; none.
SomeKernels == {Image({0}), Image({6}), Image({2, 6}), Image({1, 4}), Image({3}), Image({8}),
                Image({})}

\* Empty; short; as long as possible; too long; one that contains the marker.
SomeCmdlines == {<<>>, <<"a">>, <<"b", "c", "d">>, <<"b", "c", "d", "e">>, <<"m", "n">>}

=============================================================================
