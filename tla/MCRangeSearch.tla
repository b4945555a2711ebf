---------------------------- MODULE MCRangeSearch ----------------------------
(* Patterns and ranges for TLC. *)
EXTENDS RangeSearchProperties

Letters == {"a", "b"}
SomePatterns == UNION {[1 .. n -> Letters] : n \in 1 .. 3} \cup {<<"a", "a", "a", "b">>, <<"a", "a", "b", "a", "a", "a", "b">>}

Words(max) == UNION {[1 .. n -> Letters] : n \in 0 .. max}
SomeTexts ==
    {<<>>} \cup {<<w>> : w \in Words(3)}
        \cup {<<v, <<>>, <<>>, w>> : v \in Words(1), w \in Words(2)}
===============================================================================
