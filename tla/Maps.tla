-------------------------------- MODULE Maps --------------------------------
(* Finite maps as functions: the program's HashMaps and tables with a key. *)

Empty == [k \in {} |-> {}]

With(map, k, value) ==
    [l \in DOMAIN map \cup {k} |-> IF l = k THEN value ELSE map[l]]

Drop(map, gone) == [k \in DOMAIN map \ gone |-> map[k]]
=============================================================================
