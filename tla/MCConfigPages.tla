--------------------------- MODULE MCConfigPages ---------------------------
(* Instances of ConfigPages for TLC. *)
EXTENDS ConfigPages

Named == [id |-> "a", name |-> "n1"]
Nameless == [id |-> "a", name |-> NoName]

\* One rule with a name on the route page, two entries elsewhere.
MCSection == [p \in Page |->
    [globals |-> "g1", sets |-> <<>>,
     rules |-> IF p = "route" THEN <<Named>>
               ELSE <<Nameless, [id |-> "dflt", name |-> NoName]>>]]
=============================================================================
