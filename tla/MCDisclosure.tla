---------------------------- MODULE MCDisclosure ----------------------------
(* Disclosure with a model on the premises, one near and one far.          *)
EXTENDS Disclosure

CONSTANTS local, near, far, j1, c1, c2, table, photo

Places   == [b \in Backends |-> CASE b = local -> 0 [] b = near -> 1 [] OTHER -> 2]
Tiers    == [l \in Levels |-> CASE l = 0 -> <<far, near>>
                                [] l = 1 -> <<near>>
                                [] OTHER -> <<local>>]
Material == [j \in Jobs |-> {table, photo}]
Bytes    == [a \in Artefacts |-> 1]
AtHome   == [ceiling |-> 0, names |-> <<near>>]
Far      == [ceiling |-> 2, names |-> <<far>>]
Nearby   == [ceiling |-> 1, names |-> <<>>]
Ceilings == {Anywhere, AtHome, Nearby}
Various  == {Anywhere, AtHome, Far}
=============================================================================
