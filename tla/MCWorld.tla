------------------------------ MODULE MCWorld ------------------------------
EXTENDS World, TLC

MCRegions == <<"terrain", "actors", "laws">>

\* Neutral headings in the documents; a gap section is titled after its region,
\* and "Laws" holds two keywords.
MCHeadHits ==
  [a \in Addresses |-> [r \in RegionSet |-> IF a # r THEN 0 ELSE IF r = "laws" THEN 2 ELSE 1]]

\* "map" is about the terrain; "rules" is a long text on laws and actors,
\* which crowds a heading on the terrain out; both kinds of stub name boundaries.
MCBodyHits ==
  ("map"   :> [terrain |-> 1, actors |-> 0, laws |-> 0])
    @@ ("rules" :> [terrain |-> 0, actors |-> 5, laws |-> 6])
    @@ ("stub"  :> [terrain |-> 2, actors |-> 0, laws |-> 0])
    @@ ("todo"  :> [terrain |-> 1, actors |-> 0, laws |-> 0])

MCSymmetry == Permutations(Operators)
=============================================================================
