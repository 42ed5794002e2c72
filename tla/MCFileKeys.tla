----------------------------- MODULE MCFileKeys -----------------------------
(* Two bare names; two directories with a file of the first name each.      *)
EXTENDS FileKeys, TLC

CONSTANTS plant, line, north_plant, south_plant

FourPaths == {plant, line, north_plant, south_plant}
FourBases == (plant :> plant) @@ (line :> line)
             @@ (north_plant :> plant) @@ (south_plant :> plant)
=============================================================================
