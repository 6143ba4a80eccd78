-------------------------- MODULE MCClientDisplay --------------------------
EXTENDS ClientDisplay

MCIndices   == {-1, 0, 1, 2}
MCMasks     == {"SRC", "OVER"}
MCPositions == {0, 2}

\* How many instructions of a family a behaviour has.
MCLengths ==
  [f \in {"path", "raster", "tree", "cursor", "frames", "state", "lstroke"} |->
     CASE f = "path"    -> 4
       [] f = "raster"  -> 3
       [] f = "tree"    -> 4
       [] f = "cursor"  -> 4
       [] f = "frames"  -> 4
       [] f = "state"   -> 4
       [] f = "lstroke" -> 5]
=============================================================================
