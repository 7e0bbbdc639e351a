---------------------------- MODULE MCAspaResults ----------------------------
(* Instances of AspaResults.tla for TLC: two updates with the same path. *)
EXTENDS AspaResults

CONSTANTS u1, u2, p1

MCPathOf == [u \in {u1, u2} |-> p1]
MCOneDir == [u \in {u1, u2} |-> "down"]
MCDirs   == [u \in {u1, u2} |-> IF u = u1 THEN "up" ELSE "down"]

MCUndefined == {"undefined"}
MCInvalid   == {"undefined", "invalid"}
=============================================================================
