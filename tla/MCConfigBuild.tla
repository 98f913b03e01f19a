--------------------------- MODULE MCConfigBuild ---------------------------
(* The first change is anywhere, a second to what Twice holds.             *)
EXTENDS ConfigBuild

CONSTANT Twice

ChangesOf == [k \in Kinds \union {"runtime", "reader"} |-> IF k \in Twice THEN 2 ELSE 1]
=============================================================================
