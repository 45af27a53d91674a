--------------------------- MODULE MCStorageEngine ---------------------------
(* Model-checking instance of StorageEngine: a plain key, a second plain    *)
(* key or the key of a vector, and one or two values.                       *)
EXTENDS StorageEngine

CONSTANTS a, vecX, x

MCKey == {a, vecX}
MCVecKeys == {vecX}
MCVecId == [k \in MCKey |-> IF k = vecX THEN x ELSE k]
MCOp == {"Insert", "Update", "Delete"}
=============================================================================
