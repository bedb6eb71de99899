--------------------------- MODULE MCUploadStore ----------------------------
(* UploadStore on the instances that TLC checks.                            *)
EXTENDS UploadStore

CONSTANTS
    Line,           \* the one connection of a serial instance
    a, ab, long     \* a name, one that it is the beginning of, and a long one

OneJobEach == [j \in Jobs |-> j]
OneLine    == [j \in Jobs |-> Line]

\* A short name fits both handlers, a long one only the upload's.
Lengths == [n \in Names |-> IF n = long THEN 100 ELSE 8]
Cuts    == [n \in Names |-> IF n = ab THEN {a} \cap Names ELSE {}]

=============================================================================
