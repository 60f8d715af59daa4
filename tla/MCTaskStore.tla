--------------------------- MODULE MCTaskStore ---------------------------
(* Two tasks that share lock 1; the second also needs lock 2, as a code    *)
(* build needs its library's lock and its collection's lock.               *)
EXTENDS TaskStore, TLC

CONSTANTS sync, build

MCLockKeys == {1, 2}
MCNeeds == [k \in Keys |-> IF k = sync THEN {1} ELSE {1, 2}]
=============================================================================
