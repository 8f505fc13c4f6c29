------------------------------- MODULE OptMap -------------------------------
(***************************************************************************)
(* The map of include/data_struct/opt_map.h from descriptors to objects:   *)
(* keys below ARRAY_SIZE index a vector, the others an unordered map.  A   *)
(* pure value; the backends keep one in a variable.                        *)
(***************************************************************************)
EXTENDS Naturals

CONSTANTS ARRAY_SIZE, Null

Empty == [vec |-> [k \in 0..ARRAY_SIZE - 1 |-> Null], map |-> <<>>]

Find(m, key) ==
    IF key < ARRAY_SIZE THEN m.vec[key]
    ELSE IF key \in DOMAIN m.map THEN m.map[key] ELSE Null

Store(m, key, value) ==
    IF key < ARRAY_SIZE THEN [m EXCEPT !.vec[key] = value]
    ELSE [m EXCEPT !.map = [k \in DOMAIN @ \cup {key} |-> IF k = key THEN value ELSE @[k]]]

(* insert never replaces a value: the caller's STABLE_INFRA_ASSERT tests this *)
CanInsert(m, key, value) == value # Null /\ Find(m, key) = Null
Insert(m, key, value) == IF CanInsert(m, key, value) THEN Store(m, key, value) ELSE m
=============================================================================
