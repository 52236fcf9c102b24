------------------------------ MODULE MCReport ------------------------------
(***************************************************************************)
(* Instances of Report: the two shreds of a slot lie in different segments *)
(* of the map of shreds.                                                   *)
(***************************************************************************)
EXTENDS Report, TLC

CONSTANTS i1, i2

Spread   == [k \in ShredKey |-> IF k.index = i2 THEN 2 ELSE 1]
OneSlot  == [s \in Slots |-> 1]

(* Nothing depends on which source is which. *)
AnySource == Permutations(Sources)
=============================================================================
