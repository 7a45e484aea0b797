------------------------------ MODULE MCTables ------------------------------
(***************************************************************************)
(* Instances of RtcTables for TLC.                                         *)
(***************************************************************************)
EXTENDS RtcTablesProperties

CONSTANTS s1, s2, s3, s4, g

(* Two slaves and the stale value want the same place.                     *)
Collide == [p \in {s1, s2, s3, g} |-> IF p = s3 THEN 1 ELSE 0]

(* The last place is wanted twice, so that the search goes round.          *)
Wrap == [p \in {s1, s2, s3, s4, g} |->
            CASE p = s1 -> 0 [] p = s4 -> 1 [] OTHER -> 2]

=============================================================================
