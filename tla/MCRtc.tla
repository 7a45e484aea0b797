------------------------------- MODULE MCRtc -------------------------------
(***************************************************************************)
(* The values that the runs give to the constants of module Rtc.           *)
(***************************************************************************)
EXTENDS RtcConversation, TLC

CONSTANTS s1, s2, s3, s4

(* All the slaves are created under the same name.                         *)
OneWord == [s \in Slaves |-> <<0>>]

(* The names that a slave called as another changes to, first and second,  *)
(* are the ones two other slaves were given.                               *)
Overlapping ==
    (s1 :> <<0>>) @@ (s2 :> <<0>>) @@ (s3 :> <<0, 1>>) @@ (s4 :> <<0, 2>>)

(* Slaves created under one name are interchangeable.                      *)
AnySlave == Permutations(Slaves)

=============================================================================
