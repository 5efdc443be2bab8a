------------------------------ MODULE MCSdProg ------------------------------
(***************************************************************************)
(* SdProg with blocks of two sectors, two units in a sector.               *)
(***************************************************************************)
EXTENDS SdProg

(* One that ends inside a sector of the third block, so that the ring fills, *)
(* and one inside it.                                                        *)
CardImages == {[offset |-> 0, size |-> 9], [offset |-> 1, size |-> 3]}

(* The second block lies beyond the last sector of the card. *)
PastTheEnd == {[offset |-> 1, size |-> 7]}
=============================================================================
