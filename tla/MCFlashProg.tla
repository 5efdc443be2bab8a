---------------------------- MODULE MCFlashProg ----------------------------
(***************************************************************************)
(* FlashProg with a small flash: blocks of two pages, three slots in the   *)
(* ring, and erase sizes of two and four sectors.                          *)
(***************************************************************************)
EXTENDS FlashProg

(* Images that end inside a block, the second of them inside the first: the *)
(* longer one fills the ring and begins with an erasure of two sectors.     *)
TwoImages == {[offset |-> 0, size |-> 5], [offset |-> 2, size |-> 3]}

(* The longer of the two alone: three blocks, more than the ring holds. *)
LongImage == {[offset |-> 0, size |-> 5]}

(* One image of two blocks and one of a single block. *)
SmallImages == {[offset |-> 0, size |-> 3], [offset |-> 2, size |-> 2]}

(* A region that takes erasures of all three sizes, and one that does not   *)
(* begin at a sector.                                                       *)
SomeRegions == {[offset |-> 0, size |-> 13], [offset |-> 3, size |-> 2]}

OneRegion == {[offset |-> 2, size |-> 3]}
NoRegion == {}
=============================================================================
