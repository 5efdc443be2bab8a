------------------------------ MODULE MCSdHost ------------------------------
(***************************************************************************)
(* SdHost with a card of three sectors: transfers of one block and of two, *)
(* whose buffer crosses a boundary or not, and one beyond the card.        *)
(***************************************************************************)
EXTENDS SdHost

SomeSdOps ==
  {[fn |-> "write", addr |-> 0, cnt |-> 2, bound |-> 0],
   [fn |-> "write", addr |-> 2, cnt |-> 1, bound |-> 0],
   [fn |-> "write", addr |-> 2, cnt |-> 2, bound |-> 0],
   [fn |-> "write", addr |-> 1, cnt |-> 2, bound |-> 2],
   [fn |-> "read", addr |-> 0, cnt |-> 1, bound |-> 1],
   [fn |-> "read", addr |-> 1, cnt |-> 2, bound |-> 0]}
=============================================================================
