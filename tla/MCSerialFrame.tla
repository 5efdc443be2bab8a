--------------------------- MODULE MCSerialFrame ---------------------------
(***************************************************************************)
(* SerialFrame with packets that need escapes, one without data, and one    *)
(* that is too long.                                                        *)
(***************************************************************************)
EXTENDS SerialFrame

SomePackets ==
  { <<0, 8, 0, 0>>, <<0, 7, 1, 0, END>>, <<0, 7, 9, 0, 1, 2, 3, 4>> }
=============================================================================
