---------------------------- MODULE MCSpiFlash -----------------------------
(***************************************************************************)
(* SpiFlash with words of two cells, pages and sectors of two words, and   *)
(* the larger erase sizes twice and four times a sector.                   *)
(***************************************************************************)
EXTENDS SpiFlash

SomeCalls ==
  [fn : {"erase"}, addr : {4}, len : {28}, start : {0}] \cup
  [fn : {"erase"}, addr : {3}, len : {6}, start : {0}] \cup
  [fn : {"write"}, addr : {3}, len : {0, 1, 7}, start : {0, 1}]
=============================================================================
