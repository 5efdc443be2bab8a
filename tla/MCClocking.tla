----------------------------- MODULE MCClocking -----------------------------
(***************************************************************************)
(* Clocking with rates the divider has exactly, nearly and not at all, and  *)
(* with requests that take the defaults, that set dividers, and that name   *)
(* values the clock manager refuses.                                        *)
(***************************************************************************)
EXTENDS Clocking

Rates == {0, 300, 1800, 9600, 14400, 74880, 91920, 115200, 921600, 3000000, 4000000}

Request(cpu, flash, aon, cmn, ap, hclk) ==
  [cpu |-> cpu, flash |-> flash, aon |-> aon, cmn |-> cmn, ap |-> ap, hclk |-> hclk, flag |-> 1]
Default == Request(255, 255, 255, 255, 255, 255)
Requests ==
  { Default, [Default EXCEPT !.flag = 0], Request(2, 2, 6, 3, 2, 1), Request(6, 32, 63, 31, 31, 0),
    Request(200, 0, 0, 32, 64, 40), Request(255, 33, 8, 0, 4, 31), Request(3, 255, 255, 2, 255, 1) }
=============================================================================
