------------------------------ MODULE UartBaud ------------------------------
(***************************************************************************)
(* How driver/uart/uart.c and driver/debug/log_print.c turn a baud rate     *)
(* into the divider n/m of the clock and the divisor, 4 or 16, of the UART. *)
(* Baud rates stay below 2^27, where 16 times the rate does not wrap.       *)
(***************************************************************************)
EXTENDS Integers

Divider(n, m, divisor, error) == [n |-> n, m |-> m, divisor |-> divisor, error |-> error]
NoDivider == Divider(0, 0, 0, -1)
Distance(x, y) == IF x < y THEN y - x ELSE x - y

Gcd[a \in Nat, c \in Nat] == IF c = 0 THEN a ELSE Gcd[c, a % c]

MAX_VALUE_M == 1024
MAX_VALUE_N == 1024

(* Mutation: the n below is taken, however far it is. *)
NearestBelow(n1, m1, m) == (m * n1) \div m1

(* The n for which n/m is nearest to n1/m1, the larger of two as near; zero  *)
(* stays zero.                                                              *)
Nearest(n1, m1, m) ==
  LET n == (m * n1) \div m1
      err1 == (m * n1) % m1
  IN  IF n # 0 /\ err1 # 0 /\ m1 - err1 <= err1 THEN n + 1 ELSE n

(* n * clk \div m, without the product: n <= m. *)
Part(clk, n, m) == n * (clk \div m) + (n * (clk % m)) \div m

(* __uart_compute_div; a rate below one part in m of the clock, or above    *)
(* half of it, cannot be had.                                               *)
ComputeFor(clk, baud, divisor) ==
  LET rate == divisor * baud
      gcd == Gcd[clk, rate]
      m1 == clk \div gcd
      n1 == rate \div gcd
      m == IF m1 > MAX_VALUE_M THEN MAX_VALUE_M - 1 ELSE m1
      n == IF m1 > MAX_VALUE_M THEN Nearest(n1, m1, MAX_VALUE_N - 1) ELSE n1
  IN  IF n1 * 2 > m1 \/ (m1 > MAX_VALUE_M /\ n = 0) THEN NoDivider
      ELSE Divider(n, m, divisor, Distance(rate, Part(clk, n, m)))

(* uart_compute_div: 16 if its error is the smaller. *)
ComputeDiv(clk, baud) ==
  LET by4 == ComputeFor(clk, baud, 4)
      by16 == ComputeFor(clk, baud, 16)
  IN  IF by4 = NoDivider \/ (by16 # NoDivider /\ by16.error < by4.error)
      THEN by16 ELSE by4

(* log_compute_div: 4 if the fraction fits the fields, or else 16. *)
LogComputeFor(baud, divisor) ==
  LET clk == 24000000
      gcd == Gcd[clk, divisor * baud]
      m == clk \div gcd
      n == (divisor * baud) \div gcd
  IN  IF m > 1023 \/ n > 511 THEN NoDivider ELSE Divider(n, m, divisor, 0)
LogComputeDiv(baud) ==
  IF LogComputeFor(baud, 4) # NoDivider THEN LogComputeFor(baud, 4)
  ELSE LogComputeFor(baud, 16)
=============================================================================
