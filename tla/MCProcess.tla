----------------------------- MODULE MCProcess -----------------------------
(***************************************************************************)
(* A small kernel: three slots, two processes.  Process 1 stands for       *)
(* uart_boot_process, process 2 for etimer_process.                        *)
(***************************************************************************)
EXTENDS Process

UART_RXD == 16
BUF_FREE == 18

MCEv == {0, UART_RXD, BUF_FREE}
MCData == {0, 1}
MCMainEvent == {[ev |-> BUF_FREE, data |-> 0, p |-> 1],
                [ev |-> BUF_FREE, data |-> 0, p |-> PROCESS_BROADCAST]}
MCIsrEvent == {[ev |-> UART_RXD, data |-> 1, p |-> 1]}
MCIsrPolled == {2}
=============================================================================
