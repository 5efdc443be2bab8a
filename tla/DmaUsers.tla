------------------------------ MODULE DmaUsers ------------------------------
(***************************************************************************)
(* The DMA driver in use.  Either a UART sends and receives                 *)
(* (driver/uart/uart.c in the mode without time-out, as uart_boot.c sets it   *)
(* up): a thread calls UART_Send, UART_Receive, the aborts and uart_dev_init,  *)
(* and interrupts come between its steps.  Or anyone calls the DMA driver,    *)
(* for transfers that the UART never asks for.                               *)
(*                                                                         *)
(* An interrupt is taken before the next step of the thread, but a register  *)
(* read may show the end of a block whose interrupt has not yet been taken.  *)
(* The application's callback only posts an event.                            *)
(***************************************************************************)
EXTENDS Dma

CONSTANTS
  Ports,         \* the channels that UARTs are set up with (uart.h)
  Amounts,       \* numbers of bytes sent or received
  Transfers,     \* what anyone asks for
  Lists,         \* lists of transfers
  MaxTransfers,      \* bound on the calls that start a transfer
  MaxFails       \* bound on errors of the controller

Listed == UNION {{list[k] : k \in DOMAIN list} : list \in Lists}

ASSUME DmaUsersAssumption ==
  /\ \A s \in Ports : s \in [{"rx", "tx"} -> Channels \cup {DMA_CHANNEL_ANY}]
  /\ Amounts \subseteq Nat
  /\ \A t \in Transfers \cup Listed : t.size \in Nat /\ t.ctl.src_width \in Nat
  /\ \A list \in Lists : list \in Seq(Listed) /\ list # <<>>

VARIABLES
  dmaUser,       \* "uart" or "anyone"
  port,          \* of rx and tx: busy, num, cnt and channel
  call,          \* the call that the thread is in
  orphaned,        \* history: rx or tx has had no channel, or an error
  missed,        \* history: channels whose abort fell on the end of a block
  used           \* calls and fails

userVars == <<dmaUser, port, call, orphaned, missed, used>>
dmaUsersVars == <<dmaVars, userVars>>

Directions == {"rx", "tx"}
NoCall == [at |-> "idle", dir |-> "rx", ch |-> DMA_CHANNEL_ANY, enabled |-> FALSE]

DmaUsersInit ==
  /\ DmaInit
  /\ dmaUser \in {"uart", "anyone"}
  /\ \E s \in IF dmaUser = "uart" THEN Ports ELSE {[d \in Directions |-> DMA_CHANNEL_ANY]} :
       port = [d \in Directions |-> [busy |-> FALSE, num |-> 0, cnt |-> 0, channel |-> s[d]]]
  /\ call = NoCall /\ orphaned = {} /\ missed = {}
  /\ used = [calls |-> 0, fails |-> 0]

NoInterrupt == \A ch \in Channels : ~Interrupt(ch)

-----------------------------------------------------------------------------
(* The calls of the UART driver, step by step *)
Thread(at) ==
  /\ dmaUser = "uart" /\ call.at = at
  /\ UNCHANGED <<dmaUser, missed>>
Calm(at) == Thread(at) /\ NoInterrupt

BeginTransfer(d, n) == port' = [port EXCEPT ![d] = [@ EXCEPT !.busy = TRUE, !.num = n, !.cnt = 0]]

(* UART_Send and UART_Receive: refused while busy. *)
TransferCall ==
  /\ Calm("idle") /\ init_cnt > 0 /\ used.calls < MaxTransfers
  /\ \E d \in Directions, n \in Amounts :
       /\ ~port[d].busy
       /\ BeginTransfer(d, n)
       /\ call' = [NoCall EXCEPT !.at = "select", !.dir = d]
       /\ orphaned' = orphaned \ {d}
  /\ used' = [used EXCEPT !.calls = @ + 1]
  /\ UNCHANGED dmaVars

(* dma_channel_select: the channel of last time, or the first that is free.  *)
(* No handler takes a channel, so that finding and claiming are one step.     *)
Found(d) == IF port[d].channel \in FreeChannels THEN {port[d].channel} ELSE FreeChannels
Lowest(S) == {ch \in S : \A c \in S : ch <= c}
Select ==
  /\ Calm("select")
  /\ LET d == call.dir
     IN  \/ /\ Found(d) = {} /\ port' = [port EXCEPT ![d].channel = DMA_CHANNEL_ANY]
            /\ call' = NoCall /\ orphaned' = orphaned \cup {d} /\ UNCHANGED dmaVars
         \/ \E ch \in Lowest(Found(d)) :
              /\ port' = [port EXCEPT ![d].channel = ch]
              /\ Claim(ch, d) /\ call' = [call EXCEPT !.at = "configure"]
              /\ UNCHANGED <<orphaned, channel_reserved>>
  /\ UNCHANGED used

(* To the UART all bytes have one address, in memory they follow each other. *)
Port == 100
Bytes(d, n) ==
  [ src |-> IF d = "rx" THEN Port ELSE 0, dst |-> IF d = "rx" THEN 0 ELSE Port, size |-> n,
    gath |-> NoGaps, scat |-> NoGaps,
    ctl |-> [NoControl EXCEPT !.src = IF d = "rx" THEN "fix" ELSE "inc",
                              !.dst = IF d = "rx" THEN "inc" ELSE "fix"] ]

ConfigureUart ==
  LET d == call.dir
  IN  /\ Calm("configure") /\ call' = NoCall
      /\ IF CanConfigure(port[d].channel)
           THEN Configure(port[d].channel, Bytes(d, port[d].num), TRUE) /\ UNCHANGED orphaned
           ELSE orphaned' = orphaned \cup {d} /\ UNCHANGED dmaVars
      /\ UNCHANGED <<port, used>>

(* UART_Control(ABORT_RECEIVE or ABORT_SEND) calls dma_channel_disable,      *)
(* which tests whether the channel is enabled, stops it if so, and leaves it. *)
AbortTest ==
  /\ dmaUser = "uart" /\ call.at = "idle"
  /\ \E d \in Directions :
       LET ch == port[d].channel
       IN  /\ port[d].busy
           /\ call' = [ at |-> "stop", dir |-> d, ch |-> ch,
                        enabled |-> ch # DMA_CHANNEL_ANY /\ reg[ch].enabled ]
           /\ missed' = missed \cup {c \in {ch} \cap Channels : Interrupt(c) /\ ~Finished(c)}
  /\ UNCHANGED <<dmaVars, dmaUser, port, orphaned, used>>

(* After an error the channel may have become that of the other direction. *)
Robbed == {channel_info[ch].cb_event : ch \in {call.ch} \cap Channels} \cap Directions
AbortStop ==
  /\ Calm("stop") /\ call' = [call EXCEPT !.at = "leave"]
  /\ reg' = IF call.enabled THEN Stopped(call.ch) ELSE reg
  /\ orphaned' = IF call.dir \in orphaned THEN orphaned \cup Robbed ELSE orphaned
  /\ UNCHANGED <<init_cnt, channel_active, channel_reserved, channel_info, moved, goal, port, used>>

AbortLeave ==
  /\ Calm("leave") /\ call' = NoCall
  /\ channel_active' = Left(call.ch)
  /\ port' = [port EXCEPT ![call.dir].busy = FALSE]
  /\ orphaned' = orphaned \ {call.dir}
  /\ UNCHANGED <<init_cnt, channel_reserved, channel_info, reg, moved, goal, used>>

(* uart_dev_init, at the start and for another rate: the program has aborted *)
(* what went on before.                                                       *)
PowerOff ==
  /\ Calm("idle") /\ (init_cnt = 0 \/ used.calls < MaxTransfers)
  /\ \A d \in Directions : ~port[d].busy
  /\ dma_uninitialize /\ call' = [call EXCEPT !.at = "power"]
  /\ UNCHANGED <<port, orphaned, used>>
PowerOn ==
  /\ Calm("power") /\ dma_initialize /\ call' = NoCall
  /\ port' = [d \in Directions |-> [port[d] EXCEPT !.num = 0, !.cnt = 0]]
  /\ UNCHANGED <<orphaned, used>>

-----------------------------------------------------------------------------
(* Anyone's calls.  dma_memcpy and dma_memcpy_SG come on a channel just       *)
(* taken, as they keep the count and the list of the last transfer;           *)
(* dma_channel_configure_lite on one that is as its last transfer left it,     *)
(* as dma_channel_reserve resets the widths.                                  *)
Anyone == dmaUser = "anyone" /\ UNCHANGED <<dmaUser, port, call, orphaned, missed>>

Open == Anyone /\ init_cnt = 0 /\ dma_initialize /\ UNCHANGED used

Take ==
  /\ Anyone /\ init_cnt > 0 /\ used.calls < MaxTransfers
  /\ \/ (\E ch \in Lowest(FreeChannels) : Claim(ch, "anyone")) /\ UNCHANGED channel_reserved
     \/ \E ch \in Channels :
          Claim(ch, "anyone") /\ channel_reserved' = channel_reserved \cup {ch}
  /\ UNCHANGED used

StartAny ==
  /\ Anyone /\ NoInterrupt /\ used.calls < MaxTransfers /\ used' = [used EXCEPT !.calls = @ + 1]
  /\ \E ch \in Channels :
       \/ \E t \in Transfers, en_int \in BOOLEAN : Configure(ch, t, en_int)
       \/ \E list \in Lists : ConfigureList(ch, list)
       \/ /\ goal[ch] = Nothing
          /\ MemCopyNone(ch) \/ \E t \in Transfers : t.ctl.src_width = 4 /\ MemCopy(ch, t)
       \/ \E size \in Amounts : reg[ch].unmasked /\ goal[ch] # Nothing /\ ConfigureLite(ch, 8, 50, size)

Pause == Anyone /\ (\E ch \in Channels, to \in BOOLEAN : Suspend(ch, to)) /\ UNCHANGED used
Poll == Anyone /\ (\E ch \in Channels : ClearStatus(ch)) /\ UNCHANGED used
Release ==
  /\ Anyone /\ NoInterrupt
  /\ \E ch \in Channels : ~reg[ch].enabled /\ ~channel_info[ch].polling /\ dma_channel_unreserve(ch)
  /\ UNCHANGED used

-----------------------------------------------------------------------------
(* Interrupts and the controller *)
Machine == UNCHANGED <<dmaUser, call>>

MoveItems ==
  /\ Machine
  /\ \E ch \in Channels : \E n \in 1 .. reg[ch].size - reg[ch].count : Move(ch, n)
  /\ UNCHANGED <<port, orphaned, missed, used>>
FailItem ==
  /\ Machine /\ used.fails < MaxFails /\ used' = [used EXCEPT !.fails = @ + 1]
  /\ \E ch \in Channels : Fail(ch)
  /\ UNCHANGED <<port, orphaned, missed>>

BlockEnds ==
  /\ Machine
  /\ \E ch \in Channels : HandleBlock(ch) \/ HandleList(ch)
  /\ UNCHANGED <<port, orphaned, missed, used>>

(* UART_DMA_RX_Handler and UART_DMA_TX_Handler heed the end, but no error. *)
Owner(ch) == {channel_info[ch].cb_event} \cap Directions
(* Mutation: the end of the reception does not end it. *)
CompletedBusy(d) == [port[d] EXCEPT !.cnt = port[d].num, !.busy = d = "rx"]
Completed(d) == [port[d] EXCEPT !.cnt = port[d].num, !.busy = FALSE]
TransferEnds ==
  /\ Machine
  /\ \E ch \in Channels :
       /\ HandleDone(ch)
       /\ port' = [d \in Directions |-> IF d \in Owner(ch) THEN Completed(d) ELSE port[d]]
       /\ missed' = missed \ {ch}
  /\ UNCHANGED <<orphaned, used>>
TransferFails ==
  /\ Machine
  /\ \E ch \in Channels :
       /\ HandleError(ch) /\ orphaned' = orphaned \cup Owner(ch)
       /\ missed' = missed \ {ch}
  /\ UNCHANGED <<port, used>>

DmaUsersNext ==
  \/ TransferCall \/ Select \/ ConfigureUart \/ AbortTest \/ AbortStop \/ AbortLeave
  \/ PowerOff \/ PowerOn
  \/ Open \/ Take \/ StartAny \/ Pause \/ Poll \/ Release
  \/ MoveItems \/ FailItem \/ BlockEnds \/ TransferEnds \/ TransferFails

DmaUsersSpec == DmaUsersInit /\ [][DmaUsersNext]_dmaUsersVars

-----------------------------------------------------------------------------
(* A transfer that ends has moved every item from and to where it was asked, *)
(* once and in order, over all of its blocks, and counts them                *)
(* (dma.c:2128-2180).                                                         *)
EndsWell(ch) == Finished(ch) \/ (channel_info[ch].polling /\ reg[ch].xfer)
MovedAsAsked ==
  \A ch \in Channels \ missed : EndsWell(ch) =>
    /\ moved[ch] = goal[ch]
    /\ After(ch).SizeXfered * channel_info[ch].width = Len(goal[ch].from)

(* A channel that runs is someone's: it is not given to another meanwhile.   *)
(* The exception is an abort that meets the end of a block: it finds the     *)
(* channel stopped, and the handler starts the next block (dma.c:1839).      *)
RunsForItsOwner ==
  \A ch \in Channels \ missed : reg[ch].enabled => ch \in channel_active

(* While the UART is busy something is under way that will end it, whenever  *)
(* interrupts come: UART_Receive marks it busy before it starts.  A call      *)
(* that got no channel, and an error of the controller, leave it busy.        *)
BusyWillEnd ==
  \A d \in Directions :
    port[d].busy /\ d \notin orphaned /\ (call.dir = d => call.at = "idle") =>
      LET ch == port[d].channel
      IN  /\ ch \in channel_active /\ channel_info[ch].cb_event = d
          /\ reg[ch].enabled \/ Interrupt(ch)
=============================================================================
