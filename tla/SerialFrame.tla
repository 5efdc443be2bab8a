---------------------------- MODULE SerialFrame ----------------------------
(***************************************************************************)
(* The serial receive loop (uart_boot_process in uart_boot.c, slip.c,      *)
(* uart_receive_bytes): frames that come in pieces are parsed again from   *)
(* their start at each UART_RXD event, until one is complete, refused, or   *)
(* given up.  Interrupts come between any two steps of the loop: bytes     *)
(* arrive, and the tick handler posts UART_RXD when no more of them do.     *)
(*                                                                         *)
(* What a command does is left out (see FlashProg); what it is given is    *)
(* what do_cmd finds in the buffer.  External are host and line.  The host *)
(* sends a frame and waits for the answer; the line may lose or change a    *)
(* byte.  What is sent while nothing receives fits into the UART's FIFO or *)
(* waits.  UART_Receive and the abort are one step each: DmaUsers takes     *)
(* them apart, and of what it finds the missed abort is here (Miss).        *)
(***************************************************************************)
EXTENDS Integers, Sequences, SequencesExt

CONSTANTS
  Packets,           \* what the host sends: direction, command, length, data
  MAX_WRITE_BLOCK,   \* bytes of each of the two buffers
  BlockSize,         \* bytes that DMA moves at once (MAX_BLK_TS)
  HeaderSize,        \* bytes before the data of a command (8)
  ExtraBytes,        \* bytes that a frame may be longer than its data (24)
  uart_time_out_max,
  HalfQueue,         \* PROCESS_CONF_NUMEVENTS >> 1
  FifoSize,          \* bytes that the UART keeps
  MaxHurt,           \* bound on bytes damaged, packets too long, answers lost
  MaxPauses,         \* pauses that a frame may have
  MaxAfter           \* bound on the packets sent after the first was hurt

ASSUME FrameAssumption ==
  /\ {MAX_WRITE_BLOCK, HeaderSize, ExtraBytes, uart_time_out_max, HalfQueue, FifoSize}
       \subseteq Nat \ {0}
  /\ {MaxHurt, MaxPauses, MaxAfter} \subseteq Nat
  /\ uart_time_out_max >= MaxPauses + HalfQueue
  /\ HeaderSize >= 4 /\ ExtraBytes >= HeaderSize /\ MAX_WRITE_BLOCK > HeaderSize
  /\ BlockSize \in 1 .. MAX_WRITE_BLOCK - 1 /\ MAX_WRITE_BLOCK <= 2 * BlockSize

VARIABLES
  \* the UART and its interrupts
  wire,      \* bytes on their way from the host
  fifo,      \* bytes that no reception has taken
  cmd,       \* SLIP_RX_BUF, as far as it has been received into
  rx_busy,   \* a reception runs, as the UART driver has it
  dma_on,    \* the DMA channel writes what comes
  base,      \* where in cmd the count of the channel begins
  events,    \* the UART_RXD events in the queue: timeout or complete
  \* the process
  upc,       \* where it stands
  acc,       \* uart_time_out_acc
  ub,        \* read, state and reading_buf
  \* the host
  host,      \* idle, waits for an answer, or deaf: the answer was lost
  \* history
  sent,      \* the last packet sent, in a sequence
  done,      \* what do_cmd was given since then
  hurt       \* bytes damaged or late, answers lost, pauses since then, packets after

uartVars == <<wire, fifo, cmd, rx_busy, dma_on, base, events>>
loopVars == <<upc, acc, ub>>
frameVars == <<uartVars, loopVars, host, sent, done, hurt>>

END == 192
ESC == 219
ESC_END == 220
ESC_ESC == 221
NoHurt == [bytes |-> 0, answers |-> 0, pauses |-> 0, after |-> 0]
CanHurt == hurt.bytes + hurt.answers < MaxHurt

FrameInit ==
  /\ wire = <<>> /\ fifo = <<>> /\ cmd = <<>>
  /\ rx_busy = FALSE /\ dma_on = FALSE /\ base = 0 /\ events = <<>>
  /\ upc = "receive" /\ acc = 0
  /\ ub = [read |-> 0, state |-> "no frame", buf |-> [i \in 1 .. MAX_WRITE_BLOCK |-> 0]]
  /\ host = "idle" /\ sent = <<>> /\ done = <<>> /\ hurt = NoHurt

-----------------------------------------------------------------------------
(* SLIP_send_frame_data_buf and SLIP_send, as the host does it. *)
Escaped(byte) ==
  CASE byte = END -> <<ESC, ESC_END>>
    [] byte = ESC -> <<ESC, ESC_ESC>>
    [] OTHER -> <<byte>>
Frame(packet) == <<END>> \o FlattenSeq([i \in DOMAIN packet |-> Escaped(packet[i])]) \o <<END>>

(* SLIP_recv_byte: the byte got, or what happened, and the next state. *)
NO_BYTE == -1
FINISHED_FRAME == -2
RecvByte(byte, state) ==
  CASE byte = END /\ state = "no frame" -> <<NO_BYTE, "frame">>
    [] byte = END /\ state # "no frame" -> <<FINISHED_FRAME, "no frame">>
    [] byte # END /\ state = "no frame" -> <<NO_BYTE, state>>
    [] byte = ESC /\ state = "frame" -> <<NO_BYTE, "escaping">>
    [] byte \notin {END, ESC} /\ state = "frame" -> <<byte, state>>
    [] byte = ESC_END /\ state = "escaping" -> <<END, "frame">>
    [] byte = ESC_ESC /\ state = "escaping" -> <<ESC, "frame">>
    [] OTHER -> <<NO_BYTE, state>>

(* One turn of the loop in uart_receive_bytes. *)
After(s, byte) ==
  LET got == RecvByte(byte, s.ub.state)
      read == IF got[1] >= 0 THEN s.ub.read + 1 ELSE s.ub.read
      over == got[1] = FINISHED_FRAME \/ (got[1] >= 0 /\ read = MAX_WRITE_BLOCK)
  IN  [finished |-> over,
       ub |-> [read  |-> IF over THEN 0 ELSE read,
               state |-> got[2],
               buf   |-> IF got[1] >= 0 THEN [s.ub.buf EXCEPT ![read] = got[1]] ELSE s.ub.buf]]

(* The set of one element makes TLC evaluate each turn once. *)
ReceiveByte(before, byte) ==
  CHOOSE s \in {IF b.finished THEN b ELSE After(b, byte) : b \in {before}} : TRUE

uart_receive_bytes(bytes) ==
  LET turn[k \in 0 .. Len(bytes)] ==
        IF k = 0 THEN [finished |-> FALSE, ub |-> ub] ELSE ReceiveByte(turn[k - 1], bytes[k])
  IN  turn[Len(bytes)]

(* What do_cmd takes for the command: as long as its header says.  What    *)
(* lies behind the buffer is not told.                                      *)
DataLen(buf) == buf[3] + 256 * buf[4]
CommandIn(buf) ==
  SubSeq(buf, 1, IF HeaderSize + DataLen(buf) < MAX_WRITE_BLOCK
                   THEN HeaderSize + DataLen(buf) ELSE MAX_WRITE_BLOCK)

-----------------------------------------------------------------------------
(* The line: the next byte arrives, unharmed or not. *)
Take(byte) ==
  /\ IF dma_on /\ fifo = <<>>
       THEN /\ cmd' = Append(cmd, byte) /\ UNCHANGED fifo
       ELSE /\ Len(fifo) < FifoSize /\ fifo' = Append(fifo, byte) /\ UNCHANGED cmd

(* UART_DMA_RX_Handler, and UART_EventCallback: RECEIVE_COMPLETE.  The      *)
(* count is that of the whole buffer then.                                  *)
Complete ==
  IF dma_on /\ Len(cmd') = MAX_WRITE_BLOCK
    THEN /\ dma_on' = FALSE /\ rx_busy' = FALSE /\ base' = 0
         /\ events' = IF Len(events) < 2 * HalfQueue THEN Append(events, "complete") ELSE events
    ELSE UNCHANGED <<dma_on, rx_busy, base, events>>

Arrive ==
  /\ wire # <<>> /\ wire' = Tail(wire)
  /\ \/ Take(Head(wire)) /\ UNCHANGED hurt
     \/ /\ CanHurt /\ hurt' = [hurt EXCEPT !.bytes = @ + 1]
        /\ \/ UNCHANGED <<cmd, fifo>>
           \/ \E byte \in {END, ESC} \ {Head(wire)} : Take(byte)
  /\ Complete
  /\ UNCHANGED <<loopVars, host, sent, done>>

(* DMA takes what has waited in the FIFO. *)
Transfer ==
  /\ dma_on /\ fifo # <<>>
  /\ cmd' = Append(cmd, Head(fifo)) /\ fifo' = Tail(fifo)
  /\ Complete
  /\ UNCHANGED <<wire, loopVars, host, sent, done, hurt>>

(* UART_GetRxCount.  After an abort it is what was sampled last, of which    *)
(* matters only that it is not 0.                                            *)
RxCount == Len(cmd) - base

(* UART_Rx_Timeout_Process, in the tick handler.  It posts at any tick, or  *)
(* during a reception when two ticks have found the same count; a step       *)
(* stands for both.  A pause of the line is an event posted then, while      *)
(* bytes are still to come.                                                 *)
Posts == RxCount > 0 /\ Len(events) < HalfQueue
Paused ==
  IF hurt.pauses < MaxPauses THEN hurt' = [hurt EXCEPT !.pauses = @ + 1]
  ELSE CanHurt /\ hurt' = [hurt EXCEPT !.bytes = @ + 1]
Tick ==
  /\ events' = IF Posts THEN Append(events, "timeout") ELSE events
  /\ IF Posts /\ rx_busy /\ wire \o fifo # <<>> THEN Paused ELSE UNCHANGED hurt
  /\ UNCHANGED <<wire, fifo, cmd, rx_busy, dma_on, base, loopVars, host, sent, done>>

-----------------------------------------------------------------------------
(* UART_Receive: a channel that still runs after a missed abort refuses to   *)
(* be configured, but its count is reset.                                    *)
StartReception ==
  /\ rx_busy' = TRUE
  /\ IF dma_on THEN base' = BlockSize /\ UNCHANGED <<dma_on, cmd>>
               ELSE dma_on' = TRUE /\ base' = 0 /\ cmd' = <<>>

(* Mutation: what is left of the last packet's time is not given back. *)
ReceiveUncounted ==
  /\ upc = "receive" /\ upc' = "wait"
  /\ StartReception
  /\ UNCHANGED <<wire, fifo, events, acc, ub, host, sent, done, hurt>>

(* The outer loop for a new packet.  n is 0 here; where it is not, or a      *)
(* reception runs, the loop's head changes nothing but uart_time_out_acc,    *)
(* and is part of Rxd.                                                       *)
Receive ==
  /\ upc = "receive" /\ upc' = "wait" /\ acc' = 0
  /\ StartReception
  /\ UNCHANGED <<wire, fifo, events, ub, host, sent, done, hurt>>

(* ub_state_recovery: the next event parses from the start again. *)
Recover(parsed) == ub' = [parsed EXCEPT !.read = ub.read, !.state = ub.state]

(* Mutation: what is shorter than a header is not counted. *)
WaitForMoreUncounted(parsed, count) ==
  IF parsed.read >= 4 /\ acc + 1 > uart_time_out_max
    THEN acc' = 0 /\ upc' = "refuse" /\ ub' = parsed
    ELSE /\ acc' = IF count = 0 \/ parsed.read < 4 THEN acc ELSE acc + 1
         /\ UNCHANGED upc /\ Recover(parsed)

(* UART_PROCESS_TIMEOUT *)
WaitForMore(parsed, count) ==
  IF acc + 1 > uart_time_out_max
    THEN acc' = 0 /\ upc' = "refuse" /\ ub' = parsed
    ELSE acc' = (IF count = 0 THEN 0 ELSE acc + 1) /\ UNCHANGED upc /\ Recover(parsed)

Refused(parsed, count) ==
  \/ count >= MAX_WRITE_BLOCK
  \/ parsed.buf[1] # 0
  \/ DataLen(parsed.buf) >= MAX_WRITE_BLOCK
  \/ parsed.read > DataLen(parsed.buf) + ExtraBytes

(* PROCESS_WAIT_EVENT gives UART_RXD.  An event left over from the packet   *)
(* before may find no byte.                                                 *)
Rxd ==
  /\ upc = "wait" /\ events # <<>> /\ events' = Tail(events)
  /\ IF RxCount = 0 /\ Head(events) = "timeout" THEN UNCHANGED loopVars
     ELSE \E r \in {uart_receive_bytes(SubSeq(cmd, 1, RxCount))} :
            IF r.finished THEN upc' = "abort" /\ ub' = r.ub /\ UNCHANGED acc
            ELSE IF r.ub.read >= 4 /\ Refused(r.ub, RxCount)
              THEN upc' = "refuse" /\ ub' = r.ub /\ UNCHANGED acc
            ELSE WaitForMore(r.ub, RxCount)
  /\ UNCHANGED <<wire, fifo, cmd, rx_busy, dma_on, base, host, sent, done, hurt>>

(* dma_channel_disable stops the channel.                                   *)
Stop == dma_on' = FALSE /\ UNCHANGED <<wire, fifo, cmd>>

(* Or it finds it stopped, as a byte has just ended the first block, and     *)
(* changes nothing; the handler then starts the next block (dma.c:1839).     *)
Miss ==
  /\ dma_on /\ Len(cmd) = BlockSize - 1
  /\ \/ /\ fifo # <<>> /\ cmd' = Append(cmd, Head(fifo)) /\ fifo' = Tail(fifo)
        /\ UNCHANGED wire
     \/ /\ fifo = <<>> /\ wire # <<>> /\ cmd' = Append(cmd, Head(wire)) /\ wire' = Tail(wire)
        /\ UNCHANGED fifo
  /\ UNCHANGED dma_on

(* Mutation: the driver forgets the reception and lets the channel run. *)
AbortFlagOnly == rx_busy' = FALSE /\ UNCHANGED <<dma_on, wire, fifo, cmd>>

(* UART_Control(CSK_UART_ABORT_RECEIVE): what is not busy is left alone.    *)
Abort ==
  /\ rx_busy' = FALSE
  /\ IF rx_busy THEN Stop \/ Miss ELSE UNCHANGED <<dma_on, wire, fifo, cmd>>

(* UART_PROCESS_ERROR, up to the answer. *)
Refuse ==
  /\ upc = "refuse" /\ upc' = "answer"
  /\ Abort
  /\ ub' = [ub EXCEPT !.read = 0, !.state = "no frame"]
  /\ UNCHANGED <<base, events, acc, host, sent, done, hurt>>

(* A complete frame: do_cmd builds the answer in SLIP_RX_BUF. *)
DoCmd ==
  /\ upc = "abort" /\ upc' = "answer"
  /\ Abort
  /\ done' = IF hurt.bytes = 0 THEN Append(done, CommandIn(ub.buf)) ELSE done
  /\ UNCHANGED <<base, events, acc, ub, host, sent, hurt>>

(* UART_Send_Polling; the line may lose it.  Then the buffer is cleared.     *)
Answer ==
  /\ upc = "answer" /\ upc' = "receive"
  /\ cmd' = [i \in DOMAIN cmd |-> 0]
  /\ \/ host' = (IF host = "waits" THEN "idle" ELSE host) /\ UNCHANGED hurt
     \/ /\ host = "waits" /\ CanHurt
        /\ host' = "deaf" /\ hurt' = [hurt EXCEPT !.answers = @ + 1]
  /\ UNCHANGED <<wire, fifo, rx_busy, dma_on, base, events, acc, ub, sent, done>>

LoopStep == Receive \/ Rxd \/ Refuse \/ DoCmd \/ Answer

-----------------------------------------------------------------------------
(* A packet that does not fit counts as damage: the host goes on sending it *)
(* after it was refused.                                                    *)
Fits(packet) == Len(Frame(packet)) < MAX_WRITE_BLOCK

(* The host's protocol: a command starts with 0, and its header says how    *)
(* long it is.                                                              *)
ASSUME PacketAssumption ==
  \A p \in Packets :
    /\ p \in Seq(0 .. 255) /\ p # <<>>
    /\ Fits(p) => p[1] = 0 /\ Len(p) >= HeaderSize /\ Len(p) = HeaderSize + DataLen(p)

HostSend ==
  /\ host = "idle" /\ wire = <<>> /\ host' = "waits"
  /\ \E p \in Packets :
       /\ Fits(p) \/ CanHurt
       /\ hurt.bytes = 0 \/ hurt.after < MaxAfter
       /\ sent' = <<p>> /\ done' = <<>> /\ wire' = Frame(p)
       /\ hurt' = [hurt EXCEPT !.bytes = IF Fits(p) THEN @ ELSE @ + 1,
                                !.pauses = 0,
                                !.after = IF hurt.bytes = 0 THEN 0 ELSE @ + 1]
  /\ UNCHANGED <<fifo, cmd, rx_busy, dma_on, base, events, loopVars>>

(* The host gives up waiting, later than the program needs for anything. *)
HostTimeout ==
  /\ host = "deaf" /\ host' = "idle"
  /\ wire = <<>> /\ fifo = <<>> /\ rx_busy /\ RxCount = 0
  /\ UNCHANGED <<uartVars, loopVars, sent, done, hurt>>

FrameStep == LoopStep \/ Arrive \/ Transfer \/ Tick

FrameNext == FrameStep \/ HostSend \/ HostTimeout

FrameSpec == FrameInit /\ [][FrameNext]_frameVars /\ WF_frameVars(FrameStep)

-----------------------------------------------------------------------------
(* Over a line that damages nothing each packet is given to do_cmd once,    *)
(* with every byte as it was sent, before it is answered and not again,     *)
(* in whatever pieces it comes and whatever events are left over from the   *)
(* one before.  A frame may pause as often as uart_time_out_max allows,     *)
(* less the events that may be left over.                                   *)
DealtOnce ==
  hurt.bytes = 0 => done = sent \/ (host = "waits" /\ done = <<>>)

(* A frame is answered, be it complete, damaged, cut or too long: the loop  *)
(* neither waits for an end that was lost nor forgets that bytes came.      *)
FrameAnswered == host = "waits" ~> host # "waits"

(* Answers are built and sent in the buffer that receptions write.  A        *)
(* reception that an abort has missed goes on meanwhile, but behind the      *)
(* first block, which is more than an answer takes: what the host receives    *)
(* is not disturbed, whatever it sends, and however often aborts miss         *)
(* (uart_boot.c:261, dma.c:1839).                                             *)
AnswerUndisturbed == upc = "answer" /\ dma_on => Len(cmd) >= BlockSize
=============================================================================
