----------------------------- MODULE FlashProg -----------------------------
(***************************************************************************)
(* Programming the flash over the serial line: uart_boot_process           *)
(* (uart_boot.c) with the flash commands of the stub (stub_load.c) on one  *)
(* side, flash_prog_process, erase_a_block_process and program_process     *)
(* (flash_prog.c) on the other, the block ring of module BlockRing between *)
(* them, and the Contiki event queue under all of them.                    *)
(*                                                                         *)
(* The processes are cooperative: `current' runs until it yields, and a    *)
(* step of it is one statement that touches shared state.  Only the serial *)
(* interrupt comes in between.  The queue is the FIFO of module EventFifo, *)
(* which module Process is shown to implement.                             *)
(*                                                                         *)
(* One unit of size is a flash page; a load block is a flash sector.  The  *)
(* flash device, reached through spirom_cmd_send, and the host are         *)
(* external.  The host sends one command at a time, waits for the reply,   *)
(* repeats a data packet when the reply was lost, and stops on an error or *)
(* starts all over again (Restart).                                        *)
(***************************************************************************)
EXTENDS Integers, Sequences, FiniteSets, BlockRing

CONSTANTS
  PROCESS_CONF_NUMEVENTS,  \* capacity of the event queue (process.h:88)
  SPIROM_BLK32_SIZE,       \* the larger erase sizes (spiflash.h:133-134)
  SPIROM_BLK64_SIZE,
  FlashSize,               \* units of flash
  Timeout,                 \* flash_dev.timeout: status reads before giving up
  Images, Regions,         \* what the host programs and erases: [offset, size]
  EraseChip,               \* whether the host erases the chip
  Packets,                 \* units in a data packet
  MaxOps,                  \* bound: images and erasures
  MaxFaults,               \* bound: flash operations that fail
  MaxResends,              \* bound: replies that are lost
  Restart                  \* whether the host goes on after an error

ASSUME FlashAssumption ==
  /\ PROCESS_CONF_NUMEVENTS \in Nat \ {0}
  /\ SPIROM_BLK32_SIZE \in Nat \ {0} /\ SPIROM_BLK32_SIZE % LOAD_BLK_SIZE = 0
  /\ SPIROM_BLK64_SIZE \in Nat \ {0} /\ SPIROM_BLK64_SIZE % LOAD_BLK_SIZE = 0
  /\ FlashSize \in Nat /\ Timeout \in Nat \ {0, 1}
  /\ Packets \subseteq Nat \ {0}
  /\ \A r \in Images \cup Regions :
       r.offset \in Nat /\ r.size \in Nat \ {0} /\ r.offset + r.size <= FlashSize

SPIROM_SECTOR_SIZE == LOAD_BLK_SIZE      \* main.h:44, spiflash.h:132
Chip == 1                                \* 0xCAFE000E as event data
Worker == {"erase", "program"}
Addr == 0 .. FlashSize - 1
NoPacket == [op |-> "none"]

(* Contents of a unit: blank, left from before, garbage, or unit i of image g. *)
Blank == 0
Old == 1
Garbage == 2
Unit(g, i) == 10 * g + i

VARIABLES
  queue, polled, turn, current, ev,    \* the kernel, and the event delivered
  upc, error, cmd, res,                \* uart_boot_process and do_cmd
  mem,                                 \* s_mem_remaining, s_mem_seq, s_mem_offset, s_mem_cpy
  flash_prog, buf,                     \* flash_prog without its ring; the buffers
  fpc, flash_ops, chip_erase,          \* flash_prog_process
  worker,                              \* the erase and the program process
  dev, flash,                          \* the flash device
  packet, waiting, host,               \* the host and the receive buffer
  faults, failed                       \* injected faults; an operation has failed

kernel == <<queue, polled, turn, current, ev>>
loader == <<upc, error, cmd, res, mem>>
pipeline == <<flash_prog, ring, buf>>
programmer == <<fpc, flash_ops, chip_erase>>
device == <<dev, flash, faults>>
outside == <<packet, waiting, host>>
vars == <<kernel, loader, pipeline, programmer, worker, device, outside, failed>>

(* process_post, whose result no caller looks at. *)
Post(q, p, e, d) ==
  IF Len(q) = PROCESS_CONF_NUMEVENTS THEN q ELSE Append(q, [p |-> p, ev |-> e, data |-> d])

Init ==
  /\ queue = <<>> /\ polled = {} /\ turn = "poll" /\ current = "none"
  /\ ev = [p |-> "none", ev |-> "INIT", data |-> 0]
  /\ upc = "rx" /\ error = FALSE /\ cmd = NoPacket /\ res = "OK"
  /\ mem = [remaining |-> 0, seq |-> -1, mode |-> FALSE, cpy |-> <<>>]
  /\ flash_prog = [offset |-> 0, total |-> 0, erase_size |-> 0, cnt |-> 0]
  /\ ring = EmptyRing
  /\ buf = [b \in BufIdx |-> [i \in 0 .. LOAD_BLK_SIZE - 1 |-> Old]]
  /\ fpc = "idle" /\ chip_erase = FALSE
  /\ flash_ops = [addr |-> 0, size |-> 0, buf |-> 0]
  /\ worker = [t \in Worker |->
                [pc |-> "idle", addr |-> 0, remain |-> 0, buf |-> 0, pos |-> 0, j |-> 0]]
  /\ dev = "ready" /\ flash = [a \in Addr |-> Old] /\ faults = 0 /\ failed = FALSE
  /\ packet = NoPacket /\ waiting = FALSE
  /\ host = [phase |-> "none", gen |-> 0, offset |-> 0, size |-> 0, sent |-> 0,
             seq |-> 0, last |-> NoPacket, resends |-> 0]

-----------------------------------------------------------------------------
(* process_run: the requested polls, in the order of the process list, which *)
(* has program_process before erase_a_block_process; then one event; again.  *)
PollPass ==
  IF queue = <<>> /\ (turn = "event" \/ "erase" \notin polled) THEN "poll" ELSE turn
Polled(p) ==
  /\ p \in polled
  /\ CASE p = "program" -> PollPass = "poll"
       [] p = "erase"   -> PollPass = "erase" \/ (PollPass = "poll" /\ "program" \notin polled)

ServePoll(p) ==
  /\ current = "none" /\ Polled(p)
  /\ current' = p
  /\ polled' = polled \ {p}
  /\ ev' = [p |-> p, ev |-> "POLL", data |-> 0]
  /\ turn' = IF p = "program" THEN "erase" ELSE "event"
  /\ UNCHANGED <<queue, loader, pipeline, programmer, worker, device, outside, failed>>

ServeEvent ==
  /\ current = "none" /\ queue # <<>> /\ \A p \in Worker : ~Polled(p)
  /\ ev' = Head(queue)
  /\ current' = Head(queue).p
  /\ queue' = Tail(queue)
  /\ turn' = "poll"
  /\ UNCHANGED <<polled, loader, pipeline, programmer, worker, device, outside, failed>>

Yield == current' = "none" /\ UNCHANGED <<polled, turn, ev>>
Run == UNCHANGED <<current, polled, turn, ev>>

(* Mutation: the queue is never found to be almost full. *)
AlmostFullNever == FALSE

AlmostFull == Len(queue) >= PROCESS_CONF_NUMEVENTS \div 2

(* UART_EventCallback and UART_Rx_Timeout_Process: as long as bytes are in  *)
(* the receive buffer, every tick posts UART_RXD unless the queue is half   *)
(* full; the events that come after the packet was taken are stale.         *)
RxInterrupt ==
  /\ packet # NoPacket
  /\ ~AlmostFull
  /\ queue' = Post(queue, "uart", "UART_RXD", 0)
  /\ UNCHANGED <<polled, turn, current, ev, loader, pipeline, programmer, worker,
                 device, outside, failed>>

-----------------------------------------------------------------------------
(* uart_boot_process. *)
Uart(label) == current = "uart" /\ upc = label
UartUnchanged == UNCHANGED <<programmer, worker, device, waiting, host, failed>>

ErrorSeen == error \/ ev.ev = "PROG_ERR"

(* The receive loop: other events are ignored but for PROG_ERR, which is    *)
(* remembered; so is an UART_RXD without bytes.                             *)
RxOther ==
  /\ Uart("rx") /\ (ev.ev # "UART_RXD" \/ packet = NoPacket)
  /\ error' = ErrorSeen
  /\ Yield /\ UartUnchanged
  /\ UNCHANGED <<queue, upc, cmd, res, mem, pipeline, packet>>

Receive(op) ==
  /\ Uart("rx") /\ ev.ev = "UART_RXD" /\ packet.op = op
  /\ cmd' = packet
  /\ packet' = NoPacket
  /\ UartUnchanged

(* Mutation: what was erased for the last image counts for this one. *)
NewImageKeepErased(p) ==
  [flash_prog EXCEPT !.offset = p.offset, !.total = p.size, !.cnt = 0]

(* Mutation: the blocks of this image are counted on from those of the last. *)
NewImageKeepCnt(p) ==
  [offset |-> p.offset, total |-> p.size, erase_size |-> 0, cnt |-> flash_prog.cnt]

NewImage(p) == [offset |-> p.offset, total |-> p.size, erase_size |-> 0, cnt |-> 0]

(* handle_flash_begin: a new image, and an empty ring whatever is in it. *)
FlashBegin ==
  /\ Receive("BEGIN")
  /\ mem' = [mem EXCEPT !.remaining = packet.size, !.seq = -1, !.mode = TRUE]
  /\ flash_prog' = NewImage(packet)
  /\ ring' = EmptyRing
  /\ res' = "OK"
  /\ upc' = "reply"
  /\ Run /\ UNCHANGED <<queue, error, buf>>

(* Mutation: the sequence numbers of an image start with 1. *)
InSequenceFromOne(p) == p.seq \in {mem.seq, mem.seq + 2}

InSequence(p) == p.seq \in {mem.seq, mem.seq + 1}

(* handle_flash_data: what is said of the packet. *)
DataResult(p) ==
  CASE ~mem.mode -> "NOT_IN_FLASH_MODE"
    [] mem.mode /\ Len(p.units) > mem.remaining -> "TOO_MUCH_DATA"
    [] mem.mode /\ Len(p.units) <= mem.remaining /\ ~InSequence(p) -> "BAD_DATA_SEQ"
    [] OTHER -> "OK"

ToCopy(p) == IF p.seq = mem.seq THEN <<>> ELSE p.units

(* handle_flash_data: a packet repeated is answered but not copied. *)
FlashData ==
  /\ Receive("DATA")
  /\ res' = DataResult(packet)
  /\ IF res' = "OK"
       THEN mem' = [mem EXCEPT !.seq = packet.seq, !.cpy = ToCopy(packet)] /\ upc' = "copy"
       ELSE upc' = "reply" /\ UNCHANGED mem
  /\ Run /\ UNCHANGED <<queue, error, pipeline>>

(* Mutation: the room in the buffer is not looked at. *)
CopyLenUnbounded == Len(mem.cpy)

(* flash_mem_cpy: one turn of the copy loop of FLASH_DATA.  A block that is *)
(* full, or the last of the image, becomes ready; flash_prog_process is     *)
(* woken only if the ring was empty.                                        *)
CopyLen == IF Len(mem.cpy) > Room(ring) THEN Room(ring) ELSE Len(mem.cpy)
BlockReady == mem.remaining = CopyLen \/ CopyLen = Room(ring)

(* Mutation: the slot is made ready before the test whether the ring was    *)
(* empty.                                                                   *)
WakeAfterReady(q) ==
  IF BlockReady /\ ~InProcess(ring') THEN Post(q, "flash", "BUF_RDY", ring.tail) ELSE q

Wake(q) ==
  IF BlockReady /\ ~InProcess(ring) THEN Post(q, "flash", "BUF_RDY", ring.tail) ELSE q

CopyBlock ==
  /\ Uart("copy") /\ mem.cpy # <<>> /\ HasFreeBuf(ring)
  /\ LET b  == ring.ctrl[ring.tail].buf_idx
         at == ring.ctrl[ring.tail].size
     IN  buf' = [buf EXCEPT ![b] = [i \in DOMAIN @ |->
                   IF i \in at .. at + CopyLen - 1 THEN mem.cpy[i - at + 1] ELSE @[i]]]
  /\ mem' = [mem EXCEPT !.remaining = @ - CopyLen,
                        !.cpy = SubSeq(@, CopyLen + 1, Len(@))]
  /\ ring' = Filled(ring, CopyLen, mem.remaining = CopyLen)
  /\ queue' = Wake(queue)
  /\ Run /\ UartUnchanged
  /\ UNCHANGED <<upc, error, cmd, res, flash_prog, packet>>

(* The packet has been copied, or there is no free buffer to copy to. *)
CopyTest ==
  /\ Uart("copy") /\ (mem.cpy = <<>> \/ ~HasFreeBuf(ring))
  /\ IF mem.cpy # <<>> THEN upc' = "copy_wait" /\ Yield ELSE upc' = "reply" /\ Run
  /\ UartUnchanged
  /\ UNCHANGED <<queue, error, cmd, res, mem, pipeline, packet>>

(* handle_flash_finish: the image is complete or not; then wait until the   *)
(* ring is empty.                                                           *)
FlashEnd ==
  /\ Receive("END")
  /\ res' = IF mem.remaining > 0 THEN "NOT_ENOUGH_DATA" ELSE "OK"
  /\ mem' = [mem EXCEPT !.remaining = 1, !.mode = FALSE]
  /\ upc' = IF res' = "OK" THEN "end" ELSE "reply"
  /\ Run /\ UNCHANGED <<queue, error, pipeline>>

EndTest ==
  /\ Uart("end")
  /\ IF InProcess(ring) THEN upc' = "end_wait" /\ Yield ELSE upc' = "reply" /\ Run
  /\ UartUnchanged
  /\ UNCHANGED <<queue, error, cmd, res, mem, pipeline, packet>>

(* Any event ends the wait of either loop; only PROG_ERR is remembered. *)
LoopAgain(wait, label) ==
  /\ Uart(wait)
  /\ error' = ErrorSeen
  /\ upc' = label
  /\ Run /\ UartUnchanged
  /\ UNCHANGED <<queue, cmd, res, mem, pipeline, packet>>

(* handle_flash_erase, then wait for PROG_OK or PROG_ERR. *)
FlashErase ==
  /\ Receive("ERASE")
  /\ IF packet.chip
       THEN /\ queue' = Post(queue, "flash", "ERASE", Chip)
            /\ UNCHANGED flash_prog
       ELSE /\ queue' = Post(queue, "flash", "ERASE", 0)
            /\ flash_prog' = [offset |-> packet.offset, total |-> packet.size,
                              erase_size |-> 0, cnt |-> packet.size]
  /\ res' = "OK"
  /\ upc' = "erase_wait"
  /\ Yield
  /\ UNCHANGED <<error, mem, ring, buf>>

(* Mutation: an error does not end the wait for the erasure. *)
EraseOverOkOnly == ev.ev = "PROG_OK"

EraseOver == ev.ev \in {"PROG_OK", "PROG_ERR"}

EraseResume ==
  /\ Uart("erase_wait")
  /\ error' = ErrorSeen
  /\ IF EraseOver
       THEN upc' = "reply" /\ Run
       ELSE Yield /\ UNCHANGED upc
  /\ UartUnchanged
  /\ UNCHANGED <<queue, cmd, res, mem, pipeline, packet>>

-----------------------------------------------------------------------------
(* The host on a reply: it goes on, or stops at an error. *)
Accepted ==
  [host EXCEPT
    !.phase = CASE cmd.op = "BEGIN" -> "data"
                [] cmd.op = "DATA"  -> "data"
                [] cmd.op = "END"   -> "done"
                [] cmd.op = "ERASE" -> IF cmd.chip THEN "chip_erased" ELSE "erased",
    !.sent = IF cmd.op = "DATA" THEN @ + Len(cmd.units) ELSE @,
    !.seq  = IF cmd.op = "DATA" THEN @ + 1 ELSE @]

(* The reply is sent; a pending error replaces what do_cmd had to say, and  *)
(* is forgotten.  A good reply to a data packet may be lost: the host then  *)
(* sends the packet again.                                                  *)
Reply ==
  /\ Uart("reply")
  /\ LET ok == res = "OK" /\ ~error
     IN  \/ host' = IF ok THEN Accepted ELSE [host EXCEPT !.phase = "stopped"]
         \/ /\ cmd.op = "DATA" /\ host.resends < MaxResends
            /\ ok
            /\ host' = [host EXCEPT !.phase = "resend", !.resends = @ + 1, !.last = cmd]
  /\ waiting' = FALSE
  /\ error' = FALSE
  /\ upc' = "rx"
  /\ cmd' = NoPacket
  /\ Yield
  /\ UNCHANGED <<queue, res, mem, pipeline, programmer, worker, device, packet, failed>>

Send(c) ==
  /\ ~waiting
  /\ waiting' = TRUE
  /\ packet' = c
  /\ UNCHANGED <<kernel, loader, pipeline, programmer, worker, device, failed>>

AtRest ==
  /\ host.phase \in {"none", "done", "erased", "chip_erased"}
                    \cup (IF Restart THEN {"stopped"} ELSE {})
  /\ host.gen < MaxOps

SendBegin(r) ==
  /\ AtRest
  /\ Send([op |-> "BEGIN", offset |-> r.offset, size |-> r.size])
  /\ host' = [host EXCEPT !.phase = "begin", !.gen = @ + 1,
                          !.offset = r.offset, !.size = r.size, !.sent = 0, !.seq = 0]

SendData(len) ==
  /\ host.phase = "data" /\ len <= host.size - host.sent
  /\ Send([op |-> "DATA", seq |-> host.seq,
           units |-> [i \in 1 .. len |-> Unit(host.gen, host.sent + i - 1)]])
  /\ UNCHANGED host

SendAgain ==
  /\ host.phase = "resend"
  /\ Send(host.last)
  /\ host' = [host EXCEPT !.phase = "data", !.last = NoPacket]

SendEnd ==
  /\ host.phase = "data" /\ host.sent = host.size
  /\ Send([op |-> "END"])
  /\ UNCHANGED host

SendErase(r) ==
  /\ AtRest
  /\ Send([op |-> "ERASE", chip |-> FALSE, offset |-> r.offset, size |-> r.size])
  /\ host' = [host EXCEPT !.phase = "erasing", !.gen = @ + 1,
                          !.offset = r.offset, !.size = r.size]

SendChipErase ==
  /\ EraseChip /\ AtRest
  /\ Send([op |-> "ERASE", chip |-> TRUE])
  /\ host' = [host EXCEPT !.phase = "erasing", !.gen = @ + 1]

-----------------------------------------------------------------------------
(* flash_prog_process. *)
Flash(label) == current = "flash" /\ fpc = label
FlashUnchanged == UNCHANGED <<loader, buf, worker, device, outside, failed>>

(* erase_sectors: nothing to do, or the erase process is started. *)
ErasedAlready(addr) == flash_prog.offset + flash_prog.erase_size > addr

(* The wait at the top of the loop. *)
FlashIdle ==
  /\ Flash("idle")
  /\ fpc' = IF ev.ev # "ERASE" THEN "drain" ELSE IF ev.data = Chip THEN "chip" ELSE "region"
  /\ chip_erase' = IF ev.ev = "ERASE" THEN ev.data = Chip ELSE chip_erase
  /\ flash_ops' = IF fpc' = "region" THEN [flash_ops EXCEPT !.addr = flash_prog.offset]
                                     ELSE flash_ops
  /\ Run /\ FlashUnchanged /\ UNCHANGED <<queue, flash_prog, ring>>

(* PROCESS_EVENT_ERASE for the whole chip. *)
ChipErase ==
  /\ Flash("chip")
  /\ IF ErasedAlready(flash_ops.addr)
       THEN /\ queue' = Post(queue, "uart", "PROG_OK", 0)
            /\ fpc' = "drain" /\ Run
       ELSE /\ queue' = Post(queue, "erase", "CONTINUE", 0)
            /\ fpc' = "chip_wait" /\ Yield
  /\ FlashUnchanged /\ UNCHANGED <<flash_prog, ring, flash_ops, chip_erase>>

ChipErased ==
  /\ Flash("chip_wait")
  /\ IF ev.data # 0
       THEN /\ queue' = Post(queue, "uart", "PROG_ERR", 0)
            /\ UNCHANGED <<flash_prog, flash_ops>>
       ELSE /\ queue' = Post(queue, "uart", "PROG_OK", 0)
            /\ flash_prog' = [flash_prog EXCEPT !.erase_size = flash_prog.total, !.cnt = 0]
            /\ flash_ops' = [flash_ops EXCEPT !.addr = 0]
  /\ fpc' = "drain"
  /\ Run /\ FlashUnchanged /\ UNCHANGED <<ring, chip_erase>>

(* Mutation: what is left of a region is not erased if it is a sector. *)
RegionLabelShort(cnt) == IF cnt > SPIROM_SECTOR_SIZE THEN "region" ELSE "region_done"

RegionLabel(cnt) == IF cnt > 0 THEN "region" ELSE "region_done"

(* PROCESS_EVENT_ERASE for a region: one erasure after another. *)
RegionErase ==
  /\ Flash("region")
  /\ IF ErasedAlready(flash_ops.addr)
       THEN /\ fpc' = RegionLabel(flash_prog.cnt)
            /\ Run /\ UNCHANGED queue
       ELSE /\ queue' = Post(queue, "erase", "CONTINUE", 0)
            /\ fpc' = "region_wait" /\ Yield
  /\ FlashUnchanged /\ UNCHANGED <<flash_prog, ring, flash_ops, chip_erase>>

RegionErased ==
  /\ Flash("region_wait")
  /\ IF ev.data # 0
       THEN /\ queue' = Post(queue, "uart", "PROG_ERR", 0)
            /\ fpc' = "idle" /\ Yield
            /\ UNCHANGED <<flash_prog, flash_ops>>
       ELSE /\ flash_ops' = [flash_ops EXCEPT
                               !.addr = flash_prog.offset + flash_prog.erase_size]
            /\ flash_prog' = [flash_prog EXCEPT !.cnt = flash_prog.total - flash_prog.erase_size]
            /\ fpc' = RegionLabel(flash_prog'.cnt)
            /\ Run /\ UNCHANGED queue
  /\ FlashUnchanged /\ UNCHANGED <<ring, chip_erase>>

RegionDone ==
  /\ Flash("region_done")
  /\ queue' = Post(queue, "uart", "PROG_OK", 0)
  /\ fpc' = "idle" /\ Yield
  /\ FlashUnchanged /\ UNCHANGED <<flash_prog, ring, flash_ops, chip_erase>>

(* The oldest ready block: erase its sector first, or program it at once. *)
NextBlock ==
  /\ Flash("drain") /\ InProcess(ring)
  /\ chip_erase' = FALSE
  /\ flash_ops' = [addr |-> flash_prog.offset + LOAD_BLK_SIZE * flash_prog.cnt,
                   size |-> ring.ctrl[ring.head].size,
                   buf  |-> ring.ctrl[ring.head].buf_idx]
  /\ IF ErasedAlready(flash_ops'.addr)
       THEN fpc' = "program_wait" /\ queue' = Post(queue, "program", "CONTINUE", 0)
       ELSE fpc' = "sector_wait" /\ queue' = Post(queue, "erase", "CONTINUE", 0)
  /\ Yield /\ FlashUnchanged /\ UNCHANGED <<flash_prog, ring>>

Drained ==
  /\ Flash("drain") /\ ~InProcess(ring)
  /\ fpc' = "idle"
  /\ Yield /\ FlashUnchanged
  /\ UNCHANGED <<queue, flash_prog, ring, flash_ops, chip_erase>>

(* The block is done with, well or not: the slot is freed and               *)
(* uart_boot_process is told.  After a failure cnt stays where it is.       *)
BlockOver(e) ==
  /\ ring' = SetBufFree(ring)
  /\ queue' = Post(queue, "uart", e, 0)
  /\ fpc' = "drain"
  /\ Run

(* The waits for the worker pass over BUF_RDY, which comes from a loader    *)
(* that found the ring empty because a new image has emptied it.            *)
WaitOn == Yield /\ UNCHANGED <<queue, ring, fpc>>

SectorErased ==
  /\ Flash("sector_wait")
  /\ IF ev.ev = "BUF_RDY" THEN WaitOn
     ELSE IF ev.data # 0 THEN BlockOver("PROG_ERR")
     ELSE /\ queue' = Post(queue, "program", "CONTINUE", 0)
          /\ fpc' = "program_wait"
          /\ Yield /\ UNCHANGED ring
  /\ FlashUnchanged /\ UNCHANGED <<flash_prog, flash_ops, chip_erase>>

(* Mutation: a failed block is reported as a free buffer. *)
BlockEventSilent == "BUF_FREE"

BlockEvent == IF ev.data # 0 THEN "PROG_ERR" ELSE "BUF_FREE"

BlockProgrammed ==
  /\ Flash("program_wait")
  /\ IF ev.ev = "BUF_RDY"
       THEN WaitOn /\ UNCHANGED flash_prog
       ELSE /\ BlockOver(BlockEvent)
            /\ flash_prog' = [flash_prog EXCEPT !.cnt = IF ev.data # 0 THEN @ ELSE @ + 1]
  /\ FlashUnchanged /\ UNCHANGED <<flash_ops, chip_erase>>

-----------------------------------------------------------------------------
(* erase_a_block_process and program_process, t, which drive the flash in   *)
(* the same way: enable writing, wait for the latch, give the command, wait *)
(* until it is done.  A status that is not there yet is looked at again     *)
(* when the process, which polls itself, is polled.                         *)
Working(t, label) == current = t /\ worker[t].pc = label
WorkerUnchanged ==
  UNCHANGED <<loader, ring, buf, programmer, outside>>

Goto(t, label) == worker' = [worker EXCEPT ![t].pc = label]

(* The end of the thread's loop: CONTINUE with the result. *)
Finish(t, ret) ==
  /\ queue' = Post(queue, "flash", "CONTINUE", ret)
  /\ Goto(t, "idle")
  /\ failed' = (failed \/ ret # 0)
  /\ Yield

GoOn(t, label) ==
  /\ Goto(t, label)
  /\ Run /\ UNCHANGED <<queue, failed>>

PollAgain(t, label) ==
  /\ Goto(t, label)
  /\ polled' = polled \cup {t}
  /\ current' = "none"
  /\ UNCHANGED <<queue, turn, ev, failed>>

(* spirom_cmd_send returns an error. *)
Fault == faults < MaxFaults /\ faults' = faults + 1

(* The erase process is started by an event that points to the address; the *)
(* program process by one that points to flash_ops.  A poll starts either   *)
(* where it was.                                                            *)
EraseStart ==
  /\ Working("erase", "idle")
  /\ LET a == IF ev.ev = "POLL" THEN worker["erase"].addr ELSE flash_ops.addr
     IN  IF ev.ev # "POLL" /\ a % SPIROM_SECTOR_SIZE # 0
           THEN Finish("erase", -1)
           ELSE /\ worker' = [worker EXCEPT !["erase"].addr = a, !["erase"].pc = "wren"]
                /\ Run /\ UNCHANGED <<queue, failed>>
  /\ WorkerUnchanged /\ UNCHANGED <<flash_prog, device>>

ProgramStart ==
  /\ Working("program", "idle")
  /\ worker' = [worker EXCEPT !["program"] =
       IF ev.ev = "POLL" THEN [@ EXCEPT !.pc = "wren"]
       ELSE [pc |-> "wren", addr |-> flash_ops.addr, remain |-> flash_ops.size,
             buf |-> flash_ops.buf, pos |-> 0, j |-> 0]]
  /\ Run /\ WorkerUnchanged /\ UNCHANGED <<queue, flash_prog, device, failed>>

(* Mutation: the status is read once more than the timeout says. *)
MoreReadsByOne(t) == worker[t].j < Timeout

(* The condition of the status loops, after j has been advanced. *)
MoreReads(t) == worker[t].j + 1 < Timeout

(* SPIROM_CMD_WREN. *)
WriteEnable(t) ==
  /\ Working(t, "wren")
  /\ \E d \in {dev, IF dev = "ready" THEN "latched" ELSE dev} :
       /\ dev' = d
       /\ \/ /\ dev # "ready" \/ d = "latched"
             /\ worker' = [worker EXCEPT ![t].pc = "read_latch", ![t].j = 1]
             /\ Run /\ UNCHANGED <<queue, faults, failed>>
          \/ Fault /\ Finish(t, -1)
  /\ WorkerUnchanged /\ UNCHANGED <<flash_prog, flash>>

(* SPIROM_CMD_RDST while waiting for the write-enable latch. *)
ReadLatch(t) ==
  /\ Working(t, "read_latch")
  /\ \/ GoOn(t, "command") /\ UNCHANGED faults
     \/ /\ IF MoreReads(t) THEN UNCHANGED faults ELSE Fault
        /\ PollAgain(t, "latch_wait")
     \/ Fault /\ Finish(t, -1)
  /\ WorkerUnchanged /\ UNCHANGED <<flash_prog, dev, flash>>

(* Back from PROCESS_YIELD in a status loop: once more, unless j reaches    *)
(* the timeout.                                                             *)
Resume(t, wait, read) ==
  /\ Working(t, wait)
  /\ IF MoreReads(t)
       THEN /\ worker' = [worker EXCEPT ![t].pc = read, ![t].j = @ + 1]
            /\ Run /\ UNCHANGED <<queue, failed>>
       ELSE Finish(t, -1)
  /\ WorkerUnchanged /\ UNCHANGED <<flash_prog, device>>

(* What the device makes of a command: it obeys only when it is latched. *)
Obey(new) ==
  IF dev = "latched" THEN dev' = "busy" /\ flash' = new ELSE UNCHANGED <<dev, flash>>
Wiped(a, size) ==
  [x \in Addr |-> IF x \in a .. a + size - 1 THEN Blank ELSE flash[x]]
Written(a, v) ==
  [flash EXCEPT ![a] = IF @ = Blank THEN v ELSE Garbage]

(* Mutation: the large erase sizes are taken for an aligned address alone. *)
EraseSizeUnbounded(a, remain) ==
  IF a % SPIROM_BLK64_SIZE = 0 THEN SPIROM_BLK64_SIZE
  ELSE IF a % SPIROM_BLK32_SIZE = 0 THEN SPIROM_BLK32_SIZE
  ELSE SPIROM_SECTOR_SIZE

(* The largest erase that is aligned and does not reach too far; remain is  *)
(* unsigned, and huge when it is below zero.                                *)
EraseSize(a, remain) ==
  LET fits(size) == a % size = 0 /\ (remain >= size \/ remain < 0)
  IN  CASE fits(SPIROM_BLK64_SIZE) -> SPIROM_BLK64_SIZE
        [] ~fits(SPIROM_BLK64_SIZE) /\ fits(SPIROM_BLK32_SIZE) -> SPIROM_BLK32_SIZE
        [] OTHER -> SPIROM_SECTOR_SIZE

Remain(a) == flash_prog.offset + flash_prog.total - a

(* The erase command; erase_size is advanced before its result is known. *)
EraseCommand ==
  /\ Working("erase", "command") /\ ~chip_erase
  /\ LET a    == worker["erase"].addr
         size == EraseSize(a, Remain(a))
     IN  /\ flash_prog' = [flash_prog EXCEPT !.erase_size = @ + size]
         /\ \/ /\ Obey(Wiped(a, size)) /\ UNCHANGED faults
               /\ worker' = [worker EXCEPT !["erase"].pc = "read_busy", !["erase"].j = 1]
               /\ Run /\ UNCHANGED <<queue, failed>>
            \/ /\ Fault /\ Finish("erase", -1)
               /\ Obey(Wiped(a, size)) \/ UNCHANGED <<dev, flash>>
  /\ WorkerUnchanged

(* The chip erase: SPIROM_OP_CHIP_ERASE is no command of spirom_cmd_send,   *)
(* which refuses it; the result is overwritten by that of the status read.  *)
ChipCommand ==
  /\ Working("erase", "command") /\ chip_erase
  /\ worker' = [worker EXCEPT !["erase"].pc = "read_chip", !["erase"].j = 1]
  /\ Run /\ WorkerUnchanged /\ UNCHANGED <<queue, flash_prog, device, failed>>

(* SPIROM_CMD_PROGRAM: one page. *)
ProgramCommand ==
  /\ Working("program", "command")
  /\ LET w == worker["program"]
     IN  \/ /\ Obey(Written(w.addr, buf[w.buf][w.pos])) /\ UNCHANGED faults
            /\ worker' = [worker EXCEPT !["program"].pc = "read_busy", !["program"].j = 1]
            /\ Run /\ UNCHANGED <<queue, failed>>
         \/ /\ Fault /\ Finish("program", -1)
            /\ Obey(Written(w.addr, buf[w.buf][w.pos])) \/ UNCHANGED <<dev, flash>>
  /\ WorkerUnchanged /\ UNCHANGED flash_prog

(* SPIROM_CMD_RDST while the device works: still busy, or ready.  A latched *)
(* device, which was given no command, stays latched.                       *)
StillBusy(t) ==
  /\ dev # "ready"
  /\ MoreReads(t) \/ dev = "latched" \/ faults < MaxFaults
  /\ faults' = IF MoreReads(t) \/ dev = "latched" THEN faults ELSE faults + 1
  /\ UNCHANGED dev
NowReady == dev # "latched" /\ dev' = "ready" /\ UNCHANGED faults

ReadChip ==
  /\ Working("erase", "read_chip")
  /\ \/ StillBusy("erase") /\ PollAgain("erase", "chip_wait") /\ UNCHANGED flash_prog
     \/ /\ NowReady
        /\ worker' = [worker EXCEPT !["erase"].pc = "read_busy", !["erase"].j = 1]
        /\ flash_prog' = [flash_prog EXCEPT !.erase_size =
             IF worker["erase"].j = 1 THEN @ + Remain(worker["erase"].addr) ELSE @]
        /\ Run /\ UNCHANGED <<queue, failed>>
     \/ Fault /\ Finish("erase", -1) /\ UNCHANGED <<dev, flash_prog>>
  /\ WorkerUnchanged /\ UNCHANGED flash

EraseRead ==
  /\ Working("erase", "read_busy")
  /\ \/ StillBusy("erase") /\ PollAgain("erase", "busy_wait")
     \/ NowReady /\ Finish("erase", 0)
     \/ Fault /\ Finish("erase", -1) /\ UNCHANGED dev
  /\ WorkerUnchanged /\ UNCHANGED <<flash_prog, flash>>

(* After a page the next one, until the block is written. *)
ProgramRead ==
  /\ Working("program", "read_busy")
  /\ \/ StillBusy("program") /\ PollAgain("program", "busy_wait")
     \/ /\ NowReady
        /\ IF worker["program"].remain = 1
             THEN Finish("program", 0)
             ELSE /\ worker' = [worker EXCEPT
                       !["program"].pc = "wren", !["program"].addr = @ + 1,
                       !["program"].pos = @ + 1, !["program"].remain = @ - 1]
                  /\ Run /\ UNCHANGED <<queue, failed>>
     \/ Fault /\ Finish("program", -1) /\ UNCHANGED dev
  /\ WorkerUnchanged /\ UNCHANGED <<flash_prog, flash>>

-----------------------------------------------------------------------------
UartStep ==
  \/ RxOther \/ FlashBegin \/ FlashData \/ FlashEnd \/ FlashErase
  \/ CopyBlock \/ CopyTest \/ EndTest \/ EraseResume \/ Reply
  \/ LoopAgain("copy_wait", "copy") \/ LoopAgain("end_wait", "end")

FlashStep ==
  \/ FlashIdle \/ ChipErase \/ ChipErased \/ RegionErase \/ RegionErased \/ RegionDone
  \/ NextBlock \/ Drained \/ SectorErased \/ BlockProgrammed

WorkerStep ==
  \/ EraseStart \/ ProgramStart
  \/ \E t \in Worker : WriteEnable(t) \/ ReadLatch(t)
  \/ \E t \in Worker : \/ Resume(t, "latch_wait", "read_latch")
                       \/ Resume(t, "busy_wait", "read_busy")
  \/ Resume("erase", "chip_wait", "read_chip")
  \/ EraseCommand \/ ChipCommand \/ ProgramCommand
  \/ ReadChip \/ EraseRead \/ ProgramRead

MainStep == (\E p \in Worker : ServePoll(p)) \/ ServeEvent \/ UartStep \/ FlashStep \/ WorkerStep

HostStep ==
  \/ \E r \in Images : SendBegin(r)
  \/ \E r \in Regions : SendErase(r)
  \/ \E len \in Packets : SendData(len)
  \/ SendAgain \/ SendEnd \/ SendChipErase

Next == MainStep \/ RxInterrupt \/ HostStep

(* The main thread runs, and the receive interrupt comes back every tick;   *)
(* the host owes nothing.                                                   *)
Spec == Init /\ [][Next]_vars /\ WF_vars(MainStep) /\ WF_vars(RxInterrupt)

-----------------------------------------------------------------------------
FlashTypeOK ==
  /\ polled \subseteq Worker /\ turn \in {"poll", "erase", "event"}
  /\ current \in {"none", "uart", "flash"} \cup Worker
  /\ Len(queue) <= PROCESS_CONF_NUMEVENTS
  /\ mem.remaining \in Nat /\ mem.seq \in Nat \cup {-1} /\ error \in BOOLEAN
  /\ RingTypeOK
  /\ \A t \in Worker : worker[t].j < Timeout /\ worker[t].pos < LOAD_BLK_SIZE
  /\ \A b \in BufIdx : DOMAIN buf[b] = 0 .. LOAD_BLK_SIZE - 1
  /\ DOMAIN flash = Addr /\ dev \in {"ready", "latched", "busy"}

(* The loader and the programming process together use the ring as module   *)
(* BlockRing has it: no slot is filled beyond its buffer or while the ring  *)
(* is full, and none is freed that is not ready.                            *)
RingRefined == RingSpec

Queued(p, e) == \E i \in 1 .. Len(queue) : queue[i].p = p /\ queue[i].ev = e

(* A ready block is left lying: flash_prog_process sleeps at the top of its *)
(* loop, and no event is on its way to wake it.                             *)
LeftLying ==
  InProcess(ring) /\ fpc = "idle" /\ current # "flash" /\ ~Queued("flash", "BUF_RDY")

(* No step leaves a ready block lying, although BUF_RDY is posted only for  *)
(* the first block of an empty ring (stub_load.c:509) and its receiver may  *)
(* be anywhere: but for a full queue, and for the end of a region's         *)
(* erasure, which goes back to sleep without a look at the ring             *)
(* (flash_prog.c:314) and which a new image can overtake after an error.    *)
NoLostWakeup ==
  [][LeftLying' => \/ LeftLying
                   \/ fpc \in {"region_wait", "region_done"}
                   \/ Len(queue) = PROCESS_CONF_NUMEVENTS]_vars

(* When FLASH_END has been answered with success, and no flash operation    *)
(* has failed, the flash holds the image, every unit in its place, whatever *)
(* was repeated and however the blocks and the events were interleaved.     *)
ImageFlashed ==
  \A i \in 0 .. host.size - 1 : flash[host.offset + i] = Unit(host.gen, i)
AckedImageIsFlashed == host.phase = "done" /\ ~failed => ImageFlashed

(* Only blank flash is programmed: erase_size never runs ahead of what is   *)
(* erased, and is never taken for an area of an earlier image.              *)
ProgramOnlyErased == ~failed => \A a \in Addr : flash[a] # Garbage

(* No erasure and no program touches a sector the host did not name.        *)
SectorOf(a) == a \div SPIROM_SECTOR_SIZE
EraseConfined ==
  [][\A a \in Addr : flash'[a] # flash[a] =>
       SectorOf(a) \in SectorOf(host.offset) .. SectorOf(host.offset + host.size - 1)]_vars

(* The event queue is never full, so that none of the events of which the   *)
(* processes wait is dropped: no caller looks at the result of process_post. *)
QueueNeverFull == Len(queue) < PROCESS_CONF_NUMEVENTS

(* After a flash operation has failed, the host has been told or will be:   *)
(* the error is in CONTINUE, in PROG_ERR or in the flag of                  *)
(* uart_boot_process on its way to the next reply.                          *)
ErrorOnItsWay ==
  failed =>
    \/ host.phase = "stopped" \/ error
    \/ Queued("uart", "PROG_ERR")
    \/ \E i \in 1 .. Len(queue) : queue[i].p = "flash" /\ queue[i].data = -1
    \/ current = "uart" /\ ev.ev = "PROG_ERR"
    \/ current = "flash" /\ ev.data = -1

(* An error is reported only if a flash operation failed, or a packet was   *)
(* repeated.                                                                *)
OnlyRealErrors == host.phase = "stopped" => failed \/ host.resends > 0

(* When ESP_ERASE_REGION has been answered with success, the region is      *)
(* blank, in whatever sizes it was erased.                                  *)
RegionIsErased ==
  host.phase = "erased" /\ ~failed =>
    \A i \in 0 .. host.size - 1 : flash[host.offset + i] = Blank

(* Every command is answered, also when the flash fails or times out.       *)
EveryCommandAnswered == waiting ~> ~waiting

-----------------------------------------------------------------------------
(* What the comments say of the code, and the code does not do.             *)

(* A packet received again "is fine" (stub_load.c:422), and is answered so. *)
RepeatIsFine ==
  upc = "reply" /\ cmd.op = "DATA" /\ mem.mode /\ cmd.seq = mem.seq => res = "OK"

(* "erase whole flash" (stub_load.c:560): when it has been answered with    *)
(* success, the flash is blank.                                             *)
ChipIsErased == host.phase = "chip_erased" => \A a \in Addr : flash[a] = Blank

(* A failed program sets the "error flag" of the reply to FLASH_END         *)
(* (uart_boot.c:303): an image acknowledged is in the flash.                *)
EndTellsError == host.phase = "done" => ImageFlashed
=============================================================================
