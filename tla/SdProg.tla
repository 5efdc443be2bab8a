------------------------------- MODULE SdProg -------------------------------
(***************************************************************************)
(* Programming an SD card over the serial line: uart_boot_process          *)
(* (uart_boot.c) with the SD commands of the stub (stub_load.c) on one     *)
(* side, sd_prog_process (sd_prog.c) on the other, a block ring between    *)
(* them, and the Contiki event queue under both.                           *)
(*                                                                         *)
(* sd_prog_process programs every block it finds without giving up the     *)
(* processor, and busy-waits for the card: to the other process a block is *)
(* written in one step.  What lib_sdc_write promises is module SdStore; a  *)
(* write that fails may have changed some of the sectors.                  *)
(*                                                                         *)
(* A block has SdBlkSize units, a sector of the card SdSectorSize.  The    *)
(* host is external: it sends one command at a time, repeats a data packet *)
(* when the reply was lost, and may begin again at any time.               *)
(***************************************************************************)
EXTENDS Integers, Sequences

CONSTANTS
  SdBlkNum, SdBlkSize,     \* LOAD_BLK_NUM and LOAD_BLK_SIZE of sd_prog's ring
  SdSectorSize,            \* units in a sector (512 bytes)
  SdSize,                  \* sectors of the card
  SdNumEvents,             \* capacity of the event queue
  SdImages,                \* what the host programs: [offset, size]
  SdPackets,               \* units in a data packet
  MaxSdImages,             \* bound: images begun
  MaxSdFaults,             \* bound: writes and probes that fail
  MaxSdResends             \* bound: replies that are lost

ASSUME SdProgAssumption ==
  /\ SdBlkNum \in Nat \ {0, 1} /\ SdBlkSize \in Nat \ {0}
  /\ SdSectorSize \in Nat \ {0} /\ SdSize \in Nat /\ SdNumEvents \in Nat \ {0}
  /\ SdBlkSize % SdSectorSize = 0
  /\ SdImages \subseteq [offset : Nat, size : Nat] /\ SdPackets \subseteq Nat \ {0}

VARIABLES
  sdQueue, sdCurrent, sdEv,        \* the kernel, and the event delivered
  sdUpc, sdError, sdCmd, sdRes,    \* uart_boot_process and do_cmd
  sdMem,                           \* s_mem_remaining, s_mem_seq, s_mem_cpy
  sd_prog, sdRing, sdBuf,          \* sd_prog, its ring, and the buffers
  card,                            \* the sectors of the card
  sdPacket, sdWaiting, sdHost,     \* the receive buffer and the host
  sdFaults,                        \* injected faults
  sdFailed, sdBefore               \* since BEGIN: a write failed; the card then

sdKernel == <<sdQueue, sdCurrent, sdEv>>
sdLoader == <<sdUpc, sdError, sdCmd, sdRes, sdMem>>
sdPipeline == <<sd_prog, sdRing, sdBuf>>
sdOutside == <<sdPacket, sdWaiting, sdHost>>
sdHistory == <<sdFaults, sdFailed, sdBefore>>
sdVars == <<sdKernel, sdLoader, sdPipeline, card, sdOutside, sdHistory>>

Ring == INSTANCE BlockRing
          WITH LOAD_BLK_NUM <- SdBlkNum, LOAD_BLK_SIZE <- SdBlkSize, ring <- sdRing

NoSdPacket == [op |-> "none"]
OldUnit == <<0, 0>>
SdSector == 0 .. SdSize - 1

SdPost(q, p, e) == IF Len(q) = SdNumEvents THEN q ELSE Append(q, [p |-> p, ev |-> e])

SdInit ==
  /\ sdQueue = <<>> /\ sdCurrent = "none" /\ sdEv = [p |-> "none", ev |-> "INIT"]
  /\ sdUpc = "rx" /\ sdError = FALSE /\ sdCmd = NoSdPacket /\ sdRes = "OK"
  /\ sdMem = [remaining |-> 0, seq |-> -1, cpy |-> <<>>]
  /\ sd_prog = [offset |-> 0, cnt |-> 0] /\ sdRing = Ring!EmptyRing
  /\ sdBuf = [b \in Ring!BufIdx |-> [i \in 0 .. SdBlkSize - 1 |-> OldUnit]]
  /\ card = [s \in SdSector |-> [i \in 0 .. SdSectorSize - 1 |-> OldUnit]]
  /\ sdPacket = NoSdPacket /\ sdWaiting = FALSE
  /\ sdHost = [phase |-> "none", gen |-> 0, offset |-> 0, size |-> 0, sent |-> 0,
               seq |-> 0, last |-> NoSdPacket, resends |-> 0]
  /\ sdFaults = 0 /\ sdFailed = FALSE /\ sdBefore = card

-----------------------------------------------------------------------------
(* process_run and the serial interrupt, as in module FlashProg; neither of *)
(* the two processes asks for polls.                                        *)
SdServeEvent ==
  /\ sdCurrent = "none" /\ sdQueue # <<>>
  /\ sdEv' = Head(sdQueue)
  /\ sdCurrent' = Head(sdQueue).p
  /\ sdQueue' = Tail(sdQueue)
  /\ UNCHANGED <<sdLoader, sdPipeline, card, sdOutside, sdHistory>>

SdYield == sdCurrent' = "none" /\ UNCHANGED sdEv
SdRun == UNCHANGED <<sdCurrent, sdEv>>

SdRxInterrupt ==
  /\ sdPacket # NoSdPacket /\ Len(sdQueue) < SdNumEvents \div 2
  /\ sdQueue' = SdPost(sdQueue, "uart", "UART_RXD")
  /\ UNCHANGED <<sdCurrent, sdEv, sdLoader, sdPipeline, card, sdOutside, sdHistory>>

-----------------------------------------------------------------------------
(* uart_boot_process. *)
SdUart(label) == sdCurrent = "uart" /\ sdUpc = label
SdUartUnchanged == UNCHANGED <<card, sdWaiting, sdHost>>

SdErrorSeen == sdError \/ sdEv.ev = "PROG_ERR"

SdRxOther ==
  /\ SdUart("rx") /\ (sdEv.ev # "UART_RXD" \/ sdPacket = NoSdPacket)
  /\ sdError' = SdErrorSeen
  /\ SdYield /\ SdUartUnchanged
  /\ UNCHANGED <<sdQueue, sdUpc, sdCmd, sdRes, sdMem, sdPipeline, sdPacket, sdHistory>>

SdReceive(op) ==
  /\ SdUart("rx") /\ sdEv.ev = "UART_RXD" /\ sdPacket.op = op
  /\ sdCmd' = sdPacket
  /\ sdPacket' = NoSdPacket
  /\ SdRun /\ SdUartUnchanged
  /\ UNCHANGED <<sdQueue, sdError>>

NewCardImage(p) == [offset |-> p.offset, cnt |-> 0]

(* handle_sd_begin: the card is looked for; then a new image, and an empty  *)
(* ring whatever is in it.                                                  *)
SdBegin ==
  /\ SdReceive("BEGIN")
  /\ \/ /\ sdRes' = "OK"
        /\ sdMem' = [remaining |-> sdPacket.size, seq |-> -1, cpy |-> sdMem.cpy]
        /\ sd_prog' = NewCardImage(sdPacket)
        /\ sdRing' = Ring!EmptyRing
        /\ sdFailed' = FALSE /\ sdBefore' = card
        /\ UNCHANGED sdFaults
     \/ /\ sdFaults < MaxSdFaults
        /\ sdRes' = "SD_PROBE"
        /\ sdFaults' = sdFaults + 1
        /\ UNCHANGED <<sdMem, sd_prog, sdRing, sdFailed, sdBefore>>
  /\ sdUpc' = "reply"
  /\ UNCHANGED sdBuf

(* handle_sd_data: what is said of the packet.  There is no flag that an    *)
(* image was begun.                                                         *)
SdDataResult(p) ==
  IF Len(p.units) > sdMem.remaining THEN "TOO_MUCH_DATA"
  ELSE IF p.seq \in {sdMem.seq, sdMem.seq + 1} THEN "OK" ELSE "BAD_DATA_SEQ"

SdData ==
  /\ SdReceive("DATA")
  /\ sdRes' = SdDataResult(sdPacket)
  /\ IF sdRes' # "OK"
       THEN sdUpc' = "reply" /\ UNCHANGED sdMem
       ELSE /\ sdUpc' = "copy"
            /\ IF sdPacket.seq = sdMem.seq
                 THEN UNCHANGED sdMem
                 ELSE sdMem' = [sdMem EXCEPT !.seq = sdPacket.seq, !.cpy = sdPacket.units]
  /\ UNCHANGED <<sdPipeline, sdHistory>>

(* sd_mem_cpy: one turn of the copy loop of SD_DATA.  sd_prog_process is    *)
(* woken by a block that is ready, if the ring was empty.                   *)
SdCopyLen ==
  IF Len(sdMem.cpy) > Ring!Room(sdRing) THEN Ring!Room(sdRing) ELSE Len(sdMem.cpy)
SdBlockReady == sdMem.remaining = SdCopyLen \/ SdCopyLen = Ring!Room(sdRing)

SdCopyBlock ==
  /\ SdUart("copy") /\ sdMem.cpy # <<>> /\ Ring!HasFreeBuf(sdRing)
  /\ LET b  == sdRing.ctrl[sdRing.tail].buf_idx
         at == sdRing.ctrl[sdRing.tail].size
     IN  sdBuf' = [sdBuf EXCEPT ![b] = [i \in DOMAIN @ |->
                     IF i \in at .. at + SdCopyLen - 1 THEN sdMem.cpy[i - at + 1] ELSE @[i]]]
  /\ sdMem' = [sdMem EXCEPT !.remaining = @ - SdCopyLen,
                            !.cpy = SubSeq(@, SdCopyLen + 1, Len(@))]
  /\ sdRing' = Ring!Filled(sdRing, SdCopyLen, sdMem.remaining = SdCopyLen)
  /\ sdQueue' = IF SdBlockReady /\ ~Ring!InProcess(sdRing)
                  THEN SdPost(sdQueue, "sd", "BUF_RDY") ELSE sdQueue
  /\ SdRun /\ SdUartUnchanged
  /\ UNCHANGED <<sdUpc, sdError, sdCmd, sdRes, sd_prog, sdPacket, sdHistory>>

SdCopyTest ==
  /\ SdUart("copy") /\ (sdMem.cpy = <<>> \/ ~Ring!HasFreeBuf(sdRing))
  /\ IF sdMem.cpy # <<>> THEN sdUpc' = "copy_wait" /\ SdYield ELSE sdUpc' = "reply" /\ SdRun
  /\ SdUartUnchanged
  /\ UNCHANGED <<sdQueue, sdError, sdCmd, sdRes, sdMem, sdPipeline, sdPacket, sdHistory>>

(* handle_sd_finish; then wait until the ring is empty. *)
SdEnd ==
  /\ SdReceive("END")
  /\ sdRes' = IF sdMem.remaining > 0 THEN "NOT_ENOUGH_DATA" ELSE "OK"
  /\ sdMem' = [sdMem EXCEPT !.remaining = 1]
  /\ sdUpc' = IF sdRes' = "OK" THEN "end" ELSE "reply"
  /\ UNCHANGED <<sdPipeline, sdHistory>>

SdEndWaits == Ring!InProcess(sdRing)

SdEndTest ==
  /\ SdUart("end")
  /\ IF SdEndWaits THEN sdUpc' = "end_wait" /\ SdYield ELSE sdUpc' = "reply" /\ SdRun
  /\ SdUartUnchanged
  /\ UNCHANGED <<sdQueue, sdError, sdCmd, sdRes, sdMem, sdPipeline, sdPacket, sdHistory>>

(* Any event ends the wait of either loop. *)
SdLoopAgain(wait, label) ==
  /\ SdUart(wait)
  /\ sdError' = SdErrorSeen
  /\ sdUpc' = label
  /\ SdRun /\ SdUartUnchanged
  /\ UNCHANGED <<sdQueue, sdCmd, sdRes, sdMem, sdPipeline, sdPacket, sdHistory>>

-----------------------------------------------------------------------------
(* The host on a reply: it goes on, or stops at an error. *)
SdAccepted ==
  [sdHost EXCEPT
    !.phase = IF sdCmd.op = "END" THEN "done" ELSE "data",
    !.sent  = IF sdCmd.op = "DATA" THEN @ + Len(sdCmd.units) ELSE @,
    !.seq   = IF sdCmd.op = "DATA" THEN @ + 1 ELSE @]

(* An error of the programming replaces what do_cmd had to say. *)
SdReply ==
  /\ SdUart("reply")
  /\ LET ok == sdRes = "OK" /\ ~sdError
     IN  \/ sdHost' = IF ok THEN SdAccepted ELSE [sdHost EXCEPT !.phase = "stopped"]
         \/ /\ ok /\ sdCmd.op = "DATA" /\ sdHost.resends < MaxSdResends
            /\ sdHost' = [sdHost EXCEPT !.phase = "resend", !.resends = @ + 1, !.last = sdCmd]
  /\ sdWaiting' = FALSE
  /\ sdError' = FALSE /\ sdUpc' = "rx" /\ sdCmd' = NoSdPacket
  /\ SdYield
  /\ UNCHANGED <<sdQueue, sdRes, sdMem, sdPipeline, card, sdPacket, sdHistory>>

SdSend(c) ==
  /\ ~sdWaiting
  /\ sdWaiting' = TRUE
  /\ sdPacket' = c
  /\ UNCHANGED <<sdKernel, sdLoader, sdPipeline, card, sdHistory>>

SdSendBegin(r) ==
  /\ sdHost.gen < MaxSdImages
  /\ SdSend([op |-> "BEGIN", offset |-> r.offset, size |-> r.size])
  /\ sdHost' = [sdHost EXCEPT !.phase = "begin", !.gen = @ + 1, !.last = NoSdPacket,
                              !.offset = r.offset, !.size = r.size, !.sent = 0, !.seq = 0]

SdSendData(len) ==
  /\ sdHost.phase = "data" /\ len <= sdHost.size - sdHost.sent
  /\ SdSend([op |-> "DATA", seq |-> sdHost.seq,
             units |-> [i \in 1 .. len |-> <<sdHost.gen, sdHost.sent + i - 1>>]])
  /\ UNCHANGED sdHost

SdSendAgain ==
  /\ sdHost.phase = "resend"
  /\ SdSend(sdHost.last)
  /\ sdHost' = [sdHost EXCEPT !.phase = "data", !.last = NoSdPacket]

SdSendEnd ==
  /\ sdHost.phase = "data" /\ sdHost.sent = sdHost.size
  /\ SdSend([op |-> "END"])
  /\ UNCHANGED sdHost

-----------------------------------------------------------------------------
(* Mutation: a sector that is not full is not written. *)
SectorsDown(size) == size \div SdSectorSize

Sectors(size) == (size + SdSectorSize - 1) \div SdSectorSize

(* lib_sdc_write of n sectors at addr from buffer b, and what it returns:   *)
(* they are written; or some of them, and the last of those is damaged; or  *)
(* the card ends before them.                                               *)
CardWritten(addr, n, b) ==
  [s \in SdSector |->
     IF s \in addr .. addr + n - 1
       THEN [i \in 0 .. SdSectorSize - 1 |-> sdBuf[b][((s - addr) * SdSectorSize) + i]]
       ELSE card[s]]

LibSdcWrite(addr, n, b, ret) ==
  \/ /\ ret = "NO_ERROR"
     /\ addr + n <= SdSize
     /\ card' = CardWritten(addr, n, b)
     /\ UNCHANGED <<sdFaults, sdFailed>>
  \/ /\ ret = "CARD_ERROR"
     /\ addr + n <= SdSize /\ sdFaults < MaxSdFaults
     /\ \E k \in 0 .. n - 1 :
          card' = [CardWritten(addr, k, b) EXCEPT ![addr + k] = [i \in DOMAIN @ |-> OldUnit]]
     /\ sdFaults' = sdFaults + 1 /\ sdFailed' = TRUE
  \/ /\ ret = "DATA_LENGTH_TOO_LONG"
     /\ addr + n > SdSize
     /\ sdFailed' = TRUE
     /\ UNCHANGED <<card, sdFaults>>

(* lib_sdc_write_sector: the result is computed, and not returned. *)
LibSdcWriteSector(ret) == "NO_ERROR"

(* sd_prog_process: one block after another. *)
SdProgram ==
  /\ sdCurrent = "sd" /\ Ring!InProcess(sdRing)
  /\ LET slot == sdRing.ctrl[sdRing.head]
         n    == Sectors(slot.size)
     IN  \E ret \in {"NO_ERROR", "CARD_ERROR", "DATA_LENGTH_TOO_LONG"} :
           /\ LibSdcWrite(sd_prog.offset + sd_prog.cnt, n, slot.buf_idx, ret)
           /\ IF LibSdcWriteSector(ret) = "NO_ERROR"
                THEN /\ sd_prog' = [sd_prog EXCEPT !.cnt = @ + n]
                     /\ sdQueue' = SdPost(sdQueue, "uart", "BUF_FREE")
                ELSE /\ sdQueue' = SdPost(sdQueue, "uart", "PROG_ERR")
                     /\ UNCHANGED sd_prog
  /\ sdRing' = Ring!SetBufFree(sdRing)
  /\ SdRun
  /\ UNCHANGED <<sdLoader, sdBuf, sdOutside, sdBefore>>

SdDrained ==
  /\ sdCurrent = "sd" /\ ~Ring!InProcess(sdRing)
  /\ SdYield
  /\ UNCHANGED <<sdQueue, sdLoader, sdPipeline, card, sdOutside, sdHistory>>

-----------------------------------------------------------------------------
SdNext ==
  \/ SdServeEvent \/ SdRxInterrupt
  \/ SdRxOther \/ SdBegin \/ SdData \/ SdCopyBlock \/ SdCopyTest
  \/ SdLoopAgain("copy_wait", "copy") \/ SdEnd \/ SdEndTest \/ SdLoopAgain("end_wait", "end")
  \/ SdReply
  \/ \E r \in SdImages : SdSendBegin(r)
  \/ \E len \in SdPackets : SdSendData(len)
  \/ SdSendAgain \/ SdSendEnd
  \/ SdProgram \/ SdDrained

SdSpec == SdInit /\ [][SdNext]_sdVars

-----------------------------------------------------------------------------
(* An image whose END was answered without an error is on the card, unit by *)
(* unit, if no write failed; and no other sector has changed since it was   *)
(* begun, neither by its last sector nor by a block of an image that was    *)
(* given up and whose event was still in the queue.                         *)
SdAckedIsWritten ==
  sdHost.phase = "done" /\ ~sdFailed =>
    /\ \A i \in 0 .. sdHost.size - 1 :
         card[sdHost.offset + (i \div SdSectorSize)][i % SdSectorSize] = <<sdHost.gen, i>>
    /\ \A s \in SdSector \ (sdHost.offset .. sdHost.offset + Sectors(sdHost.size) - 1) :
         card[s] = sdBefore[s]

(* The host is told of an error if a write failed.  The branch of           *)
(* sd_prog_process that logs "sd write failed" and posts PROG_ERR, and the  *)
(* loader's error flag, say so; lib_sdc_write_sector (drv_sdc.c) returns no *)
(* error whatever lib_sdc_write said.                                       *)
WriteErrorTold == sdHost.phase = "done" => ~sdFailed
=============================================================================
