------------------------------- MODULE SdHost -------------------------------
(***************************************************************************)
(* The SD host driver: lib_sdc_read and lib_sdc_write (drv_sdc.c) down to  *)
(* the registers (ftsdc021.c), with the SDMA that scan_cards chooses, for  *)
(* a card that has been found; and the interrupt handler, which tells them *)
(* what is over through the words cmplMask and ErrorSts of the card.       *)
(*                                                                         *)
(* The controller and the card are external.  The controller always says   *)
(* that a command has no answer before the driver's 100 ms are over, so    *)
(* that CMD_INHIBIT is never found set.  For data neither is first: the    *)
(* driver's time-out is the controller's 2^27 clocks, rounded down         *)
(* to seconds.  A command that the card does not expect has no answer.     *)
(***************************************************************************)
EXTENDS Naturals, Sequences

CONSTANTS
  CardBlocks,       \* sectors of the card
  SdOps,            \* calls: [fn, addr, cnt, bound], see Crosses
  MaxSdOps,         \* bound: calls
  MaxCardFaults     \* bound: errors of the card and the line, and give-ups

ASSUME SdHostAssumption ==
  /\ CardBlocks \in Nat \ {0} /\ MaxSdOps \in Nat
  /\ \A o \in SdOps : /\ o.fn \in {"read", "write"} /\ o.addr \in Nat
                      /\ o.cnt \in Nat \ {0} /\ o.bound \in 0 .. o.cnt

Torn == <<0, 1>>
OldSector == <<0, 0>>
CardSector == 0 .. CardBlocks - 1

VARIABLES
  shOp, shPc,          \* the call under way, and where it is
  shRet,               \* what the last one returned
  cmplMask, ErrorSts,  \* SDHost[].Card: what is waited for, what went wrong
  resp,                \* the card's answer: its state, and whether it has error bits
  cmdReg,              \* the command on the line
  sdma,                \* the data transfer of the controller
  sdIrq,               \* IntrSts and ErrSts
  cardMode, cells,     \* the card: its state, its sectors
  readBuffer,          \* the buffer of the last read
  hung,                \* the handler does not return
  gaveUp,              \* history: a transfer was given up while it was running
  shCalls, cardFaults  \* counted

driver == <<shOp, shPc, shRet, cmplMask, ErrorSts, resp>>
controller == <<cmdReg, sdma, sdIrq>>
cardState == <<cardMode, cells>>
shBounds == <<gaveUp, shCalls, cardFaults>>
sdHostVars == <<driver, controller, cardState, readBuffer, hung, shBounds>>

NoOp == [fn |-> "none", addr |-> 0, cnt |-> 0, bound |-> 0, data |-> <<>>]
NoTransfer == [fn |-> "none"]

(* The block in which the buffer crosses a boundary of sdma_bound_mask; the *)
(* controller stops there and raises the DMA interrupt.  0: none.           *)
Crosses(o) == o.bound # 0

SdHostInit ==
  /\ shOp = NoOp /\ shPc = "idle" /\ shRet = "none" /\ cmplMask = {} /\ ErrorSts = {}
  /\ resp = [state |-> "tran", error |-> FALSE]
  /\ cmdReg = "none" /\ sdma = NoTransfer /\ sdIrq = {}
  /\ cardMode = "tran" /\ cells = [s \in CardSector |-> OldSector]
  /\ readBuffer = <<>> /\ hung = FALSE /\ gaveUp = FALSE /\ shCalls = 0 /\ cardFaults = 0

CardFault == cardFaults < MaxCardFaults /\ cardFaults' = cardFaults + 1

-----------------------------------------------------------------------------
(* The caller; it waits for the answer. *)
Runs == sdIrq = {} /\ ~hung
At(label) == Runs /\ shPc = label

CallSd(o) ==
  /\ At("idle") /\ shCalls < MaxSdOps
  /\ shCalls' = shCalls + 1
  /\ shOp' = [fn |-> o.fn, addr |-> o.addr, cnt |-> o.cnt, bound |-> o.bound,
              data |-> [i \in 1 .. o.cnt |-> <<shCalls + 1, i>>]]
  /\ readBuffer' = IF o.fn = "read" THEN [i \in 1 .. o.cnt |-> Torn] ELSE readBuffer
  /\ shPc' = IF o.addr + o.cnt > CardBlocks THEN "failed" ELSE "blocklen"
  /\ shRet' = "none"
  /\ UNCHANGED <<cmplMask, ErrorSts, resp, controller, cardState, hung, gaveUp, cardFaults>>

ReturnSd ==
  /\ Runs /\ shPc \in {"ok", "failed"}
  /\ shOp' = NoOp /\ shPc' = "idle" /\ shRet' = shPc
  /\ sdma' = IF sdma # NoTransfer THEN [sdma EXCEPT !.late = TRUE] ELSE sdma
  /\ UNCHANGED <<cmplMask, ErrorSts, resp, cmdReg, sdIrq, cardState, readBuffer, hung, shBounds>>

DriverOnly == UNCHANGED <<cardState, readBuffer, hung, shRet, shCalls>>

(* ftsdc021_send_command: a command without data. *)
SendCommand(label, c) ==
  /\ At(label)
  /\ ErrorSts' = {} /\ cmplMask' = cmplMask \cup {"cmd"}
  /\ cmdReg' = c /\ shPc' = c
  /\ DriverOnly /\ UNCHANGED <<shOp, resp, sdma, sdIrq, gaveUp, cardFaults>>

Answered(c) == At(c) /\ (ErrorSts # {} \/ "cmd" \notin cmplMask)
Goes(label) ==
  /\ shPc' = label
  /\ DriverOnly /\ UNCHANGED <<shOp, cmplMask, ErrorSts, resp, controller, gaveUp, cardFaults>>

(* SET_BLOCKLEN, whose result nobody looks at. *)
BlockLenSent ==
  Answered("SET_BLOCKLEN") /\ Goes(IF shOp.fn = "write" THEN "status" ELSE "data")

(* ftsdc021_wait_for_state: until the card can take data, for 5 s. *)
StatusSeen ==
  /\ Answered("SEND_STATUS")
  /\ \/ ErrorSts # {} /\ Goes("failed")
     \/ ErrorSts = {} /\ resp.state # "tran" /\ (Goes("status") \/ Goes("failed"))
     \/ ErrorSts = {} /\ resp.state = "tran" /\ Goes("data")

DatInhibit == sdma # NoTransfer

(* ftsdc021_send_data_command: the registers are written; the command is    *)
(* sent unless the data line is in use.  A transfer that is still running   *)
(* has then got another address and another number of blocks, and one that  *)
(* had stopped at a boundary goes on.                                       *)
SendDataCommand ==
  /\ At("data")
  /\ ErrorSts' = {}
  /\ cmplMask' = {IF Crosses(shOp) THEN "dma" ELSE "trans", "cmd"}
  /\ IF DatInhibit
       THEN /\ shPc' = "failed"
            /\ IF sdma.fn \in {"read", "write"}
                 THEN \E n \in {sdma.n, sdma.at + shOp.cnt} :
                        sdma' = [sdma EXCEPT !.paused = FALSE, !.n = n]
                 ELSE UNCHANGED sdma
            /\ UNCHANGED cmdReg
       ELSE /\ shPc' = "DATA" /\ cmdReg' = "DATA"
            /\ UNCHANGED sdma
  /\ DriverOnly /\ UNCHANGED <<shOp, resp, sdIrq, gaveUp, cardFaults>>

DataSent ==
  /\ Answered("DATA")
  /\ Goes(IF ErrorSts # {} \/ resp.error THEN "failed" ELSE "transfer")

(* ftsdc021_transfer_data: until nothing is waited for, an error, or 2^27   *)
(* clocks.  The recovery from errors is never enabled (ErrRecover).         *)
TransferBroken == At("transfer") /\ cmplMask # {} /\ ErrorSts # {} /\ Goes("failed")

GivesUp ==
  /\ shPc' = "failed" /\ gaveUp' = (gaveUp \/ sdma # NoTransfer)
  /\ DriverOnly /\ UNCHANGED <<shOp, cmplMask, ErrorSts, resp, controller>>

TransferGivenUp ==
  At("transfer") /\ cmplMask # {} /\ ErrorSts = {} /\ CardFault /\ GivesUp

(* Mutation: a boundary is taken for the end. *)
PieceLeftNever == FALSE

PieceLeft == sdma # NoTransfer

TransferGoesOn ==
  /\ At("transfer") /\ cmplMask = {} /\ PieceLeft
  /\ cmplMask' = {"trans"}
  /\ sdma' = [sdma EXCEPT !.paused = FALSE]
  /\ DriverOnly /\ UNCHANGED <<shOp, shPc, ErrorSts, resp, cmdReg, sdIrq, gaveUp, cardFaults>>

TransferDone ==
  /\ At("transfer") /\ cmplMask = {} /\ ~PieceLeft
  /\ Goes(IF ErrorSts # {} THEN "failed" ELSE IF shOp.cnt > 1 THEN "stop" ELSE "ok")

(* Mutation: the end of the card's busy signal is not waited for. *)
StopWaitsCmd == {"cmd"}

StopWaits == {"cmd", "trans"}

(* ftsdc021_send_stop_command: what it waits for takes twice as long at     *)
(* most, and an error does not end it.                                      *)
SendStop ==
  /\ At("stop")
  /\ ErrorSts' = {} /\ cmplMask' = StopWaits
  /\ cmdReg' = "STOP" /\ shPc' = "STOP"
  /\ DriverOnly /\ UNCHANGED <<shOp, resp, sdma, sdIrq, gaveUp, cardFaults>>

StopSent ==
  At("STOP") /\ cmplMask = {} /\ Goes(IF ErrorSts # {} THEN "failed" ELSE "ok")

StopGivenUp ==
  /\ At("STOP") /\ cmplMask # {} /\ cmdReg = "none"
  /\ \/ ErrorSts # {} /\ UNCHANGED cardFaults
     \/ ErrorSts = {} /\ CardFault
  /\ GivesUp

-----------------------------------------------------------------------------
(* ftsdc021_0_IntrHandler.  The end of a transfer that is not waited for is *)
(* not survived.  After an error the line is reset, and what it did is off. *)
Unexpected == "trans" \in sdIrq /\ "trans" \notin cmplMask

IntrHandler ==
  /\ sdIrq # {} /\ ~hung
  /\ sdIrq' = {}
  /\ cmplMask' = cmplMask \ sdIrq
  /\ IF Unexpected
       THEN hung' = TRUE /\ UNCHANGED <<ErrorSts, sdma, cmdReg>>
       ELSE /\ ErrorSts' = IF sdIrq \cap {"err_cmd", "err_dat"} = {} THEN ErrorSts
                           ELSE sdIrq \cap {"err_cmd", "err_dat"}
            /\ sdma' = IF "err_dat" \in sdIrq THEN NoTransfer ELSE sdma
            /\ cmdReg' = IF "err_cmd" \in sdIrq THEN "none" ELSE cmdReg
            /\ UNCHANGED hung
  /\ UNCHANGED <<shOp, shPc, shRet, resp, cardState, readBuffer, shBounds>>

-----------------------------------------------------------------------------
(* The controller and the card. *)
Outside == UNCHANGED <<shOp, shPc, shRet, cmplMask, ErrorSts, hung, gaveUp, shCalls>>

Expected(c) ==
  CASE c = "SEND_STATUS" -> TRUE
    [] c = "STOP" -> cardMode # "tran"
    [] OTHER -> cardMode = "tran"

Transfer(fn, dead) ==
  [fn |-> fn, addr |-> shOp.addr, n |-> shOp.cnt, at |-> 0, bound |-> shOp.bound,
   data |-> shOp.data, multi |-> shOp.cnt > 1, paused |-> FALSE, dead |-> dead, late |-> FALSE]

(* What an expected command does to the card. *)
ModeAfter(c) ==
  CASE c = "DATA" -> IF shOp.fn = "write" THEN "rcv" ELSE "data"
    [] c = "STOP" -> "tran"
    [] OTHER -> cardMode

CardAnswers ==
  /\ cmdReg # "none" /\ "err_cmd" \notin sdIrq /\ Expected(cmdReg)
  /\ sdIrq' = sdIrq \cup {"cmd"}
  /\ cmdReg' = "none"
  /\ \/ /\ resp' = [state |-> cardMode, error |-> FALSE]
        /\ cardMode' = ModeAfter(cmdReg)
        /\ sdma' = CASE cmdReg = "DATA" -> Transfer(shOp.fn, FALSE)
                     [] cmdReg = "STOP" -> Transfer("busy", FALSE)
                     [] OTHER -> sdma
        /\ UNCHANGED cardFaults
     \/ /\ cmdReg = "DATA" /\ CardFault
        /\ resp' = [state |-> cardMode, error |-> TRUE]
        /\ sdma' = Transfer(shOp.fn, TRUE)
        /\ UNCHANGED cardMode
  /\ Outside /\ UNCHANGED <<cells, readBuffer>>

(* No answer, to a command that the card has not taken, or has. *)
NoAnswer ==
  /\ cmdReg # "none" /\ "err_cmd" \notin sdIrq
  /\ sdIrq' = sdIrq \cup {"err_cmd"}
  /\ IF Expected(cmdReg)
       THEN CardFault /\ cardMode' \in {cardMode, ModeAfter(cmdReg)}
       ELSE UNCHANGED <<cardFaults, cardMode>>
  /\ Outside /\ UNCHANGED <<resp, cmdReg, sdma, cells, readBuffer>>

Moving == sdma.fn \in {"read", "write"} /\ ~sdma.paused

StopsAtBound ==
  /\ Moving /\ ~sdma.dead /\ sdma.bound = sdma.at + 1
  /\ sdma' = [sdma EXCEPT !.paused = TRUE, !.bound = 0]
  /\ sdIrq' = sdIrq \cup {"dma"}
  /\ Outside /\ UNCHANGED <<resp, cmdReg, cardState, readBuffer, cardFaults>>

(* Of a transfer that was given up the memory is no longer its own. *)
MovedData == IF sdma.late THEN {Torn} ELSE {sdma.data[sdma.at + 1]}
BlockMoves ==
  /\ Moving /\ ~sdma.dead /\ sdma.bound # sdma.at + 1 /\ sdma.at < sdma.n
  /\ LET s == sdma.addr + sdma.at
     IN  /\ s \in CardSector
         /\ IF sdma.fn = "write"
              THEN /\ \E v \in MovedData : cells' = [cells EXCEPT ![s] = v]
                   /\ UNCHANGED readBuffer
              ELSE /\ readBuffer' = IF sdma.at + 1 \in DOMAIN readBuffer
                                      THEN [readBuffer EXCEPT ![sdma.at + 1] = cells[s]]
                                      ELSE readBuffer
                   /\ UNCHANGED cells
  /\ IF sdma.at + 1 = sdma.n
       THEN /\ sdma' = NoTransfer /\ sdIrq' = sdIrq \cup {"trans"}
            /\ cardMode' = IF sdma.multi THEN cardMode ELSE "tran"
       ELSE /\ sdma' = [sdma EXCEPT !.at = @ + 1]
            /\ UNCHANGED <<sdIrq, cardMode>>
  /\ Outside /\ UNCHANGED <<resp, cmdReg, cardFaults>>

(* A block does not arrive; the card may have written a part of it. *)
CannotGoOn == sdma.dead \/ sdma.addr + sdma.at = CardBlocks
BlockFails ==
  /\ Moving /\ "err_dat" \notin sdIrq
  /\ IF CannotGoOn THEN UNCHANGED cardFaults ELSE CardFault
  /\ sdIrq' = sdIrq \cup {"err_dat"}
  /\ sdma' = [sdma EXCEPT !.paused = TRUE]
  /\ cardMode' = IF sdma.dead \/ sdma.multi THEN cardMode ELSE "tran"
  /\ IF sdma.fn = "write" /\ ~CannotGoOn
       THEN cells' \in {cells, [cells EXCEPT ![sdma.addr + sdma.at] = Torn]}
       ELSE UNCHANGED cells
  /\ Outside /\ UNCHANGED <<resp, cmdReg, readBuffer>>

(* The card is no longer busy after STOP. *)
BusyEnds ==
  /\ sdma.fn = "busy"
  /\ sdma' = NoTransfer /\ sdIrq' = sdIrq \cup {"trans"}
  /\ Outside /\ UNCHANGED <<resp, cmdReg, cardState, readBuffer, cardFaults>>

-----------------------------------------------------------------------------
SdHostNext ==
  \/ \E o \in SdOps : CallSd(o)
  \/ ReturnSd
  \/ SendCommand("blocklen", "SET_BLOCKLEN") \/ BlockLenSent
  \/ SendCommand("status", "SEND_STATUS") \/ StatusSeen
  \/ SendDataCommand \/ DataSent
  \/ TransferBroken \/ TransferGivenUp \/ TransferGoesOn \/ TransferDone
  \/ SendStop \/ StopSent \/ StopGivenUp
  \/ IntrHandler
  \/ CardAnswers \/ NoAnswer \/ StopsAtBound \/ BlockMoves \/ BlockFails \/ BusyEnds

SdHostSpec == SdHostInit /\ [][SdHostNext]_sdHostVars

-----------------------------------------------------------------------------
(* What the caller sees of it. *)
AsSdOp == [fn |-> shOp.fn, addr |-> shOp.addr, cnt |-> shOp.cnt, data |-> shOp.data]
AsSdLate == IF sdma # NoTransfer /\ sdma.late THEN sdma.addr .. CardBlocks - 1 ELSE {}

Store == INSTANCE SdStore
  WITH numOfBlocks <- CardBlocks,
       sectors <- cells, readBuf <- readBuffer, sdOp <- AsSdOp, sdAnswer <- shRet,
       sdLate <- AsSdLate

AsCalled(o, k) ==
  [fn |-> o.fn, addr |-> o.addr, cnt |-> o.cnt, data |-> [i \in 1 .. o.cnt |-> <<k, i>>]]
SdOperations == {AsCalled(o, k) : o \in SdOps, k \in 1 .. MaxSdOps}

(* A call that succeeds has written, or read, every sector, whatever was    *)
(* given up before it and however completions, errors and time-outs met;    *)
(* one that fails has changed nothing outside its range while it ran.       *)
SdStoreImplemented ==
  Store!SdStoreInit /\ [][Store!SdStoreNext(SdOperations)]_<<cells, readBuffer, AsSdOp, shRet, AsSdLate>>

(* The handler, which stops for good at the end of a transfer that nobody   *)
(* waits for (ftsdc021.c:1899), does so only after a transfer was given up  *)
(* while it was running.                                                    *)
HandlerReturns == hung => gaveUp
=============================================================================
