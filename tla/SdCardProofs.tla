---------------------------- MODULE SdCardProofs ----------------------------
(***************************************************************************)
(* What is proved of the SD card, from the serial line down to the sectors. *)
(*                                                                         *)
(* The first part is about the SD host driver, module SdHost, for every    *)
(* card, every set of calls and every number of errors and give-ups: the   *)
(* inductive invariant SdHostInv, with one lemma for each step of the      *)
(* driver, its interrupt handler, the controller and the card; that the    *)
(* handler hangs only after a give-up; and that the driver implements      *)
(* module SdStore.                                                         *)
(*                                                                         *)
(* The second is about the programming of a card, module SdProg, for every *)
(* image, packet, block, sector and queue size and every number of lost    *)
(* answers, repeated packets and failing writes: SdProgInv, with one lemma *)
(* for each step of the loader, the host and sd_prog_process, says where   *)
(* every unit the host was told was taken is, between the buffers and the  *)
(* card; what is acknowledged is on the card follows.  What it needs of    *)
(* the ring is in BlockRingProofs.                                         *)
(***************************************************************************)
EXTENDS SdHost, SdProg, TLAPS

Datum == Nat \X Nat
SdOpSet == [fn : {"read", "write"}, addr : Nat, cnt : Nat \ {0}, bound : Nat, data : Seq(Datum)]
SdTransfer ==
  [fn : {"read", "write", "busy"}, addr : Nat, n : Nat \ {0}, at : Nat, bound : Nat,
   data : Seq(Datum), multi : BOOLEAN, paused : BOOLEAN, dead : BOOLEAN, late : BOOLEAN]
Commands == {"SET_BLOCKLEN", "SEND_STATUS", "DATA", "STOP"}
Events == {"cmd", "trans", "dma", "err_cmd", "err_dat"}
SdLabel == {"idle", "blocklen", "status", "data", "transfer", "stop", "ok", "failed"} \cup Commands
Mode == {"tran", "rcv", "data"}
Sending == {"DATA", "transfer", "STOP"}

(* The values the variables take.                                           *)
SdTypeOK ==
  /\ shPc \in SdLabel /\ cmplMask \subseteq Events /\ ErrorSts \subseteq {"err_cmd", "err_dat"}
  /\ shRet \in {"none", "ok", "failed"}
  /\ resp \in [state : Mode, error : BOOLEAN]
  /\ cmdReg \in Commands \cup {"none"} /\ sdIrq \subseteq Events /\ cardMode \in Mode
  /\ sdma = NoTransfer \/ sdma \in SdTransfer
  /\ cells \in [CardSector -> Datum]
  /\ shCalls \in Nat /\ cardFaults \in Nat /\ hung \in BOOLEAN /\ gaveUp \in BOOLEAN

(* A call is under way between "blocklen" and its return; it fits the card  *)
(* but for one that has failed.                                             *)
CallOK ==
  /\ shPc = "idle" => shOp = NoOp
  /\ shPc # "idle" =>
       /\ shOp \in SdOpSet /\ Len(shOp.data) = shOp.cnt /\ shOp.bound <= shOp.cnt
       /\ shOp.fn = "read" => readBuffer \in [1 .. shOp.cnt -> Datum]
  /\ shPc \notin {"idle", "failed"} => shOp.addr + shOp.cnt <= CardBlocks

(* The transfer is that of the call under way.                              *)
Mine ==
  /\ sdma.fn \in {shOp.fn, "busy"} /\ sdma.addr = shOp.addr /\ sdma.n = shOp.cnt
  /\ sdma.data = shOp.data /\ sdma.addr + sdma.n <= CardBlocks

(* A transfer that was left when a call returned is late; the call that     *)
(* sends DATA or STOP finds none running, and has its own.                  *)
TransferOK ==
  sdma # NoTransfer =>
    /\ sdma.at < sdma.n /\ sdma.addr + sdma.at <= CardBlocks
    /\ shPc \in Sending => ~sdma.late
    /\ shPc \notin Sending \cup {"failed"} => sdma.late
    /\ ~sdma.late => shPc # "idle" /\ Mine

(* A command on the line is waited for; DATA and STOP are sent while no     *)
(* other transfer is running, and nobody goes on before they are answered.  *)
CommandOK ==
  /\ cmdReg # "none" => "cmd" \in cmplMask /\ "cmd" \notin sdIrq
  /\ "err_cmd" \in sdIrq => cmdReg # "none"
  /\ cmdReg \in {"DATA", "STOP"} =>
       shPc = cmdReg /\ ErrorSts = {} /\ sdma = NoTransfer /\ sdIrq \subseteq {"err_cmd"}
  /\ shPc \in {"DATA", "STOP"} => cmdReg \in {"none", shPc}
  /\ shPc \in {"transfer", "stop", "ok"} => cmdReg = "none"

(* Block i is on the card, or in the buffer.                                *)
Done(i) ==
  cells[shOp.addr + i - 1] = IF shOp.fn = "write" THEN shOp.data[i] ELSE readBuffer[i]
AllDone == \A i \in 1 .. shOp.cnt : Done(i)

(* While the call waits for its data: the blocks before the one that moves  *)
(* are done, and all of them if no transfer is left and no error is noted.  *)
MovingOK ==
  shPc \in {"DATA", "transfer"} /\ cmdReg = "none" =>
    /\ sdma # NoTransfer =>
         /\ sdma.fn = shOp.fn
         /\ ErrorSts = {}
         /\ sdma.dead \/ ~resp.error \/ shPc = "transfer"
         /\ \A i \in 1 .. sdma.at : Done(i)
    /\ sdma = NoTransfer /\ ErrorSts = {} => AllDone

(* Success is near only when everything is done, and the end of the card's  *)
(* busy signal is still waited for while there is one to come.              *)
StoppingOK ==
  /\ shPc \in {"stop", "STOP", "ok"} => AllDone
  /\ shPc \in {"stop", "ok"} => sdma = NoTransfer /\ sdIrq = {}
  /\ shPc = "STOP" =>
       /\ sdma # NoTransfer => sdma.fn = "busy"
       /\ sdma # NoTransfer \/ cmdReg # "none" => "trans" \in cmplMask /\ "trans" \notin sdIrq

(* The end of the call's own transfer is waited for when it comes, and      *)
(* before it the boundary in the buffer.                                    *)
AwaitedOK ==
  /\ shPc \in Sending /\ "trans" \in sdIrq => "trans" \in cmplMask
  /\ cmdReg = "DATA" /\ shOp.bound = 0 => "trans" \in cmplMask
  /\ shPc \in {"DATA", "transfer"} /\ sdma # NoTransfer =>
       /\ "trans" \notin sdIrq
       /\ sdma.bound # 0 => sdma.at < sdma.bound /\ sdma.bound <= sdma.n
       /\ ~sdma.paused /\ sdma.bound = 0 => "trans" \in cmplMask

(* The handler hangs, and a transfer that can still end is left behind,     *)
(* only after a give-up.                                                    *)
NeverLeftRunning ==
  /\ hung => gaveUp /\ shPc \notin Sending
  /\ ~gaveUp /\ shPc \notin Sending =>
       /\ "trans" \notin sdIrq
       /\ sdma # NoTransfer => sdma.dead /\ sdma.fn # "busy"

(* The inductive invariant.                                                 *)
SdHostInv ==
  /\ SdTypeOK /\ CallOK /\ TransferOK /\ CommandOK
  /\ MovingOK /\ StoppingOK /\ AwaitedOK /\ NeverLeftRunning

-----------------------------------------------------------------------------
(* A call that begins has the form of one, and its buffer is its own size.  *)
LEMMA CallSdTypes ==
  ASSUME SdHostInv, NEW o \in SdOps, CallSd(o)
  PROVE  SdTypeOK' /\ CallOK'
<1>1. /\ o.fn \in {"read", "write"} /\ o.addr \in Nat /\ o.cnt \in Nat \ {0}
      /\ o.bound \in Nat /\ o.bound <= o.cnt
  BY SdHostAssumption
<1>2. SdTypeOK'
  BY DEF SdHostInv, SdTypeOK, CallSd, SdLabel, controller, cardState
<1>3. shCalls + 1 \in Nat
  BY DEF SdHostInv, SdTypeOK
<1> DEFINE d == [i \in 1 .. o.cnt |-> <<shCalls + 1, i>>]
<1>4. d \in Seq(Datum) /\ Len(d) = o.cnt
  BY <1>1, <1>3 DEF Datum
<1>5. shOp' = [fn |-> o.fn, addr |-> o.addr, cnt |-> o.cnt, bound |-> o.bound, data |-> d]
  BY DEF CallSd
<1> HIDE DEF d
<1>6. shOp' \in SdOpSet /\ Len(shOp'.data) = shOp'.cnt /\ shOp'.bound <= shOp'.cnt
  BY <1>1, <1>4, <1>5 DEF SdOpSet
<1>7. shOp'.fn = "read" => readBuffer' \in [1 .. shOp'.cnt -> Datum]
  BY <1>5 DEF CallSd, Torn, Datum
<1>8. shPc' # "idle" /\ (shPc' # "failed" => shOp'.addr + shOp'.cnt <= CardBlocks)
  BY <1>1, <1>5, SdHostAssumption DEF CallSd
<1>9. QED
  BY <1>2, <1>6, <1>7, <1>8 DEF CallOK

(* What wait_for_state decides is only where the call goes on.              *)
LEMMA StatusSeenTypes ==
  ASSUME SdHostInv, StatusSeen
  PROVE  SdTypeOK'
<1>1. PICK label \in {"failed", "status", "data"} : Goes(label)
  BY DEF StatusSeen
<1>2. QED
  BY <1>1 DEF SdHostInv, SdTypeOK, Goes, DriverOnly, SdLabel, controller, cardState

(* A transfer that is found running at the next one is one that was left.   *)
LEMMA SendDataTransfer ==
  ASSUME SdHostInv, SendDataCommand
  PROVE  /\ SdTypeOK' /\ TransferOK' /\ NeverLeftRunning'
         /\ sdma # NoTransfer => sdma' # NoTransfer /\ sdma'.late = sdma.late /\ sdma'.addr = sdma.addr
<1>1. shOp \in SdOpSet /\ shOp.cnt \in Nat \ {0}
  BY DEF SdHostInv, CallOK, SendDataCommand, At, SdOpSet
<1>2. CASE DatInhibit
  <2>1. /\ sdma \in SdTransfer /\ sdma # NoTransfer
        /\ sdma.at < sdma.n /\ sdma.addr + sdma.at <= CardBlocks /\ sdma.late
        /\ ~gaveUp => sdma.dead /\ sdma.fn # "busy"
    BY <1>2 DEF SdHostInv, SdTypeOK, TransferOK, NeverLeftRunning, DatInhibit,
       SendDataCommand, At, Sending
  <2>2. \/ UNCHANGED sdma
        \/ \E n \in {sdma.n, sdma.at + shOp.cnt} : sdma' = [sdma EXCEPT !.paused = FALSE, !.n = n]
    BY <1>2 DEF SendDataCommand
  <2>3. /\ sdma' \in SdTransfer /\ sdma'.at < sdma'.n
        /\ sdma'.addr = sdma.addr /\ sdma'.at = sdma.at /\ sdma'.late = sdma.late
        /\ sdma'.dead = sdma.dead /\ sdma'.fn = sdma.fn
    <3>1. CASE UNCHANGED sdma
      BY <2>1, <3>1
    <3>2. ASSUME NEW n \in Nat \ {0}, sdma.at < n,
                 sdma' = [sdma EXCEPT !.paused = FALSE, !.n = n]
          PROVE  /\ sdma' \in SdTransfer /\ sdma'.at < sdma'.n
                 /\ sdma'.addr = sdma.addr /\ sdma'.at = sdma.at /\ sdma'.late = sdma.late
                 /\ sdma'.dead = sdma.dead /\ sdma'.fn = sdma.fn
      BY <2>1, <3>2 DEF SdTransfer
    <3>3. sdma.n \in Nat \ {0} /\ sdma.at + shOp.cnt \in Nat \ {0} /\ sdma.at < sdma.at + shOp.cnt
      BY <1>1, <2>1 DEF SdTransfer
    <3>4. CASE \E n \in {sdma.n, sdma.at + shOp.cnt} :
                 sdma' = [sdma EXCEPT !.paused = FALSE, !.n = n]
      <4>1. PICK n \in {sdma.n, sdma.at + shOp.cnt} :
              sdma' = [sdma EXCEPT !.paused = FALSE, !.n = n]
        BY <3>4
      <4>2. n \in Nat \ {0} /\ sdma.at < n
        BY <2>1, <3>3
      <4>3. QED
        BY <3>2, <4>1, <4>2
    <3>5. QED
      BY <2>2, <3>1, <3>4
  <2>4. sdma' # NoTransfer
    BY <2>3 DEF SdTransfer, NoTransfer
  <2>5. shPc' = "failed" /\ UNCHANGED <<hung, gaveUp, sdIrq>> /\ sdIrq = {}
    BY <1>2 DEF SendDataCommand, DriverOnly, At, Runs
  <2>6. SdTypeOK'
    BY <2>3, <2>5, <1>2 DEF SdHostInv, SdTypeOK, SendDataCommand, DriverOnly, cardState,
       SdLabel, Commands, Events
  <2>7. TransferOK'
    BY <2>1, <2>3, <2>4, <2>5 DEF TransferOK, Sending
  <2>8. NeverLeftRunning'
    BY <2>1, <2>3, <2>5 DEF SdHostInv, NeverLeftRunning, Sending
  <2>9. QED
    BY <2>3, <2>4, <2>6, <2>7, <2>8
<1>3. CASE ~DatInhibit
  <2>1. /\ shPc' = "DATA" /\ cmdReg' = "DATA" /\ sdma = NoTransfer /\ sdma' = NoTransfer
        /\ sdIrq' = {} /\ UNCHANGED <<hung, gaveUp>> /\ ~hung
    BY <1>3 DEF SendDataCommand, DatInhibit, DriverOnly, At, Runs
  <2>2. QED
    BY <1>3, <2>1 DEF SdHostInv, SdTypeOK, SendDataCommand, DriverOnly, cardState,
       SdLabel, Commands, Events, TransferOK, NeverLeftRunning, Sending
<1>4. QED
  BY <1>2, <1>3

(* The handler: what an error does to the line is noted in ErrorSts, so     *)
(* that the call under way does not take it for the end.                    *)
LEMMA IntrTransfer ==
  ASSUME SdHostInv, IntrHandler
  PROVE  SdTypeOK' /\ CommandOK' /\ MovingOK'
<1>1. sdIrq' = {} /\ cmplMask' = cmplMask \ sdIrq /\ UNCHANGED <<shOp, shPc, resp, cells, readBuffer>>
  BY DEF IntrHandler, cardState
<1>2. sdma' \in {sdma, NoTransfer} /\ cmdReg' \in {cmdReg, "none"}
  BY DEF IntrHandler
<1>3. ErrorSts' \in {ErrorSts, sdIrq \cap {"err_cmd", "err_dat"}}
  BY DEF IntrHandler
<1>4. SdTypeOK'
  BY <1>1, <1>2, <1>3 DEF SdHostInv, SdTypeOK, IntrHandler, cardState, shBounds, Events
<1>5. CASE Unexpected
  <2>1. shPc \notin {"DATA", "transfer", "STOP"}
    BY <1>5 DEF SdHostInv, AwaitedOK, Unexpected, Sending
  <2>2. UNCHANGED <<ErrorSts, sdma, cmdReg>>
    BY <1>5 DEF IntrHandler
  <2>3. CommandOK' /\ MovingOK'
    BY <1>1, <2>1, <2>2 DEF SdHostInv, CommandOK, MovingOK
  <2>4. QED
    BY <1>4, <2>3
<1>6. CASE ~Unexpected
  <2>1. /\ ErrorSts' = IF sdIrq \cap {"err_cmd", "err_dat"} = {} THEN ErrorSts
                       ELSE sdIrq \cap {"err_cmd", "err_dat"}
        /\ sdma' = IF "err_dat" \in sdIrq THEN NoTransfer ELSE sdma
        /\ cmdReg' = IF "err_cmd" \in sdIrq THEN "none" ELSE cmdReg
    BY <1>6 DEF IntrHandler
  <2>2. CommandOK'
    <3>1. CASE cmdReg' = "none"
      BY <1>1, <3>1 DEF CommandOK
    <3>2. CASE cmdReg' # "none"
      <4>1. cmdReg' = cmdReg /\ "err_cmd" \notin sdIrq
        BY <2>1, <3>2
      <4>2. cmdReg \in {"DATA", "STOP"} => sdIrq = {}
        BY <4>1 DEF SdHostInv, CommandOK
      <4>3. QED
        BY <1>1, <2>1, <4>1, <4>2 DEF SdHostInv, CommandOK
    <3>3. QED
      BY <3>1, <3>2
  <2>3. MovingOK'
    <3>1. SUFFICES ASSUME shPc \in {"DATA", "transfer"}, cmdReg' = "none" PROVE MovingOK'
      BY <1>1 DEF MovingOK
    <3>2. CASE "err_cmd" \in sdIrq
      <4>1. sdma = NoTransfer /\ ErrorSts' # {}
        BY <2>1, <3>1, <3>2 DEF SdHostInv, CommandOK
      <4>2. QED
        BY <1>2, <4>1 DEF MovingOK
    <3>3. CASE "err_cmd" \notin sdIrq
      <4>1. cmdReg = "none"
        BY <2>1, <3>1, <3>3
      <4>2. CASE "err_dat" \in sdIrq
        <5>1. sdma' = NoTransfer /\ ErrorSts' # {}
          BY <2>1, <4>2
        <5>2. QED
          BY <5>1 DEF MovingOK
      <4>3. CASE "err_dat" \notin sdIrq
        <5>1. UNCHANGED <<sdma, ErrorSts>>
          BY <2>1, <3>3, <4>3
        <5>2. QED
          BY <1>1, <3>1, <4>1, <5>1 DEF SdHostInv, MovingOK, AllDone, Done
      <4>4. QED
        BY <4>2, <4>3
    <3>4. QED
      BY <3>2, <3>3
  <2>4. QED
    BY <1>4, <2>2, <2>3
<1>7. QED
  BY <1>5, <1>6

(* A transfer begins with the call's own addresses and data.                *)
LEMMA BegunTransfer ==
  ASSUME SdHostInv, shPc # "idle", NEW fn \in {"read", "write", "busy"}, NEW dead \in BOOLEAN
  PROVE  /\ Transfer(fn, dead) \in SdTransfer /\ Transfer(fn, dead) # NoTransfer
         /\ Transfer(fn, dead).fn = fn /\ Transfer(fn, dead).dead = dead
         /\ Transfer(fn, dead).addr = shOp.addr /\ Transfer(fn, dead).n = shOp.cnt
         /\ Transfer(fn, dead).at = 0 /\ Transfer(fn, dead).bound = shOp.bound
         /\ Transfer(fn, dead).data = shOp.data /\ ~Transfer(fn, dead).late
         /\ ~Transfer(fn, dead).paused
<1>1. shOp \in SdOpSet
  BY DEF SdHostInv, CallOK
<1>2. /\ shOp.addr \in Nat /\ shOp.cnt \in Nat \ {0} /\ shOp.bound \in Nat
      /\ shOp.data \in Seq(Datum) /\ shOp.fn \in {"read", "write"}
  BY <1>1 DEF SdOpSet
<1>3. Transfer(fn, dead) \in SdTransfer
  BY <1>2 DEF Transfer, SdTransfer
<1>4. Transfer(fn, dead) # NoTransfer
  BY DEF Transfer, NoTransfer
<1>5. QED
  BY <1>3, <1>4 DEF Transfer

(* The answer to DATA or STOP begins a transfer that is the call's own, and *)
(* whose end is waited for.                                                 *)
LEMMA AnswerTransfer ==
  ASSUME SdHostInv, CardAnswers
  PROVE  SdTypeOK' /\ TransferOK' /\ MovingOK' /\ AwaitedOK'
<1>1. /\ cmdReg' = "none" /\ sdIrq' = sdIrq \cup {"cmd"} /\ cmdReg # "none"
      /\ UNCHANGED <<shOp, shPc, shRet, cmplMask, ErrorSts, hung, gaveUp, shCalls, cells, readBuffer>>
  BY DEF CardAnswers, Outside
<1>2. /\ resp' \in [state : Mode, error : BOOLEAN] /\ cardMode' \in Mode /\ cardFaults' \in Nat
  <2>1. cardMode \in Mode /\ ModeAfter(cmdReg) \in Mode /\ cardFaults \in Nat
    BY DEF SdHostInv, SdTypeOK, ModeAfter, Mode
  <2>2. cardMode' \in {cardMode, ModeAfter(cmdReg)} /\ cardFaults' \in {cardFaults, cardFaults + 1}
    BY DEF CardAnswers, CardFault
  <2>3. resp' = [state |-> cardMode, error |-> FALSE] \/ resp' = [state |-> cardMode, error |-> TRUE]
    BY DEF CardAnswers
  <2>4. [state |-> cardMode, error |-> FALSE] \in [state : Mode, error : BOOLEAN]
        /\ [state |-> cardMode, error |-> TRUE] \in [state : Mode, error : BOOLEAN]
    BY <2>1
  <2>5. cardMode' \in Mode /\ cardFaults' \in Nat
    BY <2>1, <2>2
  <2>6. QED
    BY <2>3, <2>4, <2>5
<1>3. CASE cmdReg \notin {"DATA", "STOP"}
  <2>1. sdma' = sdma /\ shPc \notin {"DATA", "transfer", "STOP"}
    BY <1>1, <1>3 DEF SdHostInv, CommandOK, CardAnswers
  <2>2. SdTypeOK'
    BY <1>1, <1>2, <2>1 DEF SdHostInv, SdTypeOK, Commands, Events
  <2>3. TransferOK' /\ MovingOK' /\ AwaitedOK'
    BY <1>1, <2>1 DEF SdHostInv, TransferOK, Mine, MovingOK, AwaitedOK, Sending
  <2>4. QED
    BY <2>2, <2>3
<1>4. CASE cmdReg \in {"DATA", "STOP"}
  <2>1. shPc = cmdReg /\ ErrorSts = {} /\ sdma = NoTransfer /\ "trans" \notin sdIrq /\ shPc # "idle"
    BY <1>4 DEF SdHostInv, CommandOK
  <2>2. PICK dead \in BOOLEAN, fn \in {"read", "write", "busy"} :
          /\ sdma' = Transfer(fn, dead)
          /\ fn = IF cmdReg = "DATA" THEN shOp.fn ELSE "busy"
          /\ dead \/ ~resp'.error
    <3>1. shOp.fn \in {"read", "write"}
      BY <2>1 DEF SdHostInv, CallOK, SdOpSet
    <3>2. CASE /\ resp' = [state |-> cardMode, error |-> FALSE]
               /\ sdma' = CASE cmdReg = "DATA" -> Transfer(shOp.fn, FALSE)
                            [] cmdReg = "STOP" -> Transfer("busy", FALSE)
                            [] OTHER -> sdma
      <4>1. ~resp'.error
        BY <3>2
      <4>2. CASE cmdReg = "DATA"
        BY <3>1, <3>2, <4>1, <4>2
      <4>3. CASE cmdReg = "STOP"
        BY <3>2, <4>1, <4>3
      <4>4. QED
        BY <1>4, <4>2, <4>3
    <3>3. CASE cmdReg = "DATA" /\ sdma' = Transfer(shOp.fn, TRUE)
      BY <3>1, <3>3
    <3>4. QED
      BY <3>2, <3>3 DEF CardAnswers
  <2>3. /\ sdma' \in SdTransfer /\ sdma' # NoTransfer /\ sdma'.fn = fn /\ sdma'.dead = dead
        /\ sdma'.addr = shOp.addr /\ sdma'.n = shOp.cnt /\ sdma'.at = 0 /\ sdma'.data = shOp.data
        /\ sdma'.bound = shOp.bound /\ ~sdma'.late /\ ~sdma'.paused
    BY <2>1, <2>2, BegunTransfer, Zenon
  <2>4. /\ shOp.addr \in Nat /\ shOp.cnt \in Nat \ {0} /\ shOp.addr + shOp.cnt <= CardBlocks
        /\ shOp.bound \in Nat /\ shOp.bound <= shOp.cnt /\ CardBlocks \in Nat
    BY <1>4, <2>1, SdHostAssumption DEF SdHostInv, CallOK, SdOpSet
  <2>5. SdTypeOK'
    BY <1>1, <1>2, <2>3 DEF SdHostInv, SdTypeOK, Commands, Events
  <2>6. TransferOK'
    BY <1>1, <1>4, <2>1, <2>2, <2>3, <2>4 DEF TransferOK, Mine, Sending
  <2>7. MovingOK'
    BY <1>1, <1>4, <2>1, <2>2, <2>3 DEF MovingOK
  <2>8. AwaitedOK'
    <3>1. "trans" \notin sdIrq'
      BY <1>1, <2>1
    <3>2. cmdReg = "DATA" /\ shOp.bound = 0 => "trans" \in cmplMask
      BY DEF SdHostInv, AwaitedOK
    <3>3. QED
      BY <1>1, <1>4, <2>1, <2>3, <2>4, <3>1, <3>2 DEF AwaitedOK
  <2>9. QED
    BY <2>5, <2>6, <2>7, <2>8
<1>5. QED
  BY <1>3, <1>4

(* A transfer that stops at a boundary is still one.                        *)
LEMMA StopsTypes ==
  ASSUME SdHostInv, StopsAtBound
  PROVE  SdTypeOK'
<1>1. sdma \in SdTransfer
  BY DEF SdHostInv, SdTypeOK, StopsAtBound, Moving, NoTransfer
<1>2. sdma' \in SdTransfer
  BY <1>1 DEF StopsAtBound, SdTransfer
<1>3. QED
  BY <1>2 DEF SdHostInv, SdTypeOK, StopsAtBound, Outside, cardState, Events

(* A block of the call's own transfer is done when it has moved; the last   *)
(* one leaves nothing to do.                                                *)
LEMMA BlockMovesTransfer ==
  ASSUME SdHostInv, BlockMoves
  PROVE  SdTypeOK' /\ CallOK' /\ TransferOK' /\ MovingOK' /\ StoppingOK' /\ AwaitedOK'
<1>1. /\ sdma \in SdTransfer /\ sdma # NoTransfer /\ sdma.fn \in {"read", "write"}
      /\ ~sdma.paused /\ ~sdma.dead /\ sdma.bound # sdma.at + 1
      /\ sdma.at < sdma.n /\ sdma.addr + sdma.at \in CardSector
  BY DEF SdHostInv, SdTypeOK, TransferOK, BlockMoves, Moving, NoTransfer
<1>2. sdma.at \in Nat /\ sdma.addr \in Nat /\ sdma.n \in Nat /\ sdma.bound \in Nat
  BY <1>1 DEF SdTransfer
<1>3. /\ UNCHANGED <<shOp, shPc, shRet, cmplMask, ErrorSts, hung, gaveUp, shCalls, resp,
                     cmdReg, cardFaults>>
  BY DEF BlockMoves, Outside
<1>4. cells' \in [CardSector -> Datum] /\ (sdma.fn = "read" => UNCHANGED cells)
  <2>1. CASE sdma.fn = "write"
    <3>1. MovedData \subseteq Datum
      <4>1. CASE sdma.late
        BY <4>1 DEF MovedData, Torn, Datum
      <4>2. CASE ~sdma.late
        <5>1. sdma.data = shOp.data /\ sdma.n = shOp.cnt /\ Len(shOp.data) = shOp.cnt
          BY <1>1, <4>2 DEF SdHostInv, TransferOK, Mine, CallOK
        <5>2. sdma.data \in Seq(Datum) /\ sdma.at + 1 \in 1 .. Len(sdma.data)
          BY <1>1, <1>2, <5>1 DEF SdTransfer
        <5>3. QED
          BY <4>2, <5>2 DEF MovedData
      <4>3. QED
        BY <4>1, <4>2
    <3>2. PICK v \in MovedData : cells' = [cells EXCEPT ![sdma.addr + sdma.at] = v]
      BY <2>1 DEF BlockMoves
    <3>3. QED
      BY <2>1, <3>1, <3>2 DEF SdHostInv, SdTypeOK
  <2>2. CASE sdma.fn # "write"
    BY <2>2 DEF SdHostInv, SdTypeOK, BlockMoves
  <2>3. QED
    BY <2>1, <2>2
<1>5. /\ sdma.fn = "write" => UNCHANGED readBuffer
      /\ \A n \in Nat : readBuffer \in [1 .. n -> Datum] => readBuffer' \in [1 .. n -> Datum]
  <2>1. cells[sdma.addr + sdma.at] \in Datum
    BY <1>1 DEF SdHostInv, SdTypeOK
  <2>2. QED
    BY <2>1 DEF BlockMoves
<1>6. CallOK'
  <2>1. shPc # "idle" => shOp.cnt \in Nat
    BY DEF SdHostInv, CallOK, SdOpSet
  <2>2. QED
    BY <1>3, <1>5, <2>1 DEF SdHostInv, CallOK
<1>7. shPc \in Sending => /\ shPc # "STOP" /\ ~sdma.late /\ Mine /\ cmdReg = "none"
                           /\ sdma.fn = shOp.fn /\ ErrorSts = {} /\ \A i \in 1 .. sdma.at : Done(i)
  <2>1. shPc \in Sending => shPc # "STOP" /\ cmdReg = "none"
    BY <1>1 DEF SdHostInv, StoppingOK, CommandOK, Sending
  <2>2. QED
    BY <1>1, <2>1 DEF SdHostInv, TransferOK, MovingOK, Sending
<1>8. shPc \in Sending => \A i \in 1 .. sdma.at + 1 : Done(i)'
  <2>1. SUFFICES ASSUME shPc \in Sending, NEW i \in 1 .. sdma.at + 1 PROVE Done(i)'
    OBVIOUS
  <2>2. /\ sdma.addr = shOp.addr /\ sdma.n = shOp.cnt /\ sdma.data = shOp.data /\ ~sdma.late
        /\ sdma.fn = shOp.fn /\ \A k \in 1 .. sdma.at : Done(k)
    BY <1>7, <2>1 DEF Mine
  <2>3. i \in 1 .. sdma.at \/ i = sdma.at + 1
    BY <1>2
  <2>4. CASE shOp.fn = "write"
    <3>1. cells' = [cells EXCEPT ![shOp.addr + sdma.at] = shOp.data[sdma.at + 1]] /\ UNCHANGED readBuffer
      BY <2>2, <2>4 DEF BlockMoves, MovedData
    <3>2. cells \in [CardSector -> Datum] /\ shOp.addr + sdma.at \in CardSector
      BY <1>1, <2>2 DEF SdHostInv, SdTypeOK
    <3>3. CASE i = sdma.at + 1
      <4>1. shOp.addr + i - 1 = shOp.addr + sdma.at
        BY <1>2, <2>2, <3>3
      <4>2. QED
        BY <1>3, <2>4, <3>1, <3>2, <3>3, <4>1 DEF Done
    <3>4. CASE i \in 1 .. sdma.at
      <4>1. shOp.addr + i - 1 # shOp.addr + sdma.at
        BY <1>2, <2>2, <3>4
      <4>2. cells'[shOp.addr + i - 1] = cells[shOp.addr + i - 1]
        BY <3>1, <3>2, <4>1
      <4>3. QED
        BY <1>3, <2>2, <2>4, <3>1, <3>4, <4>2 DEF Done
    <3>5. QED
      BY <2>3, <3>3, <3>4
  <2>5. CASE shOp.fn = "read"
    <3>1. readBuffer \in [1 .. shOp.cnt -> Datum] /\ sdma.at + 1 \in 1 .. shOp.cnt
      BY <1>1, <1>2, <2>1, <2>2, <2>5 DEF SdHostInv, CallOK, Sending
    <3>2. readBuffer' = [readBuffer EXCEPT ![sdma.at + 1] = cells[shOp.addr + sdma.at]] /\ UNCHANGED cells
      BY <2>2, <2>5, <3>1 DEF BlockMoves
    <3>3. CASE i = sdma.at + 1
      <4>1. shOp.addr + i - 1 = shOp.addr + sdma.at
        BY <1>2, <2>2, <3>3
      <4>2. QED
        BY <1>3, <2>5, <3>1, <3>2, <3>3, <4>1 DEF Done
    <3>4. CASE i \in 1 .. sdma.at
      <4>1. readBuffer'[i] = readBuffer[i]
        BY <1>2, <3>1, <3>2, <3>4
      <4>2. QED
        BY <1>3, <2>2, <2>5, <3>2, <3>4, <4>1 DEF Done
    <3>5. QED
      BY <2>3, <3>3, <3>4
  <2>6. QED
    BY <1>1, <2>2, <2>4, <2>5
<1>9. StoppingOK'
  BY <1>1, <1>3 DEF SdHostInv, StoppingOK
<1>10. CASE sdma.at + 1 = sdma.n
  <2>1. sdma' = NoTransfer /\ sdIrq' = sdIrq \cup {"trans"} /\ cardMode' \in {cardMode, "tran"}
    BY <1>10 DEF BlockMoves
  <2>2. SdTypeOK'
    BY <1>3, <1>4, <2>1 DEF SdHostInv, SdTypeOK, Events, Mode
  <2>3. TransferOK'
    BY <2>1 DEF TransferOK
  <2>4. shPc \in Sending => AllDone'
    BY <1>3, <1>7, <1>8, <1>10 DEF AllDone, Mine
  <2>5. MovingOK'
    BY <1>3, <2>1, <2>4 DEF MovingOK, Sending
  <2>6. shPc \in Sending => "trans" \in cmplMask
    <3>1. SUFFICES ASSUME shPc \in {"DATA", "transfer"} PROVE "trans" \in cmplMask
      BY <1>7 DEF Sending
    <3>2. sdma.bound = 0
      BY <1>1, <1>2, <1>10, <3>1 DEF SdHostInv, AwaitedOK
    <3>3. QED
      BY <1>1, <3>1, <3>2 DEF SdHostInv, AwaitedOK
  <2>7. AwaitedOK'
    BY <1>3, <2>1, <2>6 DEF SdHostInv, AwaitedOK
  <2>8. QED
    BY <1>6, <1>9, <2>2, <2>3, <2>5, <2>7
<1>11. CASE sdma.at + 1 # sdma.n
  <2>1. sdma' = [sdma EXCEPT !.at = sdma.at + 1] /\ UNCHANGED <<sdIrq, cardMode>>
    BY <1>11 DEF BlockMoves
  <2>2. /\ sdma' \in SdTransfer /\ sdma' # NoTransfer /\ sdma'.at = sdma.at + 1
        /\ sdma'.addr = sdma.addr /\ sdma'.n = sdma.n /\ sdma'.bound = sdma.bound
        /\ sdma'.late = sdma.late /\ sdma'.fn = sdma.fn /\ sdma'.data = sdma.data
        /\ sdma'.dead = sdma.dead /\ sdma'.paused = sdma.paused
    BY <1>1, <1>2, <2>1 DEF SdTransfer, NoTransfer
  <2>3. sdma'.at < sdma'.n /\ sdma'.addr + sdma'.at <= CardBlocks
    BY <1>1, <1>2, <1>11, <2>2, SdHostAssumption DEF CardSector
  <2>4. SdTypeOK'
    BY <1>3, <1>4, <2>1, <2>2 DEF SdHostInv, SdTypeOK
  <2>5. TransferOK'
    BY <1>1, <1>3, <2>2, <2>3 DEF SdHostInv, TransferOK, Mine
  <2>6. MovingOK'
    BY <1>1, <1>3, <1>7, <1>8, <2>2 DEF SdHostInv, MovingOK, Sending
  <2>7. AwaitedOK'
    BY <1>1, <1>2, <1>3, <2>1, <2>2 DEF SdHostInv, AwaitedOK
  <2>8. QED
    BY <1>6, <1>9, <2>4, <2>5, <2>6, <2>7
<1>12. QED
  BY <1>10, <1>11

(* A block that fails spoils none that was done before it.                  *)
LEMMA BlockFailsTransfer ==
  ASSUME SdHostInv, BlockFails
  PROVE  SdTypeOK' /\ MovingOK' /\ StoppingOK'
<1>1. sdma \in SdTransfer /\ sdma # NoTransfer /\ sdma.fn \in {"read", "write"}
  BY DEF SdHostInv, SdTypeOK, BlockFails, Moving, NoTransfer
<1>2. UNCHANGED <<shOp, shPc, shRet, cmplMask, ErrorSts, hung, gaveUp, shCalls, resp, cmdReg, readBuffer>>
  BY DEF BlockFails, Outside
<1>3. /\ sdma' \in SdTransfer /\ sdma' # NoTransfer /\ sdma'.at = sdma.at
      /\ sdma'.fn = sdma.fn /\ sdma'.dead = sdma.dead
  BY <1>1 DEF BlockFails, SdTransfer, NoTransfer
<1>4. cells' \in [CardSector -> Datum]
  BY DEF SdHostInv, SdTypeOK, BlockFails, Torn, Datum
<1>5. /\ sdIrq' = sdIrq \cup {"err_dat"} /\ cardMode' \in {cardMode, "tran"}
      /\ cardFaults' \in {cardFaults, cardFaults + 1}
  BY DEF BlockFails, CardFault
<1>6. SdTypeOK'
  BY <1>2, <1>3, <1>4, <1>5 DEF SdHostInv, SdTypeOK, Events, Mode
<1>7. StoppingOK'
  BY <1>1, <1>2 DEF SdHostInv, StoppingOK
<1>8. MovingOK'
  <2>1. SUFFICES ASSUME shPc \in {"DATA", "transfer"}, cmdReg = "none" PROVE MovingOK'
    BY <1>2 DEF MovingOK
  <2>2. /\ sdma.fn = shOp.fn /\ ErrorSts = {} /\ (sdma.dead \/ ~resp.error \/ shPc = "transfer")
        /\ ~sdma.late /\ Mine /\ \A i \in 1 .. sdma.at : Done(i)
    BY <1>1, <2>1 DEF SdHostInv, MovingOK, TransferOK, Sending
  <2>3. ASSUME NEW i \in 1 .. sdma.at PROVE Done(i)'
    <3>1. cells' = cells \/ cells' = [cells EXCEPT ![sdma.addr + sdma.at] = Torn]
      BY DEF BlockFails
    <3>2. sdma.addr = shOp.addr /\ sdma.at \in Nat /\ shOp.addr \in Nat
      BY <1>1, <2>2 DEF Mine, SdTransfer
    <3>3. cells'[shOp.addr + i - 1] = cells[shOp.addr + i - 1]
      <4>1. shOp.addr + i - 1 # sdma.addr + sdma.at
        BY <2>3, <3>2
      <4>2. cells \in [CardSector -> Datum] /\ sdma.addr + sdma.at <= CardBlocks
        BY <1>1 DEF SdHostInv, SdTypeOK, TransferOK
      <4>3. shOp.addr + i - 1 \in CardSector
        BY <2>3, <3>2, <4>2, SdHostAssumption DEF CardSector
      <4>4. QED
        BY <3>1, <4>1, <4>2, <4>3
    <3>4. QED
      BY <1>2, <2>2, <2>3, <3>3 DEF Done
  <2>4. QED
    BY <1>2, <1>3, <2>2, <2>3 DEF MovingOK
<1>9. QED
  BY <1>6, <1>7, <1>8

(* Only after STOP does the card end to be busy, and its end is waited for. *)
LEMMA BusyEndsAwaited ==
  ASSUME SdHostInv, BusyEnds
  PROVE  AwaitedOK'
<1>1. /\ sdma.fn = "busy" /\ sdma' = NoTransfer /\ sdIrq' = sdIrq \cup {"trans"}
      /\ UNCHANGED <<shPc, cmdReg, cmplMask, shOp>>
  BY DEF BusyEnds, Outside
<1>2. sdma # NoTransfer
  BY <1>1 DEF NoTransfer
<1>3. shPc \notin {"DATA", "transfer"}
  <2>1. SUFFICES ASSUME shPc \in {"DATA", "transfer"} PROVE FALSE
    OBVIOUS
  <2>2. cmdReg = "none"
    BY <1>2, <2>1 DEF SdHostInv, CommandOK
  <2>3. sdma.fn = shOp.fn /\ shOp.fn \in {"read", "write"}
    BY <1>2, <2>1, <2>2 DEF SdHostInv, MovingOK, CallOK, SdOpSet
  <2>4. QED
    BY <1>1, <2>3
<1>4. shPc = "STOP" => "trans" \in cmplMask
  BY <1>2 DEF SdHostInv, StoppingOK
<1>5. QED
  BY <1>1, <1>3, <1>4 DEF SdHostInv, AwaitedOK, Sending

(* Without a give-up only a transfer that cannot end is left behind.        *)
LEMMA LeavesSafely ==
  ASSUME SdHostInv, DataSent \/ TransferBroken
  PROVE  NeverLeftRunning'
<1>1. /\ shPc \in {"DATA", "transfer"} /\ sdIrq = {} /\ ~hung
      /\ UNCHANGED <<sdIrq, sdma, hung, gaveUp>> /\ shPc' \in {"failed", "transfer"}
      /\ shPc' = "failed" => ErrorSts # {} \/ (shPc = "DATA" /\ resp.error)
      /\ ErrorSts # {} \/ "cmd" \notin cmplMask
  BY DEF DataSent, TransferBroken, Answered, At, Runs, Goes, DriverOnly, controller
<1>2. cmdReg = "none"
  BY <1>1 DEF SdHostInv, CommandOK
<1>3. sdma # NoTransfer => /\ ErrorSts = {} /\ sdma.fn = shOp.fn
                           /\ sdma.dead \/ ~resp.error \/ shPc = "transfer"
  BY <1>1, <1>2 DEF SdHostInv, MovingOK
<1>4. shOp.fn # "busy"
  BY <1>1 DEF SdHostInv, CallOK, SdOpSet
<1>5. QED
  BY <1>1, <1>3, <1>4 DEF NeverLeftRunning, Sending

(* ftsdc021_transfer_data ends without an error only when all is done.      *)
LEMMA DoneStopping ==
  ASSUME SdHostInv, TransferDone
  PROVE  StoppingOK'
<1>1. /\ shPc = "transfer" /\ sdma = NoTransfer /\ sdIrq = {}
      /\ UNCHANGED <<shOp, sdma, sdIrq, cells, readBuffer>>
      /\ shPc' \in {"failed", "stop", "ok"} /\ (shPc' # "failed" => ErrorSts = {})
  BY DEF TransferDone, PieceLeft, At, Runs, Goes, DriverOnly, controller, cardState
<1>2. shPc' # "failed" => AllDone
  BY <1>1 DEF SdHostInv, MovingOK, CommandOK
<1>3. QED
  BY <1>1, <1>2 DEF StoppingOK, AllDone, Done

(* A transfer that goes on after a boundary is still one.                   *)
LEMMA GoesOnTypes ==
  ASSUME SdHostInv, TransferGoesOn
  PROVE  SdTypeOK'
<1>1. sdma \in SdTransfer
  BY DEF SdHostInv, SdTypeOK, TransferGoesOn, PieceLeft
<1>2. sdma' \in SdTransfer
  BY <1>1 DEF TransferGoesOn, SdTransfer
<1>3. QED
  BY <1>2 DEF SdHostInv, SdTypeOK, TransferGoesOn, DriverOnly, cardState, Events

(* A call that begins keeps the invariant.                                  *)
LEMMA CallSdKeeps ==
  ASSUME SdHostInv, NEW o \in SdOps, CallSd(o)
  PROVE  SdHostInv'
<1>1. SdTypeOK' /\ CallOK'
  BY CallSdTypes
<1>2. TransferOK' /\ CommandOK' /\ MovingOK' /\ StoppingOK' /\ NeverLeftRunning'
  BY SdHostAssumption DEF SdHostInv, CommandOK, MovingOK, NeverLeftRunning, StoppingOK,
   TransferOK, AllDone, At, CallSd, Done, Mine, NoTransfer, Runs, Sending, Torn,
   cardState, controller
<1>3. AwaitedOK'
  BY SdHostAssumption DEF SdHostInv, AwaitedOK, CallOK, At, CallSd, Datum, NoOp,
   NoTransfer, Runs, SdOpSet, Sending, Torn, cardState, controller
<1>4. QED
  BY <1>1, <1>2, <1>3 DEF SdHostInv

(* A transfer that a returning call leaves running becomes late.            *)
LEMMA ReturnSdKeeps ==
  ASSUME SdHostInv, ReturnSd
  PROVE  SdHostInv'
<1>1. SdTypeOK' /\ CallOK'
  BY DEF SdHostInv, CallOK, SdTypeOK, CardSector, Commands, Datum, Events, Mode, NoOp,
   NoTransfer, ReturnSd, Runs, SdLabel, SdOpSet, SdTransfer, cardState, shBounds
<1>2. TransferOK' /\ CommandOK' /\ MovingOK' /\ StoppingOK' /\ NeverLeftRunning'
  BY SdHostAssumption DEF SdHostInv, CommandOK, MovingOK, NeverLeftRunning, StoppingOK,
   TransferOK, AllDone, Done, Mine, NoOp, NoTransfer, ReturnSd, Runs, Sending,
   cardState, shBounds
<1>3. AwaitedOK'
  BY SdHostAssumption DEF SdHostInv, AwaitedOK, CommandOK, NoOp, NoTransfer, ReturnSd,
   Runs, Sending, cardState, shBounds
<1>4. QED
  BY <1>1, <1>2, <1>3 DEF SdHostInv

(* ftsdc021_send_command: a command without data leaves the transfer alone. *)
LEMMA SendCommandKeeps ==
  ASSUME SdHostInv, NEW label \in {"blocklen", "status"}, NEW c \in {"SET_BLOCKLEN", "SEND_STATUS"}, SendCommand(label, c)
  PROVE  SdHostInv'
<1>1. SdTypeOK' /\ CallOK'
  BY DEF SdHostInv, CallOK, SdTypeOK, At, CardSector, Commands, Datum, DriverOnly,
   Events, Mode, NoOp, NoTransfer, Runs, SdLabel, SdOpSet, SdTransfer, SendCommand,
   cardState
<1>2. TransferOK' /\ CommandOK' /\ MovingOK' /\ StoppingOK' /\ AwaitedOK' /\ NeverLeftRunning'
  BY SdHostAssumption DEF SdHostInv, AwaitedOK, CommandOK, MovingOK, NeverLeftRunning,
   StoppingOK, TransferOK, AllDone, At, Done, DriverOnly, Mine, NoTransfer, Runs,
   SendCommand, Sending, cardState
<1>3. QED
  BY <1>1, <1>2 DEF SdHostInv

(* After SET_BLOCKLEN the call goes on, whatever became of the command.     *)
LEMMA BlockLenSentKeeps ==
  ASSUME SdHostInv, BlockLenSent
  PROVE  SdHostInv'
<1>1. SdTypeOK' /\ CallOK'
  BY DEF SdHostInv, CallOK, SdTypeOK, Answered, At, BlockLenSent, CardSector, Commands,
   Datum, DriverOnly, Events, Goes, Mode, NoOp, NoTransfer, Runs, SdLabel, SdOpSet,
   SdTransfer, cardState, controller
<1>2. TransferOK' /\ CommandOK' /\ MovingOK' /\ StoppingOK' /\ AwaitedOK' /\ NeverLeftRunning'
  BY SdHostAssumption DEF SdHostInv, AwaitedOK, CommandOK, MovingOK, NeverLeftRunning,
   StoppingOK, TransferOK, AllDone, Answered, At, BlockLenSent, Done, DriverOnly, Goes,
   Mine, NoTransfer, Runs, Sending, cardState, controller
<1>3. QED
  BY <1>1, <1>2 DEF SdHostInv

(* ftsdc021_wait_for_state only moves the call on.                          *)
LEMMA StatusSeenKeeps ==
  ASSUME SdHostInv, StatusSeen
  PROVE  SdHostInv'
<1>1. SdTypeOK'
  BY StatusSeenTypes
<1>2. CallOK'
  BY DEF SdHostInv, CallOK, Answered, At, Datum, DriverOnly, Goes, NoOp, Runs, SdOpSet,
   StatusSeen, cardState, controller
<1>3. TransferOK' /\ CommandOK' /\ MovingOK' /\ StoppingOK' /\ AwaitedOK' /\ NeverLeftRunning'
  BY SdHostAssumption DEF SdHostInv, AwaitedOK, CommandOK, MovingOK, NeverLeftRunning,
   StoppingOK, TransferOK, AllDone, Answered, At, Done, DriverOnly, Goes, Mine,
   NoTransfer, Runs, Sending, StatusSeen, cardState, controller
<1>4. QED
  BY <1>1, <1>2, <1>3 DEF SdHostInv

(* ftsdc021_send_data_command, which may reprogram a transfer that is late. *)
LEMMA SendDataCommandKeeps ==
  ASSUME SdHostInv, SendDataCommand
  PROVE  SdHostInv'
<1>1. SdTypeOK' /\ TransferOK' /\ NeverLeftRunning'
  BY SendDataTransfer
<1>2. CallOK'
  BY DEF SdHostInv, CallOK, At, Crosses, DatInhibit, Datum, DriverOnly, NoOp,
   NoTransfer, Runs, SdOpSet, SendDataCommand, cardState
<1>3. CommandOK' /\ MovingOK' /\ StoppingOK' /\ AwaitedOK'
  BY DEF SdHostInv, AwaitedOK, CommandOK, MovingOK, StoppingOK, AllDone, At, Crosses,
   DatInhibit, Done, DriverOnly, NoTransfer, Runs, SendDataCommand, Sending, cardState
<1>4. QED
  BY <1>1, <1>2, <1>3 DEF SdHostInv

(* After the answer to DATA: an answer with error bits leaves a dead        *)
(* transfer.                                                                *)
LEMMA DataSentKeeps ==
  ASSUME SdHostInv, DataSent
  PROVE  SdHostInv'
<1>1. NeverLeftRunning'
  BY LeavesSafely
<1>2. SdTypeOK' /\ CallOK'
  BY DEF SdHostInv, CallOK, SdTypeOK, Answered, At, CardSector, Commands, DataSent,
   Datum, DriverOnly, Events, Goes, Mode, NoOp, NoTransfer, Runs, SdLabel, SdOpSet,
   SdTransfer, cardState, controller
<1>3. TransferOK' /\ CommandOK' /\ MovingOK' /\ StoppingOK' /\ AwaitedOK'
  BY SdHostAssumption DEF SdHostInv, AwaitedOK, CommandOK, MovingOK, StoppingOK,
   TransferOK, AllDone, Answered, At, DataSent, Done, DriverOnly, Goes, Mine,
   NoTransfer, Runs, Sending, cardState, controller
<1>4. QED
  BY <1>1, <1>2, <1>3 DEF SdHostInv

(* After an error the handler has reset the data line: no transfer is left. *)
LEMMA TransferBrokenKeeps ==
  ASSUME SdHostInv, TransferBroken
  PROVE  SdHostInv'
<1>1. NeverLeftRunning'
  BY LeavesSafely
<1>2. SdTypeOK' /\ CallOK'
  BY DEF SdHostInv, CallOK, SdTypeOK, At, CardSector, Commands, Datum, DriverOnly,
   Events, Goes, Mode, NoOp, NoTransfer, Runs, SdLabel, SdOpSet, SdTransfer,
   TransferBroken, cardState, controller
<1>3. TransferOK' /\ CommandOK' /\ MovingOK' /\ StoppingOK' /\ AwaitedOK'
  BY SdHostAssumption DEF SdHostInv, AwaitedOK, CommandOK, MovingOK, StoppingOK,
   TransferOK, AllDone, At, Done, DriverOnly, Goes, Mine, NoTransfer, Runs, Sending,
   TransferBroken, cardState, controller
<1>4. QED
  BY <1>1, <1>2, <1>3 DEF SdHostInv

(* A time-out may leave a transfer running, and is remembered.              *)
LEMMA TransferGivenUpKeeps ==
  ASSUME SdHostInv, TransferGivenUp
  PROVE  SdHostInv'
<1>1. SdTypeOK' /\ CallOK'
  BY DEF SdHostInv, CallOK, SdTypeOK, At, CardFault, CardSector, Commands, Datum,
   DriverOnly, Events, GivesUp, Mode, NoOp, NoTransfer, Runs, SdLabel, SdOpSet,
   SdTransfer, TransferGivenUp, cardState, controller
<1>2. TransferOK' /\ CommandOK' /\ MovingOK' /\ StoppingOK' /\ AwaitedOK' /\ NeverLeftRunning'
  BY SdHostAssumption DEF SdHostInv, AwaitedOK, CommandOK, MovingOK, NeverLeftRunning,
   StoppingOK, TransferOK, AllDone, At, CardFault, Done, DriverOnly, GivesUp, Mine,
   NoTransfer, Runs, Sending, TransferGivenUp, cardState, controller
<1>3. QED
  BY <1>1, <1>2 DEF SdHostInv

(* After the boundary the end of the transfer is waited for.                *)
LEMMA TransferGoesOnKeeps ==
  ASSUME SdHostInv, TransferGoesOn
  PROVE  SdHostInv'
<1>1. SdTypeOK'
  BY GoesOnTypes
<1>2. CallOK'
  BY DEF SdHostInv, CallOK, At, Datum, DriverOnly, NoOp, NoTransfer, PieceLeft, Runs,
   SdOpSet, TransferGoesOn, cardState
<1>3. TransferOK' /\ CommandOK' /\ StoppingOK' /\ AwaitedOK' /\ NeverLeftRunning'
  BY SdHostAssumption DEF SdHostInv, AwaitedOK, CommandOK, NeverLeftRunning, StoppingOK,
   TransferOK, AllDone, At, Done, DriverOnly, Mine, NoTransfer, PieceLeft, Runs,
   Sending, TransferGoesOn, cardState
<1>4. MovingOK'
  BY SdHostAssumption DEF SdHostInv, MovingOK, SdTypeOK, AllDone, At, CardSector,
   Commands, Datum, Done, DriverOnly, Events, Mode, NoTransfer, PieceLeft, Runs,
   SdLabel, SdTransfer, TransferGoesOn, cardState
<1>5. QED
  BY <1>1, <1>2, <1>3, <1>4 DEF SdHostInv

(* ftsdc021_transfer_data is over.                                          *)
LEMMA TransferDoneKeeps ==
  ASSUME SdHostInv, TransferDone
  PROVE  SdHostInv'
<1>1. StoppingOK'
  BY DoneStopping
<1>2. SdTypeOK' /\ CallOK'
  BY DEF SdHostInv, CallOK, SdTypeOK, At, CardSector, Commands, Datum, DriverOnly,
   Events, Goes, Mode, NoOp, NoTransfer, PieceLeft, Runs, SdLabel, SdOpSet, SdTransfer,
   TransferDone, cardState, controller
<1>3. TransferOK' /\ CommandOK' /\ MovingOK' /\ AwaitedOK' /\ NeverLeftRunning'
  BY SdHostAssumption DEF SdHostInv, AwaitedOK, CommandOK, MovingOK, NeverLeftRunning,
   TransferOK, AllDone, At, Done, DriverOnly, Goes, Mine, NoTransfer, PieceLeft, Runs,
   Sending, TransferDone, cardState, controller
<1>4. QED
  BY <1>1, <1>2, <1>3 DEF SdHostInv

(* STOP is sent while nothing else is running.                              *)
LEMMA SendStopKeeps ==
  ASSUME SdHostInv, SendStop
  PROVE  SdHostInv'
<1>1. SdTypeOK' /\ CallOK'
  BY DEF SdHostInv, CallOK, SdTypeOK, At, CardSector, Commands, Datum, DriverOnly,
   Events, Mode, NoOp, NoTransfer, Runs, SdLabel, SdOpSet, SdTransfer, SendStop,
   StopWaits, cardState
<1>2. MovingOK' /\ StoppingOK' /\ AwaitedOK' /\ NeverLeftRunning'
  BY DEF SdHostInv, AwaitedOK, MovingOK, NeverLeftRunning, StoppingOK, AllDone, At,
   Done, DriverOnly, NoTransfer, Runs, SendStop, Sending, StopWaits, cardState
<1>3. TransferOK'
  BY SdHostAssumption DEF SdHostInv, StoppingOK, TransferOK, AllDone, At, Done,
   DriverOnly, Mine, NoTransfer, Runs, SendStop, Sending, StopWaits, cardState
<1>4. CommandOK'
  BY SdHostAssumption DEF SdHostInv, CommandOK, StoppingOK, AllDone, At, Done,
   DriverOnly, NoTransfer, Runs, SendStop, StopWaits, cardState
<1>5. QED
  BY <1>1, <1>2, <1>3, <1>4 DEF SdHostInv

(* The card is no longer busy when STOP is over.                            *)
LEMMA StopSentKeeps ==
  ASSUME SdHostInv, StopSent
  PROVE  SdHostInv'
<1>1. SdTypeOK' /\ CallOK'
  BY DEF SdHostInv, CallOK, SdTypeOK, At, CardSector, Commands, Datum, DriverOnly,
   Events, Goes, Mode, NoOp, NoTransfer, Runs, SdLabel, SdOpSet, SdTransfer, StopSent,
   cardState, controller
<1>2. CommandOK' /\ MovingOK' /\ StoppingOK' /\ AwaitedOK'
  BY DEF SdHostInv, AwaitedOK, CommandOK, MovingOK, StoppingOK, AllDone, At, Done,
   DriverOnly, Goes, NoTransfer, Runs, Sending, StopSent, cardState, controller
<1>3. TransferOK'
  BY SdHostAssumption DEF SdHostInv, StoppingOK, TransferOK, AllDone, At, Done,
   DriverOnly, Goes, Mine, NoTransfer, Runs, Sending, StopSent, cardState, controller
<1>4. NeverLeftRunning'
  BY SdHostAssumption DEF SdHostInv, NeverLeftRunning, StoppingOK, AllDone, At, Done,
   DriverOnly, Goes, NoTransfer, Runs, Sending, StopSent, cardState, controller
<1>5. QED
  BY <1>1, <1>2, <1>3, <1>4 DEF SdHostInv

(* A busy signal that is given up is remembered.                            *)
LEMMA StopGivenUpKeeps ==
  ASSUME SdHostInv, StopGivenUp
  PROVE  SdHostInv'
<1>1. SdTypeOK' /\ CallOK'
  BY DEF SdHostInv, CallOK, SdTypeOK, At, CardFault, CardSector, Commands, Datum,
   DriverOnly, Events, GivesUp, Mode, NoOp, NoTransfer, Runs, SdLabel, SdOpSet,
   SdTransfer, StopGivenUp, cardState, controller
<1>2. TransferOK' /\ CommandOK' /\ MovingOK' /\ StoppingOK' /\ AwaitedOK' /\ NeverLeftRunning'
  BY SdHostAssumption DEF SdHostInv, AwaitedOK, CommandOK, MovingOK, NeverLeftRunning,
   StoppingOK, TransferOK, AllDone, At, CardFault, Done, DriverOnly, GivesUp, Mine,
   NoTransfer, Runs, Sending, StopGivenUp, cardState, controller
<1>3. QED
  BY <1>1, <1>2 DEF SdHostInv

(* The interrupt handler keeps the invariant.                               *)
LEMMA IntrHandlerKeeps ==
  ASSUME SdHostInv, IntrHandler
  PROVE  SdHostInv'
<1>1. SdTypeOK' /\ CommandOK' /\ MovingOK'
  BY IntrTransfer
<1>2. CallOK'
  BY DEF SdHostInv, CallOK, Datum, IntrHandler, NoOp, NoTransfer, SdOpSet, Unexpected,
   cardState, shBounds
<1>3. TransferOK' /\ StoppingOK'
  BY SdHostAssumption DEF SdHostInv, StoppingOK, TransferOK, AllDone, Done, IntrHandler,
   Mine, NoTransfer, Sending, Unexpected, cardState, shBounds
<1>4. AwaitedOK'
  BY SdHostAssumption DEF SdHostInv, AwaitedOK, CommandOK, IntrHandler, NoTransfer,
   Sending, Unexpected, cardState, shBounds
<1>5. NeverLeftRunning'
  BY SdHostAssumption DEF SdHostInv, AwaitedOK, NeverLeftRunning, IntrHandler,
   NoTransfer, Sending, Unexpected, cardState, shBounds
<1>6. QED
  BY <1>1, <1>2, <1>3, <1>4, <1>5 DEF SdHostInv

(* The answer of the card keeps the invariant.                              *)
LEMMA CardAnswersKeeps ==
  ASSUME SdHostInv, CardAnswers
  PROVE  SdHostInv'
<1>1. SdTypeOK' /\ TransferOK' /\ MovingOK' /\ AwaitedOK'
  BY AnswerTransfer
<1>2. CallOK'
  BY DEF SdHostInv, CallOK, CardAnswers, CardFault, Datum, Expected, ModeAfter, NoOp,
   Outside, SdOpSet, Transfer
<1>3. CommandOK'
  BY DEF SdHostInv, CommandOK, CardAnswers, CardFault, Expected, ModeAfter, NoTransfer,
   Outside, Transfer
<1>4. StoppingOK'
  BY SdHostAssumption DEF SdHostInv, CommandOK, StoppingOK, AllDone, CardAnswers,
   CardFault, Done, Expected, ModeAfter, NoTransfer, Outside, Transfer
<1>5. NeverLeftRunning'
  BY SdHostAssumption DEF SdHostInv, CommandOK, NeverLeftRunning, CardAnswers,
   CardFault, Expected, ModeAfter, NoTransfer, Outside, Sending, Transfer
<1>6. QED
  BY <1>1, <1>2, <1>3, <1>4, <1>5 DEF SdHostInv

(* A command without an answer is not off the line before the handler ran.  *)
LEMMA NoAnswerKeeps ==
  ASSUME SdHostInv, NoAnswer
  PROVE  SdHostInv'
<1>1. SdTypeOK' /\ CallOK'
  BY DEF SdHostInv, CallOK, SdTypeOK, CardFault, CardSector, Commands, Datum, Events,
   Expected, Mode, ModeAfter, NoAnswer, NoOp, NoTransfer, Outside, SdLabel, SdOpSet,
   SdTransfer
<1>2. TransferOK' /\ CommandOK' /\ MovingOK' /\ AwaitedOK' /\ NeverLeftRunning'
  BY SdHostAssumption DEF SdHostInv, AwaitedOK, CommandOK, MovingOK, NeverLeftRunning,
   TransferOK, AllDone, CardFault, Done, Expected, Mine, ModeAfter, NoAnswer,
   NoTransfer, Outside, Sending
<1>3. StoppingOK'
  BY SdHostAssumption DEF SdHostInv, CommandOK, StoppingOK, AllDone, CardFault, Done,
   Expected, ModeAfter, NoAnswer, NoTransfer, Outside
<1>4. QED
  BY <1>1, <1>2, <1>3 DEF SdHostInv

(* A transfer that stops at a boundary keeps the invariant.                 *)
LEMMA StopsAtBoundKeeps ==
  ASSUME SdHostInv, StopsAtBound
  PROVE  SdHostInv'
<1>1. SdTypeOK'
  BY StopsTypes
<1>2. CallOK'
  BY DEF SdHostInv, CallOK, Datum, Moving, NoOp, Outside, SdOpSet, StopsAtBound,
   cardState
<1>3. TransferOK' /\ CommandOK' /\ StoppingOK' /\ AwaitedOK' /\ NeverLeftRunning'
  BY SdHostAssumption DEF SdHostInv, AwaitedOK, CommandOK, NeverLeftRunning, StoppingOK,
   TransferOK, AllDone, Done, Mine, Moving, NoTransfer, Outside, Sending, StopsAtBound,
   cardState
<1>4. MovingOK'
  BY SdHostAssumption DEF SdHostInv, MovingOK, SdTypeOK, AllDone, CardSector, Commands,
   Datum, Done, Events, Mode, Moving, NoTransfer, Outside, SdLabel, SdTransfer,
   StopsAtBound, cardState
<1>5. QED
  BY <1>1, <1>2, <1>3, <1>4 DEF SdHostInv

(* A block that moves keeps the invariant.                                  *)
LEMMA BlockMovesKeeps ==
  ASSUME SdHostInv, BlockMoves
  PROVE  SdHostInv'
<1>1. SdTypeOK' /\ CallOK' /\ TransferOK' /\ MovingOK' /\ StoppingOK' /\ AwaitedOK'
  BY BlockMovesTransfer
<1>2. CommandOK' /\ NeverLeftRunning'
  BY DEF SdHostInv, CommandOK, NeverLeftRunning, BlockMoves, CardSector, MovedData,
   Moving, NoTransfer, Outside, Sending, Torn
<1>3. QED
  BY <1>1, <1>2 DEF SdHostInv

(* A block that fails keeps the invariant.                                  *)
LEMMA BlockFailsKeeps ==
  ASSUME SdHostInv, BlockFails
  PROVE  SdHostInv'
<1>1. SdTypeOK' /\ MovingOK' /\ StoppingOK'
  BY BlockFailsTransfer
<1>2. CallOK'
  BY DEF SdHostInv, CallOK, BlockFails, CannotGoOn, CardFault, Datum, Moving, NoOp,
   Outside, SdOpSet, Torn
<1>3. TransferOK' /\ CommandOK' /\ AwaitedOK' /\ NeverLeftRunning'
  BY SdHostAssumption DEF SdHostInv, AwaitedOK, CommandOK, NeverLeftRunning, TransferOK,
   BlockFails, CannotGoOn, CardFault, Mine, Moving, NoTransfer, Outside, Sending, Torn
<1>4. QED
  BY <1>1, <1>2, <1>3 DEF SdHostInv

(* The end of the busy signal keeps the invariant.                          *)
LEMMA BusyEndsKeeps ==
  ASSUME SdHostInv, BusyEnds
  PROVE  SdHostInv'
<1>1. AwaitedOK'
  BY BusyEndsAwaited
<1>2. SdTypeOK' /\ CallOK'
  BY DEF SdHostInv, CallOK, SdTypeOK, BusyEnds, CardSector, Commands, Datum, Events,
   Mode, NoOp, NoTransfer, Outside, SdLabel, SdOpSet, SdTransfer, cardState
<1>3. TransferOK' /\ CommandOK' /\ NeverLeftRunning'
  BY SdHostAssumption DEF SdHostInv, CommandOK, NeverLeftRunning, TransferOK, BusyEnds,
   Mine, NoTransfer, Outside, Sending, cardState
<1>4. MovingOK'
  BY SdHostAssumption DEF SdHostInv, CallOK, MovingOK, AllDone, BusyEnds, Datum, Done,
   NoOp, NoTransfer, Outside, SdOpSet, cardState
<1>5. StoppingOK'
  BY SdHostAssumption DEF SdHostInv, CommandOK, StoppingOK, AllDone, BusyEnds, Done,
   NoTransfer, Outside, cardState
<1>6. QED
  BY <1>1, <1>2, <1>3, <1>4, <1>5 DEF SdHostInv

-----------------------------------------------------------------------------
(* Every step of driver, controller and card keeps the invariant.           *)
LEMMA SdStepKeeps ==
  ASSUME SdHostInv, SdHostNext
  PROVE  SdHostInv'
<1>1. CASE \E o \in SdOps : CallSd(o)
  BY <1>1, CallSdKeeps
<1>2. CASE ReturnSd
  BY <1>2, ReturnSdKeeps
<1>3. CASE SendCommand("blocklen", "SET_BLOCKLEN") \/ SendCommand("status", "SEND_STATUS")
  BY <1>3, SendCommandKeeps
<1>4. CASE BlockLenSent \/ StatusSeen
  BY <1>4, BlockLenSentKeeps, StatusSeenKeeps
<1>5. CASE SendDataCommand \/ DataSent
  BY <1>5, SendDataCommandKeeps, DataSentKeeps
<1>6. CASE TransferBroken \/ TransferGivenUp \/ TransferGoesOn \/ TransferDone
  BY <1>6, TransferBrokenKeeps, TransferGivenUpKeeps, TransferGoesOnKeeps, TransferDoneKeeps
<1>7. CASE SendStop \/ StopSent \/ StopGivenUp
  BY <1>7, SendStopKeeps, StopSentKeeps, StopGivenUpKeeps
<1>8. CASE IntrHandler \/ CardAnswers \/ NoAnswer
  BY <1>8, IntrHandlerKeeps, CardAnswersKeeps, NoAnswerKeeps
<1>9. CASE StopsAtBound \/ BlockMoves \/ BlockFails \/ BusyEnds
  BY <1>9, StopsAtBoundKeeps, BlockMovesKeeps, BlockFailsKeeps, BusyEndsKeeps
<1>10. QED
  BY <1>1, <1>2, <1>3, <1>4, <1>5, <1>6, <1>7, <1>8, <1>9 DEF SdHostNext

(* The invariant holds at the start.                                        *)
LEMMA SdInitInv == SdHostInit => SdHostInv
<1>1. SUFFICES ASSUME SdHostInit PROVE SdHostInv
  OBVIOUS
<1>2. SdTypeOK
  BY <1>1 DEF SdHostInit, SdTypeOK, SdLabel, Mode, OldSector, Datum
<1>3. CallOK /\ TransferOK /\ CommandOK /\ MovingOK /\ StoppingOK /\ AwaitedOK /\ NeverLeftRunning
  BY <1>1 DEF SdHostInit, CallOK, TransferOK, CommandOK, MovingOK, StoppingOK, AwaitedOK,
     NeverLeftRunning, Sending
<1>4. QED
  BY <1>2, <1>3 DEF SdHostInv

(* The variables of the host driver are what the invariant is about.        *)
LEMMA SdStutterKeeps ==
  ASSUME SdHostInv, UNCHANGED sdHostVars
  PROVE  SdHostInv'
  BY DEF SdHostInv, sdHostVars, driver, controller, cardState, shBounds, SdTypeOK, CallOK,
     TransferOK, Mine, CommandOK, MovingOK, StoppingOK, AllDone, Done, AwaitedOK,
     NeverLeftRunning

(* The inductive invariant of the SD host driver.                           *)
THEOREM SdHostInvHolds == SdHostSpec => []SdHostInv
<1>1. SdHostInv /\ [SdHostNext]_sdHostVars => SdHostInv'
  BY SdStepKeeps, SdStutterKeeps
<1>2. QED
  BY SdInitInv, <1>1, PTL DEF SdHostSpec

(* However commands, interrupts, errors and time-outs meet, the interrupt   *)
(* handler of ftsdc021.c:1899 is left hanging only by a transfer that       *)
(* ftsdc021_transfer_data or the stop command gave up.                      *)
THEOREM SdHandlerReturns == SdHostSpec => []HandlerReturns
<1>1. SdHostInv => HandlerReturns
  BY DEF SdHostInv, NeverLeftRunning, HandlerReturns
<1>2. QED
  BY SdHostInvHolds, <1>1, PTL

-----------------------------------------------------------------------------
StoreVars == <<cells, readBuffer, AsSdOp, shRet, AsSdLate>>
StoreStep == Store!SdStoreNext(SdOperations) \/ UNCHANGED StoreVars

(* A step that the caller and the sectors see nothing of, or only that what *)
(* was given up is over.                                                    *)
LEMMA QuietStep ==
  ASSUME UNCHANGED <<shOp, shRet, cells, readBuffer>>, AsSdLate' \in {AsSdLate, {}}
  PROVE  StoreStep
<1>1. AsSdOp' = AsSdOp
  BY DEF AsSdOp
<1>2. CASE AsSdLate' = AsSdLate
  BY <1>1, <1>2 DEF StoreStep, StoreVars
<1>3. CASE AsSdLate' = {}
  BY <1>1, <1>3 DEF StoreStep, Store!SdStoreNext, Store!SdGoesOn
<1>4. QED
  BY <1>2, <1>3

(* What the driver, its handler and the card do but for calls and blocks.   *)
LEMMA MostAreQuiet ==
  ASSUME SdHostInv, SdHostNext, ~(\E o \in SdOps : CallSd(o)), ~ReturnSd, ~BlockMoves, ~BlockFails
  PROVE  UNCHANGED <<shOp, shRet, cells, readBuffer>> /\ AsSdLate' \in {AsSdLate, {}}
<1>1. CASE SendDataCommand
  <2>1. \/ sdma = NoTransfer /\ UNCHANGED sdma
        \/ /\ sdma # NoTransfer /\ sdma' # NoTransfer
           /\ sdma'.late = sdma.late /\ sdma'.addr = sdma.addr
    <3>1. CASE DatInhibit
      BY <1>1, <3>1, SendDataTransfer DEF DatInhibit
    <3>2. CASE ~DatInhibit
      BY <1>1, <3>2 DEF SendDataCommand, DatInhibit
    <3>3. QED
      BY <3>1, <3>2
  <2>2. QED
    BY <1>1, <2>1 DEF SendDataCommand, DriverOnly, cardState, AsSdLate
<1>2. CASE TransferGoesOn \/ StopsAtBound
  <2>1. sdma \in SdTransfer
    BY <1>2 DEF SdHostInv, SdTypeOK, TransferGoesOn, PieceLeft, StopsAtBound, Moving, NoTransfer
  <2>2. \/ sdma' = [sdma EXCEPT !.paused = FALSE]
        \/ sdma' = [sdma EXCEPT !.paused = TRUE, !.bound = 0]
    BY <1>2 DEF TransferGoesOn, StopsAtBound
  <2>3. /\ sdma # NoTransfer /\ sdma' # NoTransfer
        /\ sdma'.late = sdma.late /\ sdma'.addr = sdma.addr
    <3>1. CASE sdma' = [sdma EXCEPT !.paused = FALSE]
      BY <2>1, <3>1 DEF SdTransfer, NoTransfer
    <3>2. CASE sdma' = [sdma EXCEPT !.paused = TRUE, !.bound = 0]
      <4>1. sdma'.late = sdma.late /\ sdma'.addr = sdma.addr
        BY <2>1, <3>2 DEF SdTransfer
      <4>2. sdma' \in SdTransfer
        BY <2>1, <3>2 DEF SdTransfer
      <4>3. QED
        BY <2>1, <4>1, <4>2 DEF SdTransfer, NoTransfer
    <3>3. QED
      BY <2>2, <3>1, <3>2
  <2>4. QED
    BY <1>2, <2>3 DEF TransferGoesOn, StopsAtBound, DriverOnly, Outside, cardState, AsSdLate
<1>3. CASE CardAnswers
  <2>1. UNCHANGED sdma \/ \E fn, dead : sdma' = Transfer(fn, dead)
    BY <1>3 DEF CardAnswers
  <2>2. AsSdLate' \in {AsSdLate, {}}
    <3>1. ASSUME NEW fn, NEW dead, sdma' = Transfer(fn, dead)
          PROVE  AsSdLate' = {}
      BY <3>1 DEF Transfer, AsSdLate
    <3>2. QED
      BY <2>1, <3>1 DEF AsSdLate
  <2>3. QED
    BY <1>3, <2>2 DEF CardAnswers, Outside
<1>4. CASE IntrHandler \/ NoAnswer \/ BusyEnds
  <2>1. sdma' \in {sdma, NoTransfer} /\ UNCHANGED <<shOp, shRet, cells, readBuffer>>
    BY <1>4 DEF IntrHandler, NoAnswer, BusyEnds, Outside, cardState
  <2>2. QED
    BY <2>1 DEF AsSdLate
<1>5. CASE \/ SendCommand("blocklen", "SET_BLOCKLEN") \/ BlockLenSent
           \/ SendCommand("status", "SEND_STATUS") \/ StatusSeen \/ DataSent
           \/ TransferBroken \/ TransferGivenUp \/ TransferDone
           \/ SendStop \/ StopSent \/ StopGivenUp
  <2>1. UNCHANGED <<shOp, sdma>> /\ DriverOnly
    BY <1>5 DEF SendCommand, BlockLenSent, StatusSeen, DataSent, TransferBroken,
       TransferGivenUp, TransferDone, SendStop, StopSent, StopGivenUp, Goes, GivesUp, controller
  <2>2. QED
    BY <2>1 DEF DriverOnly, cardState, AsSdLate
<1>6. QED
  BY <1>1, <1>2, <1>3, <1>4, <1>5 DEF SdHostNext

(* A call begins in SdStore, with its data.                                 *)
LEMMA CallBegins ==
  ASSUME SdHostInv, NEW o \in SdOps, CallSd(o)
  PROVE  StoreStep
<1>1. /\ o.fn \in {"read", "write"} /\ o.addr \in Nat /\ o.cnt \in Nat \ {0}
      /\ MaxSdOps \in Nat /\ shCalls \in Nat
  BY SdHostAssumption DEF SdHostInv, SdTypeOK
<1>2. shCalls + 1 \in 1 .. MaxSdOps
  BY <1>1 DEF CallSd
<1> DEFINE c == AsCalled(o, shCalls + 1)
<1>3. c \in SdOperations
  BY <1>2 DEF SdOperations
<1>4. AsSdOp' = c
  BY DEF CallSd, AsSdOp, AsCalled
<1>5. AsSdOp = Store!NoSdOp
  BY DEF SdHostInv, CallOK, CallSd, At, AsSdOp, NoOp, Store!NoSdOp
<1>6. UNCHANGED <<cells, AsSdLate>> /\ shRet' = "none"
  BY DEF CallSd, AsSdLate, controller, cardState
<1>7. readBuffer' = IF c.fn = "read" THEN [i \in 1 .. c.cnt |-> Torn] ELSE readBuffer
  BY DEF CallSd, AsCalled
<1> HIDE DEF c
<1>8. Store!SdBegin(c)
  BY <1>4, <1>5, <1>6, <1>7 DEF Store!SdBegin
<1>9. QED
  BY <1>3, <1>8 DEF StoreStep, Store!SdStoreNext

(* Success is returned with everything done and nothing left running; what  *)
(* is left running by a failure began where the call did.                   *)
LEMMA ReturnAnswers ==
  ASSUME SdHostInv, ReturnSd
  PROVE  StoreStep
<1>1. /\ shPc # "idle" /\ shRet' = shPc /\ UNCHANGED <<cells, readBuffer>> /\ shOp' = NoOp
      /\ sdma' = IF sdma # NoTransfer THEN [sdma EXCEPT !.late = TRUE] ELSE sdma
  BY DEF ReturnSd, cardState
<1>2. shOp \in SdOpSet
  BY <1>1 DEF SdHostInv, CallOK
<1>3. AsSdOp # Store!NoSdOp /\ AsSdOp' = Store!NoSdOp
  <2>1. AsSdOp.fn # "none"
    BY <1>2 DEF AsSdOp, SdOpSet
  <2>2. QED
    BY <1>1, <2>1 DEF AsSdOp, NoOp, Store!NoSdOp
<1>4. CASE shPc = "ok"
  <2>1. AllDone /\ sdma = NoTransfer
    BY <1>4 DEF SdHostInv, StoppingOK
  <2>2. AsSdLate = {} /\ AsSdLate' = {}
    BY <1>1, <2>1 DEF AsSdLate
  <2>3. Store!WrittenOrRead
    BY <2>1 DEF Store!WrittenOrRead, AllDone, Done, AsSdOp
  <2>4. QED
    BY <1>1, <1>3, <1>4, <2>2, <2>3 DEF StoreStep, Store!SdStoreNext, Store!SdReturnOk
<1>5. CASE shPc = "failed"
  <2>1. AsSdLate' \in {AsSdLate, {}, Store!From(AsSdOp)}
    <3>1. CASE sdma = NoTransfer
      BY <1>1, <3>1 DEF AsSdLate
    <3>2. CASE sdma # NoTransfer
      <4>1. sdma \in SdTransfer
        BY <3>2 DEF SdHostInv, SdTypeOK
      <4>2. sdma' # NoTransfer /\ sdma'.late /\ sdma'.addr = sdma.addr
        BY <1>1, <3>2, <4>1 DEF SdTransfer, NoTransfer
      <4>3. AsSdLate' = sdma.addr .. CardBlocks - 1
        BY <4>2 DEF AsSdLate
      <4>4. CASE sdma.late
        BY <3>2, <4>3, <4>4 DEF AsSdLate
      <4>5. CASE ~sdma.late
        <5>1. sdma.addr = AsSdOp.addr
          BY <3>2, <4>5 DEF SdHostInv, TransferOK, Mine, AsSdOp
        <5>2. QED
          BY <4>3, <5>1 DEF Store!From
      <4>6. QED
        BY <4>4, <4>5
    <3>3. QED
      BY <3>1, <3>2
  <2>2. QED
    BY <1>1, <1>3, <1>5, <2>1 DEF StoreStep, Store!SdStoreNext, Store!SdReturnError
<1>6. QED
  BY <1>4, <1>5 DEF ReturnSd

(* A block that moves is one of the call's own, or one of a transfer that   *)
(* was given up, within what that may still touch.                          *)
LEMMA BlockIsSeen ==
  ASSUME SdHostInv, BlockMoves \/ BlockFails
  PROVE  StoreStep
<1>1. /\ sdma \in SdTransfer /\ sdma # NoTransfer /\ sdma.fn \in {"read", "write"}
      /\ sdma.at < sdma.n /\ sdma.addr + sdma.at <= CardBlocks
  BY DEF SdHostInv, SdTypeOK, TransferOK, BlockMoves, BlockFails, Moving, NoTransfer
<1>2. sdma.at \in Nat /\ sdma.addr \in Nat /\ sdma.n \in Nat /\ CardBlocks \in Nat
  BY <1>1, SdHostAssumption DEF SdTransfer
<1>3. UNCHANGED <<shOp, shRet>> /\ AsSdOp' = AsSdOp
  BY DEF BlockMoves, BlockFails, Outside, AsSdOp
<1> DEFINE s == sdma.addr + sdma.at
<1>4. \/ UNCHANGED <<cells, readBuffer>>
      \/ /\ s \in CardSector /\ sdma.fn = "write" /\ UNCHANGED readBuffer
         /\ \E v \in MovedData \cup {Torn} : cells' = [cells EXCEPT ![s] = v]
      \/ /\ s \in CardSector /\ sdma.fn = "read" /\ UNCHANGED cells
         /\ readBuffer' = [readBuffer EXCEPT ![sdma.at + 1] = cells[s]]
  <2>1. CASE BlockMoves
    <3>1. s \in CardSector
      BY <2>1 DEF BlockMoves
    <3>2. CASE sdma.fn = "write"
      BY <2>1, <3>1, <3>2 DEF BlockMoves
    <3>3. CASE sdma.fn = "read"
      <4>1. /\ UNCHANGED cells
            /\ readBuffer' = readBuffer \/ readBuffer' = [readBuffer EXCEPT ![sdma.at + 1] = cells[s]]
        BY <2>1, <3>3 DEF BlockMoves
      <4>2. QED
        BY <3>1, <3>3, <4>1
    <3>4. QED
      BY <1>1, <3>2, <3>3
  <2>2. CASE BlockFails
    <3>1. UNCHANGED readBuffer
      BY <2>2 DEF BlockFails
    <3>2. CASE UNCHANGED cells
      BY <3>1, <3>2
    <3>3. CASE cells' # cells
      <4>1. sdma.fn = "write" /\ ~CannotGoOn /\ cells' = [cells EXCEPT ![s] = Torn]
        BY <2>2, <3>3 DEF BlockFails
      <4>2. s \in CardSector
        BY <1>1, <1>2, <4>1 DEF CannotGoOn, CardSector
      <4>3. QED
        BY <3>1, <4>1, <4>2
    <3>4. QED
      BY <3>2, <3>3
  <2>3. QED
    BY <2>1, <2>2
<1>5. \/ sdma' = NoTransfer
      \/ /\ sdma' # NoTransfer /\ sdma'.late = sdma.late /\ sdma'.addr = sdma.addr
  <2>1. \/ sdma' = NoTransfer
        \/ sdma' = [sdma EXCEPT !.at = sdma.at + 1]
        \/ sdma' = [sdma EXCEPT !.paused = TRUE]
    BY DEF BlockMoves, BlockFails
  <2>2. QED
    BY <1>1, <1>2, <2>1 DEF SdTransfer, NoTransfer
<1>6. AsSdLate' \in {AsSdLate, {}}
  BY <1>1, <1>5 DEF AsSdLate
<1> HIDE DEF s
<1>7. CASE UNCHANGED <<cells, readBuffer>>
  BY <1>3, <1>6, <1>7, QuietStep
<1>8. CASE s \in CardSector /\ ~UNCHANGED <<cells, readBuffer>> /\ sdma.late
  <2>1. AsSdLate = sdma.addr .. CardBlocks - 1
    BY <1>1, <1>8 DEF AsSdLate
  <2>2. s \in AsSdLate
    BY <1>2, <1>8, <2>1 DEF s, CardSector
  <2>3. cells' = cells \/ \E v : cells' = [cells EXCEPT ![s] = v]
    BY <1>4
  <2>4. cells \in [CardSector -> Datum] /\ Store!Sector = CardSector
    BY DEF SdHostInv, SdTypeOK, Store!Sector, CardSector
  <2>5. \A r \in Store!Sector \ AsSdLate : cells'[r] = cells[r]
    BY <2>2, <2>3, <2>4
  <2>6. Store!SdGoesOn
    BY <1>3, <1>6, <2>2, <2>5 DEF Store!SdGoesOn
  <2>7. QED
    BY <2>6 DEF StoreStep, Store!SdStoreNext
<1>9. CASE s \in CardSector /\ ~UNCHANGED <<cells, readBuffer>> /\ ~sdma.late
  <2>1. /\ shPc # "idle" /\ sdma.fn \in {shOp.fn, "busy"} /\ sdma.addr = shOp.addr
        /\ sdma.n = shOp.cnt /\ sdma.data = shOp.data
    BY <1>1, <1>9 DEF SdHostInv, TransferOK, Mine
  <2>2. AsSdLate = {} /\ AsSdLate' = {}
    BY <1>1, <1>6, <1>9 DEF AsSdLate
  <2>3. /\ sdma.at + 1 \in 1 .. AsSdOp.cnt /\ AsSdOp.addr + (sdma.at + 1) - 1 = s
        /\ s \in Store!Sector
    BY <1>1, <1>2, <1>9, <2>1 DEF s, AsSdOp, Store!Sector, CardSector
  <2>4. CASE sdma.fn = "write"
    <3>1. AsSdOp.fn = "write" /\ AsSdOp.data = sdma.data
      BY <2>1, <2>4 DEF AsSdOp
    <3>2. PICK v \in MovedData \cup {Torn} : cells' = [cells EXCEPT ![s] = v]
      BY <1>4, <1>9, <2>4
    <3>3. v \in {AsSdOp.data[sdma.at + 1], Torn} /\ UNCHANGED readBuffer
      BY <1>4, <1>9, <2>4, <3>1, <3>2 DEF MovedData
    <3>4. Store!SdWrites
      BY <1>3, <2>2, <2>3, <3>1, <3>2, <3>3 DEF Store!SdWrites
    <3>5. QED
      BY <3>4 DEF StoreStep, Store!SdStoreNext
  <2>5. CASE sdma.fn = "read"
    <3>1. AsSdOp.fn = "read"
      BY <2>1, <2>5 DEF AsSdOp
    <3>2. readBuffer' = [readBuffer EXCEPT ![sdma.at + 1] = cells[s]] /\ UNCHANGED cells
      BY <1>4, <1>9, <2>5
    <3>3. Store!SdReads
      BY <1>3, <2>2, <2>3, <3>1, <3>2 DEF Store!SdReads
    <3>4. QED
      BY <3>3 DEF StoreStep, Store!SdStoreNext
  <2>6. QED
    BY <1>1, <2>4, <2>5
<1>10. QED
  BY <1>4, <1>7, <1>8, <1>9

(* lib_sdc_read and lib_sdc_write do what module SdStore promises: success  *)
(* means that every sector was written or read, whatever was given up       *)
(* before and however completions, errors and time-outs meet; a failure     *)
(* has touched nothing outside the range of its call while it ran.          *)
THEOREM SdStoreRefined == SdHostSpec => SdStoreImplemented
<1>1. SdHostInit => Store!SdStoreInit
  BY DEF SdHostInit, NoOp, AsSdOp, AsSdLate, Store!SdStoreInit, Store!NoSdOp
<1>2. SdHostInv /\ [SdHostNext]_sdHostVars => [Store!SdStoreNext(SdOperations)]_StoreVars
  <2>1. SUFFICES ASSUME SdHostInv, [SdHostNext]_sdHostVars PROVE StoreStep
    BY DEF StoreStep
  <2>2. CASE UNCHANGED sdHostVars
    BY <2>2 DEF StoreStep, StoreVars, sdHostVars, driver, controller, cardState, AsSdOp, AsSdLate
  <2>3. CASE SdHostNext
    <3>1. CASE \E o \in SdOps : CallSd(o)
      BY <2>1, <3>1, CallBegins
    <3>2. CASE ReturnSd
      BY <2>1, <3>2, ReturnAnswers
    <3>3. CASE BlockMoves \/ BlockFails
      BY <2>1, <3>3, BlockIsSeen
    <3>4. CASE ~(\E o \in SdOps : CallSd(o)) /\ ~ReturnSd /\ ~BlockMoves /\ ~BlockFails
      BY <2>1, <2>3, <3>4, MostAreQuiet, QuietStep
    <3>5. QED
      BY <3>1, <3>2, <3>3, <3>4
  <2>4. QED
    BY <2>1, <2>2, <2>3
<1>3. QED
  BY <1>1, <1>2, SdHostInvHolds, PTL DEF SdHostSpec, SdStoreImplemented, StoreVars

-----------------------------------------------------------------------------
(* The lemmas about the block ring, for the ring of sd_prog.                *)
RP == INSTANCE BlockRingProofs
        WITH LOAD_BLK_NUM <- SdBlkNum, LOAD_BLK_SIZE <- SdBlkSize, ring <- sdRing

(* The units of an image, from one on, and all of them.                     *)
Units(gen, from, n) == [i \in 1 .. n |-> <<gen, from + i - 1>>]
ImageUnits(gen) == [u \in Nat |-> <<gen, u>>]

(* What the host sends, and how much of the image it has not sent.          *)
BeginCmd == [op |-> "BEGIN", offset |-> sdHost.offset, size |-> sdHost.size]
DataCmd(n) ==
  [op |-> "DATA", seq |-> sdHost.seq, units |-> Units(sdHost.gen, sdHost.sent, n)]
EndCmd == [op |-> "END"]
Unsent == sdHost.size - sdHost.sent

(* Where the host stands; last is the packet it sends again.                *)
LastPacket == {NoSdPacket} \cup [op : {"DATA"}, seq : Nat, units : Seq(Datum)]
HostState ==
  [phase : {"none", "begin", "data", "resend", "done", "stopped"},
   gen : Nat, offset : Nat, size : Nat, sent : Nat, seq : Nat,
   last : LastPacket, resends : Nat]

(* The values the variables take.                                           *)
SdProgTypeOK ==
  /\ sdUpc \in {"rx", "copy", "copy_wait", "end", "end_wait", "reply"}
  /\ sdMem \in [remaining : Nat, seq : Int, cpy : Seq(Datum)]
  /\ sd_prog \in [offset : Nat, cnt : Nat]
  /\ sdBuf \in [Ring!BufIdx -> [0 .. SdBlkSize - 1 -> Datum]]
  /\ sdHost \in HostState
  /\ sdHost.sent <= sdHost.size
  /\ sdWaiting \in BOOLEAN /\ sdFailed \in BOOLEAN

(* One command at a time: in the receive buffer or in the loader's hands,    *)
(* and its answer is awaited.                                               *)
Idle == sdPacket = NoSdPacket /\ sdCmd = NoSdPacket

Asked(c) ==
  \/ sdHost.phase = "begin" /\ c = BeginCmd
  \/ sdHost.phase = "data" /\ \E n \in 1 .. Unsent : c = DataCmd(n)
  \/ sdHost.phase = "data" /\ Unsent = 0 /\ c = EndCmd

InTurn ==
  /\ sdUpc = "rx" <=> sdCmd = NoSdPacket
  /\ sdPacket # NoSdPacket => sdCmd = NoSdPacket
  /\ sdWaiting <=> ~Idle
  /\ Idle => sdHost.phase # "begin"
  /\ sdHost.phase = "begin" => sdHost.sent = 0 /\ sdHost.seq = 0
  /\ sdPacket # NoSdPacket => Asked(sdPacket)
  /\ sdCmd # NoSdPacket => Asked(sdCmd)
  /\ sdHost.phase = "resend" => \E n \in 1 .. Unsent : sdHost.last = DataCmd(n)
  /\ sdCmd.op = "BEGIN" => sdUpc = "reply"
  /\ sdCmd.op = "DATA" => sdUpc \in {"copy", "copy_wait", "reply"}
  /\ sdCmd.op = "END" => sdUpc \in {"end", "end_wait", "reply"}

(* Nothing is left to copy but in the copy loop, and never too much.        *)
CopyBounded ==
  /\ Len(sdMem.cpy) <= sdMem.remaining
  /\ sdUpc \notin {"copy", "copy_wait"} => sdMem.cpy = <<>>

(* The host goes on with the image that the loader has begun.               *)
Followed ==
  \/ sdHost.phase \in {"data", "resend", "done"} /\ (sdUpc = "reply" => sdRes = "OK")
  \/ sdHost.phase = "begin" /\ sdCmd # NoSdPacket /\ sdRes = "OK"

(* The units that have been taken for the ring.                             *)
Ending == sdCmd.op = "END" \/ sdHost.phase = "done"
Taken == IF Ending THEN sdHost.size ELSE sdHost.size - sdMem.remaining
Closed == Taken = sdHost.size

NotYet == sdMem.seq = sdHost.seq - 1 /\ Taken = sdHost.sent
TakenTo(n) == sdMem.seq = sdHost.seq /\ Taken = sdHost.sent + n

InStep ==
  /\ Taken \in 0 .. sdHost.size
  /\ Ending => sdHost.sent = sdHost.size
  /\ (sdHost.phase = "data" /\ Idle) \/ sdCmd.op = "BEGIN" \/ sdPacket.op = "END" => NotYet
  /\ sdHost.phase = "resend" => TakenTo(Len(sdHost.last.units))
  /\ sdPacket.op = "DATA" => NotYet \/ TakenTo(Len(sdPacket.units))
  /\ sdCmd.op = "DATA" =>
       /\ sdMem.seq = sdHost.seq
       /\ Taken + Len(sdMem.cpy) = sdHost.sent + Len(sdCmd.units)
       /\ \A x \in 1 .. Len(sdMem.cpy) : sdMem.cpy[x] = <<sdHost.gen, Taken + x - 1>>
  /\ (sdCmd.op = "END" /\ sdUpc = "reply") \/ sdHost.phase = "done" => ~RP!InProcess(sdRing)

(* The ring holds what has been taken and not yet programmed.               *)
Programmed == sd_prog.cnt * SdSectorSize
InRing ==
  /\ sd_prog.offset = sdHost.offset
  /\ sd_prog.cnt <= Sectors(sdHost.size)
  /\ RP!Lined(sdRing, Taken - Programmed, Closed)
  /\ RP!Holds(sdRing, sdBuf, ImageUnits(sdHost.gen), Programmed)

(* The sectors that have been programmed hold the image, the others what    *)
(* they held at BEGIN.                                                      *)
OnCard ==
  /\ \A d \in 0 .. sd_prog.cnt - 1, i \in 0 .. SdSectorSize - 1 :
       d * SdSectorSize + i < sdHost.size =>
         /\ sdHost.offset + d \in SdSector
         /\ card[sdHost.offset + d][i] = <<sdHost.gen, d * SdSectorSize + i>>
  /\ \A s \in SdSector \ (sdHost.offset .. sdHost.offset + sd_prog.cnt - 1) :
       card[s] = sdBefore[s]

SdProgInv ==
  /\ SdProgTypeOK /\ RP!Sound(sdRing) /\ InTurn /\ CopyBounded
  /\ Followed => InStep /\ InRing
  /\ Followed /\ ~sdFailed => OnCard

-----------------------------------------------------------------------------
(* Multiples of a block's or a sector's size.                               *)
LEMMA Multiples ==
  ASSUME NEW B \in Nat \ {0}, NEW j \in Nat, NEW k \in Nat
  PROVE  /\ j * B \in Nat /\ (j + 1) * B = j * B + B /\ (j + k) * B = j * B + k * B
         /\ j < k => j * B + B <= k * B
<1>1. j * B \in Nat /\ k * B \in Nat /\ (j + 1) * B = j * B + B /\ (j + k) * B = j * B + k * B
  OBVIOUS
<1>2. ASSUME j < k PROVE j * B + B <= k * B
  <2>1. PICK d \in Nat : k = j + 1 + d
    BY <1>2
  <2>2. k * B = j * B + B + d * B /\ d * B \in Nat
    BY <2>1
  <2>3. QED
    BY <1>1, <2>2
<1>3. QED
  BY <1>1, <1>2

(* A number is a multiple of the divisor and the rest.                      *)
LEMMA DivIs ==
  ASSUME NEW N \in Nat \ {0}, NEW u \in Nat
  PROVE  /\ u \div N \in Nat /\ (u % N) \in 0 .. N - 1
         /\ u = (u \div N) * N + (u % N)
  BY SMT

(* The sectors of so many units.                                            *)
LEMMA SectorsIs ==
  ASSUME NEW n \in Nat
  PROVE  /\ Sectors(n) \in Nat
         /\ n <= Sectors(n) * SdSectorSize
         /\ Sectors(n) * SdSectorSize < n + SdSectorSize
<1>1. PICK N \in Nat \ {0} : N = SdSectorSize
  BY SdProgAssumption
<1>2. n + N - 1 \in Nat
  BY <1>1
<1>3. PICK q \in Nat, r \in 0 .. N - 1 : q = (n + N - 1) \div N /\ n + N - 1 = q * N + r
  BY <1>2, DivIs
<1>4. Sectors(n) = q
  BY <1>1, <1>3 DEF Sectors
<1>5. QED
  BY <1>1, <1>3, <1>4

(* SdProg's ring is that of the lemmas.                                     *)
LEMMA RingIs ==
  /\ RP!RingAssumption
  /\ Ring!EmptyRing = RP!EmptyRing /\ Ring!BufIdx = RP!BufIdx
  /\ \A r : /\ Ring!HasFreeBuf(r) <=> RP!HasFreeBuf(r)
            /\ Ring!InProcess(r) <=> RP!InProcess(r)
            /\ Ring!Room(r) = RP!Room(r)
            /\ Ring!SetBufFree(r) = RP!SetBufFree(r)
            /\ \A len, last : Ring!Filled(r, len, last) = RP!Filled(r, len, last)
<1>1. RP!RingAssumption
  BY SdProgAssumption DEF RP!RingAssumption
<1>2. Ring!EmptyRing = RP!EmptyRing /\ Ring!BufIdx = RP!BufIdx
  BY DEF Ring!EmptyRing, RP!EmptyRing, Ring!BufIdx, RP!BufIdx, Ring!CtrlIdx, RP!CtrlIdx
<1>3. ASSUME NEW r
      PROVE  /\ Ring!HasFreeBuf(r) <=> RP!HasFreeBuf(r)
             /\ Ring!InProcess(r) <=> RP!InProcess(r)
             /\ Ring!Room(r) = RP!Room(r)
  BY DEF Ring!HasFreeBuf, RP!HasFreeBuf, Ring!InProcess, RP!InProcess, Ring!Room, RP!Room,
         Ring!Succ, RP!Succ
<1>4. ASSUME NEW r PROVE Ring!SetBufFree(r) = RP!SetBufFree(r)
  BY DEF Ring!SetBufFree, RP!SetBufFree, Ring!InProcess, RP!InProcess, Ring!Succ, RP!Succ
<1>5. ASSUME NEW r, NEW len, NEW last PROVE Ring!Filled(r, len, last) = RP!Filled(r, len, last)
  BY DEF Ring!Filled, RP!Filled, Ring!SetBufRdy, RP!SetBufRdy, Ring!HasFreeBuf, RP!HasFreeBuf,
         Ring!Room, RP!Room, Ring!Succ, RP!Succ
<1>6. QED
  BY <1>1, <1>2, <1>3, <1>4, <1>5

-----------------------------------------------------------------------------
(* No steps of the kernel move the conversation, the ring or the card.      *)
LEMMA KernelKept ==
  ASSUME SdProgInv,
         UNCHANGED <<sdUpc, sdCmd, sdRes, sdMem, sdPipeline, card, sdOutside, sdFailed, sdBefore>>
  PROVE  SdProgInv'
<1>1. /\ UNCHANGED <<sdUpc, sdCmd, sdRes, sdMem, card, sdFailed, sdBefore>>
      /\ UNCHANGED <<sd_prog, sdRing, sdBuf, sdPacket, sdWaiting, sdHost>>
  BY DEF sdPipeline, sdOutside
<1>2. /\ UNCHANGED <<SdProgTypeOK, RP!Sound(sdRing), InTurn, CopyBounded>>
      /\ UNCHANGED <<Followed, InStep, InRing, OnCard>>
  BY <1>1 DEF SdProgTypeOK, HostState, InTurn, CopyBounded, Followed, InStep, InRing, OnCard,
     Idle, Asked, BeginCmd, DataCmd, Unsent, Taken, Closed, Ending, NotYet, TakenTo, Programmed
<1>3. QED
  BY <1>1, <1>2 DEF SdProgInv

(* The ring and the card stay as they are when the conversation goes on.    *)
LEMMA SamePipeline ==
  ASSUME SdProgInv, Followed, UNCHANGED <<sdPipeline, card, sdFailed, sdBefore>>,
         sdHost'.offset = sdHost.offset, sdHost'.size = sdHost.size, sdHost'.gen = sdHost.gen,
         Taken' = Taken
  PROVE  InRing' /\ (~sdFailed' => OnCard')
<1>1. UNCHANGED <<sd_prog, sdRing, sdBuf, card, sdFailed, sdBefore>>
  BY DEF sdPipeline
<1>2. Closed' = Closed
  BY DEF Closed
<1>3. InRing'
  <2>1. InRing
    BY DEF SdProgInv
  <2>2. Programmed' = Programmed
    BY <1>1 DEF Programmed
  <2>3. RP!Lined(sdRing', Taken' - Programmed', Closed')
    BY <1>1, <1>2, <2>1, <2>2, Zenon DEF InRing
  <2>4. RP!Holds(sdRing', sdBuf', ImageUnits(sdHost'.gen), Programmed')
    BY <1>1, <2>1, <2>2, Zenon DEF InRing
  <2>5. QED
    BY <1>1, <2>1, <2>3, <2>4 DEF InRing
<1>4. ~sdFailed' => OnCard'
  BY <1>1 DEF SdProgInv, OnCard
<1>5. QED
  BY <1>3, <1>4

(* Before the first command: nothing is claimed.                            *)
LEMMA InitKept == SdInit => SdProgInv
<1> SUFFICES ASSUME SdInit PROVE SdProgInv
  OBVIOUS
<1>1. SdProgTypeOK
  <2>1. OldUnit \in Datum
    BY DEF OldUnit, Datum
  <2>2. sdBuf \in [Ring!BufIdx -> [0 .. SdBlkSize - 1 -> Datum]]
    BY <2>1 DEF SdInit
  <2>3. sdMem \in [remaining : Nat, seq : Int, cpy : Seq(Datum)]
    BY DEF SdInit
  <2>4. /\ sdUpc = "rx" /\ sd_prog \in [offset : Nat, cnt : Nat]
        /\ sdWaiting \in BOOLEAN /\ sdFailed \in BOOLEAN
    BY DEF SdInit
  <2>5. /\ sdHost \in HostState
        /\ sdHost.sent <= sdHost.size
    BY DEF SdInit, HostState, LastPacket
  <2>6. QED
    BY <2>2, <2>3, <2>4, <2>5 DEF SdProgTypeOK, HostState
<1>2. RP!Sound(sdRing)
  BY RingIs, RP!EmptySound DEF SdInit
<1>3. InTurn /\ CopyBounded /\ ~Followed
  BY DEF SdInit, InTurn, CopyBounded, Followed, Idle, NoSdPacket
<1>4. QED
  BY <1>1, <1>2, <1>3 DEF SdProgInv

(* What the host may have asked, told apart by the command.                 *)
LEMMA AskedIs ==
  ASSUME NEW c, Asked(c), SdProgTypeOK
  PROVE  /\ c # NoSdPacket
         /\ c.op = "BEGIN" => c = BeginCmd /\ sdHost.phase = "begin"
         /\ c.op = "DATA" => sdHost.phase = "data" /\ \E n \in 1 .. Unsent : c = DataCmd(n)
         /\ c.op = "END" => c = EndCmd /\ sdHost.phase = "data" /\ Unsent = 0
         /\ c.op \in {"BEGIN", "DATA", "END"}
  BY DEF Asked, BeginCmd, DataCmd, EndCmd, NoSdPacket

(* The units of a packet.                                                   *)
LEMMA UnitsAre ==
  ASSUME NEW gen \in Nat, NEW from \in Nat, NEW n \in Nat
  PROVE  /\ Units(gen, from, n) \in Seq(Datum) /\ Len(Units(gen, from, n)) = n
         /\ \A x \in 1 .. n : Units(gen, from, n)[x] = <<gen, from + x - 1>>
<1>1. \A x \in 1 .. n : <<gen, from + x - 1>> \in Datum
  BY DEF Datum
<1>2. QED
  BY <1>1 DEF Units

(* A command that is received: the host waits in phase "begin" or "data".   *)
LEMMA ReceivedIs ==
  ASSUME SdProgInv, NEW op \in {"BEGIN", "DATA", "END"}, SdReceive(op)
  PROVE  /\ sdUpc = "rx" /\ sdCmd = NoSdPacket /\ sdPacket # NoSdPacket
         /\ sdPacket.op = op /\ Asked(sdPacket) /\ sdWaiting /\ ~Idle
         /\ sdCmd' = sdPacket /\ sdPacket' = NoSdPacket
         /\ UNCHANGED <<sdWaiting, sdHost, card>>
         /\ sdMem.cpy = <<>>
<1>1. sdUpc = "rx" /\ sdPacket.op = op /\ sdCmd' = sdPacket /\ sdPacket' = NoSdPacket
      /\ UNCHANGED <<sdWaiting, sdHost, card>>
  BY DEF SdReceive, SdUart, SdUartUnchanged
<1>2. sdPacket # NoSdPacket
  BY <1>1 DEF NoSdPacket
<1>3. QED
  BY <1>1, <1>2 DEF SdProgInv, InTurn, CopyBounded, Idle

(* The turns of the conversation after a command has been received.         *)
LEMMA ReceivedInTurn ==
  ASSUME SdProgInv, NEW op \in {"BEGIN", "DATA", "END"}, SdReceive(op),
         op = "BEGIN" => sdUpc' = "reply",
         op = "DATA" => sdUpc' \in {"copy", "reply"},
         op = "END" => sdUpc' \in {"end", "reply"}
  PROVE  InTurn'
<1>1. SdProgTypeOK /\ InTurn
  BY DEF SdProgInv
<1>2. /\ sdPacket # NoSdPacket /\ sdPacket.op = op /\ Asked(sdPacket) /\ sdWaiting /\ ~Idle
      /\ sdCmd' = sdPacket /\ sdPacket' = NoSdPacket
      /\ sdWaiting' = sdWaiting /\ sdHost' = sdHost
  BY ReceivedIs
<1>3. Asked(sdCmd)' /\ ~Idle' /\ sdUpc' # "rx"
  BY <1>2 DEF Asked, BeginCmd, DataCmd, Unsent, Idle
<1>4. /\ sdHost.phase # "resend"
      /\ sdHost.phase = "begin" => sdHost.sent = 0 /\ sdHost.seq = 0
  BY <1>1, <1>2, AskedIs DEF InTurn
<1>5. QED
  BY <1>2, <1>3, <1>4 DEF InTurn

(* SD_BEGIN: a new image, and an empty ring, whatever was in the old one.   *)
LEMMA SdBeginKept == ASSUME SdProgInv, SdBegin PROVE SdProgInv'
<1>1. SdProgTypeOK /\ RP!Sound(sdRing) /\ CopyBounded
  BY DEF SdProgInv
<1>2. SdReceive("BEGIN") /\ sdUpc' = "reply" /\ UNCHANGED sdBuf
  BY DEF SdBegin
<1>3. /\ sdUpc = "rx" /\ sdPacket = BeginCmd /\ sdHost.phase = "begin"
      /\ sdCmd' = BeginCmd /\ sdPacket' = NoSdPacket
      /\ UNCHANGED <<sdWaiting, sdHost, card>> /\ sdMem.cpy = <<>>
  BY <1>1, <1>2, ReceivedIs, AskedIs
<1>4. InTurn'
  BY <1>2, ReceivedInTurn
<1>5. CASE sdRes' = "OK" /\ sdMem' = [remaining |-> sdPacket.size, seq |-> -1, cpy |-> sdMem.cpy]
           /\ sd_prog' = NewCardImage(sdPacket) /\ sdRing' = Ring!EmptyRing
           /\ sdFailed' = FALSE /\ sdBefore' = card
  <2>1. /\ sdMem' = [remaining |-> sdHost.size, seq |-> -1, cpy |-> sdMem.cpy]
        /\ sd_prog' = [offset |-> sdHost.offset, cnt |-> 0]
    BY <1>3, <1>5 DEF BeginCmd, NewCardImage
  <2>2. SdProgTypeOK'
    <3>1. sdHost.size \in Nat /\ sdHost.offset \in Nat /\ sdMem.cpy \in Seq(Datum)
      BY <1>1 DEF SdProgTypeOK, HostState
    <3>2. sdMem' \in [remaining : Nat, seq : Int, cpy : Seq(Datum)]
      BY <2>1, <3>1
    <3>3. sd_prog' \in [offset : Nat, cnt : Nat]
      BY <2>1, <3>1
    <3>4. sdFailed' \in BOOLEAN
      BY <1>5, Zenon
    <3>5. QED
      BY <1>1, <1>2, <1>3, <3>2, <3>3, <3>4 DEF SdProgTypeOK, HostState
  <2>3. RP!Sound(sdRing)' /\ sdRing' = RP!EmptyRing
    BY <1>5, RingIs, RP!EmptySound
  <2>4. CopyBounded'
    BY <1>1, <1>2, <1>3, <2>1 DEF CopyBounded, SdProgTypeOK, HostState
  <2>5. Taken' = 0 /\ ~Ending' /\ Programmed' = 0
    BY <1>1, <1>3, <2>1, SdProgAssumption
    DEF Taken, Ending, Programmed, SdProgTypeOK, HostState, BeginCmd
  <2>6. sdHost.sent = 0 /\ sdHost.seq = 0
    BY <1>3 DEF SdProgInv, InTurn
  <2>7. InStep'
    BY <1>1, <1>3, <2>1, <2>5, <2>6
    DEF InStep, NotYet, SdProgTypeOK, HostState, BeginCmd, NoSdPacket
  <2>8. InRing'
    <3>1. Closed' \in BOOLEAN /\ Taken' - Programmed' = 0
      BY <2>5 DEF Closed
    <3>2. /\ RP!Lined(sdRing', 0, Closed')
          /\ RP!Holds(sdRing', sdBuf', ImageUnits(sdHost'.gen), Programmed')
      BY <2>3, <3>1, RingIs, RP!EmptyLined
    <3>3. 0 <= Sectors(sdHost.size)
      BY <1>1, SectorsIs DEF SdProgTypeOK, HostState
    <3>4. QED
      BY <1>3, <2>1, <3>1, <3>2, <3>3 DEF InRing
  <2>9. OnCard'
    BY <1>3, <1>5, <2>1 DEF OnCard
  <2>10. QED
    BY <1>4, <2>2, <2>3, <2>4, <2>7, <2>8, <2>9 DEF SdProgInv
<1>6. CASE sdRes' = "SD_PROBE" /\ UNCHANGED <<sdMem, sd_prog, sdRing, sdFailed, sdBefore>>
  <2>1. SdProgTypeOK' /\ RP!Sound(sdRing)' /\ CopyBounded'
    BY <1>1, <1>2, <1>3, <1>6 DEF SdProgTypeOK, HostState, CopyBounded
  <2>2. ~Followed'
    BY <1>2, <1>3, <1>6 DEF Followed
  <2>3. QED
    BY <1>4, <2>1, <2>2 DEF SdProgInv
<1>7. QED
  BY <1>5, <1>6 DEF SdBegin

(* SD_DATA: a packet that was not yet taken, or one that was and whose      *)
(* answer got lost; its units are copied once.                              *)
LEMMA SdDataKept == ASSUME SdProgInv, SdData PROVE SdProgInv'
<1>1. SdProgTypeOK /\ RP!Sound(sdRing) /\ CopyBounded /\ sdMem.cpy \in Seq(Datum)
  BY DEF SdProgInv, SdProgTypeOK, HostState
<1>2. /\ SdReceive("DATA") /\ UNCHANGED <<sdPipeline, sdHistory>>
      /\ sdUpc' \in {"reply", "copy"} /\ (sdRes' = "OK" <=> sdUpc' = "copy")
  BY DEF SdData
<1>3. PICK n \in 1 .. Unsent : sdPacket = DataCmd(n)
  BY <1>1, <1>2, ReceivedIs, AskedIs
<1>4. /\ sdUpc = "rx" /\ sdHost.phase = "data"
      /\ sdCmd = NoSdPacket /\ sdCmd' = DataCmd(n) /\ sdPacket' = NoSdPacket
      /\ UNCHANGED <<sdWaiting, sdHost, card>> /\ sdMem.cpy = <<>> /\ ~Idle
  BY <1>1, <1>2, <1>3, ReceivedIs, AskedIs
<1>5. InTurn'
  BY <1>2, ReceivedInTurn
<1>6. /\ n \in Nat /\ sdHost.gen \in Nat /\ sdHost.sent \in Nat /\ sdHost.seq \in Nat
      /\ sdHost.size \in Nat /\ sdHost.sent + n <= sdHost.size
  BY <1>1 DEF SdProgTypeOK, HostState, Unsent
<1>7. /\ DataCmd(n).op = "DATA" /\ DataCmd(n).seq = sdHost.seq
      /\ DataCmd(n).units = Units(sdHost.gen, sdHost.sent, n)
      /\ Len(DataCmd(n).units) = n /\ DataCmd(n).units \in Seq(Datum)
      /\ \A x \in 1 .. n : DataCmd(n).units[x] = <<sdHost.gen, sdHost.sent + x - 1>>
  <2>1. /\ DataCmd(n).op = "DATA" /\ DataCmd(n).seq = sdHost.seq
        /\ DataCmd(n).units = Units(sdHost.gen, sdHost.sent, n)
    BY DEF DataCmd
  <2>2. Units(sdHost.gen, sdHost.sent, n) \in Seq(Datum)
    BY <1>6, UnitsAre
  <2>3. Len(Units(sdHost.gen, sdHost.sent, n)) = n
    BY <1>6, UnitsAre
  <2>4. \A x \in 1 .. n : Units(sdHost.gen, sdHost.sent, n)[x] = <<sdHost.gen, sdHost.sent + x - 1>>
    BY <1>6 DEF Units
  <2>5. QED
    BY <2>1, <2>2, <2>3, <2>4
<1> DEFINE c == DataCmd(n)
<1> HIDE DEF c
<1>8. /\ UNCHANGED <<sd_prog, sdRing, sdBuf, sdFailed, sdBefore>>
  BY <1>2 DEF sdPipeline, sdHistory
<1>9. CASE sdRes' # "OK"
  <2>1. UNCHANGED sdMem /\ sdUpc' = "reply"
    BY <1>2, <1>9 DEF SdData
  <2>2. SdProgTypeOK' /\ RP!Sound(sdRing)' /\ CopyBounded'
    BY <1>1, <1>4, <1>8, <2>1 DEF SdProgTypeOK, HostState, CopyBounded
  <2>3. ~Followed'
    BY <1>4, <1>9, <2>1 DEF Followed
  <2>4. QED
    BY <1>5, <2>2, <2>3 DEF SdProgInv
<1>10. CASE sdRes' = "OK"
  <2>1. /\ sdUpc' = "copy" /\ n <= sdMem.remaining
        /\ sdMem' = IF sdHost.seq = sdMem.seq THEN sdMem
                    ELSE [sdMem EXCEPT !.seq = sdHost.seq, !.cpy = c.units]
    <3>1. SdDataResult(c) = "OK"
      BY <1>3, <1>10 DEF SdData, c
    <3>2. Len(c.units) <= sdMem.remaining
      BY <1>1, <1>6, <1>7, <3>1 DEF SdDataResult, SdProgTypeOK, HostState, c
    <3>3. QED
      BY <1>3, <1>7, <1>10, <3>2 DEF SdData, c
  <2>2. /\ Followed /\ InStep /\ InRing /\ ~Ending /\ ~Ending'
    BY <1>4, <1>7 DEF SdProgInv, Followed, Ending, NoSdPacket
  <2>3. NotYet \/ TakenTo(n)
    BY <1>3, <1>7, <2>2 DEF InStep
  <2>4. sdMem'.remaining = sdMem.remaining /\ sdMem'.seq = sdHost.seq
    BY <1>1, <2>1 DEF SdProgTypeOK, HostState
  <2>5. Taken' = Taken /\ Taken = sdHost.size - sdMem.remaining
    BY <1>4, <2>2, <2>4 DEF Taken
  <2>6. SdProgTypeOK'
    <3>1. sdMem' \in [remaining : Nat, seq : Int, cpy : Seq(Datum)]
      <4>1. sdHost.seq \in Int /\ c.units \in Seq(Datum)
        BY <1>6, <1>7 DEF c
      <4>2. sdMem \in [remaining : Nat, seq : Int, cpy : Seq(Datum)]
        BY <1>1 DEF SdProgTypeOK, HostState
      <4>3. [sdMem EXCEPT !.seq = sdHost.seq, !.cpy = c.units]
              \in [remaining : Nat, seq : Int, cpy : Seq(Datum)]
        BY <4>1, <4>2
      <4>4. QED
        BY <2>1, <4>2, <4>3
    <3>2. QED
      BY <1>1, <1>4, <1>8, <2>1, <3>1 DEF SdProgTypeOK, HostState
  <2>7. CopyBounded'
    BY <1>1, <1>7, <2>1 DEF CopyBounded, SdProgTypeOK, HostState, c
  <2>8. Taken' + Len(sdMem'.cpy) = sdHost.sent + n
        /\ \A x \in 1 .. Len(sdMem'.cpy) : sdMem'.cpy[x] = <<sdHost.gen, Taken' + x - 1>>
    <3>1. CASE sdHost.seq = sdMem.seq
      <4>1. TakenTo(n) /\ sdMem' = sdMem
        BY <1>1, <1>6, <2>1, <2>3, <3>1 DEF NotYet, SdProgTypeOK, HostState
      <4>2. Len(sdMem'.cpy) = 0
        BY <1>4, <4>1
      <4>3. QED
        BY <1>6, <2>5, <4>1, <4>2 DEF TakenTo
    <3>2. CASE sdHost.seq # sdMem.seq
      <4>1. sdMem'.cpy = c.units /\ Taken' = sdHost.sent
        BY <1>1, <2>1, <2>3, <2>5, <3>2 DEF NotYet, TakenTo, SdProgTypeOK, HostState
      <4>2. QED
        BY <1>6, <1>7, <4>1 DEF c
    <3>3. QED
      BY <3>1, <3>2
  <2>9. InStep'
    <3>1. /\ sdHost'.phase = "data" /\ sdCmd'.op = "DATA" /\ sdPacket'.op = "none"
          /\ ~Idle' /\ Len(sdCmd'.units) = n /\ sdHost' = sdHost
      BY <1>4, <1>7, <2>1 DEF NoSdPacket, Idle
    <3>2. Taken' \in 0 .. sdHost.size
      BY <2>2, <2>5 DEF InStep
    <3>3. QED
      BY <2>2, <2>4, <2>8, <3>1, <3>2 DEF InStep
  <2>10. InRing' /\ (~sdFailed' => OnCard')
    BY <1>2, <1>4, <2>2, <2>5, <1>8, SamePipeline
  <2>11. QED
    BY <1>1, <1>5, <1>8, <2>6, <2>7, <2>9, <2>10 DEF SdProgInv
<1>11. QED
  BY <1>9, <1>10

(* The command of the copy loop.                                            *)
LEMMA CopyingIs ==
  ASSUME SdProgInv, sdUpc \in {"copy", "copy_wait"}
  PROVE  /\ sdCmd.op = "DATA" /\ sdHost.phase = "data" /\ sdPacket = NoSdPacket /\ ~Idle
         /\ Asked(sdCmd) /\ sdWaiting
         /\ \E n \in 1 .. Unsent : sdCmd = DataCmd(n)
<1>1. sdCmd # NoSdPacket /\ sdPacket = NoSdPacket /\ Asked(sdCmd) /\ ~Idle /\ sdWaiting
  BY DEF SdProgInv, InTurn, Idle
<1>2. sdCmd.op \in {"BEGIN", "DATA", "END"}
  BY <1>1, AskedIs DEF SdProgInv
<1>3. sdCmd.op = "DATA"
  BY <1>2 DEF SdProgInv, InTurn
<1>4. QED
  BY <1>1, <1>3, AskedIs DEF SdProgInv

(* sd_mem_cpy: the next units of the image, behind those in the ring.       *)
LEMMA SdCopyBlockKept == ASSUME SdProgInv, SdCopyBlock PROVE SdProgInv'
<1> DEFINE len == SdCopyLen
           t == sdRing.ctrl[sdRing.tail].buf_idx
           at == sdRing.ctrl[sdRing.tail].size
           last == sdMem.remaining = len
<1>1. /\ SdProgTypeOK /\ InTurn /\ CopyBounded /\ RP!Sound(sdRing)
  BY DEF SdProgInv
<1>2. /\ sdUpc = "copy" /\ sdMem.cpy # <<>> /\ RP!HasFreeBuf(sdRing)
      /\ UNCHANGED <<card, sdWaiting, sdHost>>
      /\ UNCHANGED <<sdUpc, sdCmd, sdRes, sd_prog, sdPacket, sdFailed, sdBefore>>
      /\ sdMem' = [sdMem EXCEPT !.remaining = @ - len, !.cpy = SubSeq(@, len + 1, Len(@))]
      /\ sdRing' = RP!Filled(sdRing, len, last)
      /\ sdBuf' = [sdBuf EXCEPT ![t] = [i \in DOMAIN @ |->
                     IF i \in at .. at + len - 1 THEN sdMem.cpy[i - at + 1] ELSE @[i]]]
  BY RingIs DEF SdCopyBlock, SdUart, SdUartUnchanged, sdHistory
<1>3. /\ sdCmd.op = "DATA" /\ sdHost.phase = "data" /\ sdPacket = NoSdPacket /\ ~Idle
  BY <1>2, CopyingIs
<1>4. /\ sdRing.tail \in RP!CtrlIdx /\ t \in RP!BufIdx
      /\ at \in 0 .. SdBlkSize - 1 /\ RP!Room(sdRing) = SdBlkSize - at
  <2>1. /\ sdRing.tail \in RP!CtrlIdx /\ sdRing.ctrl \in [RP!CtrlIdx -> RP!DataCtrl]
        /\ at < SdBlkSize
    BY <1>1 DEF RP!Sound, RP!Rings, RP!RestEmpty
  <2>2. sdRing.ctrl[sdRing.tail] \in RP!DataCtrl
    BY <2>1
  <2>3. QED
    BY <2>1, <2>2, SdProgAssumption DEF RP!DataCtrl, RP!Room
<1>5. /\ sdMem.cpy \in Seq(Datum) /\ sdMem.remaining \in Nat
      /\ Len(sdMem.cpy) \in Nat \ {0} /\ Len(sdMem.cpy) <= sdMem.remaining
  BY <1>1, <1>2 DEF SdProgTypeOK, HostState, CopyBounded
<1>6. len \in 1 .. RP!Room(sdRing) /\ len <= Len(sdMem.cpy)
  BY <1>4, <1>5, RingIs, SdProgAssumption DEF SdCopyLen
<1> HIDE DEF len, t, at
<1>7. /\ sdMem'.remaining = sdMem.remaining - len /\ sdMem'.seq = sdMem.seq
      /\ sdMem'.remaining \in Nat
      /\ sdMem'.cpy \in Seq(Datum) /\ Len(sdMem'.cpy) = Len(sdMem.cpy) - len
      /\ \A x \in 1 .. Len(sdMem'.cpy) : sdMem'.cpy[x] = sdMem.cpy[len + x]
  <2>1. sdMem'.cpy = SubSeq(sdMem.cpy, len + 1, Len(sdMem.cpy))
    BY <1>1, <1>2 DEF SdProgTypeOK, HostState
  <2>2. /\ sdMem'.remaining = sdMem.remaining - len /\ sdMem'.seq = sdMem.seq
        /\ sdMem'.remaining \in Nat
    BY <1>1, <1>2, <1>4, <1>5, <1>6 DEF SdProgTypeOK, HostState
  <2>3. len \in Nat /\ len + 1 \in Int
    BY <1>4, <1>6
  <2>4. /\ sdMem'.cpy \in Seq(Datum) /\ Len(sdMem'.cpy) = Len(sdMem.cpy) - len
    BY <1>5, <1>6, <2>1, <2>3
  <2>5. \A x \in 1 .. Len(sdMem'.cpy) : sdMem'.cpy[x] = sdMem.cpy[len + x]
    BY <1>5, <1>6, <2>1, <2>3, <2>4
  <2>6. QED
    BY <2>2, <2>4, <2>5
<1>8. /\ \A i \in RP!BufIdx : i # t => sdBuf'[i] = sdBuf[i]
      /\ \A x \in 0 .. at - 1 : sdBuf'[t][x] = sdBuf[t][x]
      /\ \A x \in 0 .. len - 1 : sdBuf'[t][at + x] = sdMem.cpy[x + 1]
      /\ sdBuf' \in [Ring!BufIdx -> [0 .. SdBlkSize - 1 -> Datum]]
  <2>1. sdBuf \in [RP!BufIdx -> [0 .. SdBlkSize - 1 -> Datum]]
    BY <1>1, RingIs DEF SdProgTypeOK, HostState
  <2> DEFINE new == [i \in 0 .. SdBlkSize - 1 |->
                       IF i \in at .. at + len - 1 THEN sdMem.cpy[i - at + 1] ELSE sdBuf[t][i]]
  <2>2. sdBuf' = [sdBuf EXCEPT ![t] = new]
    BY <1>2, <1>4, <2>1
  <2>3. \A x \in 1 .. len : sdMem.cpy[x] \in Datum
    BY <1>5, <1>6
  <2>4. new \in [0 .. SdBlkSize - 1 -> Datum]
    <3>1. ASSUME NEW i \in 0 .. SdBlkSize - 1
          PROVE  (IF i \in at .. at + len - 1 THEN sdMem.cpy[i - at + 1] ELSE sdBuf[t][i]) \in Datum
      <4>1. i \in at .. at + len - 1 => i - at + 1 \in 1 .. len
        BY <1>4, <1>6
      <4>2. sdBuf[t][i] \in Datum
        BY <1>4, <2>1
      <4>3. QED
        BY <2>3, <4>1, <4>2
    <3>2. QED
      BY <3>1
  <2>5. /\ \A x \in 0 .. at - 1 : new[x] = sdBuf[t][x]
        /\ \A x \in 0 .. len - 1 : new[at + x] = sdMem.cpy[x + 1]
    BY <1>4, <1>6, SdProgAssumption
  <2> HIDE DEF new
  <2>6. QED
    BY <1>4, <2>1, <2>2, <2>4, <2>5, RingIs
<1>9. SdProgTypeOK'
  <2>1. sdMem' \in [remaining : Nat, seq : Int, cpy : Seq(Datum)]
    BY <1>1, <1>2, <1>7 DEF SdProgTypeOK, HostState
  <2>2. QED
    BY <1>1, <1>2, <1>8, <2>1 DEF SdProgTypeOK, HostState
<1>10. RP!Sound(sdRing)'
  <2>1. last \in BOOLEAN
    OBVIOUS
  <2>2. QED
    BY <1>1, <1>2, <1>6, <2>1, RingIs, RP!FilledSound
<1>11. InTurn'
  BY <1>1, <1>2 DEF InTurn, Idle, Asked, BeginCmd, DataCmd, Unsent
<1>12. CopyBounded'
  BY <1>2, <1>4, <1>5, <1>6, <1>7 DEF CopyBounded
<1>13. Followed /\ InStep /\ InRing /\ (~sdFailed => OnCard)
  BY <1>2, <1>3 DEF SdProgInv, Followed
<1>14. /\ ~Ending /\ ~Ending' /\ Taken = sdHost.size - sdMem.remaining
       /\ Taken' = Taken + len /\ Taken \in Nat /\ sdHost.size \in Nat
       /\ Closed = FALSE /\ Closed' = last
  <2>1. ~Ending /\ ~Ending' /\ sdHost.size \in Nat
    BY <1>1, <1>2, <1>3 DEF Ending, SdProgTypeOK, HostState
  <2>2. /\ Taken = sdHost.size - sdMem.remaining
        /\ Taken' = sdHost.size - sdMem'.remaining /\ Taken \in Nat
    BY <1>2, <1>13, <2>1 DEF Taken, InStep
  <2>3. Taken' = Taken + len
    BY <1>4, <1>5, <1>6, <1>7, <2>1, <2>2
  <2>4. ~Closed
    BY <1>5, <2>1, <2>2 DEF Closed
  <2>5. Closed' <=> last
    BY <1>2, <1>4, <1>5, <1>6, <1>7, <2>1, <2>2 DEF Closed
  <2>6. Closed = FALSE
    BY <2>4 DEF Closed
  <2>7. Closed' = last
    BY <2>5, Zenon DEF Closed
  <2>8. QED
    BY <2>1, <2>2, <2>3, <2>6, <2>7
<1>15. InStep'
  <2>1. /\ sdMem.seq = sdHost.seq
        /\ Taken + Len(sdMem.cpy) = sdHost.sent + Len(sdCmd.units)
        /\ \A x \in 1 .. Len(sdMem.cpy) : sdMem.cpy[x] = <<sdHost.gen, Taken + x - 1>>
    BY <1>3, <1>13 DEF InStep
  <2>2. /\ sdMem'.seq = sdHost.seq
        /\ Taken' + Len(sdMem'.cpy) = sdHost.sent + Len(sdCmd.units)
    <3>1. Taken' + Len(sdMem'.cpy) = Taken + Len(sdMem.cpy)
      BY <1>4, <1>5, <1>6, <1>7, <1>14
    <3>2. QED
      BY <1>7, <2>1, <3>1
  <2>3. ASSUME NEW x \in 1 .. Len(sdMem'.cpy)
        PROVE  sdMem'.cpy[x] = <<sdHost.gen, Taken' + x - 1>>
    <3>1. len + x \in 1 .. Len(sdMem.cpy) /\ Taken + (len + x) - 1 = Taken' + x - 1
      BY <1>4, <1>5, <1>6, <1>7, <1>14
    <3>2. sdMem'.cpy[x] = sdMem.cpy[len + x]
      BY <1>7
    <3>3. QED
      BY <2>1, <3>1, <3>2
  <2>4. Taken' \in 0 .. sdHost.size
    BY <1>4, <1>5, <1>6, <1>14
  <2>5. QED
    BY <1>2, <1>3, <1>14, <2>2, <2>3, <2>4 DEF InStep, NoSdPacket, Ending, Idle
<1>16. InRing'
  <2>1. PICK P \in Nat : P = Programmed /\ P = Programmed'
    BY <1>1, <1>2, SdProgAssumption DEF Programmed, SdProgTypeOK, HostState
  <2>2. PICK n \in Int : n = Taken - P /\ Taken' - P = n + len /\ P + n = Taken
    BY <1>4, <1>6, <1>14
  <2>3. RP!Lined(sdRing, n, FALSE) /\ RP!Holds(sdRing, sdBuf, ImageUnits(sdHost.gen), P)
    BY <1>13, <1>14, <2>1, <2>2 DEF InRing
  <2>4. last \in BOOLEAN
    OBVIOUS
  <2>5. RP!Lined(sdRing', n + len, last)
    BY <1>1, <1>2, <1>6, <2>3, <2>4, RingIs, RP!FilledLined
  <2>6. ASSUME NEW x \in 0 .. len - 1
        PROVE  sdBuf'[t][at + x] = ImageUnits(sdHost.gen)[P + n + x]
    <3>1. sdBuf'[t][at + x] = <<sdHost.gen, Taken + (x + 1) - 1>>
      <4>1. x + 1 \in 1 .. Len(sdMem.cpy)
        BY <1>4, <1>5, <1>6
      <4>2. sdMem.cpy[x + 1] = <<sdHost.gen, Taken + (x + 1) - 1>>
        BY <1>3, <1>13, <4>1 DEF InStep
      <4>3. QED
        BY <1>8, <4>2
    <3>2. P + n + x \in Nat /\ Taken + (x + 1) - 1 = P + n + x
      BY <1>14, <2>2
    <3>3. QED
      BY <3>1, <3>2 DEF ImageUnits
  <2>7. RP!Holds(sdRing', sdBuf', ImageUnits(sdHost.gen), P)
    <3>1. RP!Appended(sdRing, sdBuf, sdBuf', len, ImageUnits(sdHost.gen), P + n)
      BY <1>8, <2>6 DEF RP!Appended, t, at
    <3>2. RP!Holds(RP!Filled(sdRing, len, last), sdBuf', ImageUnits(sdHost.gen), P)
      BY <1>1, <1>2, <1>6, <2>3, <2>4, <3>1, RingIs, RP!FilledHolds
    <3>3. QED
      BY <1>2, <3>2
  <2>8. RP!Lined(sdRing', Taken' - Programmed', Closed')
    BY <1>14, <2>1, <2>2, <2>5
  <2>9. QED
    BY <1>2, <1>13, <2>1, <2>7, <2>8 DEF InRing
<1>17. ~sdFailed' => OnCard'
  BY <1>2, <1>13 DEF OnCard
<1>18. QED
  BY <1>9, <1>10, <1>11, <1>12, <1>15, <1>16, <1>17 DEF SdProgInv

(* The command that is waited for at SD_END.                                *)
LEMMA EndingIs ==
  ASSUME SdProgInv, sdUpc \in {"end", "end_wait"}
  PROVE  /\ sdCmd.op = "END" /\ sdHost.phase = "data" /\ sdPacket = NoSdPacket /\ ~Idle
<1>1. sdCmd # NoSdPacket /\ sdPacket = NoSdPacket /\ Asked(sdCmd) /\ ~Idle
  BY DEF SdProgInv, InTurn, Idle
<1>2. sdCmd.op \in {"BEGIN", "DATA", "END"}
  BY <1>1, AskedIs DEF SdProgInv
<1>3. sdCmd.op = "END"
  BY <1>2 DEF SdProgInv, InTurn
<1>4. QED
  BY <1>1, <1>3, AskedIs DEF SdProgInv

(* The loops of SD_DATA and SD_END wait, turn, and are left when there is   *)
(* nothing to copy, and no block to be programmed.                          *)
LEMMA LoopKept ==
  ASSUME SdProgInv, sdUpc \in {"copy", "copy_wait", "end", "end_wait"},
         UNCHANGED <<sdCmd, sdRes, sdMem, sdPipeline, card, sdOutside, sdFailed, sdBefore>>,
         sdUpc \in {"copy", "copy_wait"} =>
           sdUpc' \in {"copy", "copy_wait"} \/ (sdUpc' = "reply" /\ sdMem.cpy = <<>>),
         sdUpc \in {"end", "end_wait"} =>
           sdUpc' \in {"end", "end_wait"} \/ (sdUpc' = "reply" /\ ~RP!InProcess(sdRing))
  PROVE  SdProgInv'
<1>1. /\ SdProgTypeOK /\ InTurn /\ CopyBounded /\ RP!Sound(sdRing)
  BY DEF SdProgInv
<1>2. /\ UNCHANGED <<sdCmd, sdRes, sdMem, card, sdFailed, sdBefore>>
      /\ UNCHANGED <<sd_prog, sdRing, sdBuf, sdPacket, sdWaiting, sdHost>>
  BY DEF sdPipeline, sdOutside
<1>3. sdHost.phase = "data" /\ sdPacket = NoSdPacket /\ ~Idle /\ sdCmd.op \in {"DATA", "END"}
  BY CopyingIs, EndingIs
<1>4. /\ sdCmd.op = "DATA" => sdUpc \in {"copy", "copy_wait"}
      /\ sdCmd.op = "END" => sdUpc \in {"end", "end_wait"}
  BY <1>1 DEF InTurn
<1>5. SdProgTypeOK' /\ RP!Sound(sdRing)'
  BY <1>1, <1>2 DEF SdProgTypeOK, HostState
<1>6. InTurn'
  <2>1. /\ sdUpc' # "rx" /\ sdUpc # "rx"
        /\ sdCmd.op = "DATA" => sdUpc' \in {"copy", "copy_wait", "reply"}
        /\ sdCmd.op = "END" => sdUpc' \in {"end", "end_wait", "reply"}
    BY <1>4
  <2>2. QED
    BY <1>1, <1>2, <1>3, <2>1 DEF InTurn, Idle, Asked, BeginCmd, DataCmd, Unsent
<1>7. CopyBounded'
  BY <1>1, <1>2 DEF CopyBounded
<1>8. Followed /\ InStep /\ InRing
  BY <1>3 DEF SdProgInv, Followed
<1>9. Taken' = Taken
  BY <1>2 DEF Taken, Ending
<1>10. InStep'
  <2>1. /\ sdCmd'.op = "END" /\ sdUpc' = "reply" => ~RP!InProcess(sdRing')
        /\ sdHost'.phase = "data" /\ ~Idle'
    BY <1>2, <1>3, <1>4 DEF Idle
  <2>2. QED
    BY <1>2, <1>3, <1>8, <1>9, <2>1 DEF InStep, Ending, NotYet, TakenTo, NoSdPacket
<1>11. InRing' /\ (~sdFailed' => OnCard')
  BY <1>2, <1>8, <1>9, SamePipeline
<1>12. QED
  BY <1>5, <1>6, <1>7, <1>10, <1>11 DEF SdProgInv

(* Each turn of the two loops.                                              *)
LEMMA TurnsKept ==
  ASSUME SdProgInv,
         \/ SdCopyTest \/ SdEndTest
         \/ SdLoopAgain("copy_wait", "copy") \/ SdLoopAgain("end_wait", "end")
  PROVE  SdProgInv'
<1>1. CASE SdCopyTest
  BY <1>1, LoopKept DEF SdCopyTest, SdUart, SdUartUnchanged, sdOutside, sdHistory
<1>2. CASE SdEndTest
  BY <1>2, LoopKept, RingIs DEF SdEndTest, SdEndWaits, SdUart, SdUartUnchanged, sdOutside, sdHistory
<1>3. CASE SdLoopAgain("copy_wait", "copy")
  BY <1>3, LoopKept DEF SdLoopAgain, SdUart, SdUartUnchanged, sdOutside, sdHistory
<1>4. CASE SdLoopAgain("end_wait", "end")
  BY <1>4, LoopKept DEF SdLoopAgain, SdUart, SdUartUnchanged, sdOutside, sdHistory
<1>5. QED
  BY <1>1, <1>2, <1>3, <1>4

(* SD_END: the whole image has been taken.                                  *)
LEMMA SdEndKept == ASSUME SdProgInv, SdEnd PROVE SdProgInv'
<1>1. SdProgTypeOK /\ RP!Sound(sdRing) /\ CopyBounded
  BY DEF SdProgInv
<1>2. /\ SdReceive("END") /\ UNCHANGED <<sdPipeline, sdHistory>>
      /\ sdRes' = (IF sdMem.remaining > 0 THEN "NOT_ENOUGH_DATA" ELSE "OK")
      /\ sdMem' = [sdMem EXCEPT !.remaining = 1]
      /\ sdUpc' = IF sdRes' = "OK" THEN "end" ELSE "reply"
  BY DEF SdEnd
<1>3. /\ sdUpc = "rx" /\ sdPacket = EndCmd /\ sdHost.phase = "data" /\ Unsent = 0
      /\ sdCmd = NoSdPacket /\ sdCmd' = EndCmd /\ sdPacket' = NoSdPacket /\ ~Idle
      /\ UNCHANGED <<sdWaiting, sdHost, card>> /\ sdMem.cpy = <<>>
  BY <1>1, <1>2, ReceivedIs, AskedIs
<1>4. InTurn'
  BY <1>2, ReceivedInTurn
<1>5. /\ UNCHANGED <<sd_prog, sdRing, sdBuf, sdFailed, sdBefore>>
  BY <1>2 DEF sdPipeline, sdHistory
<1>6. Followed /\ InStep /\ ~Ending /\ Ending'
  BY <1>3 DEF SdProgInv, Followed, Ending, NoSdPacket, EndCmd
<1>7. sdMem.remaining = 0 /\ Taken = sdHost.size /\ sdHost.sent = sdHost.size
  <2>1. NotYet
    BY <1>3, <1>6 DEF InStep, EndCmd
  <2>2. sdHost.sent = sdHost.size
    BY <1>1, <1>3 DEF Unsent, SdProgTypeOK, HostState
  <2>3. QED
    BY <1>1, <1>6, <2>1, <2>2 DEF NotYet, Taken, SdProgTypeOK, HostState
<1>8. Taken' = Taken
  BY <1>3, <1>6, <1>7 DEF Taken
<1>9. SdProgTypeOK'
  <2>1. sdMem' \in [remaining : Nat, seq : Int, cpy : Seq(Datum)]
    BY <1>1, <1>2 DEF SdProgTypeOK, HostState
  <2>2. QED
    BY <1>1, <1>2, <1>3, <1>5, <2>1 DEF SdProgTypeOK, HostState
<1>10. CopyBounded'
  <2>1. sdMem'.cpy = <<>> /\ sdMem'.remaining = 1
    BY <1>1, <1>2, <1>3 DEF SdProgTypeOK, HostState
  <2>2. QED
    BY <2>1 DEF CopyBounded
<1>11. InStep'
  <2>1. /\ sdCmd'.op = "END" /\ sdPacket'.op = "none" /\ ~Idle' /\ sdUpc' = "end"
        /\ sdHost'.phase = "data" /\ sdHost' = sdHost
    BY <1>2, <1>3, <1>7 DEF Idle, NoSdPacket, EndCmd
  <2>2. Taken' \in 0 .. sdHost.size
    BY <1>1, <1>7, <1>8 DEF SdProgTypeOK, HostState
  <2>3. QED
    BY <1>7, <2>1, <2>2 DEF InStep
<1>12. InRing' /\ (~sdFailed' => OnCard')
  BY <1>2, <1>3, <1>5, <1>6, <1>8, SamePipeline
<1>13. QED
  BY <1>1, <1>4, <1>5, <1>9, <1>10, <1>11, <1>12 DEF SdProgInv

(* The answer: the host goes on, sends the packet again, or stops.          *)
LEMMA SdReplyKept == ASSUME SdProgInv, SdReply PROVE SdProgInv'
<1>1. SdProgTypeOK /\ RP!Sound(sdRing) /\ CopyBounded /\ InTurn
  BY DEF SdProgInv
<1>2. /\ sdUpc = "reply" /\ sdWaiting' = FALSE /\ sdUpc' = "rx" /\ sdCmd' = NoSdPacket
      /\ UNCHANGED <<sdRes, sdMem, sdPipeline, card, sdPacket, sdFailed, sdBefore>>
      /\ UNCHANGED <<sd_prog, sdRing, sdBuf>>
  BY DEF SdReply, SdUart, sdHistory, sdPipeline
<1>3. /\ sdCmd # NoSdPacket /\ sdPacket = NoSdPacket /\ Asked(sdCmd) /\ Idle'
      /\ sdMem.cpy = <<>>
  BY <1>1, <1>2 DEF InTurn, CopyBounded, Idle
<1>4. /\ sdHost.phase \in {"begin", "data"} /\ sdCmd.op \in {"BEGIN", "DATA", "END"}
      /\ sdCmd.op = "BEGIN" => sdHost.phase = "begin"
      /\ sdCmd.op \in {"DATA", "END"} => sdHost.phase = "data"
  BY <1>1, <1>3, AskedIs
<1>5. CopyBounded' /\ RP!Sound(sdRing)'
  BY <1>1, <1>2, <1>3 DEF CopyBounded, SdProgTypeOK, HostState
<1>6. ASSUME sdHost' \in HostState,
             sdHost'.sent <= sdHost'.size
      PROVE  SdProgTypeOK'
  BY <1>1, <1>2, <1>6 DEF SdProgTypeOK, HostState
<1>7. ASSUME sdHost'.phase \in {"data", "done", "stopped"}
      PROVE  InTurn'
  BY <1>1, <1>2, <1>3, <1>7 DEF InTurn, NoSdPacket
<1>8. ASSUME sdRes = "OK"
      PROVE  Followed /\ InStep /\ InRing /\ (~sdFailed => OnCard) /\ sdHost.phase # "done"
  BY <1>3, <1>4, <1>8 DEF SdProgInv, Followed
<1>9. CASE sdHost' = [sdHost EXCEPT !.phase = "stopped"]
  <2>1. SdProgTypeOK' /\ sdHost'.phase = "stopped"
    BY <1>1, <1>6, <1>9 DEF SdProgTypeOK, HostState
  <2>2. ~Followed'
    BY <2>1 DEF Followed
  <2>3. QED
    BY <1>5, <1>7, <2>1, <2>2 DEF SdProgInv
<1>10. CASE sdRes = "OK" /\ sdCmd.op = "BEGIN" /\ sdHost' = SdAccepted
  <2>1. sdHost' = [sdHost EXCEPT !.phase = "data"]
    BY <1>1, <1>10 DEF SdAccepted, SdProgTypeOK, HostState
  <2>2. SdProgTypeOK' /\ sdHost'.phase = "data"
    BY <1>1, <1>6, <2>1 DEF SdProgTypeOK, HostState
  <2>3. /\ sdHost'.size = sdHost.size /\ sdHost'.sent = sdHost.sent /\ sdHost'.seq = sdHost.seq
        /\ sdHost'.offset = sdHost.offset /\ sdHost'.gen = sdHost.gen
    BY <1>1, <2>1 DEF SdProgTypeOK, HostState
  <2>4. Taken' = Taken /\ ~Ending'
    BY <1>2, <1>8, <1>10, <2>2, <2>3 DEF Taken, Ending, NoSdPacket
  <2>5. NotYet'
    BY <1>2, <1>8, <1>10, <2>3, <2>4 DEF InStep, NotYet
  <2>6. InStep'
    BY <1>2, <1>3, <1>8, <1>10, <2>2, <2>3, <2>4, <2>5 DEF InStep, NoSdPacket
  <2>7. InRing' /\ (~sdFailed' => OnCard')
    BY <1>2, <1>8, <1>10, <2>3, <2>4, SamePipeline
  <2>8. QED
    BY <1>5, <1>7, <2>2, <2>6, <2>7 DEF SdProgInv
<1>11. CASE sdRes = "OK" /\ sdCmd.op = "END" /\ sdHost' = SdAccepted
  <2>1. sdHost' = [sdHost EXCEPT !.phase = "done"]
    BY <1>1, <1>11 DEF SdAccepted, SdProgTypeOK, HostState
  <2>2. SdProgTypeOK' /\ sdHost'.phase = "done"
    BY <1>1, <1>6, <2>1 DEF SdProgTypeOK, HostState
  <2>3. /\ sdHost'.size = sdHost.size /\ sdHost'.sent = sdHost.sent
        /\ sdHost'.offset = sdHost.offset /\ sdHost'.gen = sdHost.gen
    BY <1>1, <2>1 DEF SdProgTypeOK, HostState
  <2>4. Taken' = Taken /\ Ending /\ Ending'
    BY <1>2, <1>11, <2>2, <2>3 DEF Taken, Ending
  <2>5. sdHost.sent = sdHost.size /\ ~RP!InProcess(sdRing)
    BY <1>2, <1>8, <1>11, <2>4 DEF InStep
  <2>6. InStep'
    BY <1>2, <1>3, <1>8, <1>11, <2>2, <2>3, <2>4, <2>5 DEF InStep, NoSdPacket
  <2>7. InRing' /\ (~sdFailed' => OnCard')
    BY <1>2, <1>8, <1>11, <2>3, <2>4, SamePipeline
  <2>8. QED
    BY <1>5, <1>7, <2>2, <2>6, <2>7 DEF SdProgInv
<1>12. CASE sdRes = "OK" /\ sdCmd.op = "DATA" /\ sdHost' \in
              {SdAccepted, [sdHost EXCEPT !.phase = "resend", !.resends = @ + 1, !.last = sdCmd]}
  <2>1. PICK n \in 1 .. Unsent : sdCmd = DataCmd(n)
    BY <1>1, <1>3, <1>12, AskedIs
  <2>2. /\ n \in Nat /\ sdHost.gen \in Nat /\ sdHost.sent \in Nat /\ sdHost.seq \in Nat
        /\ sdHost.size \in Nat /\ sdHost.sent + n <= sdHost.size
    BY <1>1 DEF SdProgTypeOK, HostState, Unsent
  <2>3. sdCmd.units = Units(sdHost.gen, sdHost.sent, n) /\ sdCmd.seq = sdHost.seq
    BY <2>1 DEF DataCmd
  <2>4. Len(sdCmd.units) = n /\ sdCmd \in [op : {"DATA"}, seq : Nat, units : Seq(Datum)]
    <3>1. Units(sdHost.gen, sdHost.sent, n) \in Seq(Datum)
          /\ Len(Units(sdHost.gen, sdHost.sent, n)) = n
      BY <2>2, UnitsAre
    <3>2. QED
      BY <2>1, <2>2, <2>3, <3>1 DEF DataCmd
  <2>5. /\ sdHost.phase = "data" /\ ~Ending
    BY <1>4, <1>12 DEF Ending
  <2>6. TakenTo(n) /\ Taken = sdHost.size - sdMem.remaining
    <3>1. Taken \in Nat /\ sdMem.seq = sdHost.seq /\ Taken + Len(sdMem.cpy) = sdHost.sent + n
      BY <1>8, <1>12, <2>4 DEF InStep
    <3>2. QED
      BY <1>3, <2>2, <2>5, <3>1 DEF TakenTo, Taken
  <2>7. CASE sdHost' = SdAccepted
    <3>1. sdHost' = [sdHost EXCEPT !.phase = "data", !.sent = sdHost.sent + n, !.seq = sdHost.seq + 1]
      BY <1>1, <1>12, <2>4, <2>7 DEF SdAccepted, SdProgTypeOK, HostState
    <3>2. SdProgTypeOK' /\ sdHost'.phase = "data"
      <4>1. sdHost \in HostState
        BY <1>1 DEF SdProgTypeOK
      <4>2. sdHost.sent + n \in Nat /\ sdHost.seq + 1 \in Nat
        BY <2>2
      <4>3. /\ sdHost' \in HostState /\ sdHost'.phase = "data"
            /\ sdHost'.sent = sdHost.sent + n /\ sdHost'.size = sdHost.size
        BY <3>1, <4>1, <4>2 DEF HostState
      <4>4. QED
        BY <1>6, <2>2, <4>3
    <3>3. /\ sdHost'.size = sdHost.size /\ sdHost'.sent = sdHost.sent + n
          /\ sdHost'.offset = sdHost.offset /\ sdHost'.gen = sdHost.gen
          /\ sdHost'.seq = sdHost.seq + 1
      BY <1>1, <3>1 DEF SdProgTypeOK, HostState
    <3>4. Taken' = Taken /\ ~Ending'
      BY <1>2, <2>6, <3>2, <3>3 DEF Taken, Ending, NoSdPacket
    <3>5. NotYet'
      BY <1>1, <1>2, <2>2, <2>6, <3>3, <3>4 DEF NotYet, TakenTo, SdProgTypeOK, HostState
    <3>6. InStep'
      BY <1>2, <1>3, <1>8, <1>12, <3>2, <3>3, <3>4, <3>5 DEF InStep, NoSdPacket
    <3>7. InRing' /\ (~sdFailed' => OnCard')
      BY <1>2, <1>8, <1>12, <3>3, <3>4, SamePipeline
    <3>8. QED
      BY <1>5, <1>7, <3>2, <3>6, <3>7 DEF SdProgInv
  <2>8. CASE sdHost' = [sdHost EXCEPT !.phase = "resend", !.resends = @ + 1, !.last = sdCmd]
    <3>1. SdProgTypeOK' /\ sdHost'.phase = "resend" /\ sdHost'.last = sdCmd
      <4>1. sdHost \in HostState
        BY <1>1 DEF SdProgTypeOK
      <4>2. /\ sdHost' \in HostState /\ sdHost'.phase = "resend" /\ sdHost'.last = sdCmd
            /\ sdHost'.sent = sdHost.sent /\ sdHost'.size = sdHost.size
        <5>1. sdCmd \in LastPacket
          BY <2>4 DEF LastPacket
        <5>2. sdHost' = [phase |-> "resend", gen |-> sdHost.gen, offset |-> sdHost.offset,
                         size |-> sdHost.size, sent |-> sdHost.sent, seq |-> sdHost.seq,
                         last |-> sdCmd, resends |-> sdHost.resends + 1]
          BY <2>8, <4>1 DEF HostState
        <5>3. sdHost.resends + 1 \in Nat
          BY <4>1 DEF HostState
        <5>4. QED
          BY <4>1, <5>1, <5>2, <5>3 DEF HostState
      <4>3. QED
        BY <1>6, <2>2, <4>2
    <3>2. /\ sdHost'.size = sdHost.size /\ sdHost'.sent = sdHost.sent
          /\ sdHost'.offset = sdHost.offset /\ sdHost'.gen = sdHost.gen
          /\ sdHost'.seq = sdHost.seq
      BY <1>1, <2>8 DEF SdProgTypeOK, HostState
    <3>3. Taken' = Taken /\ ~Ending'
      BY <1>2, <2>6, <3>1, <3>2 DEF Taken, Ending, NoSdPacket
    <3>4. InTurn'
      <4>1. n \in 1 .. Unsent' /\ sdHost'.last = DataCmd(n)'
        BY <2>1, <3>1, <3>2 DEF Unsent, DataCmd
      <4>2. QED
        BY <1>1, <1>2, <1>3, <3>1, <4>1 DEF InTurn, NoSdPacket
    <3>5. InStep'
      <4>1. TakenTo(Len(sdHost.last.units))'
        BY <1>2, <2>4, <2>6, <3>1, <3>2, <3>3 DEF TakenTo
      <4>2. QED
        BY <1>2, <1>3, <1>8, <1>12, <3>1, <3>2, <3>3, <4>1 DEF InStep, NoSdPacket
    <3>6. InRing' /\ (~sdFailed' => OnCard')
      BY <1>2, <1>8, <1>12, <3>2, <3>3, SamePipeline
    <3>7. QED
      BY <1>5, <3>1, <3>4, <3>5, <3>6 DEF SdProgInv
  <2>9. QED
    BY <1>12, <2>7, <2>8
<1>13. QED
  BY <1>4, <1>9, <1>10, <1>11, <1>12 DEF SdReply

(* A command that is sent: the host waits for the answer.                   *)
LEMMA SentInTurn ==
  ASSUME SdProgInv, NEW c, SdSend(c), c # NoSdPacket,
         sdHost'.phase \in {"begin", "data"},
         sdHost'.phase = "begin" => sdHost'.sent = 0 /\ sdHost'.seq = 0,
         \/ sdHost'.phase = "begin" /\ c = BeginCmd'
         \/ sdHost'.phase = "data" /\ \E n \in 1 .. Unsent' : c = DataCmd(n)'
         \/ sdHost'.phase = "data" /\ Unsent' = 0 /\ c = EndCmd
  PROVE  /\ Idle /\ ~Idle' /\ sdUpc = "rx" /\ sdPacket' = c /\ sdCmd = NoSdPacket
         /\ UNCHANGED <<sdUpc, sdCmd, sdRes, sdMem, sd_prog, sdRing, sdBuf, card, sdFailed, sdBefore>>
         /\ UNCHANGED sdPipeline
         /\ InTurn' /\ CopyBounded' /\ RP!Sound(sdRing)'
         /\ (sdHost' \in HostState /\ sdHost'.sent <= sdHost'.size => SdProgTypeOK')
<1>1. /\ sdWaiting' = TRUE /\ ~sdWaiting /\ sdPacket' = c
      /\ UNCHANGED <<sdUpc, sdCmd, sdRes, sdMem, sd_prog, sdRing, sdBuf, card, sdFailed, sdBefore>>
      /\ UNCHANGED sdPipeline
  BY DEF SdSend, sdLoader, sdPipeline, sdHistory
<1>2. Idle /\ sdUpc = "rx" /\ sdCmd = NoSdPacket /\ ~Idle'
  BY <1>1 DEF SdProgInv, InTurn, Idle
<1>3. InTurn'
  <2>1. Asked(c)'
    BY DEF Asked, BeginCmd, DataCmd, Unsent, EndCmd
  <2>2. Asked(sdPacket)' /\ sdCmd' = NoSdPacket /\ sdUpc' = "rx" /\ sdPacket' # NoSdPacket
    BY <1>1, <1>2, <2>1 DEF Asked, BeginCmd, DataCmd, Unsent, EndCmd
  <2>3. QED
    BY <1>1, <1>2, <2>2 DEF InTurn, NoSdPacket
<1>4. CopyBounded' /\ RP!Sound(sdRing)'
  BY <1>1 DEF SdProgInv, CopyBounded
<1>5. sdHost' \in HostState /\ sdHost'.sent <= sdHost'.size => SdProgTypeOK'
  BY <1>1 DEF SdProgInv, SdProgTypeOK
<1>6. QED
  BY <1>1, <1>2, <1>3, <1>4, <1>5

(* The host begins an image: what it knew of the last one is over.          *)
LEMMA SendBeginKept ==
  ASSUME SdProgInv, NEW r \in SdImages, SdSendBegin(r) PROVE SdProgInv'
<1>1. sdHost \in HostState /\ r \in [offset : Nat, size : Nat]
  BY SdProgAssumption DEF SdProgInv, SdProgTypeOK
<1> DEFINE c == [op |-> "BEGIN", offset |-> r.offset, size |-> r.size]
<1>2. /\ SdSend(c)
      /\ sdHost' = [sdHost EXCEPT !.phase = "begin", !.gen = @ + 1, !.last = NoSdPacket,
                              !.offset = r.offset, !.size = r.size, !.sent = 0, !.seq = 0]
  BY DEF SdSendBegin
<1>3. /\ sdHost' \in HostState /\ sdHost'.phase = "begin" /\ sdHost'.sent = 0 /\ sdHost'.seq = 0
      /\ sdHost'.offset = r.offset /\ sdHost'.size = r.size
  <2>1. NoSdPacket \in LastPacket
    BY DEF LastPacket
  <2>2. sdHost' = [phase |-> "begin", gen |-> sdHost.gen + 1, offset |-> r.offset,
                   size |-> r.size, sent |-> 0, seq |-> 0,
                   last |-> NoSdPacket, resends |-> sdHost.resends]
    BY <1>1, <1>2 DEF HostState
  <2>3. sdHost.gen + 1 \in Nat /\ sdHost.resends \in Nat
    BY <1>1 DEF HostState
  <2>4. QED
    BY <1>1, <2>1, <2>2, <2>3 DEF HostState
<1>4. c = BeginCmd' /\ c # NoSdPacket
  BY <1>3 DEF BeginCmd, NoSdPacket
<1> HIDE DEF c
<1>5. /\ InTurn' /\ CopyBounded' /\ RP!Sound(sdRing)' /\ SdProgTypeOK'
      /\ sdCmd' = NoSdPacket
  BY <1>1, <1>2, <1>3, <1>4, SentInTurn
<1>6. ~Followed'
  BY <1>3, <1>5 DEF Followed
<1>7. QED
  BY <1>5, <1>6 DEF SdProgInv

(* What the host sends of the image it is writing: a new packet, the last   *)
(* one again, or the end.                                                   *)
LEMMA SendKept ==
  ASSUME SdProgInv, NEW c, SdSend(c), sdHost' \in HostState, sdHost'.phase = "data",
         sdHost.phase \in {"data", "resend"},
         sdHost'.size = sdHost.size, sdHost'.sent = sdHost.sent, sdHost'.seq = sdHost.seq,
         sdHost'.offset = sdHost.offset, sdHost'.gen = sdHost.gen,
         \/ sdHost.phase = "data" /\ Unsent = 0 /\ c = EndCmd
         \/ /\ \E n \in 1 .. Unsent : c = DataCmd(n)
            /\ sdHost.phase = "resend" => c = sdHost.last
  PROVE  SdProgInv'
<1>1. SdProgTypeOK
  BY DEF SdProgInv
<1>2. /\ Unsent' = Unsent /\ \A n : DataCmd(n)' = DataCmd(n)
      /\ c.op \in {"DATA", "END"} /\ c # NoSdPacket
  BY DEF Unsent, DataCmd, EndCmd, NoSdPacket
<1>3. /\ Idle /\ ~Idle' /\ sdUpc = "rx" /\ sdPacket' = c /\ sdCmd = NoSdPacket
      /\ UNCHANGED <<sdUpc, sdCmd, sdRes, sdMem, sd_prog, sdRing, sdBuf, card, sdFailed, sdBefore>>
      /\ UNCHANGED sdPipeline
      /\ InTurn' /\ CopyBounded' /\ RP!Sound(sdRing)'
      /\ (sdHost' \in HostState /\ sdHost'.sent <= sdHost'.size => SdProgTypeOK')
  BY <1>2, SentInTurn
<1>4. SdProgTypeOK'
  BY <1>1, <1>3 DEF SdProgTypeOK
<1>5. Followed /\ InStep
  BY <1>3 DEF SdProgInv, Followed
<1>6. /\ ~Ending /\ ~Ending' /\ Taken' = Taken
      /\ (NotYet <=> NotYet') /\ \A n : TakenTo(n) <=> TakenTo(n)'
  BY <1>3 DEF Ending, Taken, NotYet, TakenTo, NoSdPacket
<1>7. sdHost.phase = "data" => NotYet
  BY <1>3, <1>5 DEF InStep
<1>8. sdHost.phase = "resend" => TakenTo(Len(c.units)) /\ c.op # "END"
  BY <1>5 DEF InStep, DataCmd
<1>9. InStep'
  <2>1. /\ sdCmd'.op = "none" /\ sdHost'.phase = "data" /\ ~Idle' /\ ~Ending'
        /\ Taken' \in 0 .. sdHost'.size
    BY <1>3, <1>5, <1>6 DEF InStep, NoSdPacket
  <2>2. /\ sdPacket'.op = "END" => NotYet'
        /\ sdPacket'.op = "DATA" => NotYet' \/ TakenTo(Len(sdPacket.units))'
    BY <1>2, <1>3, <1>6, <1>7, <1>8 DEF TakenTo
  <2>3. QED
    BY <2>1, <2>2 DEF InStep
<1>10. InRing' /\ (~sdFailed' => OnCard')
  BY <1>3, <1>5, <1>6, SamePipeline
<1>11. QED
  BY <1>3, <1>4, <1>9, <1>10 DEF SdProgInv

(* Each of the three.                                                       *)
LEMMA SendsKept ==
  ASSUME SdProgInv, (\E len \in SdPackets : SdSendData(len)) \/ SdSendAgain \/ SdSendEnd
  PROVE  SdProgInv'
<1>1. sdHost \in HostState /\ sdHost.sent <= sdHost.size /\ InTurn
  BY DEF SdProgInv, SdProgTypeOK
<1>2. ASSUME NEW len \in SdPackets, SdSendData(len) PROVE SdProgInv'
  <2>1. /\ SdSend(DataCmd(len)) /\ sdHost' = sdHost /\ sdHost.phase = "data"
    BY <1>2 DEF SdSendData, DataCmd, Units
  <2>2. len \in 1 .. Unsent
    BY <1>1, <1>2, SdProgAssumption DEF SdSendData, HostState, Unsent
  <2>3. QED
    BY <1>1, <2>1, <2>2, SendKept
<1>3. CASE SdSendAgain
  <2>1. /\ SdSend(sdHost.last) /\ sdHost.phase = "resend"
        /\ sdHost' = [sdHost EXCEPT !.phase = "data", !.last = NoSdPacket]
    BY <1>3 DEF SdSendAgain
  <2>2. \E n \in 1 .. Unsent : sdHost.last = DataCmd(n)
    BY <1>1, <2>1 DEF InTurn
  <2>3. /\ sdHost' \in HostState /\ sdHost'.phase = "data"
        /\ sdHost'.size = sdHost.size /\ sdHost'.sent = sdHost.sent /\ sdHost'.seq = sdHost.seq
        /\ sdHost'.offset = sdHost.offset /\ sdHost'.gen = sdHost.gen
    BY <1>1, <2>1 DEF HostState, LastPacket
  <2>4. QED
    BY <2>1, <2>2, <2>3, SendKept
<1>4. CASE SdSendEnd
  <2>1. SdSend(EndCmd) /\ sdHost' = sdHost /\ sdHost.phase = "data" /\ Unsent = 0
    BY <1>1, <1>4 DEF SdSendEnd, EndCmd, Unsent, HostState
  <2>2. QED
    BY <1>1, <2>1, SendKept
<1>5. QED
  BY <1>2, <1>3, <1>4

-----------------------------------------------------------------------------
(* The sectors of a block: all of a full one's, and enough for the last.    *)
LEMMA BlockSectors ==
  ASSUME NEW n \in Nat \ {0}, NEW size, size = IF n < SdBlkSize THEN n ELSE SdBlkSize
  PROVE  LET m == Sectors(size) * SdSectorSize
         IN  /\ size \in Nat /\ Sectors(size) \in Nat /\ m \in 0 .. SdBlkSize
             /\ m = SdBlkSize \/ n <= m
             /\ m < size + SdSectorSize
             /\ \A j \in 0 .. m - 1 : j < n => j < size
<1>1. PICK N \in Nat \ {0}, B \in Nat \ {0} : N = SdSectorSize /\ B = SdBlkSize /\ (B % N) = 0
  BY SdProgAssumption
<1>2. PICK q \in Nat : B = q * N
  <2>1. (B \div N) \in Nat /\ B = (B \div N) * N + (B % N)
    BY <1>1, DivIs
  <2>2. (B \div N) * N \in Nat
    BY <1>1, <2>1, Multiples
  <2>3. B = (B \div N) * N
    BY <1>1, <2>1, <2>2
  <2>4. QED
    BY <2>1, <2>3, Zenon
<1>3. size \in Nat /\ size <= B /\ size <= n
  BY <1>1
<1>4. PICK k \in Nat : k = Sectors(size) /\ size <= k * N /\ k * N < size + N
  BY <1>1, <1>3, SectorsIs
<1>5. k * N \in Nat /\ k * N <= B
  <2>1. ~(q < k)
    <3>1. q < k => q * N + N <= k * N
      BY <1>1, <1>4, Multiples
    <3>2. QED
      BY <1>1, <1>2, <1>3, <1>4, <3>1
  <2>2. k < q => k * N + N <= q * N
    BY <1>1, <1>4, Multiples
  <2>3. k * N \in Nat
    BY <1>1, <1>4, Multiples
  <2>4. k < q \/ k = q
    BY <1>2, <1>4, <2>1
  <2>5. QED
    BY <1>1, <1>2, <2>2, <2>3, <2>4
<1>6. QED
  BY <1>1, <1>3, <1>4, <1>5

(* sd_prog_process: the oldest block goes to the sectors that follow those  *)
(* already programmed.                                                      *)
LEMMA SdProgramKept == ASSUME SdProgInv, SdProgram PROVE SdProgInv'
<1> DEFINE slot == sdRing.ctrl[sdRing.head]
           n == Sectors(slot.size)
           addr == sd_prog.offset + sd_prog.cnt
<1>1. /\ SdProgTypeOK /\ InTurn /\ CopyBounded /\ RP!Sound(sdRing)
  BY DEF SdProgInv
<1>2. /\ RP!InProcess(sdRing) /\ sdRing' = RP!SetBufFree(sdRing)
      /\ UNCHANGED <<sdUpc, sdCmd, sdRes, sdMem, sdBuf, sdPacket, sdWaiting, sdHost, sdBefore>>
      /\ sd_prog' = [sd_prog EXCEPT !.cnt = @ + n]
      /\ \E ret \in {"NO_ERROR", "CARD_ERROR", "DATA_LENGTH_TOO_LONG"} :
           LibSdcWrite(addr, n, slot.buf_idx, ret)
  BY RingIs DEF SdProgram, LibSdcWriteSector, sdLoader, sdOutside
<1>3. /\ sdRing.head \in RP!CtrlIdx /\ slot.size \in 0 .. SdBlkSize /\ slot.buf_idx \in RP!BufIdx
      /\ RP!Pos(sdRing, sdRing.head) = 0
  <2>1. /\ sdRing \in RP!Rings /\ sdRing.head \in RP!CtrlIdx
        /\ sdRing.ctrl \in [RP!CtrlIdx -> RP!DataCtrl]
    BY <1>1 DEF RP!Sound, RP!Rings
  <2>2. slot \in RP!DataCtrl
    BY <2>1
  <2>3. QED
    BY <2>1, <2>2, RingIs, RP!PosRange DEF RP!DataCtrl
<1>4. /\ n \in Nat /\ sd_prog.cnt \in Nat /\ sd_prog.offset \in Nat
      /\ sd_prog'.cnt = sd_prog.cnt + n /\ sd_prog'.offset = sd_prog.offset
      /\ sd_prog' \in [offset : Nat, cnt : Nat]
  <2>1. n \in Nat
    BY <1>3, SdProgAssumption, SectorsIs
  <2> HIDE DEF n
  <2>2. QED
    BY <1>1, <1>2, <2>1 DEF SdProgTypeOK
<1>5. /\ sdFailed' = sdFailed /\ sdBuf \in [RP!BufIdx -> [0 .. SdBlkSize - 1 -> Datum]]
         /\ addr + n <= SdSize /\ card' = CardWritten(addr, n, slot.buf_idx)
      \/ sdFailed' = TRUE
  BY <1>1, <1>2, RingIs DEF LibSdcWrite, SdProgTypeOK
<1> HIDE DEF n, slot
<1>6. SdProgTypeOK'
  <2>1. sdFailed' \in BOOLEAN
    BY <1>1, <1>5 DEF SdProgTypeOK
  <2>2. QED
    BY <1>1, <1>2, <1>4, <2>1 DEF SdProgTypeOK
<1>7. RP!Sound(sdRing)'
  BY <1>1, <1>2, RingIs, RP!SetBufFreeSound
<1>8. InTurn' /\ CopyBounded'
  BY <1>1, <1>2 DEF InTurn, CopyBounded, Idle, Asked, BeginCmd, DataCmd, Unsent
<1>9. (Followed <=> Followed') /\ Taken' = Taken /\ Closed' = Closed /\ (Ending <=> Ending')
  BY <1>2 DEF Followed, Taken, Closed, Ending
<1>10. SUFFICES ASSUME Followed PROVE InStep' /\ InRing' /\ (~sdFailed' => OnCard')
  BY <1>6, <1>7, <1>8, <1>9 DEF SdProgInv
<1>11. InStep /\ InRing
  BY <1>10 DEF SdProgInv
<1>12. InStep'
  BY <1>2, <1>9, <1>11 DEF InStep, NotYet, TakenTo, Idle
<1>13. PICK P \in Nat, m \in Nat :
         /\ P = Programmed /\ m = n * SdSectorSize /\ Programmed' = P + m
  <2>1. (sd_prog.cnt + n) * SdSectorSize = sd_prog.cnt * SdSectorSize + n * SdSectorSize
    BY <1>4, SdProgAssumption, Multiples
  <2>2. sd_prog.cnt * SdSectorSize \in Nat /\ n * SdSectorSize \in Nat
    BY <1>4, SdProgAssumption, Multiples
  <2>3. QED
    BY <1>4, <2>1, <2>2 DEF Programmed
<1>14. PICK left \in Int : left = Taken - P /\ Taken' - Programmed' = left - m
  <2>1. Taken \in Nat
    BY <1>1, <1>11 DEF InStep, SdProgTypeOK, HostState
  <2>2. QED
    BY <1>9, <1>13, <2>1
<1>15. /\ RP!Lined(sdRing, left, Closed) /\ Closed \in BOOLEAN
       /\ RP!Holds(sdRing, sdBuf, ImageUnits(sdHost.gen), P)
  BY <1>11, <1>13, <1>14 DEF InRing, Closed
<1>16. /\ left > 0 /\ slot.size = IF left < SdBlkSize THEN left ELSE SdBlkSize
       /\ left < SdBlkSize => Closed
  BY <1>1, <1>2, <1>15, RingIs, RP!HeadShare DEF slot
<1>17. /\ m \in 0 .. SdBlkSize
       /\ m = SdBlkSize \/ left <= m
       /\ m < slot.size + SdSectorSize
       /\ \A j \in 0 .. m - 1 : j < left => j < slot.size
  BY <1>13, <1>16, BlockSectors DEF n
<1>18. InRing'
  <2>1. RP!Lined(sdRing', left - m, Closed)
    BY <1>1, <1>2, <1>15, <1>17, RingIs, RP!FreedLined
  <2>2. RP!Holds(sdRing', sdBuf', ImageUnits(sdHost.gen), P + m)
    BY <1>1, <1>2, <1>15, <1>17, RingIs, RP!FreedHolds
  <2>3. sd_prog'.cnt <= Sectors(sdHost.size)
    <3>1. PICK N \in Nat \ {0}, k \in Nat, c \in Nat, size \in Nat :
             /\ N = SdSectorSize /\ k = Sectors(sdHost.size) /\ c = sd_prog'.cnt
             /\ size = sdHost.size /\ size <= k * N /\ c * N = P + m
      BY <1>1, <1>4, <1>6, <1>13, SdProgAssumption, SectorsIs DEF SdProgTypeOK, HostState, Programmed
    <3>2. P + left <= size
      <4>1. Taken <= sdHost.size /\ Taken \in Nat
        BY <1>11, <3>1 DEF InStep
      <4>2. QED
        BY <1>14, <3>1, <4>1
    <3>3. c * N < size + N
      BY <1>3, <1>13, <1>16, <1>17, <3>1, <3>2, SdProgAssumption
    <3>4. k < c => k * N + N <= c * N
      BY <3>1, Multiples
    <3>5. k * N \in Nat /\ c * N \in Nat
      BY <3>1, Multiples
    <3>6. QED
      BY <3>1, <3>3, <3>4, <3>5
  <2>4. RP!Lined(sdRing', Taken' - Programmed', Closed')
    BY <1>9, <1>14, <2>1
  <2>5. sd_prog'.offset = sdHost'.offset
    BY <1>2, <1>4, <1>11 DEF InRing
  <2>6. QED
    BY <1>2, <1>13, <2>2, <2>3, <2>4, <2>5 DEF InRing
<1>19. ASSUME ~sdFailed' PROVE OnCard'
  <2>1. /\ ~sdFailed /\ addr + n <= SdSize /\ card' = CardWritten(addr, n, slot.buf_idx)
    BY <1>5, <1>19
  <2>2. OnCard /\ sdHost.offset = sd_prog.offset
    BY <1>10, <1>11, <2>1 DEF SdProgInv, InRing
  <2>3. PICK cnt \in Nat, offset \in Nat, N \in Nat \ {0} :
          cnt = sd_prog.cnt /\ offset = sd_prog.offset /\ N = SdSectorSize
    BY <1>4, SdProgAssumption
  <2>4. /\ \A s \in SdSector : s \notin addr .. addr + n - 1 => card'[s] = card[s]
        /\ \A s \in SdSector : s \in addr .. addr + n - 1 =>
             \A i \in 0 .. N - 1 : card'[s][i] = sdBuf[slot.buf_idx][((s - addr) * N) + i]
    BY <2>1, <2>3 DEF CardWritten
  <2>5. ASSUME NEW d \in 0 .. sd_prog'.cnt - 1, NEW i \in 0 .. N - 1, d * N + i < sdHost.size
        PROVE  /\ offset + d \in SdSector
               /\ card'[offset + d][i] = <<sdHost.gen, d * N + i>>
    <3>1. CASE d < cnt
      <4>1. d \in 0 .. cnt - 1 /\ offset + d \notin addr .. addr + n - 1
        BY <1>4, <2>3, <3>1
      <4>2. /\ offset + d \in SdSector
            /\ card[offset + d][i] = <<sdHost.gen, d * N + i>>
        BY <2>2, <2>3, <2>5, <4>1 DEF OnCard
      <4>3. QED
        BY <2>4, <4>1, <4>2
    <3>2. CASE cnt <= d
      <4>1. PICK e \in 0 .. n - 1 : d = cnt + e
        <5>1. d - cnt \in 0 .. n - 1 /\ d = cnt + (d - cnt)
          BY <1>4, <2>3, <2>5, <3>2
        <5>2. QED
          BY <5>1
      <4>2. /\ offset + d \in SdSector /\ offset + d \in addr .. addr + n - 1
            /\ (offset + d) - addr = e
        BY <1>4, <2>1, <2>3, <4>1, SdProgAssumption DEF SdSector
      <4>3. PICK f \in Nat : f = e * N /\ d * N = P + f /\ f + N <= m
        <5>1. (cnt + e) * N = cnt * N + e * N /\ e * N \in Nat
          BY <2>3, <4>1, Multiples
        <5>2. e < n => e * N + N <= n * N
          BY <1>4, <2>3, <4>1, Multiples
        <5>3. QED
          BY <1>4, <1>13, <2>3, <4>1, <5>1, <5>2 DEF Programmed
      <4>4. PICK j \in Nat : j = f + i /\ d * N + i = P + j /\ j \in 0 .. m - 1
        BY <1>13, <2>3, <4>3
      <4>5. card'[offset + d][i] = sdBuf[slot.buf_idx][j]
        BY <2>4, <4>2, <4>3, <4>4
      <4>6. j < left
        <5>1. CASE left < SdBlkSize
          <6>1. Taken = sdHost.size /\ sdHost.size \in Nat
            BY <1>1, <1>16, <5>1 DEF Closed, SdProgTypeOK, HostState
          <6>2. QED
            BY <1>14, <2>5, <4>4, <6>1
        <5>2. CASE ~(left < SdBlkSize)
          BY <1>17, <4>4, <5>2, SdProgAssumption
        <5>3. QED
          BY <5>1, <5>2
      <4>7. j \in 0 .. slot.size - 1
        BY <1>3, <1>17, <4>4, <4>6
      <4>8. sdBuf[slot.buf_idx][j] = ImageUnits(sdHost.gen)[P + RP!Pos(sdRing, sdRing.head) * SdBlkSize + j]
        BY <1>3, <1>15, <4>7 DEF RP!Holds, slot
      <4>9. P + RP!Pos(sdRing, sdRing.head) * SdBlkSize + j = P + j /\ P + j \in Nat
        BY <1>3, <1>13, SdProgAssumption
      <4>10. QED
        BY <4>2, <4>4, <4>5, <4>8, <4>9 DEF ImageUnits
    <3>3. QED
      BY <1>4, <2>3, <3>1, <3>2
  <2>6. ASSUME NEW s \in SdSector \ (offset .. offset + sd_prog'.cnt - 1)
        PROVE  card'[s] = sdBefore[s]
    <3>1. s \notin offset .. offset + cnt - 1 /\ s \notin addr .. addr + n - 1
      BY <1>4, <2>3 DEF SdSector
    <3>2. QED
      BY <2>2, <2>3, <2>4, <3>1 DEF OnCard
  <2>7. QED
    BY <1>2, <1>4, <2>2, <2>3, <2>5, <2>6 DEF OnCard
<1>20. QED
  BY <1>12, <1>18, <1>19

-----------------------------------------------------------------------------
(* Every step keeps the invariant.                                          *)
LEMMA SdProgInvKept == SdProgInv /\ [SdNext]_sdVars => SdProgInv'
<1> SUFFICES ASSUME SdProgInv, [SdNext]_sdVars PROVE SdProgInv'
  OBVIOUS
<1>1. CASE UNCHANGED sdVars
  BY <1>1, KernelKept DEF sdVars, sdLoader, sdPipeline, sdOutside, sdHistory
<1>2. CASE SdServeEvent \/ SdRxInterrupt
  BY <1>2, KernelKept DEF SdServeEvent, SdRxInterrupt, sdLoader, sdPipeline, sdOutside, sdHistory
<1>3. CASE SdRxOther \/ SdDrained
  BY <1>3, KernelKept
  DEF SdRxOther, SdDrained, SdUart, SdUartUnchanged, SdYield, sdLoader, sdPipeline, sdOutside, sdHistory
<1>4. CASE SdBegin
  BY <1>4, SdBeginKept
<1>5. CASE SdData
  BY <1>5, SdDataKept
<1>6. CASE SdCopyBlock
  BY <1>6, SdCopyBlockKept
<1>7. CASE SdCopyTest \/ SdEndTest \/ SdLoopAgain("copy_wait", "copy") \/ SdLoopAgain("end_wait", "end")
  BY <1>7, TurnsKept
<1>8. CASE SdEnd
  BY <1>8, SdEndKept
<1>9. CASE SdReply
  BY <1>9, SdReplyKept
<1>10. CASE \E r \in SdImages : SdSendBegin(r)
  BY <1>10, SendBeginKept
<1>11. CASE (\E len \in SdPackets : SdSendData(len)) \/ SdSendAgain \/ SdSendEnd
  BY <1>11, SendsKept
<1>12. CASE SdProgram
  BY <1>12, SdProgramKept
<1>13. QED
  BY <1>1, <1>2, <1>3, <1>4, <1>5, <1>6, <1>7, <1>8, <1>9, <1>10, <1>11, <1>12 DEF SdNext

(* The invariant holds in every state.                                     *)
LEMMA SdProgInvHolds == SdSpec => []SdProgInv
  BY InitKept, SdProgInvKept, PTL DEF SdSpec

(* An image whose END was answered without an error is on the card, and     *)
(* nothing else of the card has changed.                                    *)
THEOREM SdImageOnCard == SdSpec => []SdAckedIsWritten
<1>1. SdProgInv => SdAckedIsWritten
  <2> SUFFICES ASSUME SdProgInv, sdHost.phase = "done", ~sdFailed
               PROVE  /\ \A i \in 0 .. sdHost.size - 1 :
                           card[sdHost.offset + (i \div SdSectorSize)][i % SdSectorSize]
                             = <<sdHost.gen, i>>
                      /\ \A s \in SdSector \ (sdHost.offset .. sdHost.offset + Sectors(sdHost.size) - 1) :
                           card[s] = sdBefore[s]
    BY DEF SdAckedIsWritten
  <2>1. /\ sdUpc = "rx" /\ sdHost.size \in Nat /\ sdHost.offset \in Nat /\ sd_prog.cnt \in Nat
        /\ RP!Sound(sdRing)
    BY AskedIs DEF SdProgInv, InTurn, SdProgTypeOK, HostState
  <2>2. InStep /\ InRing /\ OnCard /\ ~RP!InProcess(sdRing) /\ Taken = sdHost.size
    BY <2>1 DEF SdProgInv, Followed, InStep, Taken, Ending
  <2>3. PICK N \in Nat \ {0}, P \in Nat : N = SdSectorSize /\ P = Programmed /\ P = sd_prog.cnt * N
    BY <2>1, SdProgAssumption DEF Programmed
  <2>4. sdHost.size <= P
    <3>1. PICK n \in Int : n = sdHost.size - P /\ RP!Lined(sdRing, n, TRUE)
      <4>1. Closed = TRUE
        BY <2>2 DEF Closed
      <4>2. RP!Lined(sdRing, Taken - Programmed, TRUE)
        BY <2>2, <4>1 DEF InRing
      <4>3. Taken - Programmed \in Int /\ Taken - Programmed = sdHost.size - P
        BY <2>1, <2>2, <2>3
      <4>4. QED
        BY <4>2, <4>3
    <3>2. RP!Pos(sdRing, sdRing.tail) = 0
      BY <2>1, <2>2, RingIs, RP!PosRange DEF RP!Sound, RP!InProcess
    <3>3. n <= 0 * SdBlkSize
      BY <3>1, <3>2 DEF RP!Lined
    <3>4. QED
      BY <2>1, <3>1, <3>3, SdProgAssumption
  <2>5. ASSUME NEW i \in 0 .. sdHost.size - 1
        PROVE  card[sdHost.offset + (i \div SdSectorSize)][i % SdSectorSize] = <<sdHost.gen, i>>
    <3>1. PICK d \in Nat, x \in 0 .. N - 1 : d = i \div N /\ x = (i % N) /\ i = d * N + x
      <4>1. i \in Nat
        BY <2>1
      <4>2. /\ (i \div N) \in Nat /\ (i % N) \in 0 .. N - 1
            /\ i = (i \div N) * N + (i % N)
        BY <4>1, DivIs
      <4>3. QED
        BY <4>2
    <3>2. d < sd_prog.cnt
      <4>1. ~(sd_prog.cnt < d) /\ sd_prog.cnt # d
        <5>1. sd_prog.cnt < d => sd_prog.cnt * N + N <= d * N
          BY <2>1, <3>1, Multiples
        <5>2. d * N \in Nat
          BY <3>1, Multiples
        <5>3. QED
          BY <2>1, <2>3, <2>4, <3>1, <5>1, <5>2
      <4>2. QED
        BY <2>1, <3>1, <4>1
    <3>3. d \in 0 .. sd_prog.cnt - 1 /\ d * N + x < sdHost.size
      BY <2>1, <3>1, <3>2
    <3>4. card[sdHost.offset + d][x] = <<sdHost.gen, d * N + x>>
      BY <2>2, <2>3, <3>1, <3>3 DEF OnCard
    <3>5. QED
      BY <2>3, <3>1, <3>4
  <2>6. ASSUME NEW s \in SdSector \ (sdHost.offset .. sdHost.offset + Sectors(sdHost.size) - 1)
        PROVE  card[s] = sdBefore[s]
    <3>1. sd_prog.cnt <= Sectors(sdHost.size) /\ Sectors(sdHost.size) \in Nat
      BY <2>1, <2>2, SectorsIs DEF InRing
    <3>2. s \notin sdHost.offset .. sdHost.offset + sd_prog.cnt - 1
      BY <2>1, <3>1 DEF SdSector
    <3>3. QED
      BY <2>2, <3>2 DEF OnCard
  <2>7. QED
    BY <2>5, <2>6
<1>2. QED
  BY <1>1, SdProgInvHolds, PTL
=============================================================================
