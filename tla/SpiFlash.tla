------------------------------ MODULE SpiFlash -----------------------------
(***************************************************************************)
(* The flash driver (driver/spiflash/spiflash.c): flash_erase and          *)
(* flash_write down to the commands given to the device, one spirom_cmd_   *)
(* send per step.  Both wait in bounded loops for the write-enable latch   *)
(* and for the end of a command.                                           *)
(*                                                                         *)
(* External is the device.  A command without the latch, or while it is    *)
(* busy, is ignored; the latch reads as set until a command is finished;   *)
(* a program command that runs over the end of a page goes on at the start *)
(* of the same page.  It is not write-protected, and it is the only one.    *)
(***************************************************************************)
EXTENDS FlashCells, Sequences

CONSTANTS
  SPIROM_PAGE_SIZE,    \* cells programmed with one command
  SPIROM_BLK32_SIZE,   \* the larger erase sizes, in cells
  SPIROM_BLK64_SIZE,
  WordSize,            \* cells that the controller takes at a time (4 bytes)
  Timeout,             \* dev->timeout
  Calls,               \* the calls: fn, addr, len, start (address of the data)
  MaxCalls,            \* bound on the calls
  MaxFaults            \* bound on commands that fail and loops that time out

ASSUME DriverAssumption ==
  /\ {SPIROM_PAGE_SIZE, SPIROM_BLK32_SIZE, SPIROM_BLK64_SIZE, WordSize, Timeout}
       \subseteq Nat \ {0}
  /\ SPIROM_SECTOR_SIZE % SPIROM_PAGE_SIZE = 0
  /\ SPIROM_BLK32_SIZE % SPIROM_SECTOR_SIZE = 0
  /\ SPIROM_BLK64_SIZE % SPIROM_BLK32_SIZE = 0
  /\ Calls \subseteq [fn : {"erase", "write"}, addr : Nat, len : Nat, start : Nat]
  /\ Timeout > 1

VARIABLES
  flash,   \* the contents of the device
  call,    \* the call being served, or NoCall
  pc,      \* where the driver stands
  addr,    \* EraseAddrStart, or FlashAddr of _mxic_program
  left,    \* EraseSectorCnt - i in cells, or remain_size
  part,    \* the sizes of mxic_program that are still to be written
  step,    \* cells of the last command
  j,       \* turns of the waiting loop
  dev,     \* what the device does: ready, latched or busy
  busy,    \* the cells it works on, or did last
  lost,    \* the last command was ignored
  result,  \* what the last call returned
  calls, faults

driver == <<call, pc, addr, left, part, step, j, result, calls>>
device == <<flash, dev, busy>>
vars == <<driver, device, lost, faults>>

NoCall == [fn |-> "none", addr |-> 0, len |-> 0, start |-> 0]

(* The data of a call: its cells differ from each other. *)
Data(c) == [i \in 1 .. c.len |-> i]

Init ==
  /\ flash = [x \in Addr |-> Blank]
  /\ call = NoCall /\ pc = "idle"
  /\ addr = 0 /\ left = 0 /\ part = <<>> /\ step = 0 /\ j = 0
  /\ dev = "ready" /\ busy = {} /\ lost = FALSE
  /\ result = 0 /\ calls = 0 /\ faults = 0

Goto(label) == pc' = label /\ j' = 1

(* break, and the value returned. *)
Return(r) == pc' = "idle" /\ call' = NoCall /\ result' = r

-----------------------------------------------------------------------------
(* flash_erase: mxic_erase takes the sectors that the range touches.        *)
EraseCall ==
  /\ pc = "idle" /\ calls < MaxCalls
  /\ \E c \in Calls :
       /\ c.fn = "erase"
       /\ call' = c
       /\ addr' = SectorStart(c.addr)
       /\ left' = SectorEnd(c.addr + c.len) - SectorStart(c.addr)
  /\ pc' = IF left' = 0 THEN "nothing" ELSE "wren"
  /\ part' = <<>>
  /\ calls' = calls + 1
  /\ UNCHANGED <<device, lost, step, j, result, faults>>

(* mxic_program: up to a word boundary of the source, whole words, the rest. *)
FirstWrite(c) ==
  LET head == (WordSize - (c.start % WordSize)) % WordSize
  IN  IF c.len > head THEN head ELSE c.len
LastWrite(c) == (c.len - FirstWrite(c)) % WordSize
MidWrite(c) == c.len - FirstWrite(c) - LastWrite(c)
IfAny(n) == IF n = 0 THEN <<>> ELSE <<n>>
Parts(c) == IfAny(FirstWrite(c)) \o IfAny(MidWrite(c)) \o IfAny(LastWrite(c))

(* flash_write. *)
WriteCall ==
  /\ pc = "idle" /\ calls < MaxCalls
  /\ \E c \in Calls :
       /\ c.fn = "write"
       /\ call' = c
       /\ addr' = c.addr
       /\ IF Parts(c) = <<>>
            THEN pc' = "nothing" /\ left' = 0 /\ part' = <<>>
            ELSE pc' = "wren" /\ left' = Head(Parts(c)) /\ part' = Tail(Parts(c))
  /\ calls' = calls + 1
  /\ UNCHANGED <<device, lost, step, j, result, faults>>

(* Without a cell to erase or to write nothing is done, and the result is   *)
(* what the uninitialised variable holds.                                   *)
NothingToDo ==
  /\ pc = "nothing"
  /\ \E r \in {0, -1} : Return(r)
  /\ UNCHANGED <<device, lost, addr, left, part, step, j, calls, faults>>

(* spirom_cmd_send returns an error. *)
Fault == faults < MaxFaults /\ faults' = faults + 1

Position == <<addr, left, part, step>>

(* mxic_wr_en: the command, and the loop that looks for the latch. *)
WriteEnable ==
  /\ pc = "wren"
  /\ dev' \in {dev, IF dev = "ready" THEN "latched" ELSE dev}
  /\ \/ /\ dev # "ready" \/ dev' = "latched"
        /\ Goto("latch")
        /\ UNCHANGED <<call, result, faults>>
     \/ Fault /\ Return(-1) /\ UNCHANGED j
  /\ UNCHANGED <<flash, busy, lost, Position, calls>>

(* Mutation: the loop waits as long as it takes. *)
AgainForever == j' = 1 /\ UNCHANGED <<call, pc, result>>

(* The status is read again, or the loop is over. *)
Again == IF j + 1 < Timeout
           THEN j' = j + 1 /\ UNCHANGED <<call, pc, result>>
           ELSE Return(-1) /\ UNCHANGED j

ReadLatch ==
  /\ pc = "latch"
  /\ \/ /\ dev # "ready"
        /\ Goto("command") /\ UNCHANGED <<call, result, faults>>
     \/ dev = "ready" /\ Again /\ UNCHANGED faults
     \/ Fault /\ Return(-1) /\ UNCHANGED j
  /\ UNCHANGED <<device, lost, Position, calls>>

(* Mutation: the larger sizes are taken although less is left. *)
EraseStepAligned(a, n) ==
  IF a % SPIROM_BLK64_SIZE = 0 THEN SPIROM_BLK64_SIZE
  ELSE IF a % SPIROM_BLK32_SIZE = 0 THEN SPIROM_BLK32_SIZE
  ELSE SPIROM_SECTOR_SIZE

(* The largest erase command that is aligned and not too much. *)
EraseStep(a, n) ==
  LET fits(size) == a % size = 0 /\ n >= size
  IN  IF fits(SPIROM_BLK64_SIZE) THEN SPIROM_BLK64_SIZE
      ELSE IF fits(SPIROM_BLK32_SIZE) THEN SPIROM_BLK32_SIZE
      ELSE SPIROM_SECTOR_SIZE

(* step_size of _mxic_program: not beyond the page. *)
ProgramStep(a, n) ==
  LET room == SPIROM_PAGE_SIZE - (a % SPIROM_PAGE_SIZE)
  IN  IF room > n THEN n ELSE room

CommandStep ==
  IF call.fn = "erase" THEN EraseStep(addr, left) ELSE ProgramStep(addr, left)

(* What the device makes of the command: n cells from a on, with the data   *)
(* from cell k of the call's.                                               *)
PageStart(a) == (a \div SPIROM_PAGE_SIZE) * SPIROM_PAGE_SIZE
Wrapped(a, i) == PageStart(a) + ((a - PageStart(a) + i) % SPIROM_PAGE_SIZE)
Cells(a, n) ==
  IF call.fn = "erase" THEN a .. a + n - 1 ELSE {Wrapped(a, i) : i \in 0 .. n - 1}
Changed(a, n) ==
  [x \in Addr |->
     IF x \notin Cells(a, n) THEN flash[x]
     ELSE IF call.fn = "erase" THEN Blank
     ELSE LET i == CHOOSE i \in 0 .. n - 1 : Wrapped(a, i) = x
          IN  Programmed(flash[x], Data(call)[a - call.addr + i + 1])]

Obey(n) ==
  IF dev = "latched"
    THEN dev' = "busy" /\ busy' = Cells(addr, n) /\ flash' = Changed(addr, n)
    ELSE UNCHANGED <<dev, busy, flash>>

(* The erase or program command.  After an error nothing more is done; the  *)
(* device may have taken the command all the same.                          *)
Command ==
  /\ pc = "command"
  /\ step' = CommandStep
  /\ lost' = (dev # "latched")
  /\ \/ Obey(step') /\ Goto("ready") /\ UNCHANGED <<call, result, faults>>
     \/ Fault /\ Obey(step') /\ pc' = "error" /\ UNCHANGED <<call, result, j>>
     \/ Fault /\ Return(-1) /\ UNCHANGED <<device, j>>
  /\ UNCHANGED <<addr, left, part, calls>>

CommandError ==
  /\ pc = "error"
  /\ Return(-1)
  /\ UNCHANGED <<device, lost, Position, j, calls, faults>>

(* mxic_wr_rdy, and then the next part, or the end. *)
NextStep ==
  IF left > step
    THEN /\ left' = left - step /\ UNCHANGED part
         /\ pc' = "wren" /\ UNCHANGED <<call, result>>
    ELSE IF part # <<>>
           THEN /\ left' = Head(part) /\ part' = Tail(part)
                /\ pc' = "wren" /\ UNCHANGED <<call, result>>
           ELSE left' = 0 /\ UNCHANGED part /\ Return(0)

ReadReady ==
  /\ pc = "ready"
  /\ \/ /\ dev = "ready"
        /\ addr' = addr + step
        /\ NextStep
        /\ UNCHANGED <<step, j, faults>>
     \/ dev # "ready" /\ Again /\ UNCHANGED <<Position, faults>>
     \/ Fault /\ Return(-1) /\ UNCHANGED <<Position, j>>
  /\ UNCHANGED <<device, lost, calls>>

-----------------------------------------------------------------------------
(* The device finishes, and clears the latch. *)
DeviceReady ==
  /\ dev = "busy"
  /\ dev' = "ready"
  /\ UNCHANGED <<flash, driver, busy, lost, faults>>

(* The processor is reset while the device goes on, or the power is cut. *)
Reset ==
  /\ pc # "idle" \/ dev = "busy"
  /\ pc' = "idle" /\ call' = NoCall
  /\ \/ UNCHANGED <<flash, dev>>
     \/ /\ dev' = "ready"
        /\ \E cells \in {{}, {x \in busy : x % 2 = 1}, busy} :
             flash' = IF dev = "busy" THEN Torn(flash, cells) ELSE flash
  /\ UNCHANGED <<busy, lost, Position, j, result, calls, faults>>

DriverStep ==
  \/ NothingToDo \/ WriteEnable \/ ReadLatch \/ Command \/ CommandError \/ ReadReady

Next == EraseCall \/ WriteCall \/ DriverStep \/ DeviceReady \/ Reset

Spec == Init /\ [][Next]_vars /\ WF_vars(DriverStep)

-----------------------------------------------------------------------------
(* The calls as operations of FlashStore.  A command given and not seen to  *)
(* be finished belongs to the operation, unless it was ignored.  The latch  *)
(* that belongs to an old command is as good as that command until the next *)
(* one has been given.                                                      *)
Given == pc \in {"ready", "error"}
DoneTo == IF Given THEN addr + step ELSE addr
AsOperation ==
  IF pc = "idle" THEN [kind |-> "none", first |-> 0, end |-> 0, at |-> 0, since |-> 0, data |-> <<>>]
  ELSE [kind  |-> call.fn,
        first |-> IF call.fn = "erase" THEN SectorStart(call.addr) ELSE call.addr,
        end   |-> IF call.fn = "erase" THEN SectorEnd(call.addr + call.len)
                                       ELSE call.addr + call.len,
        at    |-> DoneTo,
        since |-> IF Given /\ ~lost THEN addr ELSE DoneTo,
        data  |-> IF call.fn = "erase" THEN <<>> ELSE Data(call)]
AsLate ==
  IF \/ dev = "busy" /\ ~(Given /\ ~lost)
     \/ dev = "ready" /\ pc = "command"
    THEN busy ELSE {}

Store == INSTANCE FlashStore WITH op <- AsOperation, late <- AsLate

Operations ==
  {Store!Erasure(c.addr, c.len) : c \in {c \in Calls : c.fn = "erase"}} \cup
  {Store!Writing(c.addr, Data(c), c.len) : c \in {c \in Calls : c.fn = "write"}}

(* A call returns 0. *)
Succeeds == DriverStep /\ pc' = "idle" /\ result' = 0

(* flash_erase and flash_write keep the promises of FlashStore, whatever    *)
(* fails and wherever the system is stopped: they touch no cell outside the *)
(* range, do the range in ascending order, and return 0 only when all of it *)
(* is done or the device was busy with a command given up before.           *)
StoreImplemented ==
  /\ Store!StoreInit
  /\ [][/\ Store!StoreNext(Operations)
        /\ Succeeds => Store!ReturnOk]_<<flash, AsOperation, AsLate>>

(* Every call returns: no loop of the driver waits without end.             *)
CallReturns == pc # "idle" ~> pc = "idle"
=============================================================================
