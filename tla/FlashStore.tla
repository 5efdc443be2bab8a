---------------------------- MODULE FlashStore -----------------------------
(***************************************************************************)
(* What flash_erase and flash_write promise their callers (driver/spiflash *)
(* and its use in ota.c): one operation at a time over a range of cells;   *)
(* the cells are done in ascending order and no other cell is touched;     *)
(* success means that all of the range is done, failure that some part of  *)
(* it is.                                                                  *)
(*                                                                         *)
(* The promise has a limit, which callers have to know: after an operation *)
(* was given up while the device was still at work, the device ignores a   *)
(* command of the next one, which nevertheless succeeds.                   *)
(***************************************************************************)
EXTENDS FlashCells

VARIABLES
  flash,   \* the contents of the device
  op,      \* the operation under way, or NoOp
  late     \* cells the device still works on for an operation given up

storeVars == <<flash, op, late>>

(* Cells below "at" are done; those from "since" on by the last command.    *)
NoOp == [kind |-> "none", first |-> 0, end |-> 0, at |-> 0, since |-> 0, data |-> <<>>]

(* An erasure takes whole sectors, a write the cells of its data.           *)
Erasure(a, n) ==
  [kind |-> "erase", first |-> SectorStart(a), end |-> SectorEnd(a + n),
   at |-> SectorStart(a), since |-> SectorStart(a), data |-> <<>>]
Writing(a, data, n) ==
  [kind |-> "write", first |-> a, end |-> a + n, at |-> a, since |-> a, data |-> data]

(* The contents when the operation has done the cells up to n. *)
Done(n) ==
  [x \in Addr |->
     IF x \notin op.at .. n - 1 THEN flash[x]
     ELSE IF op.kind = "erase" THEN Blank
     ELSE Programmed(flash[x], op.data[x - op.first + 1])]

(* The cells that the device may be changing. *)
Working == op.since .. op.at - 1

-----------------------------------------------------------------------------
StoreInit == op = NoOp /\ late = {}

Begin(o) == op = NoOp /\ op' = o /\ UNCHANGED <<flash, late>>

(* The device carries out a command for the next cells. *)
Advance ==
  /\ op # NoOp /\ late = {}
  /\ \E n \in op.at + 1 .. op.end :
       /\ flash' = Done(n)
       /\ op' = [op EXCEPT !.at = n, !.since = op.at]
  /\ UNCHANGED late

(* A command is lost on a device that is still busy. *)
Skip ==
  /\ op # NoOp /\ late # {}
  /\ \E n \in op.at + 1 .. op.end : op' = [op EXCEPT !.at = n, !.since = n]
  /\ late' \in {late, {}}
  /\ UNCHANGED flash

(* The device is through with a command, of this operation or an old one. *)
Settle ==
  /\ op' = op \/ op' = [op EXCEPT !.since = op.at]
  /\ late' \in {late, {}}
  /\ UNCHANGED flash

(* Without an error: everything has been done. *)
ReturnOk ==
  /\ op # NoOp /\ op.at = op.end
  /\ late = {} \/ op.first = op.end
  /\ op' = NoOp
  /\ UNCHANGED <<flash, late>>

ReturnError ==
  /\ op # NoOp
  /\ op' = NoOp
  /\ late' \in {late, {}} \/ (late = {} /\ late' = Working)
  /\ UNCHANGED flash

(* The system stops, with or without power: what the last command was about *)
(* to change may be lost.                                                   *)
Stop ==
  /\ op' = NoOp
  /\ late' \in {{}, late, Working}
  /\ \A x \in Addr \ (late \cup Working) : flash'[x] = flash[x]

StoreNext(Ops) ==
  \/ \E o \in Ops : Begin(o)
  \/ Advance \/ Skip \/ Settle \/ ReturnOk \/ ReturnError \/ Stop
=============================================================================
