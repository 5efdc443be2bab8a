---------------------------- MODULE FlashCells -----------------------------
(***************************************************************************)
(* The cells of a NOR flash: erasing blanks whole sectors, programming only *)
(* clears bits, so that it does not replace what is there.  Garbage stands  *)
(* for contents that are neither the old nor the new ones.                  *)
(***************************************************************************)
EXTENDS Integers

CONSTANTS
  FlashSize,           \* cells of the device
  SPIROM_SECTOR_SIZE,  \* cells cleared together
  Blank, Garbage

ASSUME CellsAssumption ==
  /\ SPIROM_SECTOR_SIZE \in Nat \ {0}
  /\ FlashSize \in Nat \ {0} /\ FlashSize % SPIROM_SECTOR_SIZE = 0
  /\ Blank # Garbage

Addr == 0 .. FlashSize - 1

SectorStart(a) == (a \div SPIROM_SECTOR_SIZE) * SPIROM_SECTOR_SIZE
SectorEnd(a) == SectorStart(a + SPIROM_SECTOR_SIZE - 1)

Programmed(old, new) ==
  IF old = Blank THEN new ELSE IF new \in {Blank, old} THEN old ELSE Garbage

(* Some cells have lost what was in them. *)
Torn(contents, cells) == [x \in Addr |-> IF x \in cells THEN Garbage ELSE contents[x]]
=============================================================================
