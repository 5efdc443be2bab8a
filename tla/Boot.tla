-------------------------------- MODULE Boot --------------------------------
(***************************************************************************)
(* The decision of the boot program (main.c): what eFuse, boot pin, flash  *)
(* and SD card make it run, and when it offers the upgrade.                 *)
(*                                                                         *)
(* An image stands for its contents; "holds" names the checks that they     *)
(* satisfy.  External are flash, card and pin.  The flash can be read       *)
(* plainly, or through a region that decrypts; what is encrypted is garbage *)
(* when read plainly, and the other way round.                             *)
(***************************************************************************)
EXTENDS Integers, Sequences, SequencesExt

CONSTANTS
  Devices,        \* fuse, cell (image and encryption by place), card, wake
  BootImages,     \* images: kind, flag, holds, size in blocks, mapped, fits
  SDCARD_IMAGE_OFFSET_SECTOR,
  SampledBlocks,  \* blocks of an image that its checksum looks at
  NoRun           \* nothing is running

(* The images of a card do not overlap. *)
Apart(images) ==
  \A a, b \in DOMAIN images : b \in a .. a + images[a].size - 1 => b = a

ASSUME BootAssumption ==
  /\ SDCARD_IMAGE_OFFSET_SECTOR \in Nat
  /\ \A m \in BootImages : m.kind \in {"plain", "ota"} /\ m.size \in Nat \ {0}
  /\ \A d \in Devices :
       /\ d.fuse.offset \in Nat /\ d.card.boot \in Nat
       /\ \A p \in {0, d.fuse.offset} : d.cell[p].img \in BootImages /\ d.cell[p].enc \in BOOLEAN
       /\ \A a \in DOMAIN d.card.images : a \in Nat /\ d.card.images[a] \in BootImages
       /\ Apart(d.card.images)

VARIABLES
  board,    \* what the program finds: never changes
  pin,      \* the boot pin: low or high
  at,       \* where main stands
  todo,     \* the sources still to be tried
  pins,     \* what GPIOB_10 to 15 are connected to: flash or sdio
  region,   \* CIPHER_EN_REGION_A
  sector, remaining, retry,   \* of the loop that reads the card
  ram,      \* the blocks loaded
  running,  \* the contents that are executed
  serial,   \* uart_init was called
  faulty    \* history: flash or card have failed

bootVars == <<board, pin, at, todo, pins, region, sector, remaining, retry, ram,
              running, serial, faulty>>
fuse == board.fuse

BootStart(d) ==
  /\ board = d /\ pin \in {"low", "high"}
  /\ at = "start" /\ todo = <<>> /\ pins = "flash" /\ region = FALSE
  /\ sector = 0 /\ remaining = 0 /\ retry = 0 /\ ram = <<>>
  /\ running = NoRun /\ serial = FALSE /\ faulty = FALSE
BootInit == \E d \in Devices : BootStart(d)

(* All blocks of an image, and what garbage looks like. *)
Whole(m) == [i \in 1 .. m.size |-> <<m, i>>]
Unreadable == <<<<"garbage">>>>
Resumed == <<<<"resumed">>>>

(* ota_check_sum, ota_check_zone_crc or the signature, by sign_mode. *)
Verified(blocks, mode) ==
  \E m \in BootImages :
    /\ blocks[1] = <<m, 1>>
    /\ mode \in m.holds
    /\ IF mode = "NONE"
         THEN \A i \in 1 .. m.size : i <= SampledBlocks => blocks[i] = <<m, i>>
         ELSE blocks = Whole(m)

Has(blocks, P(_)) == \E m \in BootImages : blocks[1] = <<m, 1>> /\ P(m)
HeaderOk(blocks) == Has(blocks, LAMBDA m : m.kind = "plain")   \* header_verify
Flagged(blocks) == Has(blocks, LAMBDA m : m.kind = "ota" /\ m.flag)
SizeOf(blocks) == (CHOOSE m \in BootImages : blocks[1] = <<m, 1>>).size

-----------------------------------------------------------------------------
(* Every action below changes these variables only. *)
Keep == UNCHANGED <<board, pin, serial>>
Run(blocks) == running' = blocks /\ at' = "running"

(* wakeup_process, before main: a program asleep is resumed. *)
Wakeup ==
  /\ at = "start"
  /\ IF board.wake THEN Run(Resumed) ELSE at' = "main" /\ UNCHANGED running
  /\ Keep /\ UNCHANGED <<todo, pins, region, sector, remaining, retry, ram, faulty>>

(* Mutation: the fallback to SD card is left out. *)
SourcesFirstOnly(option) == IF "sd" \in option THEN <<"sd">> ELSE <<"flash">>

Sources(option) ==
  IF "sd" \in option THEN <<"sd">> \o IF "flash_too" \in option THEN <<"flash">> ELSE <<>>
  ELSE <<"flash">> \o IF "sd_too" \in option THEN <<"sd">> ELSE <<>>

(* main, up to the choice of the first source. *)
Main ==
  /\ at = "main"
  /\ IF pin = "low" /\ ~fuse.protect THEN at' = "asked" /\ UNCHANGED <<running, todo>>
     ELSE IF fuse.ap_disable THEN at' = "halted" /\ UNCHANGED <<running, todo>>
     ELSE at' = "source" /\ todo' = Sources(fuse.option) /\ UNCHANGED running
  /\ Keep /\ UNCHANGED <<pins, region, sector, remaining, retry, ram, faulty>>

Source ==
  /\ at = "source"
  /\ IF todo = <<>> THEN at' = "upgrade" /\ UNCHANGED running
     ELSE at' = Head(todo) /\ UNCHANGED running
  /\ Keep /\ UNCHANGED <<todo, pins, region, sector, remaining, retry, ram, faulty>>

NextSource == at' = "source" /\ todo' = Tail(todo) /\ UNCHANGED running
Failed == faulty' = TRUE

-----------------------------------------------------------------------------
(* What is at a place, read plainly or through a region that decrypts. *)
View(place, decrypted) ==
  LET c == board.cell[place]
  IN  IF c.enc = decrypted THEN Whole(c.img) ELSE Unreadable

(* The flash answers only through its pins. *)
FlashInit ==
  /\ at = "flash"
  /\ \/ /\ pins = "flash"
        /\ IF fuse.secure = "NONE" /\ HeaderOk(View(0, FALSE))
             THEN Run(View(0, FALSE)) /\ UNCHANGED todo   \* boot_flash
             ELSE /\ at' = IF fuse.offset > 0 THEN "header" ELSE "original"
                  /\ UNCHANGED <<todo, running>>
        /\ UNCHANGED faulty
     \/ pins = "sdio" /\ NextSource /\ UNCHANGED faulty
     \/ NextSource /\ Failed
  /\ Keep /\ UNCHANGED <<pins, region, sector, remaining, retry, ram>>

(* Mutation: the header that was found encrypted is not checked. *)
HeaderValidPlain(plain, blocks) ==
  Flagged(blocks) /\ (Flagged(plain) => Verified(plain, fuse.secure))

HeaderValid(plain, blocks) == Flagged(blocks) /\ Verified(blocks, fuse.secure)

(* What a signed image's entry leads to: the region it is linked to is      *)
(* mapped to the offset of the fuses, and decrypts if region A does.        *)
Executed(blocks, decrypted) ==
  IF fuse.secure \notin {"NONE", "CRC32"} /\ Has(blocks, LAMBDA m : m.mapped)
    THEN View(fuse.offset, decrypted)
    ELSE blocks

(* flash_ota_header. *)
OtaHeader(place, otherwise) ==
  LET plain == View(place, FALSE)
      found == Flagged(plain) \/ Flagged(View(fuse.offset, TRUE))
      blocks == IF Flagged(plain) THEN plain ELSE View(fuse.offset, TRUE)
  IN  /\ region' = IF Flagged(plain) THEN region ELSE found
      /\ IF HeaderValid(plain, blocks)
           THEN Run(Executed(blocks, region')) /\ UNCHANGED todo
           ELSE otherwise

(* flash_img_is_valid: first the header that the fuses tell, then the one   *)
(* at the start.                                                            *)
HeaderAtOffset ==
  /\ at = "header"
  /\ OtaHeader(fuse.offset, at' = "original" /\ UNCHANGED <<todo, running>>)
  /\ Keep /\ UNCHANGED <<pins, sector, remaining, retry, ram, faulty>>

OriginalHeader ==
  /\ at = "original"
  /\ OtaHeader(0, NextSource)
  /\ Keep /\ UNCHANGED <<pins, sector, remaining, retry, ram, faulty>>

-----------------------------------------------------------------------------
(* The block in a sector of the card. *)
Block(s) ==
  LET S == {a \in DOMAIN board.card.images : s \in a .. a + board.card.images[a].size - 1}
  IN  IF S = {} THEN <<"garbage">>
      ELSE LET a == CHOOSE a \in S : TRUE
           IN  <<board.card.images[a], s - a + 1>>

(* sd_card_probe. *)
Probe ==
  /\ at = "sd"
  /\ pins' = "sdio"
  /\ \/ /\ board.card.present
        /\ "4bit" \in fuse.option => board.card.wide
        /\ at' = "mbr" /\ UNCHANGED <<todo, running, faulty>>
     \/ NextSource /\ faulty' = (faulty \/ board.card.present)
  /\ Keep /\ UNCHANGED <<region, sector, remaining, retry, ram>>

(* read_partition_table.  That the read failed goes unnoticed, and the      *)
(* partition with it.                                                       *)
ReadMbr ==
  /\ at = "mbr"
  /\ \/ /\ sector' = IF board.card.boot = 0 THEN SDCARD_IMAGE_OFFSET_SECTOR
                     ELSE board.card.boot
        /\ UNCHANGED faulty
     \/ sector' = SDCARD_IMAGE_OFFSET_SECTOR /\ Failed
  /\ at' = "block"
  /\ Keep /\ UNCHANGED <<todo, pins, region, remaining, retry, ram, running>>

Retries == 5

(* The first block tells how much there is to load. *)
ReadHeader ==
  /\ at = "block"
  /\ sector' = sector + 1
  /\ LET first == <<Block(sector)>>
         load == \/ fuse.secure = "NONE" /\ HeaderOk(first)
                 \/ Flagged(first) /\ Has(first, LAMBDA m : m.fits)
     IN  \/ /\ load
            /\ ram' = first /\ remaining' = SizeOf(first) - 1 /\ retry' = Retries
            /\ at' = "load" /\ UNCHANGED <<todo, running, faulty>>
         \/ /\ ~load
            /\ NextSource /\ UNCHANGED <<ram, remaining, retry, faulty>>
         \/ NextSource /\ Failed /\ UNCHANGED <<ram, remaining, retry>>
  /\ Keep /\ UNCHANGED <<pins, region>>

(* Mutation: the loop never gives up. *)
ReadFailedForEver ==
  /\ retry' = IF retry = 0 THEN Retries ELSE retry - 1
  /\ UNCHANGED <<at, todo, running, sector, remaining>>

ReadFailed ==
  IF retry = 0 THEN NextSource /\ UNCHANGED <<sector, remaining, retry>>
  ELSE retry' = retry - 1 /\ UNCHANGED <<at, todo, running, sector, remaining>>

(* One turn of the loop. *)
LoadBlock ==
  /\ at = "load" /\ remaining > 0
  /\ \/ /\ ram' = Append(ram, Block(sector))
        /\ sector' = sector + 1 /\ remaining' = remaining - 1 /\ retry' = Retries
        /\ UNCHANGED <<at, todo, running, faulty>>
     \/ ReadFailed /\ Failed /\ UNCHANGED ram
  /\ Keep /\ UNCHANGED <<pins, region>>

(* A plain image is run as it is, others when they have been verified. *)
Loaded ==
  /\ at = "load" /\ remaining = 0
  /\ IF HeaderOk(ram) \/ Verified(ram, fuse.secure)
       THEN Run(ram) /\ UNCHANGED todo
       ELSE NextSource
  /\ Keep /\ UNCHANGED <<pins, region, sector, remaining, retry, ram, faulty>>

-----------------------------------------------------------------------------
(* led_process of the upgrade: once the pin is released its function is the *)
(* serial line's.                                                           *)
LedProcess ==
  /\ at \in {"asked", "upgrade"} /\ pin = "high" /\ ~fuse.protect /\ ~serial
  /\ serial' = TRUE
  /\ UNCHANGED <<board, pin, at, todo, pins, region, sector, remaining, retry, ram,
                 running, faulty>>

(* Somebody lets go of the button. *)
Release ==
  /\ pin = "low" /\ pin' = "high"
  /\ UNCHANGED <<board, at, todo, pins, region, sector, remaining, retry, ram, running,
                 serial, faulty>>

BootStep ==
  \/ Wakeup \/ Main \/ Source
  \/ FlashInit \/ HeaderAtOffset \/ OriginalHeader
  \/ Probe \/ ReadMbr \/ ReadHeader \/ LoadBlock \/ Loaded
  \/ LedProcess

BootNext == BootStep \/ Release

BootSpec == BootInit /\ [][BootNext]_bootVars /\ WF_bootVars(BootStep)

-----------------------------------------------------------------------------
(* The case that flash_ota_header has wrong: an image at the start of the   *)
(* flash, linked to a region, which is mapped to the offset of the fuses.   *)
MappedElsewhere ==
  fuse.offset > 0 /\ Has(View(0, FALSE), LAMBDA m : m.mapped)

(* What runs is the whole of an image that satisfies the check the fuses    *)
(* ask for (flash_ota_header, boot_sdcard); nothing that was read in part   *)
(* or that failed a check is run, even as a fallback.                       *)
RunIsVerified ==
  at = "running" /\ ~MappedElsewhere =>
    \/ running = Resumed
    \/ \E m \in BootImages :
         /\ running = Whole(m)
         /\ IF m.kind = "plain" THEN fuse.secure = "NONE" ELSE fuse.secure \in m.holds

(* A source holds an image that the device may run. *)
Good(m) ==
  IF m.kind = "plain" THEN fuse.secure = "NONE" ELSE m.flag /\ fuse.secure \in m.holds
Bootable(source) ==
  IF source = "sd"
    THEN LET c == board.card
             a == IF c.boot = 0 THEN SDCARD_IMAGE_OFFSET_SECTOR ELSE c.boot
         IN  /\ c.present /\ ("4bit" \in fuse.option => c.wide)
             /\ a \in DOMAIN c.images /\ Good(c.images[a]) /\ c.images[a].fits
    ELSE \/ Good(board.cell[0].img) /\ ~board.cell[0].enc
         \/ /\ Good(board.cell[fuse.offset].img)
            /\ board.cell[fuse.offset].img.kind = "ota"

(* The upgrade is the last resort: main comes to it without the pin only   *)
(* when no source had an image to run, or something failed.  That the flash *)
(* is tried in vain after an SD card is told by FallbackToFlash.            *)
UpgradeIsLastResort ==
  at = "upgrade" /\ ~faulty =>
    /\ {"sd", "sd_too"} \cap fuse.option # {} => ~Bootable("sd")
    /\ "sd" \notin fuse.option => ~Bootable("flash")

(* Every start comes to an end: an image runs, the program is halted, or    *)
(* the upgrade is offered as soon as the pin is released, unless the fuses  *)
(* protect the device.  No loop over a card that fails goes on for ever.    *)
BootDecides ==
  at = "main" ~>
    \/ at \in {"running", "halted"} \/ serial
    \/ at \in {"asked", "upgrade"} /\ (pin = "low" \/ fuse.protect)

(* "if SD card boot failed, try flash" (main): a flash that holds an image  *)
(* to run is booted when the card is not.                                   *)
FallbackToFlash ==
  at = "upgrade" /\ ~faulty /\ "flash_too" \in fuse.option => ~Bootable("flash")
=============================================================================
