----------------------------- MODULE MCDrivers -----------------------------
(***************************************************************************)
(* The flash programming with a host that starts again, the SD card         *)
(* programming, the SD host driver, the clocks and the DMA driver, each for  *)
(* itself as in MCParts: one is chosen at the start, the others do not move. *)
(***************************************************************************)
EXTENDS MCFlashProg, MCClocking, MCDmaUsers, MCSdProg, MCSdHost

VARIABLE component
driversVars == <<vars, clockVars, dmaUsersVars, sdVars, sdHostVars, component>>

(* A part at rest has no state that is worth looking at. *)
ClockRests ==
  /\ clock = <<>> /\ user = "anyone" /\ calls = <<>> /\ commands = 0
  /\ uart = Unconfigured /\ asked = <<>> /\ limit = <<>> /\ ceiling = <<>>
DmaRests == DmaUsersInit /\ dmaUser = "anyone"

DriversInit ==
  /\ Init /\ SdInit /\ SdHostInit
  /\ \/ component \in {"flash", "sd", "sd host"} /\ ClockRests /\ DmaRests
     \/ component = "clocks" /\ ClockingInit /\ DmaRests
     \/ component = "dma" /\ ClockRests /\ DmaUsersInit

Only(c) ==
  /\ component = c
  /\ c # "flash" => UNCHANGED vars
  /\ c # "clocks" => UNCHANGED clockVars
  /\ c # "dma" => UNCHANGED dmaUsersVars
  /\ c # "sd" => UNCHANGED sdVars
  /\ c # "sd host" => UNCHANGED sdHostVars

DriversNext ==
  /\ \/ Only("flash") /\ Next
     \/ Only("clocks") /\ ClockingNext
     \/ Only("dma") /\ DmaUsersNext
     \/ Only("sd") /\ SdNext
     \/ Only("sd host") /\ SdHostNext
  /\ UNCHANGED component

DriversSpec == DriversInit /\ [][DriversNext]_driversVars
=============================================================================
