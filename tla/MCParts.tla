------------------------------ MODULE MCParts ------------------------------
(***************************************************************************)
(* The parts of the system that have nothing to do with each other, each   *)
(* for itself: one of them is chosen at the start, the others do not move.  *)
(***************************************************************************)
EXTENDS MCSpiFlash, MCBoot, MCSerialFrame

VARIABLE component

(* The boot is not started, so that it does not matter what it would find. *)
BootRests == BootStart(NoRun) /\ pin = "high"

PartsInit ==
  \/ component = "flash driver" /\ Init /\ BootRests /\ FrameInit
  \/ component = "boot" /\ Init /\ BootInit /\ FrameInit
  \/ component = "serial" /\ Init /\ BootRests /\ FrameInit

PartsNext ==
  /\ \/ component = "flash driver" /\ Next /\ UNCHANGED <<bootVars, frameVars>>
     \/ component = "boot" /\ BootNext /\ UNCHANGED <<vars, frameVars>>
     \/ component = "serial" /\ FrameNext /\ UNCHANGED <<vars, bootVars>>
  /\ UNCHANGED component

PartsStep ==
  \/ component = "flash driver" /\ DriverStep /\ UNCHANGED <<bootVars, frameVars>>
  \/ component = "boot" /\ BootStep /\ UNCHANGED <<vars, frameVars>>
  \/ component = "serial" /\ FrameStep /\ UNCHANGED <<vars, bootVars>>

(* The weak fairness of each part. *)
PartsSpec ==
  /\ PartsInit /\ [][PartsNext]_<<vars, bootVars, frameVars, component>>
  /\ WF_<<vars, bootVars, frameVars>>(PartsStep /\ UNCHANGED component)
=============================================================================
