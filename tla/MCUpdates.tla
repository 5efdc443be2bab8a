----------------------------- MODULE MCUpdates -----------------------------
(***************************************************************************)
(* The event kernel and the firmware update, each for itself as in MCParts: *)
(* one is chosen at the start, the other does not move.                     *)
(***************************************************************************)
EXTENDS MCProcess, MCOta

VARIABLE component
updateVars == <<vars, otaVars, component>>

(* At rest there is no zone to update. *)
OtaRests ==
  /\ zones = <<>> /\ ota_mode = "overwrite" /\ sent = {} /\ flash = [x \in Addr |-> Blank]
  /\ StoreInit /\ env = ClearEnv /\ cmd = "none" /\ result = "none"
  /\ skipped = FALSE /\ starts = 0 /\ writes = 0 /\ errors = 0 /\ resets = 0

UpdatesInit ==
  /\ Init
  /\ \/ component = "kernel" /\ OtaRests
     \/ component = "ota" /\ OtaInit

UpdatesNext ==
  /\ \/ component = "kernel" /\ Next /\ UNCHANGED otaVars
     \/ component = "ota" /\ OtaNext /\ UNCHANGED vars
  /\ UNCHANGED component

(* The fairness of the kernel (Process!Spec). *)
UpdatesSpec ==
  /\ UpdatesInit /\ [][UpdatesNext]_updateVars
  /\ WF_updateVars(component = "kernel" /\ MainStep /\ UNCHANGED <<otaVars, component>>)
=============================================================================
